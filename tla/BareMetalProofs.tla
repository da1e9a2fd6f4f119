--------------------------- MODULE BareMetalProofs ---------------------------
(***************************************************************************)
(* The programs that run without firmware.  The ramfb program for every    *)
(* directory, device and order of stores, every timer, screen and palette  *)
(* table: first the bring-up (FwCfgDma), then what carries over to the     *)
(* whole program and what its main loop keeps (Ramfb).  Then the start-up  *)
(* code of all four programs (Start), the UART of hello, the product that  *)
(* matrix-mul computes, the ends of printed lines and what they say        *)
(* (Serial).                                                               *)
(***************************************************************************)
EXTENDS Ramfb, Serial, SumTheorems, SequenceTheorems

Words   == {"0", "null", "4", "n", "64", "ent", "28", "cfg"} \cup {ReadOn, Done, Error}
             \cup {SelectRead(s) : s \in Nat} \cup {SelectWrite(s) : s \in Nat}
Busy    == pc \in {"store", "dsb", "ring", "poll"}

LengthReq == [control |-> SelectRead(DirSel), length |-> "4", address |-> "n"]
EntryReq  == [control |-> ReadOn, length |-> "64", address |-> "ent"]
ConfigReq(sel) == [control |-> SelectWrite(sel), length |-> "28", address |-> "cfg"]

\* The types, and that the search stays within the directory.
Shape ==
  /\ pc \in {"find", "store", "dsb", "ring", "poll", "loop", "match", "paint", "halt"}
  /\ dev \in {"idle", "fetch", "run"}
  /\ dir \in Dirs /\ n \in {0, Len(dir)} /\ i \in 0 .. Len(dir)
  /\ ent.sel \in Nat /\ ramfbSel \in Nat /\ key \in Nat /\ offset \in Nat
  /\ desc \in [Fields -> Words] /\ req \in [Fields -> Words] /\ job \in [Fields -> Words]
  /\ pending \subseteq Fields

\* Who may touch the descriptor, and what it holds: stores only while the device
\* is idle, the device only between the doorbell and its answer.
Handshake ==
  /\ pc # "poll" => dev = "idle" /\ owed = 0
  /\ pc # "dsb" => pending = {}
  /\ pc = "dsb" => \A g \in Fields \ pending : desc[g] = req[g]
  /\ pc = "ring" => desc = req
  /\ pc = "poll" =>
       \/ dev = "fetch" /\ owed = 1 /\ desc = req
       \/ dev = "run" /\ owed = 1 /\ desc = req /\ job = req
       \/ dev = "idle" /\ owed = 0 /\ desc.control \in {Done, Error}
  /\ pc \in {"loop", "match", "paint"} => desc.control = Done

NoneBefore == \A j \in 1 .. i : dir[j].name # Target
Answered   == pc = "poll" /\ dev = "idle" /\ desc.control = Done
Unanswered == pc = "poll" => dev # "idle"

\* Where the search is, in the program and in the device's read position.
Search ==
  /\ Busy => ret \in {"loop", "match", "paint"}
  /\ Busy /\ ret = "loop" =>
       /\ req = LengthReq /\ i = 0
       /\ Answered => n = Len(dir) /\ key = DirSel /\ offset = 1
  /\ Busy /\ ret = "match" =>
       /\ req = EntryReq /\ n = Len(dir) /\ i < n /\ NoneBefore
       /\ Unanswered => key = DirSel /\ offset = i + 1
       /\ Answered => key = DirSel /\ offset = i + 2 /\ ent = dir[i+1]
  /\ Busy /\ ret = "paint" =>
       /\ req = ConfigReq(ramfbSel) /\ i < Len(dir)
       /\ First(i+1) /\ ramfbSel = dir[i+1].sel
       /\ Answered => ramfb = <<"cfg", "28">> /\ key = ramfbSel
  /\ pc = "loop" =>
       n = Len(dir) /\ NoneBefore /\ key = DirSel /\ offset = i + 1
  /\ pc = "match" =>
       /\ n = Len(dir) /\ i < n /\ NoneBefore
       /\ key = DirSel /\ offset = i + 2 /\ ent = dir[i+1]
  /\ pc = "paint" =>
       /\ i < Len(dir) /\ First(i+1) /\ ramfbSel = dir[i+1].sel
       /\ ramfb = <<"cfg", "28">> /\ key = ramfbSel

IInv == Shape /\ Handshake /\ Search

-----------------------------------------------------------------------------
\* The three requests are descriptors, and they are not answers.
LEMMA Requests ==
  ASSUME NEW s \in Nat
  PROVE  /\ LengthReq \in [Fields -> Words] /\ EntryReq \in [Fields -> Words]
         /\ ConfigReq(s) \in [Fields -> Words]
         /\ Done \in Words /\ Error \in Words /\ Done # Error
<1>1. /\ SelectRead(DirSel) \in Words /\ ReadOn \in Words /\ SelectWrite(s) \in Words
      /\ Done \in Words /\ Error \in Words
  BY DmaAssumption DEF DmaAssumption, Words
<1>2. /\ "4" \in Words /\ "n" \in Words /\ "64" \in Words /\ "ent" \in Words
      /\ "28" \in Words /\ "cfg" \in Words
  BY DEF Words
<1>3. \A c, l, a \in Words : [control |-> c, length |-> l, address |-> a] \in [Fields -> Words]
  BY DEF Fields
<1>4. Done # Error
  BY DEF Done, Error
<1>5. QED
  BY <1>1, <1>2, <1>3, <1>4 DEF LengthReq, EntryReq, ConfigReq

\* A store that reaches memory changes the one field.
LEMMA DrainOne ==
  ASSUME NEW W, NEW d \in [Fields -> W], NEW r \in [Fields -> W], NEW f \in Fields
  PROVE  /\ [d EXCEPT ![f] = r[f]] \in [Fields -> W]
         /\ [d EXCEPT ![f] = r[f]][f] = r[f]
         /\ \A g \in Fields \ {f} : [d EXCEPT ![f] = r[f]][g] = d[g]
OBVIOUS

\* Descriptors with the same fields are the same.
LEMMA SameFields ==
  ASSUME NEW W, NEW d \in [Fields -> W], NEW r \in [Fields -> W],
         \A g \in Fields : d[g] = r[g]
  PROVE  d = r
OBVIOUS

\* The device's answer changes the control word.
LEMMA AnswerOne ==
  ASSUME NEW W, NEW d \in [Fields -> W], NEW c \in W
  PROVE  /\ [d EXCEPT !.control = c] \in [Fields -> W]
         /\ [d EXCEPT !.control = c].control = c
BY DEF Fields

-----------------------------------------------------------------------------
\* The initial states satisfy the invariant.
LEMMA Initially == Init => IInv
<1> SUFFICES ASSUME Init PROVE IInv
  OBVIOUS
<1>1. Len(dir) \in Nat
  BY DmaAssumption DEF DmaAssumption, Init
<1>2. NoReq \in [Fields -> Words]
  <2>1. \A c, l, a \in Words : [control |-> c, length |-> l, address |-> a] \in [Fields -> Words]
    BY DEF Fields
  <2>2. Done \in Words /\ "0" \in Words /\ "null" \in Words
    BY DEF Words
  <2>3. QED
    BY <2>1, <2>2 DEF NoReq
<1>3. Shape
  <2>1. ent.sel \in Nat
    BY DEF Init, NoEntry
  <2>2. desc \in [Fields -> Words] /\ req \in [Fields -> Words] /\ job \in [Fields -> Words]
    BY <1>2 DEF Init
  <2>3. QED
    BY <1>1, <2>1, <2>2 DEF Init, Shape
<1>4. Handshake
  BY DEF Init, Handshake
<1>5. Search
  BY DEF Init, Search, Busy
<1>6. QED
  BY <1>3, <1>4, <1>5 DEF IInv

\* A call of fw_cfg_dma_transfer starts with the device idle and nothing to be
\* stored.
LEMMA StartOK ==
  ASSUME IInv, FindFile \/ ReadEntry \/ Match
  PROVE  IInv'
<1>1. Len(dir) \in Nat
  BY DmaAssumption DEF DmaAssumption, IInv, Shape
<1>2. LengthReq \in [Fields -> Words] /\ EntryReq \in [Fields -> Words]
  BY Requests
<1>3. CASE FindFile
  <2>1. req' = LengthReq
    BY <1>3 DEF FindFile, Call, LengthReq
  <2>2. Shape'
    BY <1>1, <1>2, <1>3, <2>1 DEF IInv, Shape, FindFile, Call, memory, device
  <2>3. Handshake'
    BY <1>3 DEF IInv, Handshake, FindFile, Call, memory, device
  <2>4. Search'
    BY <1>3, <2>1 DEF Search, FindFile, Call, Answered, Busy
  <2>5. QED
    BY <2>2, <2>3, <2>4 DEF IInv
<1>4. CASE ReadEntry
  <2>1. req' = EntryReq
    BY <1>4 DEF ReadEntry, Call, EntryReq
  <2>2. Shape'
    BY <1>1, <1>2, <1>4, <2>1 DEF IInv, Shape, ReadEntry, Call, memory, device
  <2>3. Handshake'
    BY <1>4 DEF IInv, Handshake, ReadEntry, Call, memory, device
  <2>4. Search'
    BY <1>4, <2>1 DEF IInv, Search, ReadEntry, Call, Answered, Unanswered, Busy,
                      NoneBefore, memory, device
  <2>5. QED
    BY <2>2, <2>3, <2>4 DEF IInv
<1>5. CASE Match
  <2>1. ramfbSel' = ent.sel /\ ent.sel \in Nat
    BY <1>5 DEF Match, IInv, Shape
  <2>2. req' = ConfigReq(ent.sel) /\ req' \in [Fields -> Words]
    BY <1>5, <2>1, Requests DEF Match, Call, ConfigReq
  <2>3. Shape'
    BY <1>1, <1>5, <2>1, <2>2 DEF IInv, Shape, Match, Call, memory, device
  <2>4. Handshake'
    BY <1>5 DEF IInv, Handshake, Match, Call, memory, device
  <2>5. i < Len(dir) /\ First(i+1) /\ ent = dir[i+1]
    BY <1>1, <1>5 DEF IInv, Shape, Search, Match, NoneBefore, First
  <2>6. First(i+1)' /\ i' = i /\ dir' = dir
    BY <1>5, <2>5 DEF Match, First, device
  <2>7. Search'
    BY <1>5, <2>1, <2>2, <2>5, <2>6 DEF Search, Match, Call, Answered, Busy
  <2>8. QED
    BY <2>3, <2>4, <2>7 DEF IInv
<1>6. QED
  BY <1>3, <1>4, <1>5

\* The rest of the search.
LEMMA LoopOK ==
  ASSUME IInv, NoMatch \/ NotFound
  PROVE  IInv'
<1>1. Len(dir) \in Nat
  BY DmaAssumption DEF DmaAssumption, IInv, Shape
<1>2. CASE NoMatch
  <2>1. i' = i + 1 /\ i < n /\ n = Len(dir) /\ NoneBefore /\ ent = dir[i+1]
    BY <1>2 DEF NoMatch, IInv, Search
  <2>2. Shape'
    BY <1>1, <1>2, <2>1 DEF IInv, Shape, NoMatch, memory, device
  <2>3. Handshake'
    BY <1>2 DEF IInv, Handshake, NoMatch, memory, device
  <2>4. NoneBefore'
    BY <1>1, <1>2, <2>1 DEF NoneBefore, NoMatch, device, IInv, Shape
  <2>5. Search'
    BY <1>1, <1>2, <2>1, <2>4 DEF IInv, Shape, Search, NoMatch, Busy, memory, device
  <2>6. QED
    BY <2>2, <2>3, <2>5 DEF IInv
<1>3. CASE NotFound
  BY <1>3 DEF NotFound, IInv, Shape, Handshake, Search, Busy, memory, device
<1>4. QED
  BY <1>2, <1>3

\* First and NoneBefore depend on dir and i alone.
LEMMA SearchFrame ==
  ASSUME dir' = dir, i' = i
  PROVE  NoneBefore' = NoneBefore /\ \A k : First(k)' = First(k)
BY DEF NoneBefore, First

\* Storing, waiting for the stores and ringing.
LEMMA PostOK ==
  ASSUME IInv, Store \/ Barrier \/ Ring \/ (\E f \in Fields : Drain(f))
  PROVE  IInv'
<1>1. CASE Store
  <2>1. Shape' /\ Handshake'
    BY <1>1 DEF Store, IInv, Shape, Handshake, device
  <2>2. Search'
    BY <1>1, SearchFrame DEF Store, IInv, Search, Busy, Answered, Unanswered, device
  <2>3. QED
    BY <2>1, <2>2 DEF IInv
<1>2. CASE Barrier
  <2>1. desc = req
    BY <1>2, SameFields DEF Barrier, IInv, Shape, Handshake
  <2>2. Shape' /\ Handshake'
    BY <1>2, <2>1 DEF Barrier, IInv, Shape, Handshake, memory, device
  <2>3. Search'
    BY <1>2, SearchFrame DEF Barrier, IInv, Search, Busy, Answered, Unanswered, memory, device
  <2>4. QED
    BY <2>2, <2>3 DEF IInv
<1>3. CASE Ring
  <2>1. Shape' /\ Handshake'
    BY <1>3 DEF Ring, IInv, Shape, Handshake, memory
  <2>2. Search'
    BY <1>3, SearchFrame DEF Ring, IInv, Search, Busy, Answered, Unanswered, memory
  <2>3. QED
    BY <2>1, <2>2 DEF IInv
<1>4. ASSUME NEW f \in Fields, Drain(f) PROVE IInv'
  <2>1. pc = "dsb"
    BY <1>4 DEF Drain, IInv, Handshake
  <2>2. /\ desc' \in [Fields -> Words]
        /\ desc'[f] = req[f]
        /\ \A g \in Fields \ {f} : desc'[g] = desc[g]
    BY <1>4, DrainOne DEF Drain, IInv, Shape
  <2>3. Shape'
    BY <1>4, <2>2 DEF Drain, IInv, Shape, prog, device
  <2>4. Handshake'
    BY <1>4, <2>1, <2>2 DEF Drain, IInv, Handshake, prog, device
  <2>5. Search'
    BY <1>4, <2>1, SearchFrame DEF Drain, IInv, Search, Busy, Answered, Unanswered, prog, device
  <2>6. QED
    BY <2>3, <2>4, <2>5 DEF IInv
<1>5. QED
  BY <1>1, <1>2, <1>3, <1>4

\* The two ways out of the polling loop.
LEMMA PollOK ==
  ASSUME IInv, PollDone \/ PollError
  PROVE  IInv'
<1>1. pc = "poll" /\ pending = {} /\ Control = desc.control
  BY DEF PollDone, PollError, IInv, Handshake, Control
<1>2. /\ dev # "idle" => owed = 1 /\ desc = req
      /\ dev = "idle" => owed = 0
  BY <1>1 DEF IInv, Handshake
<1>3. req.control \notin {Done, Error}
  BY <1>1 DEF IInv, Search, Busy, LengthReq, EntryReq, ConfigReq, SelectRead,
              ReadOn, SelectWrite, Done, Error
<1>4. dev = "idle" /\ owed = 0
  BY <1>1, <1>2, <1>3 DEF PollDone, PollError, IInv, Shape
<1>5. CASE PollDone
  <2>1. desc.control = Done /\ Answered /\ pc' = ret /\ ret \in {"loop", "match", "paint"}
    BY <1>1, <1>4, <1>5 DEF PollDone, Answered, IInv, Search, Busy
  <2>2. Shape' /\ Handshake'
    BY <1>1, <1>4, <1>5, <2>1 DEF PollDone, IInv, Shape, Handshake, memory, device
  <2>3. Search'
    <3>1. dir' = dir /\ i' = i /\ n' = n /\ key' = key /\ offset' = offset /\ ent' = ent
          /\ ramfb' = ramfb /\ ramfbSel' = ramfbSel
      BY <1>5 DEF PollDone, device
    <3>2. NoneBefore' = NoneBefore /\ First(i+1)' = First(i+1)
      BY <3>1 DEF NoneBefore, First
    <3>3. CASE ret = "loop"
      <4>1. i = 0 /\ n = Len(dir) /\ key = DirSel /\ offset = 1
        BY <1>1, <2>1, <3>3 DEF IInv, Search, Busy
      <4>2. NoneBefore
        BY <4>1 DEF NoneBefore
      <4>3. QED
        BY <2>1, <3>1, <3>2, <3>3, <4>1, <4>2 DEF Search, Busy
    <3>4. CASE ret = "match"
      BY <1>1, <2>1, <3>1, <3>2, <3>4 DEF IInv, Search, Busy
    <3>5. CASE ret = "paint"
      BY <1>1, <2>1, <3>1, <3>2, <3>5 DEF IInv, Search, Busy
    <3>6. QED
      BY <2>1, <3>3, <3>4, <3>5
  <2>4. QED
    BY <2>2, <2>3 DEF IInv
<1>6. CASE PollError
  BY <1>1, <1>4, <1>6 DEF PollError, IInv, Shape, Handshake, Search, Busy, memory, device
<1>7. QED
  BY <1>5, <1>6

\* The device reads the descriptor and answers.
LEMMA DeviceOK ==
  ASSUME IInv, Device
  PROVE  IInv'
<1>1. pc = "poll" /\ pending = {} /\ dev \in {"fetch", "run"} /\ desc = req /\ owed = 1
  BY DEF Device, Fetch, ServeRead, ServeWrite, Fail, IInv, Handshake
<1>2. Len(dir) \in Nat /\ Done \in Words /\ Error \in Words /\ Done # Error
  BY DmaAssumption, Requests DEF IInv, Shape
<1>3. CASE Fetch
  <2>1. Shape' /\ Handshake'
    BY <1>1, <1>3 DEF Fetch, IInv, Shape, Handshake, prog, memory
  <2>2. Search'
    BY <1>1, <1>3, SearchFrame DEF Fetch, IInv, Search, Busy, Answered, Unanswered, prog, memory
  <2>3. QED
    BY <2>1, <2>2 DEF IInv
<1>4. ASSUME dev = "run" PROVE job = req
  BY <1>1, <1>4 DEF IInv, Handshake
<1>5. /\ ret \in {"loop", "match", "paint"}
      /\ ret = "loop" => req = LengthReq /\ i = 0
      /\ ret = "match" => req = EntryReq /\ n = Len(dir) /\ i < n /\ NoneBefore
                          /\ key = DirSel /\ offset = i + 1
      /\ ret = "paint" => req = ConfigReq(ramfbSel) /\ i < Len(dir)
                          /\ First(i+1) /\ ramfbSel = dir[i+1].sel
  BY <1>1 DEF IInv, Search, Busy, Unanswered
<1>6. ASSUME NEW c \in {Done, Error}, Answer(c)
      PROVE  /\ desc' \in [Fields -> Words] /\ desc'.control = c
             /\ dev' = "idle" /\ owed' = 0
  BY <1>1, <1>2, <1>6, AnswerOne DEF Answer, IInv, Shape
<1>7. CASE ServeRead
  <2>1. job = req /\ Answer(Done) /\ UNCHANGED <<pc, ret, req, i, ramfbSel, pending, dir, job, ramfb>>
    BY <1>4, <1>7 DEF ServeRead
  <2>2. desc' \in [Fields -> Words] /\ desc'.control = Done /\ dev' = "idle" /\ owed' = 0
    BY <1>6, <2>1
  <2>3. CASE ret = "loop"
    <3>1. /\ job.control.select = TRUE /\ job.control.sel = DirSel /\ job.address = "n"
      BY <1>5, <2>1, <2>3 DEF LengthReq, SelectRead
    <3>2. n' = Len(dir) /\ ent' = ent /\ key' = DirSel /\ offset' = 1
      BY <1>2, <1>7, <3>1 DEF ServeRead, Key, Pos
    <3>3. Shape'
      BY <1>2, <2>1, <2>2, <3>2, DmaAssumption DEF DmaAssumption, IInv, Shape
    <3>4. Handshake'
      BY <1>1, <2>1, <2>2 DEF IInv, Handshake
    <3>5. Search'
      BY <1>1, <1>5, <2>1, <2>2, <2>3, <3>2 DEF Search, Busy, Answered
    <3>6. QED
      BY <3>3, <3>4, <3>5 DEF IInv
  <2>4. CASE ret = "match"
    <3>1. /\ job.control.select = FALSE /\ job.address = "ent"
      BY <1>5, <2>1, <2>4 DEF EntryReq, ReadOn
    <3>2. /\ i \in Nat /\ i + 1 \in 1 .. Len(dir) /\ offset = i + 1 /\ key = DirSel
      BY <1>2, <1>5, <2>4 DEF IInv, Shape
    <3>3. DOMAIN dir = 1 .. Len(dir) /\ dir[i+1].sel \in Nat
      <4>1. dir \in Seq([name : STRING, sel : Nat])
        BY DmaAssumption DEF DmaAssumption, IInv, Shape
      <4>2. DOMAIN dir = 1 .. Len(dir) /\ dir[i+1] \in [name : STRING, sel : Nat]
        <5> DEFINE E == [name : STRING, sel : Nat]
        <5> HIDE DEF E
        <5>1. \A q \in Seq(E) : DOMAIN q = 1 .. Len(q) /\ \A k \in 1 .. Len(q) : q[k] \in E
          OBVIOUS
        <5>2. QED
          BY <3>2, <4>1, <5>1 DEF E
      <4>3. QED
        BY <4>2
    <3>4. n' = n /\ ent' = dir[i+1] /\ key' = DirSel /\ offset' = i + 2
      <4>1. Key = key /\ Pos = offset
        BY <3>1 DEF Key, Pos
      <4>2. Pos \in 1 .. Len(dir) /\ Pos = i + 1 /\ Pos + 1 = i + 2
        BY <1>2, <3>2, <4>1
      <4>3. QED
        BY <1>7, <3>1, <3>2, <3>3, <4>1, <4>2 DEF ServeRead
    <3>5. Shape'
      BY <1>2, <2>1, <2>2, <3>2, <3>3, <3>4, DmaAssumption DEF DmaAssumption, IInv, Shape
    <3>6. Handshake'
      BY <1>1, <2>1, <2>2 DEF IInv, Handshake
    <3>7. Search'
      BY <1>1, <1>5, <2>1, <2>2, <2>4, <3>4, SearchFrame DEF Search, Busy, Answered, Unanswered
    <3>8. QED
      BY <3>5, <3>6, <3>7 DEF IInv
  <2>5. ret # "paint"
    BY <1>5, <1>7, <2>1 DEF ServeRead, ConfigReq, SelectWrite
  <2>6. QED
    BY <1>5, <2>3, <2>4, <2>5
<1>8. CASE ServeWrite
  <2>1. job = req /\ Answer(Done) /\ UNCHANGED <<prog, pending, dir, job>>
    BY <1>4, <1>8 DEF ServeWrite
  <2>2. desc' \in [Fields -> Words] /\ desc'.control = Done /\ dev' = "idle" /\ owed' = 0
    BY <1>6, <2>1
  <2>3. ret = "paint"
    BY <1>5, <1>8, <2>1 DEF ServeWrite, LengthReq, EntryReq, SelectRead, ReadOn
  <2>4. /\ job.control.select = TRUE /\ job.control.sel = ramfbSel
        /\ job.address = "cfg" /\ job.length = "28"
    BY <1>5, <2>1, <2>3 DEF ConfigReq, SelectWrite
  <2>5. key' = ramfbSel /\ offset' = 0 /\ ramfb' = <<"cfg", "28">>
    BY <1>8, <2>4 DEF ServeWrite, Key, Pos
  <2>6. Shape'
    BY <2>1, <2>2, <2>5 DEF IInv, Shape, prog
  <2>7. Handshake'
    BY <1>1, <2>1, <2>2 DEF IInv, Handshake, prog
  <2>8. Search'
    BY <1>1, <1>5, <2>1, <2>2, <2>3, <2>5, SearchFrame DEF Search, Busy, Answered, Unanswered, prog
  <2>9. QED
    BY <2>6, <2>7, <2>8 DEF IInv
<1>9. CASE Fail
  <2>1. job = req /\ Answer(Error) /\ UNCHANGED <<prog, pending, dir, job, ramfb>>
    BY <1>4, <1>9 DEF Fail
  <2>2. desc' \in [Fields -> Words] /\ desc'.control = Error /\ dev' = "idle" /\ owed' = 0
    BY <1>6, <2>1
  <2>3. key' \in Nat /\ offset' \in Nat
    BY <1>5, <1>9, <2>1, DmaAssumption
       DEF Fail, Key, Pos, IInv, Shape, LengthReq, EntryReq, ConfigReq, SelectRead, ReadOn, SelectWrite
  <2>4. Shape'
    BY <2>1, <2>2, <2>3 DEF IInv, Shape, prog
  <2>5. Handshake'
    BY <1>1, <2>1, <2>2 DEF IInv, Handshake, prog
  <2>6. Search'
    BY <1>1, <1>2, <1>5, <2>1, <2>2, SearchFrame DEF Search, Busy, Answered, Unanswered, prog
  <2>7. QED
    BY <2>4, <2>5, <2>6 DEF IInv
<1>10. QED
  BY <1>3, <1>7, <1>8, <1>9 DEF Device

\* The invariant is inductive.
LEMMA Inductive == Spec => []IInv
<1>1. IInv /\ [Next]_vars => IInv'
  <2> SUFFICES ASSUME IInv, [Next]_vars PROVE IInv'
    OBVIOUS
  <2>1. CASE Transfer
    BY <2>1, PostOK, PollOK DEF Transfer
  <2>2. CASE Main
    BY <2>2, StartOK, LoopOK DEF Main
  <2>3. CASE Device
    BY <2>3, DeviceOK
  <2>4. CASE \E f \in Fields : Drain(f)
    BY <2>4, PostOK
  <2>5. CASE UNCHANGED vars
    BY <2>5, SearchFrame DEF vars, prog, memory, device, IInv, Shape, Handshake, Search,
                Busy, Answered, Unanswered
  <2>6. QED
    BY <2>1, <2>2, <2>3, <2>4, <2>5 DEF Next, Rest
<1>2. QED
  BY Initially, <1>1, PTL DEF Spec

\* The search never leaves the directory, and at most one transfer is under way,
\* whatever directory QEMU presents.
THEOREM TypeCorrect == Spec => []TypeOK
<1>1. IInv => TypeOK
  BY DEF IInv, Shape, Handshake, TypeOK
<1>2. QED
  BY <1>1, Inductive, PTL

\* The device never acts on a descriptor other than the one asked for, in
\* whatever order the stores reach memory.
THEOREM DescriptorSafe == Spec => []DeviceSeesRequest
<1>1. IInv => DeviceSeesRequest
  BY DEF IInv, Handshake, DeviceSeesRequest
<1>2. QED
  BY <1>1, Inductive, PTL

\* The polling loop of fw_cfg_dma_transfer is left for the caller only after the
\* device's own answer.
THEOREM CompletionSafe == Spec => []CompletionIsReal
<1>1. IInv => CompletionIsReal
  BY DEF IInv, Handshake, CompletionIsReal
<1>2. QED
  BY <1>1, Inductive, PTL

\* main draws only when the display was configured through the first directory
\* entry named etc/ramfb.
THEOREM PaintSafe == Spec => []PaintConfigured
<1>1. IInv => PaintConfigured
  BY DmaAssumption DEF DmaAssumption, IInv, Shape, Search, PaintConfigured, First
<1>2. QED
  BY <1>1, Inductive, PTL

-----------------------------------------------------------------------------
(***************************************************************************)
(* The whole program.                                                      *)
(***************************************************************************)
\* Its bring-up is FwCfgDma's, also while the demo runs, so the four theorems
\* above hold of it too.
THEOREM BringUpKept == DemoSpec => Spec
<1>1. DemoInit => Init
  BY DEF DemoInit
<1>2. [DemoNext]_DemoVars => [Next]_vars
  BY DEF DemoNext, DemoVars
<1>3. QED
  BY <1>1, <1>2, PTL DEF DemoSpec, Spec

\* The delay that main asks for before it goes on at label.
Asked(label) == (freq \div PerSecond) * (IF label = "reset" THEN FillMs ELSE FrameMs)

\* The timer's part of the state: while main waits, the counter is ahead of
\* start by exactly the time waited.
Timed ==
  /\ freq \in Freqs
  /\ tick \in 0 .. TickWrap-1
  /\ back \in {"none", "reset", "step"}
  /\ phase \in {"fill", "delay", "reset", "step", "render", "count"}
  /\ phase = "delay" =>
       /\ back # "none"
       /\ start \in 0 .. TickWrap-1
       /\ ticks = Asked(back)
       /\ waited \in 0 .. TickWrap-1
       /\ (tick - start) % TickWrap = waited

LEMMA TimerConstants ==
  /\ TickWrap \in Nat \ {0} /\ MaxGap \in Nat \ {0}
  /\ \A f \in Freqs : /\ (f \div PerSecond) * FillMs + MaxGap < TickWrap
                      /\ (f \div PerSecond) * FrameMs + MaxGap < TickWrap
  BY RamfbAssumption DEF RamfbAssumption

\* The unsigned difference of two readings of a counter that has advanced by less
\* than it holds grows by what it advances.
LEMMA Elapsed ==
  ASSUME NEW W \in Nat \ {0}, NEW t \in 0 .. W-1, NEW s \in 0 .. W-1, NEW d \in Nat,
         ((t - s) % W) + d < W
  PROVE  /\ (t + d) % W \in 0 .. W-1
         /\ (((t + d) % W) - s) % W = ((t - s) % W) + d
<1>1. \A x \in Int : /\ x >= 0 /\ x < W => x % W = x
                     /\ -W =< x /\ x < 0 => x % W = x + W
                     /\ W =< x /\ x < 2*W => x % W = x - W
  OBVIOUS
<1>2. (t - s) % W = IF s =< t THEN t - s ELSE t - s + W
  BY <1>1
<1>3. CASE t + d < W
  <2>1. (t + d) % W = t + d
    BY <1>1, <1>3
  <2>2. (t + d - s) % W = (IF s =< t + d THEN t + d - s ELSE t + d - s + W)
    BY <1>1, <1>3
  <2> QED
    BY <2>1, <2>2, <1>2, <1>3
<1>4. CASE t + d >= W
  <2>1. (t + d) % W = t + d - W
    BY <1>1, <1>2, <1>4
  <2>2. s > t /\ t + d - W >= 0 => (t + d - W) - s < 0
    BY <1>2
  <2>3. (t + d - W - s) % W = t + d - s
    BY <1>1, <1>2, <1>4
  <2> QED
    BY <2>1, <2>3, <1>2, <1>4
<1> QED
  BY <1>3, <1>4

\* A delay and one turn of the loop more fit the counter.
LEMMA AskedFits ==
  ASSUME freq \in Freqs
  PROVE  \A label : Asked(label) \in Nat /\ Asked(label) + MaxGap < TickWrap
<1>1. freq \in Nat /\ PerSecond \in Nat \ {0} /\ FillMs \in Nat /\ FrameMs \in Nat
  BY RamfbAssumption DEF RamfbAssumption
<1>2. freq \div PerSecond \in Nat
  BY <1>1
<1>3. (freq \div PerSecond) * FillMs \in Nat /\ (freq \div PerSecond) * FrameMs \in Nat
  BY <1>1, <1>2
<1>4. QED
  BY <1>3, TimerConstants DEF Asked

LEMMA TimedStep ==
  ASSUME Timed, [DemoNext]_DemoVars
  PROVE  Timed'
<1> USE TimerConstants
<1>1. CASE Wait
  <2>1. PICK d \in 1 .. MaxGap : tick' = (tick + d) % TickWrap /\ waited' = waited + d
    BY <1>1 DEF Wait
  <2>2. /\ tick \in 0 .. TickWrap-1 /\ start \in 0 .. TickWrap-1
        /\ waited \in Nat /\ (tick - start) % TickWrap = waited
        /\ ticks = Asked(back)
    BY <1>1 DEF Wait, Timed
  <2>3. Asked(back) \in Nat /\ Asked(back) + MaxGap < TickWrap
    BY AskedFits DEF Timed
  <2>4. waited < ticks
    BY <1>1, <2>2, <2>3 DEF Wait, TimeIsUp
  <2>5. waited + d < TickWrap
    BY <2>2, <2>3, <2>4
  <2>6. /\ tick' \in 0 .. TickWrap-1
        /\ (tick' - start) % TickWrap = waited + d
    BY <2>1, <2>2, <2>5, Elapsed
  <2> QED
    BY <1>1, <2>1, <2>2, <2>5, <2>6 DEF Wait, Timed, sim, Asked
<1>2. CASE Return
  BY <1>2 DEF Return, Timed, timer
<1>3. ASSUME NEW ms, NEW label \in {"reset", "step"}, Delay(ms, label),
             ms = IF label = "reset" THEN FillMs ELSE FrameMs
      PROVE  Timed'
  <2>1. (tick - tick) % TickWrap = 0
    BY DEF Timed
  <2> QED
    BY <1>3, <2>1 DEF Delay, DelayFrom, Timed, Asked
<1>4. CASE Fill
  BY <1>3, <1>4 DEF Fill
<1>5. CASE Count
  BY <1>3, <1>5 DEF Count
<1>6. CASE ResetField \/ StepSim \/ Render
  BY <1>6 DEF ResetField, StepSim, Render, Timed, timer
<1>7. CASE UNCHANGED demo
  BY <1>7 DEF demo, sim, timer, Timed, Asked
<1> QED
  BY <1>1, <1>2, <1>4, <1>5, <1>6, <1>7 DEF DemoNext, Demo, DemoVars

\* delay_ms returns when the time asked for has passed, whatever the counter
\* shows at the start and however often it wraps, and never before.
THEOREM DelaysKept == DemoSpec => DelayLongEnough
<1>1. DemoInit => Timed
  BY TimerConstants DEF DemoInit, Timed
<1>2. Timed /\ [DemoNext]_DemoVars => Timed'
  BY TimedStep
<1>3. Timed /\ Return => waited >= (freq \div PerSecond) * (IF back = "reset" THEN FillMs ELSE FrameMs)
  BY DEF Timed, Return, TimeIsUp, Asked
<1>4. DemoSpec => []Timed
  BY <1>1, <1>2, PTL DEF DemoSpec
<1>5. QED
  BY <1>3, <1>4, PTL DEF DemoSpec, DelayLongEnough

\* Division with remainder, and the remainder of the next number.
LEMMA NextRemainder ==
  ASSUME NEW P \in Nat \ {0}, NEW f \in Nat
  PROVE  /\ f % P \in 0 .. P-1
         /\ (f + 1) % P = IF f % P = P - 1 THEN 0 ELSE (f % P) + 1
<1> DEFINE q == f \div P
           r == f % P
<1>0. \A k \in Int, v \in 0 .. P-1 : (P * k + v) % P = v
  OBVIOUS
<1>1. q \in Int /\ r \in 0 .. P-1 /\ f = P * q + r
  OBVIOUS
<1> HIDE DEF q, r
<1>2. CASE r = P - 1
  <2>1. f + 1 = P * (q + 1) + 0
    BY <1>1, <1>2
  <2>2. (P * (q + 1) + 0) % P = 0
    BY <1>0, <1>1
  <2> QED
    BY <1>1, <1>2, <2>1, <2>2 DEF r
<1>3. CASE r # P - 1
  <2>1. f + 1 = P * q + (r + 1)
    BY <1>1
  <2>2. (P * q + (r + 1)) % P = r + 1
    BY <1>0, <1>1, <1>3
  <2> QED
    BY <1>1, <1>3, <2>1, <2>2 DEF r
<1> QED
  BY <1>2, <1>3

\* The frames drawn with the palette on the screen are those since the counter
\* was last a multiple of Period, the frame that is not counted yet included.
Framed ==
  /\ frame \in 0 .. FrameWrap-1
  /\ phase \in {"fill", "delay", "reset", "step", "render", "count"}
  /\ back \in {"none", "reset", "step"}
  /\ phase = "delay" => back # "none"
  /\ shown = (frame % Period) + (IF phase = "count" THEN 1 ELSE 0)

LEMMA FrameConstants == Period \in Nat \ {0} /\ FrameWrap \in Nat \ {0}
<1>1. Period \in Nat \ {0}
  BY RamfbAssumption DEF RamfbAssumption
<1>2. FrameWrap \in Nat /\ FrameWrap > Period
  BY RamfbAssumption DEF RamfbAssumption
<1>3. QED
  BY <1>1, <1>2

LEMMA FrameCounted ==
  ASSUME Framed, Count
  PROVE  /\ frame' \in 0 .. FrameWrap-1
         /\ frame' % Period # 0 => frame' % Period = shown
         /\ frame' % Period = 0 => shown = Period \/ (frame' = 0 /\ shown = FrameWrap % Period)
<1>1. Period \in Nat \ {0} /\ FrameWrap \in Nat \ {0} /\ frame \in Nat
  BY FrameConstants DEF Framed
<1>2. shown = (frame % Period) + 1 /\ frame' = (frame + 1) % FrameWrap
  BY DEF Framed, Count
<1>3. /\ frame % Period \in 0 .. Period-1
      /\ (frame + 1) % Period = IF frame % Period = Period - 1 THEN 0 ELSE (frame % Period) + 1
  BY <1>1, NextRemainder
<1>4. CASE frame + 1 < FrameWrap
  <2>1. frame' = frame + 1
    BY <1>1, <1>2, <1>4
  <2>2. frame' % Period = IF shown = Period THEN 0 ELSE shown
    BY <1>1, <1>2, <1>3, <2>1
  <2>3. shown # 0
    BY <1>2, <1>3
  <2>4. frame' \in 0 .. FrameWrap-1
    BY <1>1, <1>4, <2>1
  <2>5. frame' % Period # 0 => frame' % Period = shown
    BY <2>2, Zenon
  <2>6. frame' % Period = 0 => shown = Period
    BY <2>2, <2>3, Zenon
  <2> QED
    BY <2>4, <2>5, <2>6, Zenon
<1>5. CASE frame + 1 = FrameWrap
  <2>1. frame' = 0 /\ 0 % Period = 0
    BY <1>1, <1>2, <1>5
  <2>2. frame % Period # Period - 1 => shown = FrameWrap % Period
    BY <1>2, <1>3, <1>5
  <2>3. frame % Period = Period - 1 => shown = Period
    BY <1>1, <1>2
  <2>4. frame' \in 0 .. FrameWrap-1
    BY <1>1, <2>1
  <2>5. frame' % Period = 0
    BY <1>1, <2>1
  <2> QED
    BY <2>1, <2>2, <2>3, <2>4, <2>5, Zenon
<1> QED
  BY <1>1, <1>4, <1>5 DEF Framed

LEMMA FramedStep ==
  ASSUME Framed, [DemoNext]_DemoVars
  PROVE  Framed'
<1>1. CASE Count
  BY <1>1, FrameCounted DEF Framed, Count, Delay, DelayFrom
<1>2. CASE Render
  <2>1. frame % Period \in Int
    BY FrameConstants DEF Framed
  <2> QED
    BY <1>2, <2>1 DEF Framed, Render
<1>3. CASE Fill
  BY <1>3 DEF Framed, Fill, Delay, DelayFrom
<1>4. CASE ResetField \/ StepSim
  BY <1>4 DEF Framed, ResetField, StepSim
<1>5. CASE Wait \/ UNCHANGED demo
  BY <1>5 DEF Framed, Wait, demo, sim
<1>6. CASE Return
  BY <1>6 DEF Framed, Return
<1> QED
  BY <1>1, <1>2, <1>3, <1>4, <1>5, <1>6 DEF DemoNext, Demo, DemoVars

\* The palette changes after exactly Period frames, but for the one on the screen
\* when the 32-bit frame counter wraps.
THEOREM RotationKept == DemoSpec => PaletteHeld
<1>1. DemoInit => Framed
  BY FrameConstants DEF DemoInit, Framed
<1>2. Framed /\ [DemoNext]_DemoVars => Framed'
  BY FramedStep
<1>3. Framed /\ [DemoNext]_DemoVars /\ pal' # pal =>
        shown = Period \/ (frame' = 0 /\ shown = FrameWrap % Period)
  <2> SUFFICES ASSUME Framed, [DemoNext]_DemoVars, pal' # pal
               PROVE  shown = Period \/ (frame' = 0 /\ shown = FrameWrap % Period)
    OBVIOUS
  <2>1. Count
    BY DEF DemoNext, Demo, DemoVars, demo, sim, Wait, Return, Fill, ResetField, StepSim, Render
  <2>2. frame' % Period = 0
    BY <2>1 DEF Count
  <2> QED
    BY <2>1, <2>2, FrameCounted
<1>4. DemoSpec => []Framed
  BY <1>1, <1>2, PTL DEF DemoSpec
<1>5. QED
  BY <1>3, <1>4, PTL DEF DemoSpec, PaletteHeld

\* Nothing is stored to the frame buffer before the device has taken its address:
\* the bring-up never writes to it, and once main paints, the configuration stays.
THEOREM DrawsSafe == DemoSpec => []DrawsOnDisplay
<1> DEFINE Waits == pc # "paint" => fb[0] = Undrawn
<1>1. DemoInit => Waits
  <2>1. 0 \in Pixels
    <3>1. FB_W \in Nat \ {0} /\ FB_H \in Nat \ {0}
      BY RamfbAssumption DEF RamfbAssumption
    <3>2. FB_W*FB_H \in Nat \ {0}
      BY <3>1
    <3>3. QED
      BY <3>2 DEF Pixels
  <2> QED
    BY <2>1 DEF DemoInit
<1>2. Waits /\ IInv /\ [DemoNext]_DemoVars => Waits'
  <2> SUFFICES ASSUME Waits, [DemoNext]_DemoVars PROVE Waits'
    OBVIOUS
  <2>1. CASE pc = "paint"
    <3>1. pc' = "paint"
      BY <2>1 DEF DemoNext, DemoVars, vars, prog, Next, Transfer, Store, Barrier, Ring, PollDone, PollError,
           Main, FindFile, ReadEntry, NoMatch, Match, NotFound, Rest, Drain,
           Device, Fetch, ServeRead, ServeWrite, Fail
    <3> QED
      BY <3>1
  <2>2. CASE pc # "paint"
    BY <2>2 DEF DemoNext, DemoVars, demo, sim
  <2> QED
    BY <2>1, <2>2
<1>3. Waits /\ PaintConfigured => DrawsOnDisplay
  BY DEF PaintConfigured, DrawsOnDisplay
<1>4. DemoSpec => []IInv /\ []PaintConfigured
  BY BringUpKept, Inductive, PaintSafe, PTL
<1>5. QED
  BY <1>1, <1>2, <1>3, <1>4, PTL DEF DemoSpec

-----------------------------------------------------------------------------
(***************************************************************************)
(* The simulation and the picture of it.                                   *)
(***************************************************************************)
\* What RamfbAssumption says of the grids and the palettes.
LEMMA GridConstants ==
  /\ FB_W \in Nat \ {0} /\ FB_H \in Nat \ {0} /\ SIM_W \in Nat \ {0} /\ SIM_H \in Nat \ {0}
  /\ SIM_W >= 3 /\ SIM_H >= 3
  /\ Hot \in Nat \ {0} /\ Unit \in Nat \ {0} /\ Shades \in Nat \ {0} /\ Warm \in 0 .. Hot
  /\ Alpha \in Nat /\ Cooling \in Nat /\ 4*Alpha + Cooling =< Unit
  /\ FB_W % SIM_W = 0 /\ FB_H % SIM_H = 0
  /\ Len(g_pal) \in Nat \ {0} /\ DOMAIN g_pal = 1 .. Len(g_pal)
  BY RamfbAssumption DEF RamfbAssumption

\* The sum of four.
LEMMA SumFour ==
  ASSUME NEW f, NEW a, NEW b, NEW c, NEW d,
         a # b, a # c, a # d, b # c, b # d, c # d,
         f[a] \in Int, f[b] \in Int, f[c] \in Int, f[d] \in Int
  PROVE  SumFunctionOnSet(f, {a, b, c, d}) = f[a] + f[b] + f[c] + f[d]
<1>1. IsFiniteSet({}) /\ IsFiniteSet({a}) /\ IsFiniteSet({a, b}) /\ IsFiniteSet({a, b, c})
  <2>1. IsFiniteSet({})
    BY FS_EmptySet
  <2>2. IsFiniteSet({a}) /\ IsFiniteSet({a} \cup {b}) /\ {a} \cup {b} = {a, b}
    BY FS_Singleton, FS_AddElement
  <2>3. {a, b} \cup {c} = {a, b, c}
    OBVIOUS
  <2> QED
    BY <2>1, <2>2, <2>3, FS_AddElement
<1>2. SumFunctionOnSet(f, {} \cup {a}) = SumFunctionOnSet(f, {}) + f[a]
  BY <1>1, SumAdd
<1>3. SumFunctionOnSet(f, {a} \cup {b}) = SumFunctionOnSet(f, {a}) + f[b]
  BY <1>1, SumAdd
<1>4. SumFunctionOnSet(f, {a, b} \cup {c}) = SumFunctionOnSet(f, {a, b}) + f[c]
  BY <1>1, SumAdd
<1>5. SumFunctionOnSet(f, {a, b, c} \cup {d}) = SumFunctionOnSet(f, {a, b, c}) + f[d]
  BY <1>1, SumAdd
<1>6. /\ {} \cup {a} = {a} /\ {a} \cup {b} = {a, b} /\ {a, b} \cup {c} = {a, b, c}
      /\ {a, b, c} \cup {d} = {a, b, c, d}
  OBVIOUS
<1>7. SumFunctionOnSet(f, {}) = 0
  BY SumEmpty
<1>8. SumFunctionOnSet(f, {a}) = f[a]
  BY <1>2, <1>6, <1>7
<1>9. SumFunctionOnSet(f, {a, b}) = f[a] + f[b]
  BY <1>3, <1>6, <1>8
<1>10. SumFunctionOnSet(f, {a, b, c}) = f[a] + f[b] + f[c]
  BY <1>4, <1>6, <1>9
<1> QED
  BY <1>5, <1>6, <1>10

\* The explicit step in whole numbers: with four neighbours between L and H, a
\* temperature t between them goes no higher than H, and no lower than what
\* cooling leaves of L.
LEMMA StepBounds ==
  ASSUME NEW U \in Nat \ {0}, NEW al \in Nat, NEW ga \in Nat, 4*al + ga =< U,
         NEW L \in Nat, NEW H \in Nat, NEW t \in L .. H, NEW s \in Int,
         4*L =< s, s =< 4*H
  PROVE  LET v == t + (al * (s - 4*t) - ga * t) \div U
         IN  v \in Int /\ v =< H /\ (v + 1) * U >= L * (U - ga)
<1> DEFINE e == al * (s - 4*t) - ga * t
           q == e \div U
<1>1. e \in Int
  OBVIOUS
<1> HIDE DEF e
<1>2. q \in Int /\ U * q =< e /\ e < U * q + U
  BY <1>1
<1> HIDE DEF q
<1>3. al * (s - 4*t) =< al * (4 * (H - t)) /\ al * (s - 4*t) >= al * (4 * (L - t))
  OBVIOUS
<1>4. ga * t \in Nat /\ ga * L \in Nat
  OBVIOUS
<1>5. q =< H - t
  <2>1. al * (4 * (H - t)) = (4 * al) * (H - t) /\ (4 * al) * (H - t) =< U * (H - t)
    OBVIOUS
  <2>2. e =< U * (H - t)
    BY <1>3, <1>4, <2>1 DEF e
  <2>3. U * q =< U * (H - t)
    BY <1>1, <1>2, <2>2
  <2>4. q >= (H - t) + 1 => U * q >= U * ((H - t) + 1)
    BY <1>2
  <2>5. U * ((H - t) + 1) = U * (H - t) + U
    OBVIOUS
  <2> QED
    BY <1>2, <2>3, <2>4, <2>5
<1>6. ((t + q) + 1) * U >= L * (U - ga)
  <2> DEFINE w == U - 4*al - ga
  <2>1. w \in Nat /\ w * (t - L) >= 0
    OBVIOUS
  <2>2. w * (t - L) = U*t - 4*(al*t) - ga*t - U*L + 4*(al*L) + ga*L
    OBVIOUS
  <2>3. al * (4 * (L - t)) = 4*(al*L) - 4*(al*t)
    OBVIOUS
  <2>4. ((t + q) + 1) * U = U*t + U*q + U /\ L * (U - ga) = U*L - ga*L
    BY <1>2
  <2>5. U*t \in Int /\ al*t \in Int /\ ga*t \in Int /\ U*L \in Int /\ al*L \in Int /\ ga*L \in Int
        /\ U*q \in Int
    BY <1>2
  <2>6. e >= 4*(al*L) - 4*(al*t) - ga*t
    BY <1>3, <2>3, <2>5 DEF e
  <2>7. U*q + U > 4*(al*L) - 4*(al*t) - ga*t
    BY <1>1, <1>2, <2>5, <2>6
  <2> HIDE DEF w
  <2> QED
    BY <2>1, <2>2, <2>4, <2>5, <2>7
<1> QED
  BY <1>2, <1>5, <1>6 DEF e, q

\* Of five numbers one is the smallest, one the largest.
LEMMA Extremes ==
  ASSUME NEW a \in Int, NEW b \in Int, NEW c \in Int, NEW d \in Int, NEW e \in Int
  PROVE  /\ \E m \in {a, b, c, d, e} : m =< a /\ m =< b /\ m =< c /\ m =< d /\ m =< e
         /\ \E m \in {a, b, c, d, e} : m >= a /\ m >= b /\ m >= c /\ m >= d /\ m >= e
OBVIOUS

\* One cell of the step: it stays a level, and within what its neighbours allow.
LEMMA InnerStep ==
  ASSUME NEW T \in [Cells -> 0 .. Hot], NEW c \in Interior
  PROVE  /\ Next01(T, c) \in 0 .. Hot
         /\ \E lo, hi \in Neighbours(c) \cup {c} :
              /\ Next01(T, c) =< T[hi]
              /\ (Next01(T, c) + 1) * Unit >= T[lo] * (Unit - Cooling)
<1> DEFINE west  == <<c[1]-1, c[2]>>
           east  == <<c[1]+1, c[2]>>
           north == <<c[1], c[2]-1>>
           south == <<c[1], c[2]+1>>
<1>1. /\ c \in Cells /\ west \in Cells /\ east \in Cells /\ north \in Cells /\ south \in Cells
      /\ west # east /\ west # north /\ west # south /\ east # north /\ east # south /\ north # south
  <2>1. PICK x \in 1 .. SIM_W-2, y \in 1 .. SIM_H-2 : c = <<x, y>>
    BY DEF Interior
  <2>2. c[1] = x /\ c[2] = y
    BY <2>1
  <2>3. west = <<x-1, y>> /\ east = <<x+1, y>> /\ north = <<x, y-1>> /\ south = <<x, y+1>>
    BY <2>2
  <2>4. /\ x \in 0 .. SIM_W-1 /\ y \in 0 .. SIM_H-1 /\ x-1 \in 0 .. SIM_W-1
        /\ x+1 \in 0 .. SIM_W-1 /\ y-1 \in 0 .. SIM_H-1 /\ y+1 \in 0 .. SIM_H-1
        /\ x-1 # x+1 /\ x-1 # x /\ x+1 # x /\ y-1 # y+1
    BY GridConstants
  <2> HIDE DEF west, east, north, south
  <2> QED
    BY <2>1, <2>3, <2>4 DEF Cells
<1>2. Neighbours(c) = {west, east, north, south}
  BY DEF Neighbours
<1> HIDE DEF west, east, north, south
<1>3. /\ T[c] \in 0 .. Hot /\ T[west] \in 0 .. Hot /\ T[east] \in 0 .. Hot /\ T[north] \in 0 .. Hot
      /\ T[south] \in 0 .. Hot
  BY <1>1
<1> DEFINE sum == T[west] + T[east] + T[north] + T[south]
           v == T[c] + (Alpha * (sum - 4 * T[c]) - Cooling * T[c]) \div Unit
<1>4. SumFunctionOnSet(T, Neighbours(c)) = sum
  <2>1. T[west] \in Int /\ T[east] \in Int /\ T[north] \in Int /\ T[south] \in Int
    BY <1>3, GridConstants
  <2> QED
    BY <1>1, <1>2, <2>1, SumFour
<1>5. Next01(T, c) = clamp01(v)
  BY <1>4 DEF Next01
<1>6. PICK lo, hi \in {c, west, east, north, south} :
        \A x \in {c, west, east, north, south} : T[lo] =< T[x] /\ T[x] =< T[hi]
  <2>1. T[c] \in Int /\ T[west] \in Int /\ T[east] \in Int /\ T[north] \in Int /\ T[south] \in Int
    BY <1>3, GridConstants
  <2>2. \E lo \in {c, west, east, north, south} : \A x \in {c, west, east, north, south} : T[lo] =< T[x]
    BY <2>1, Extremes
  <2>3. \E hi \in {c, west, east, north, south} : \A x \in {c, west, east, north, south} : T[x] =< T[hi]
    BY <2>1, Extremes
  <2> QED
    BY <2>2, <2>3
<1>7. /\ T[lo] \in Nat /\ T[hi] \in Nat /\ T[hi] =< Hot /\ T[c] \in T[lo] .. T[hi]
      /\ sum \in Int /\ 4 * T[lo] =< sum /\ sum =< 4 * T[hi]
  <2>1. lo \in Cells /\ hi \in Cells /\ T[lo] \in 0 .. Hot /\ T[hi] \in 0 .. Hot
    BY <1>1, <1>6
  <2>2. /\ T[lo] =< T[c] /\ T[lo] =< T[west] /\ T[lo] =< T[east]
        /\ T[lo] =< T[north] /\ T[lo] =< T[south]
    BY <1>6
  <2>3. /\ T[hi] >= T[c] /\ T[hi] >= T[west] /\ T[hi] >= T[east]
        /\ T[hi] >= T[north] /\ T[hi] >= T[south]
    <3>1. /\ T[c] =< T[hi] /\ T[west] =< T[hi] /\ T[east] =< T[hi]
          /\ T[north] =< T[hi] /\ T[south] =< T[hi]
      BY <1>6
    <3> QED
      BY <1>3, <2>1, <3>1, GridConstants
  <2>4. \A x \in 0 .. Hot : x \in Nat /\ x =< Hot
    BY GridConstants
  <2>5. T[lo] \in Nat /\ T[hi] \in Nat /\ T[hi] =< Hot /\ T[c] \in T[lo] .. T[hi]
    BY <1>3, <2>1, <2>2, <2>3, <2>4
  <2>6. /\ T[west] \in Nat /\ T[east] \in Nat /\ T[north] \in Nat /\ T[south] \in Nat
    BY <1>3, <2>4
  <2> QED
    BY <2>2, <2>3, <2>5, <2>6
<1> HIDE DEF sum
<1>8. v \in Int /\ v =< T[hi] /\ (v + 1) * Unit >= T[lo] * (Unit - Cooling)
  BY <1>7, GridConstants, StepBounds
<1> HIDE DEF v
<1>9. clamp01(v) \in 0 .. Hot /\ clamp01(v) =< T[hi] /\ clamp01(v) >= v
  BY <1>7, <1>8, GridConstants DEF clamp01
<1>10. (clamp01(v) + 1) * Unit >= T[lo] * (Unit - Cooling)
  <2>1. (clamp01(v) + 1) * Unit >= (v + 1) * Unit
    <3>1. \A x, y \in Int : x >= y => (x + 1) * Unit >= (y + 1) * Unit
      BY GridConstants
    <3>2. clamp01(v) \in Int
      BY <1>9, GridConstants
    <3> QED
      BY <1>8, <1>9, <3>1, <3>2
  <2>2. /\ T[lo] * (Unit - Cooling) \in Int /\ (v + 1) * Unit \in Int
        /\ (clamp01(v) + 1) * Unit \in Int
    <3>1. \A x, y \in Int : x * y \in Int
      OBVIOUS
    <3>2. /\ T[lo] \in Int /\ Unit - Cooling \in Int /\ v + 1 \in Int /\ Unit \in Int
          /\ clamp01(v) + 1 \in Int
      BY <1>7, <1>8, <1>9, GridConstants
    <3> QED
      BY <3>1, <3>2, Zenon
  <2> QED
    BY <1>8, <2>1, <2>2
<1> QED
  BY <1>2, <1>5, <1>6, <1>9, <1>10

\* A step from levels to levels.
LEMMA NextFieldType ==
  ASSUME NEW T \in [Cells -> 0 .. Hot]
  PROVE  NextField(T) \in [Cells -> 0 .. Hot]
<1>1. \A c \in Interior : Next01(T, c) \in 0 .. Hot
  BY InnerStep
<1>2. 0 \in 0 .. Hot /\ Hot \in 0 .. Hot
  BY GridConstants
<1> QED
  BY <1>1, <1>2 DEF NextField

-----------------------------------------------------------------------------
(***************************************************************************)
(* Which cell a pixel shows.                                               *)
(***************************************************************************)
\* A number in another base: its two digits are determined.
LEMMA TwoDigits ==
  ASSUME NEW b \in Nat \ {0}, NEW h1 \in Nat, NEW h2 \in Nat,
         NEW l1 \in 0 .. b-1, NEW l2 \in 0 .. b-1, h1 * b + l1 = h2 * b + l2
  PROVE  h1 = h2 /\ l1 = l2
<1>1. \A x, y \in Nat : x < y => x * b + b =< y * b
  <2> SUFFICES ASSUME NEW x \in Nat, NEW y \in Nat, x < y PROVE x * b + b =< y * b
    OBVIOUS
  <2>1. (x + 1) * b =< y * b
    OBVIOUS
  <2> QED
    BY <2>1
<1>2. h1 * b \in Nat /\ h2 * b \in Nat
  OBVIOUS
<1>3. ~(h1 < h2) /\ ~(h2 < h1)
  BY <1>1, <1>2
<1> QED
  BY <1>2, <1>3

\* Blocks tile the screen: SIM_W of SCALE_X pixels a line, SIM_H of SCALE_Y lines.
LEMMA Scales ==
  /\ SCALE_X \in Nat \ {0} /\ FB_W = SIM_W * SCALE_X
  /\ SCALE_Y \in Nat \ {0} /\ FB_H = SIM_H * SCALE_Y
<1>1. ASSUME NEW a \in Nat \ {0}, NEW b \in Nat \ {0}, a % b = 0
      PROVE  a \div b \in Nat \ {0} /\ a = b * (a \div b)
  <2> DEFINE q == a \div b
             r == a % b
  <2>1. q \in Nat /\ a = b * q + r
    OBVIOUS
  <2> HIDE DEF q
  <2>2. b * q \in Int /\ a = b * q /\ q \in Nat
    BY <1>1, <2>1 DEF q
  <2>3. q # 0
    BY <2>2
  <2> QED
    BY <2>2, <2>3 DEF q
<1> QED
  BY <1>1, GridConstants DEF SCALE_X, SCALE_Y

\* The cell that a pixel shows.
CellAt(x, y) == <<x \div SCALE_X, y \div SCALE_Y>>

LEMMA AxisCell ==
  ASSUME NEW s \in Nat \ {0}, NEW m \in Nat \ {0}, NEW v \in 0 .. m*s - 1
  PROVE  /\ v \div s \in 0 .. m-1
         /\ v - s * (v \div s) \in 0 .. s-1
         /\ (v * m) \div (m * s) = v \div s
         /\ \A k \in Nat, d \in 0 .. s-1 : v = k*s + d => k = v \div s
<1> DEFINE q == v \div s
<1>1. m * s \in Nat /\ v \in Nat
  OBVIOUS
<1>2. q \in Nat /\ s * q =< v /\ v < s * (q + 1)
  BY <1>1, DivBounds
<1>3. (v * m) \div (m * s) = q
  BY <1>1, DivCancel
<1> HIDE DEF q
<1>4. s * q \in Nat /\ s * (q + 1) = s * q + s
  BY <1>2
<1>5. q < m
  <2>1. q >= m => s * q >= m * s
    BY <1>2
  <2> QED
    BY <1>1, <1>2, <1>4, <2>1
<1>6. v - s * q \in 0 .. s-1
  BY <1>1, <1>2, <1>4
<1>7. \A k \in Nat, d \in 0 .. s-1 : v = k*s + d => k = q
  <2> SUFFICES ASSUME NEW k \in Nat, NEW d \in 0 .. s-1, v = k*s + d PROVE k = q
    OBVIOUS
  <2>1. q * s + (v - s * q) = v
    <3>1. q * s = s * q
      BY <1>2
    <3> QED
      BY <1>1, <1>4, <3>1
  <2> QED
    BY <1>2, <1>6, <2>1, TwoDigits
<1> QED
  BY <1>2, <1>3, <1>5, <1>6, <1>7 DEF q

\* An address is the line and the place on it.
LEMMA Addresses ==
  ASSUME NEW c \in Cells, NEW dx \in 0 .. SCALE_X-1, NEW dy \in 0 .. SCALE_Y-1
  PROVE  /\ c[1] * SCALE_X + dx \in 0 .. FB_W-1
         /\ c[2] * SCALE_Y + dy \in 0 .. FB_H-1
         /\ Address(c, dx, dy) = (c[2] * SCALE_Y + dy) * FB_W + (c[1] * SCALE_X + dx)
         /\ Address(c, dx, dy) \in Pixels
<1>1. ASSUME NEW s \in Nat \ {0}, NEW m \in Nat \ {0}, NEW k \in 0 .. m-1, NEW d \in 0 .. s-1
      PROVE  k * s + d \in 0 .. m*s - 1 /\ k * s \in Nat
  <2>1. (k + 1) * s =< m * s /\ (k + 1) * s = k * s + s /\ k * s \in Nat /\ m * s \in Nat
    OBVIOUS
  <2> QED
    BY <2>1
<1> DEFINE px == c[1] * SCALE_X + dx
           py == c[2] * SCALE_Y + dy
<1>2. c[1] \in 0 .. SIM_W-1 /\ c[2] \in 0 .. SIM_H-1
  BY DEF Cells
<1>3. px \in 0 .. FB_W-1 /\ c[1] * SCALE_X \in Nat
  BY <1>1, <1>2, GridConstants, Scales
<1>4. py \in 0 .. FB_H-1
  BY <1>1, <1>2, GridConstants, Scales
<1>5. py * FB_W + px \in 0 .. FB_H*FB_W - 1 /\ py * FB_W \in Nat
  BY <1>1, <1>3, <1>4, GridConstants
<1>6. FB_H * FB_W = FB_W * FB_H
  BY GridConstants
<1>7. Address(c, dx, dy) = py * FB_W + px
  <2> DEFINE a == py * FB_W  b == c[1] * SCALE_X
  <2>1. a \in Nat /\ b \in Nat /\ dx \in Nat
    BY <1>3, <1>5, Scales
  <2>2. Address(c, dx, dy) = a + b + dx
    BY DEF Address
  <2>3. px = b + dx
    OBVIOUS
  <2> HIDE DEF a, b, px
  <2>4. a + b + dx = a + px
    BY <2>1, <2>3
  <2> QED
    BY <2>2, <2>4 DEF a
<1> QED
  BY <1>3, <1>4, <1>5, <1>6, <1>7 DEF Pixels

\* Every pixel lies in the block of one cell, the one FrameWhole expects there.
LEMMA PixelCell ==
  ASSUME NEW x \in 0 .. FB_W-1, NEW y \in 0 .. FB_H-1
  PROVE  /\ y*FB_W + x \in Pixels
         /\ CellAt(x, y) \in Cells
         /\ CellAt(x, y) = <<(x * SIM_W) \div FB_W, (y * SIM_H) \div FB_H>>
         /\ Writers[y*FB_W + x] = {CellAt(x, y)}
<1> DEFINE p == y*FB_W + x
           cx == x \div SCALE_X
           cy == y \div SCALE_Y
           dx == x - SCALE_X * cx
           dy == y - SCALE_Y * cy
<1>1. /\ cx \in 0 .. SIM_W-1 /\ dx \in 0 .. SCALE_X-1 /\ (x * SIM_W) \div FB_W = cx
      /\ \A k \in Nat, d \in 0 .. SCALE_X-1 : x = k*SCALE_X + d => k = cx
  <2>1. x \in 0 .. SIM_W*SCALE_X - 1
    BY Scales
  <2>2. /\ cx \in 0 .. SIM_W-1 /\ dx \in 0 .. SCALE_X-1
        /\ (x * SIM_W) \div (SIM_W*SCALE_X) = cx
        /\ \A k \in Nat, d \in 0 .. SCALE_X-1 : x = k*SCALE_X + d => k = cx
    <3>1. SIM_W \in Nat \ {0} /\ SCALE_X \in Nat \ {0}
      BY GridConstants, Scales
    <3> QED
      BY ONLY <2>1, <3>1, AxisCell
  <2> QED
    BY <2>2, Scales
<1>2. /\ cy \in 0 .. SIM_H-1 /\ dy \in 0 .. SCALE_Y-1 /\ (y * SIM_H) \div FB_H = cy
      /\ \A k \in Nat, d \in 0 .. SCALE_Y-1 : y = k*SCALE_Y + d => k = cy
  <2>1. y \in 0 .. SIM_H*SCALE_Y - 1
    BY Scales
  <2>2. /\ cy \in 0 .. SIM_H-1 /\ dy \in 0 .. SCALE_Y-1
        /\ (y * SIM_H) \div (SIM_H*SCALE_Y) = cy
        /\ \A k \in Nat, d \in 0 .. SCALE_Y-1 : y = k*SCALE_Y + d => k = cy
    <3>1. SIM_H \in Nat \ {0} /\ SCALE_Y \in Nat \ {0}
      BY GridConstants, Scales
    <3> QED
      BY ONLY <2>1, <3>1, AxisCell
  <2> QED
    BY <2>2, Scales
<1> DEFINE c == CellAt(x, y)
<1>3. c = <<cx, cy>> /\ c \in Cells /\ c[1] = cx /\ c[2] = cy
  BY <1>1, <1>2 DEF CellAt, Cells
<1>4. cx * SCALE_X + dx = x /\ cy * SCALE_Y + dy = y
  <2> HIDE DEF cx, cy
  <2>1. cx * SCALE_X = SCALE_X * cx /\ SCALE_X * cx \in Int /\ x \in Int
    BY <1>1, Scales, GridConstants
  <2>2. cy * SCALE_Y = SCALE_Y * cy /\ SCALE_Y * cy \in Int /\ y \in Int
    BY <1>2, Scales, GridConstants
  <2> QED
    BY <2>1, <2>2
<1> HIDE DEF cx, cy, dx, dy, c
<1>5. Address(c, dx, dy) = p /\ p \in Pixels
  BY <1>1, <1>2, <1>3, <1>4, Addresses
<1>6. p \in Block(c)
  BY <1>1, <1>2, <1>5 DEF Block
<1>7. ASSUME NEW d \in Cells, p \in Block(d)
      PROVE  d = c
  <2>1. PICK ex \in 0 .. SCALE_X-1, ey \in 0 .. SCALE_Y-1 : p = Address(d, ex, ey)
    BY <1>7 DEF Block
  <2> DEFINE px == d[1] * SCALE_X + ex
             py == d[2] * SCALE_Y + ey
  <2>2. px \in 0 .. FB_W-1 /\ py \in 0 .. FB_H-1 /\ p = py * FB_W + px
    BY <2>1, Addresses
  <2> HIDE DEF px, py
  <2>3. py = y /\ px = x
    <3>1. py \in Nat /\ y \in Nat
      BY <2>2, GridConstants
    <3> QED
      BY <2>2, <3>1, GridConstants, TwoDigits
  <2>4. d[1] \in Nat /\ d[2] \in Nat /\ d = <<d[1], d[2]>>
    BY GridConstants DEF Cells
  <2> QED
    BY <1>1, <1>2, <1>3, <2>3, <2>4 DEF px, py
<1>8. Writers[p] = {c}
  BY <1>3, <1>5, <1>6, <1>7 DEF Writers
<1> QED
  BY <1>1, <1>2, <1>3, <1>5, <1>8 DEF c

LEMMA PixelWriter ==
  ASSUME NEW x \in 0 .. FB_W-1, NEW y \in 0 .. FB_H-1
  PROVE  LastWriter[y*FB_W + x] = CellAt(x, y)
<1> DEFINE p == y*FB_W + x
           c == CellAt(x, y)
<1>1. p \in Pixels /\ c \in Cells /\ Writers[p] = {c}
  BY PixelCell
<1> HIDE DEF p, c
<1>2. c[2]*SIM_W + c[1] =< c[2]*SIM_W + c[1]
  <2>1. c[1] \in Int /\ c[2] \in Int
    BY <1>1, GridConstants DEF Cells
  <2>2. c[2]*SIM_W \in Int
    BY <2>1, GridConstants
  <2> QED
    BY <2>1, <2>2
<1>3. LastWriter[p] = CHOOSE w \in Writers[p] :
                        \A d \in Writers[p] : d[2]*SIM_W + d[1] =< w[2]*SIM_W + w[1]
  BY <1>1 DEF LastWriter
<1>4. LastWriter[p] \in {c}
  BY <1>1, <1>2, <1>3
<1> QED
  BY <1>4 DEF p, c

-----------------------------------------------------------------------------
(***************************************************************************)
(* Which colour a temperature has.                                         *)
(***************************************************************************)
\* A straight line between two channels, rounded, is a channel within half of a
\* unit of the line.
LEMMA LerpClose ==
  ASSUME NEW a \in 0 .. 255, NEW b \in 0 .. 255, NEW den \in Nat \ {0}, NEW num \in 0 .. den
  PROVE  /\ lerp_u8(a, b, num, den) \in 0 .. 255
         /\ 2 * (den * (lerp_u8(a, b, num, den) - a) - num * (b - a)) \in -den .. den
<1> DEFINE w == a * den + (b - a) * num
           e == 2 * den
           q == (2 * w + den) \div e
<1>1. w \in 0 .. 255 * den
  <2>1. w = a * (den - num) + b * num
    <3>1. (b - a) * num = b * num - a * num /\ a * (den - num) = a * den - a * num
      OBVIOUS
    <3>2. a * num \in Int /\ b * num \in Int /\ a * den \in Int
      OBVIOUS
    <3> QED
      BY <3>1, <3>2
  <2>2. /\ a * (den - num) \in Nat /\ b * num \in Nat
        /\ a * (den - num) =< 255 * (den - num) /\ b * num =< 255 * num
    OBVIOUS
  <2> HIDE DEF w
  <2> QED
    BY <2>1, <2>2
<1>2. lerp_u8(a, b, num, den) = q
  BY DEF lerp_u8
<1>3. /\ den * (q - a) = den * q - a * den /\ num * (b - a) = (b - a) * num
      /\ a * den \in Int /\ (b - a) * num \in Int
      /\ q \in Int => den * q \in Int
  <2> HIDE DEF q
  <2>1. q \in Int => den * (q - a) = den * q - a * den /\ den * q \in Int
    OBVIOUS
  <2>2. q \in Int
    <3>1. w \in Int /\ e \in Nat \ {0}
      BY <1>1
    <3> HIDE DEF w, e
    <3> QED
      BY <3>1 DEF q
  <2> QED
    BY <2>1, <2>2
<1>4. w = a * den + (b - a) * num /\ e = 2 * den
  OBVIOUS
<1> HIDE DEF w, e
<1>5. q \in Nat /\ e * q =< 2 * w + den /\ 2 * w + den < e * q + e
  <2>1. 2 * w + den \in Nat /\ e \in Nat \ {0}
    BY <1>1, <1>4
  <2> DEFINE z == 2 * w + den
  <2> HIDE DEF z
  <2>2. z \div e \in Nat /\ e * (z \div e) =< z /\ z < e * ((z \div e) + 1)
    BY <2>1, DivBounds DEF z
  <2>3. z \div e \in Nat => e * ((z \div e) + 1) = e * (z \div e) + e
    BY <2>1
  <2> QED
    BY <2>2, <2>3 DEF z
<1> HIDE DEF q
<1>6. e * q = 2 * (den * q) /\ den * q \in Nat
  BY <1>4, <1>5
<1>7. q =< 255
  <2>1. q >= 256 => den * q >= 256 * den
    BY <1>5
  <2> QED
    BY <1>1, <1>4, <1>5, <1>6, <2>1
<1>8. 2 * (den * (q - a) - num * (b - a)) \in -den .. den
  BY <1>1, <1>3, <1>4, <1>5, <1>6
<1> QED
  BY <1>2, <1>5, <1>7, <1>8

\* Three channels go into a pixel and come out again.
LEMMA Unpacked ==
  ASSUME NEW c, c[1] \in 0 .. 255, c[2] \in 0 .. 255, c[3] \in 0 .. 255
  PROVE  /\ Packed(c) \div 65536 = c[1]
         /\ (Packed(c) \div 256) % 256 = c[2]
         /\ Packed(c) % 256 = c[3]
<1> DEFINE r == c[1]
           g == c[2]
           b == c[3]
           x == Packed(c)
<1>1. r \in 0 .. 255 /\ g \in 0 .. 255 /\ b \in 0 .. 255 /\ x = (r * 256 + g) * 256 + b
  BY DEF Packed
<1> HIDE DEF r, g, b, x
<1>2. x = 65536 * r + 256 * g + b
  BY <1>1
<1>3. x \div 256 = r * 256 + g /\ x % 256 = b
  BY <1>1
<1>4. (r * 256 + g) % 256 = g
  BY <1>1
<1>5. x \div 65536 = r
  BY <1>1, <1>2
<1>6. x \div 65536 = r /\ (x \div 256) % 256 = g /\ x % 256 = b
  BY <1>3, <1>4, <1>5
<1> QED
  BY <1>6 DEF r, g, b, x

\* The stops of a palette: where they lie, in which order, and their colours.
LEMMA StopTypes ==
  ASSUME NEW p \in DOMAIN g_pal, NEW k \in 1 .. 4
  PROVE  g_pal[p][k] \in [t : 0 .. 100, c : [1 .. 3 -> 0 .. 255]]
<1> DEFINE Stop    == [t : 0 .. 100, c : [1 .. 3 -> 0 .. 255]]
           Palette == [1 .. 4 -> Stop]
<1>1. g_pal \in Seq(Palette)
  BY RamfbAssumption DEF RamfbAssumption
<1> HIDE DEF Stop
<1>2. g_pal[p] \in Palette
  <2> HIDE DEF Palette
  <2> QED
    BY <1>1
<1> QED
  BY <1>2 DEF Stop

LEMMA StopTimes ==
  ASSUME NEW p \in DOMAIN g_pal
  PROVE  \A k \in 1 .. 4 : g_pal[p][k].t \in 0 .. 100
BY StopTypes

LEMMA StopColours ==
  ASSUME NEW p \in DOMAIN g_pal, NEW k \in 1 .. 4, NEW ch \in 1 .. 3
  PROVE  g_pal[p][k].c[ch] \in 0 .. 255
<1>1. g_pal[p][k].c \in [1 .. 3 -> 0 .. 255]
  <2> DEFINE Colour == [1 .. 3 -> 0 .. 255]
  <2>1. g_pal[p][k] \in [t : 0 .. 100, c : Colour]
    BY StopTypes
  <2> HIDE DEF Colour
  <2>2. g_pal[p][k].c \in Colour
    BY <2>1
  <2> QED
    BY <2>2 DEF Colour
<1> QED
  BY <1>1

LEMMA StopOrder ==
  ASSUME NEW p \in DOMAIN g_pal
  PROVE  /\ g_pal[p][1].t = 0 /\ g_pal[p][4].t = 100
         /\ \A k \in 1 .. 3 : g_pal[p][k].t < g_pal[p][k + 1].t
BY RamfbAssumption DEF RamfbAssumption

\* The segment that sample_palette takes is the one the shade lies in, and its
\* channels are close to the line between the segment's ends.
LEMMA SampleClose ==
  ASSUME NEW p \in DOMAIN g_pal, NEW sh \in 0 .. Shades
  PROVE  \E k \in 1 .. 3 :
           /\ OnLine(p, k, sh, sample_palette(p, sh))
           /\ \A ch \in 1 .. 3 : sample_palette(p, sh)[ch] \in 0 .. 255
<1> DEFINE ok(k) == /\ sh * 100 =< g_pal[p][k].t * Shades
                    /\ \A l \in 2 .. k - 1 : sh * 100 > g_pal[p][l].t * Shades
           K == CHOOSE k \in 2 .. 4 : ok(k)
<1>1. Shades \in Nat \ {0}
  BY GridConstants
<1>2. /\ \A k \in 1 .. 4 : g_pal[p][k].t \in 0 .. 100
      /\ g_pal[p][1].t = 0 /\ g_pal[p][4].t = 100
      /\ g_pal[p][1].t < g_pal[p][2].t /\ g_pal[p][2].t < g_pal[p][3].t
      /\ g_pal[p][3].t < g_pal[p][4].t
  <2>1. \A k \in 1 .. 3 : g_pal[p][k].t < g_pal[p][k + 1].t
    BY StopOrder
  <2>2. g_pal[p][1].t < g_pal[p][1 + 1].t /\ g_pal[p][2].t < g_pal[p][2 + 1].t
        /\ g_pal[p][3].t < g_pal[p][3 + 1].t
    BY <2>1
  <2>3. 1 + 1 = 2 /\ 2 + 1 = 3 /\ 3 + 1 = 4
    OBVIOUS
  <2> QED
    BY ONLY <2>2, <2>3, p \in DOMAIN g_pal, StopTimes, StopOrder
<1>3. \E k \in 2 .. 4 : ok(k)
  <2>1. sh * 100 =< g_pal[p][4].t * Shades
    BY <1>1, <1>2
  <2>2. \A k \in 2 .. 4 : g_pal[p][k].t * Shades \in Int
    BY <1>1, <1>2
  <2>3. 2 .. 2 - 1 = {} /\ 2 .. 3 - 1 = {2} /\ 2 .. 4 - 1 = {2, 3}
    OBVIOUS
  <2>4. sh * 100 \in Int
    BY <1>1
  <2> QED
    BY <2>1, <2>2, <2>3, <2>4
<1>4. K \in 2 .. 4 /\ ok(K)
  BY <1>3
<1>5. sample_palette(p, sh) =
        [ch \in 1 .. 3 |->
           lerp_u8(g_pal[p][K - 1].c[ch], g_pal[p][K].c[ch],
                   sh * 100 - g_pal[p][K - 1].t * Shades,
                   (g_pal[p][K].t - g_pal[p][K - 1].t) * Shades)]
  BY DEF sample_palette
<1> HIDE DEF K
<1> DEFINE j == K - 1
           s == g_pal[p][j]
           e == g_pal[p][j + 1]
           num == sh * 100 - s.t * Shades
           den == (e.t - s.t) * Shades
<1>6. j \in 1 .. 3 /\ j + 1 = K /\ (K # 2 => j \in 2 .. K - 1)
  BY <1>4
<1>7. /\ s.t \in 0 .. 100 /\ e.t \in 0 .. 100 /\ s.t < e.t
      /\ \A ch \in 1 .. 3 : s.c[ch] \in 0 .. 255 /\ e.c[ch] \in 0 .. 255
  <2>1. j \in 1 .. 4 /\ j + 1 \in 1 .. 4
    BY <1>6
  <2> HIDE DEF j
  <2>2. s.t \in 0 .. 100 /\ \A ch \in 1 .. 3 : s.c[ch] \in 0 .. 255
    <3>1. s.t \in 0 .. 100
      BY <2>1, StopTimes
    <3>2. ASSUME NEW ch \in 1 .. 3 PROVE s.c[ch] \in 0 .. 255
      BY <2>1, StopColours
    <3> QED
      BY <3>1, <3>2
  <2>3. e.t \in 0 .. 100 /\ \A ch \in 1 .. 3 : e.c[ch] \in 0 .. 255
    <3>1. e.t \in 0 .. 100
      BY <2>1, StopTimes
    <3>2. ASSUME NEW ch \in 1 .. 3 PROVE e.c[ch] \in 0 .. 255
      BY <2>1, StopColours
    <3> QED
      BY <3>1, <3>2
  <2>4. s.t < e.t
    BY <1>6, StopOrder
  <2> HIDE DEF s, e
  <2> QED
    BY <2>2, <2>3, <2>4
<1>8. sh * 100 =< e.t * Shades
  BY <1>4, <1>6
<1>9. sh * 100 >= s.t * Shades
  <2>1. CASE K = 2
    BY <1>1, <1>2, <2>1
  <2>2. CASE K # 2
    <3>1. sh * 100 > s.t * Shades
      BY <1>4, <1>6, <2>2
    <3>2. s.t * Shades \in Int /\ sh * 100 \in Int
      <4> HIDE DEF j, s
      <4> QED
        BY <1>1, <1>7
    <3> QED
      BY <3>1, <3>2
  <2> QED
    BY <2>1, <2>2
<1>10. sample_palette(p, sh) = [ch \in 1 .. 3 |-> lerp_u8(s.c[ch], e.c[ch], num, den)]
  BY <1>5, <1>6
<1>12. num = sh * 100 - s.t * Shades /\ den = (e.t - s.t) * Shades
  OBVIOUS
<1> HIDE DEF num, den, j, s, e
<1>11. den \in Nat \ {0} /\ num \in 0 .. den
  <2>1. den = e.t * Shades - s.t * Shades /\ den >= Shades
    <3>1. \A x, y \in Int : x < y => /\ (y - x) * Shades = y * Shades - x * Shades
                                     /\ (y - x) * Shades >= Shades
      BY <1>1
    <3>2. s.t \in Int /\ e.t \in Int /\ s.t < e.t
      BY <1>7
    <3>3. /\ (e.t - s.t) * Shades = e.t * Shades - s.t * Shades
          /\ (e.t - s.t) * Shades >= Shades
      BY <3>1, <3>2, Zenon
    <3> QED
      BY <1>12, <3>3, Zenon
  <2>2. s.t * Shades \in Int /\ e.t * Shades \in Int /\ sh * 100 \in Int
    BY <1>1, <1>7
  <2> QED
    BY <1>1, <1>8, <1>9, <1>12, <2>1, <2>2
<1>13. ASSUME NEW ch \in 1 .. 3
       PROVE  /\ sample_palette(p, sh)[ch] \in 0 .. 255
              /\ 2 * (den * (sample_palette(p, sh)[ch] - s.c[ch])
                        - num * (e.c[ch] - s.c[ch])) \in -den .. den
  <2>1. sample_palette(p, sh)[ch] = lerp_u8(s.c[ch], e.c[ch], num, den)
    BY <1>10
  <2>2. s.c[ch] \in 0 .. 255 /\ e.c[ch] \in 0 .. 255
    BY <1>7
  <2> DEFINE a == s.c[ch]
             b == e.c[ch]
  <2>3. /\ lerp_u8(a, b, num, den) \in 0 .. 255
        /\ 2 * (den * (lerp_u8(a, b, num, den) - a) - num * (b - a)) \in -den .. den
    <3> HIDE DEF a, b
    <3>1. a \in 0 .. 255 /\ b \in 0 .. 255
      BY <2>2 DEF a, b
    <3> QED
      BY ONLY <1>11, <3>1, LerpClose
  <2> QED
    BY <2>1, <2>3
<1>14. OnLine(p, j, sh, sample_palette(p, sh))
  BY <1>11, <1>13 DEF OnLine, num, den, s, e
<1> QED
  BY <1>6, <1>13, <1>14

\* Every entry of the tables is the colour its shade should have.
LEMMA TableRight ==
  ASSUME NEW q \in Palettes, NEW t \in 0 .. Hot
  PROVE  Right24(q, t, build_luts[q][(t * Shades) \div Hot])
<1> DEFINE sh == (t * Shades) \div Hot
           c == sample_palette(q + 1, sh)
<1>1. Hot \in Nat \ {0} /\ Shades \in Nat \ {0} /\ t \in Nat /\ t =< Hot
  BY GridConstants
<1>2. sh \in 0 .. Shades
  <2>1. t * Shades \in Nat /\ t * Shades =< Hot * Shades
    BY <1>1
  <2>2. sh \in Nat /\ Hot * sh =< t * Shades
    BY <1>1, <2>1, DivBounds
  <2> HIDE DEF sh
  <2>3. sh >= Shades + 1 => Hot * sh >= Hot * (Shades + 1)
    BY <1>1, <2>2
  <2>4. Hot * (Shades + 1) = Hot * Shades + Hot /\ Hot * sh \in Nat /\ Hot * Shades \in Nat
    BY <1>1, <2>2
  <2> QED
    BY <1>1, <2>1, <2>2, <2>3, <2>4
<1>3. q + 1 \in DOMAIN g_pal
  BY GridConstants DEF Palettes
<1>4. build_luts[q][sh] = Packed(c)
  BY <1>2 DEF build_luts
<1> HIDE DEF sh
<1>5. PICK k \in 1 .. 3 : OnLine(q + 1, k, sh, c) /\ \A ch \in 1 .. 3 : c[ch] \in 0 .. 255
  BY <1>2, <1>3, SampleClose
<1> HIDE DEF c
<1> DEFINE x == Packed(c)
           channel == <<x \div 65536, (x \div 256) % 256, x % 256>>
<1>6. x \div 65536 = c[1] /\ (x \div 256) % 256 = c[2] /\ x % 256 = c[3]
  <2>1. c[1] \in 0 .. 255 /\ c[2] \in 0 .. 255 /\ c[3] \in 0 .. 255
    BY <1>5
  <2> QED
    BY <2>1, Unpacked
<1>7. \A ch \in 1 .. 3 : channel[ch] = c[ch]
  <2>1. channel[1] = c[1] /\ channel[2] = c[2] /\ channel[3] = c[3]
    BY <1>6
  <2> HIDE DEF channel
  <2> QED
    BY <2>1
<1>8. OnLine(q + 1, k, sh, channel)
  <2> HIDE DEF channel
  <2> QED
    BY <1>5, <1>7 DEF OnLine
<1>9. Right24(q, t, x)
  BY <1>8 DEF Right24, sh
<1> HIDE DEF x
<1> QED
  BY <1>4, <1>9, Zenon DEF sh, x

-----------------------------------------------------------------------------
(***************************************************************************)
(* The main loop.                                                          *)
(***************************************************************************)
\* From the reset of the field on, main simulates.
Simulating == \/ phase \in {"step", "render", "count"}
              \/ phase = "delay" /\ back = "step"

\* Then the tables are built and the field holds levels; a frame that is drawn
\* but not counted yet shows the field cell for cell.
Pictured ==
  /\ phase \in {"fill", "delay", "reset", "step", "render", "count"}
  /\ back \in {"none", "reset", "step"}
  /\ phase = "delay" => back # "none"
  /\ pal \in Palettes
  /\ Simulating => g_lut = build_luts /\ g_field \in [Cells -> 0 .. Hot]
  /\ phase = "count" =>
       \A x \in 0 .. FB_W-1, y \in 0 .. FB_H-1 :
         fb[y*FB_W + x] = Color(pal, g_field[CellAt(x, y)])

LEMMA PicturedStep ==
  ASSUME Pictured, [DemoNext]_DemoVars
  PROVE  Pictured'
<1>1. CASE Fill
  BY <1>1 DEF Pictured, Simulating, Fill, Delay, DelayFrom
<1>2. CASE ResetField
  <2>1. [c \in Cells |-> Warm] \in [Cells -> 0 .. Hot]
    BY GridConstants
  <2>2. g_lut' = build_luts /\ g_field' \in [Cells -> 0 .. Hot]
    BY <1>2, <2>1 DEF ResetField
  <2> QED
    BY <1>2, <2>2 DEF Pictured, Simulating, ResetField
<1>3. CASE StepSim
  <2>1. g_lut = build_luts /\ g_field \in [Cells -> 0 .. Hot]
    BY <1>3 DEF StepSim, Pictured, Simulating
  <2>2. g_field' \in [Cells -> 0 .. Hot]
    BY <1>3, <2>1, NextFieldType DEF StepSim
  <2> QED
    BY <1>3, <2>1, <2>2 DEF Pictured, Simulating, StepSim
<1>4. CASE Render
  <2>1. g_lut = build_luts /\ g_field \in [Cells -> 0 .. Hot]
    BY <1>4 DEF Render, Pictured, Simulating
  <2>2. ASSUME NEW x \in 0 .. FB_W-1, NEW y \in 0 .. FB_H-1
        PROVE  fb'[y*FB_W + x] = Color(pal, g_field[CellAt(x, y)])
    <3> DEFINE p == y*FB_W + x
    <3>1. p \in Pixels /\ Writers[p] = {CellAt(x, y)} /\ LastWriter[p] = CellAt(x, y)
      BY PixelCell, PixelWriter
    <3> HIDE DEF p
    <3>2. fb' = [q \in Pixels |->
                   IF Writers[q] = {} THEN fb[q] ELSE Color(pal, g_field[LastWriter[q]])]
      BY <1>4 DEF Render
    <3>3. fb'[p] = Color(pal, g_field[CellAt(x, y)])
      BY <3>1, <3>2
    <3> QED
      BY <3>3 DEF p
  <2>3. pal' = pal /\ g_field' = g_field /\ g_lut' = g_lut /\ back' = back /\ phase' = "count"
    BY <1>4 DEF Render
  <2>4. \A c : Color(pal, c)' = Color(pal, c)
    BY <2>3 DEF Color
  <2> QED
    BY <2>1, <2>2, <2>3, <2>4 DEF Pictured, Simulating, CellAt, Color
<1>5. CASE Count
  <2>1. pal' \in Palettes
    <3>1. pal \in Nat /\ Len(g_pal) \in Nat \ {0}
      BY GridConstants DEF Pictured, Palettes
    <3>2. (pal + 1) % Len(g_pal) \in 0 .. Len(g_pal) - 1
      BY <3>1
    <3> QED
      BY <1>5, <3>2 DEF Count, Palettes, Pictured
  <2> QED
    BY <1>5, <2>1 DEF Pictured, Simulating, Count, Delay, DelayFrom
<1>6. CASE Wait \/ UNCHANGED demo
  BY <1>6 DEF Pictured, Simulating, Color, Wait, demo, sim
<1>7. CASE Return
  BY <1>7 DEF Pictured, Simulating, Color, Return
<1> QED
  BY <1>1, <1>2, <1>3, <1>4, <1>5, <1>6, <1>7 DEF DemoNext, Demo, DemoVars

LEMMA PicturedAlways == DemoSpec => []Pictured
<1>1. DemoInit => Pictured
  BY GridConstants DEF DemoInit, Pictured, Simulating, Palettes
<1>2. QED
  BY <1>1, PicturedStep, PTL DEF DemoSpec

\* Every frame that is drawn covers the whole screen, each pixel in the colour of
\* its cell's temperature, for every screen, grid and palette table.
THEOREM FramesWhole == DemoSpec => []FrameWhole
<1>1. Pictured => FrameWhole
  <2> SUFFICES ASSUME Pictured, phase = "count"
               PROVE  /\ \A c \in Cells : Block(c) \subseteq Pixels
                      /\ \A x \in 0 .. FB_W-1, y \in 0 .. FB_H-1 :
                           Right24(pal, g_field[<<(x * SIM_W) \div FB_W, (y * SIM_H) \div FB_H>>],
                                   fb[y*FB_W + x])
    BY DEF FrameWhole
  <2>1. \A c \in Cells : Block(c) \subseteq Pixels
    BY Addresses DEF Block
  <2>2. ASSUME NEW x \in 0 .. FB_W-1, NEW y \in 0 .. FB_H-1
        PROVE  Right24(pal, g_field[<<(x * SIM_W) \div FB_W, (y * SIM_H) \div FB_H>>],
                       fb[y*FB_W + x])
    <3> DEFINE t == g_field[CellAt(x, y)]
    <3>1. pal \in Palettes /\ g_lut = build_luts /\ g_field \in [Cells -> 0 .. Hot]
      BY DEF Pictured, Simulating
    <3>2. t \in 0 .. Hot /\ CellAt(x, y) = <<(x * SIM_W) \div FB_W, (y * SIM_H) \div FB_H>>
      BY <3>1, PixelCell
    <3>3. fb[y*FB_W + x] = build_luts[pal][(t * Shades) \div Hot]
      BY <3>1 DEF Pictured, Color
    <3> HIDE DEF t
    <3>4. Right24(pal, t, build_luts[pal][(t * Shades) \div Hot])
      BY <3>1, <3>2, TableRight
    <3> QED
      BY <3>2, <3>3, <3>4 DEF t
  <2> QED
    BY <2>1, <2>2
<1>2. QED
  BY <1>1, PicturedAlways, PTL

\* The simulation conducts and cools and does nothing else, for every grid, every
\* rate that is stable and every field.
THEOREM FieldLawful == DemoSpec => FieldLaw
<1>1. ASSUME Pictured, StepSim, NEW c \in Cells
      PROVE  CASE c \notin Interior -> g_field'[c] = 0
               [] c \in SourceDisk  -> g_field'[c] = Hot
               [] OTHER -> \E lo, hi \in Neighbours(c) \cup {c} :
                             /\ g_field'[c] =< g_field[hi]
                             /\ (g_field'[c] + 1) * Unit >= g_field[lo] * (Unit - Cooling)
  <2>1. g_field \in [Cells -> 0 .. Hot]
    BY <1>1 DEF Pictured, Simulating, StepSim
  <2>2. g_field'[c] = IF c \in SourceDisk THEN Hot
                      ELSE IF c \in Interior THEN Next01(g_field, c) ELSE 0
    BY <1>1 DEF StepSim, NextField
  <2>3. SourceDisk \subseteq Interior
    BY DEF SourceDisk
  <2>4. CASE c \notin Interior
    BY <2>2, <2>3, <2>4
  <2>5. CASE c \in SourceDisk
    BY <2>2, <2>3, <2>5
  <2>6. CASE c \in Interior /\ c \notin SourceDisk
    <3>1. \E lo, hi \in Neighbours(c) \cup {c} :
            /\ Next01(g_field, c) =< g_field[hi]
            /\ (Next01(g_field, c) + 1) * Unit >= g_field[lo] * (Unit - Cooling)
      BY <2>1, <2>6, InnerStep
    <3>2. g_field'[c] = Next01(g_field, c)
      BY <2>2, <2>6
    <3> QED
      BY <2>6, <3>1, <3>2
  <2> QED
    BY <2>4, <2>5, <2>6
<1>2. Pictured /\ StepSim =>
        \A c \in Cells :
          CASE c \notin Interior -> g_field'[c] = 0
            [] c \in SourceDisk  -> g_field'[c] = Hot
            [] OTHER -> \E lo, hi \in Neighbours(c) \cup {c} :
                          /\ g_field'[c] =< g_field[hi]
                          /\ (g_field'[c] + 1) * Unit >= g_field[lo] * (Unit - Cooling)
  BY <1>1
<1>3. QED
  BY <1>2, PicturedAlways, PTL DEF DemoSpec, FieldLaw

-----------------------------------------------------------------------------
(***************************************************************************)
(* The start-up code.                                                      *)
(***************************************************************************)
\* Where a core is.  What core 0, the only one that clears, has cleared are the
\* whole words below its pointer; in matrix-mul its two registers count the same
\* words.
Core(c) ==
  /\ cpu[c].pc = "reset" => cpu[c].ptr = 0 /\ cpu[c].left = size
  /\ cpu[c].pc = "parked" => ~IsMaster(c)
  /\ cpu[c].pc \in {"clear", "main"} => IsMaster(c)
  /\ cpu[c].pc = "main" => cpu[c].ptr >= size
  /\ IsMaster(c) => cleared = 0 .. cpu[c].ptr - 1
  /\ cpu[c].ptr =< size + 7
  /\ program = "matmul" => /\ cpu[c].ptr + cpu[c].left = size
                           /\ cpu[c].left % 8 = 0
                           /\ cpu[c].pc = "clear" => cpu[c].left # 0

Booted ==
  /\ program \in Programs /\ size \in Nat
  /\ program = "matmul" => size % 8 = 0
  /\ cpu \in [CoresOf(program) -> [pc : {"reset", "parked", "clear", "main"}, ptr : Nat, left : Nat]]
  /\ \A c \in DOMAIN cpu : Core(c)
  /\ (\A c \in DOMAIN cpu : ~IsMaster(c)) => cleared = {}
  /\ program = "ramfb" =>
       /\ fp \in [el : {1, 2}, tfp : {0, 1}, fpen : 0 .. 3]
       /\ \A c \in DOMAIN cpu : cpu[c].pc # "reset" => FpUsable

\* Only core 0 of those that enter _start is taken for it.
LEMMA OneMaster ==
  /\ \A p : CoresOf(p) \subseteq 0 .. 255
  /\ \A c \in 0 .. 255 : IsMaster(c) <=> c = 0
  /\ \A p : p # "matmul" => CoresOf(p) \subseteq {0}
  BY StartAssumption DEF StartAssumption, CoresOf, IsMaster

LEMMA StartsBooted == StartInit => Booted
<1> SUFFICES ASSUME StartInit PROVE Booted
  OBVIOUS
<1>1. size \in Nat /\ (program = "matmul" => size % 8 = 0)
  BY StartAssumption DEF StartInit, StartAssumption, SizesOf
<1>2. program = "ramfb" => fp \in [el : {1, 2}, tfp : {0, 1}, fpen : 0 .. 3]
  BY DEF StartInit, FpAtReset
<1>3. /\ DOMAIN cpu = CoresOf(program)
      /\ \A c \in DOMAIN cpu : cpu[c] = [pc |-> "reset", ptr |-> 0, left |-> size]
  BY DEF StartInit
<1>4. cleared = {} /\ 0 .. 0 - 1 = {}
  BY DEF StartInit
<1> QED
  BY <1>1, <1>2, <1>3, <1>4 DEF StartInit, Booted, Core

\* A core leaves reset: it parks, or begins to clear, or is done with an empty
\* .bss.
LEMMA EnterOK ==
  ASSUME Booted, NEW c \in DOMAIN cpu, Enter(c)
  PROVE  Booted'
<1>1. /\ c \in 0 .. 255 /\ (IsMaster(c) <=> c = 0) /\ DOMAIN cpu = CoresOf(program)
      /\ program # "matmul" => DOMAIN cpu \subseteq {0}
      /\ \A d \in DOMAIN cpu : d \in 0 .. 255 /\ (IsMaster(d) <=> d = 0)
  <2>1. DOMAIN cpu = CoresOf(program)
    BY DEF Booted, Core
  <2> QED
    BY <2>1, OneMaster
<1>2. cpu[c].pc = "reset" /\ cpu[c].ptr = 0 /\ cpu[c].left = size
  BY DEF Booted, Core, Enter
<1>3. program = "ramfb" => /\ fp' \in [el : {1, 2}, tfp : {0, 1}, fpen : 0 .. 3]
                           /\ FpUsable'
  <2> SUFFICES ASSUME program = "ramfb"
               PROVE  fp' \in [el : {1, 2}, tfp : {0, 1}, fpen : 0 .. 3] /\ FpUsable'
    OBVIOUS
  <2>1. /\ fp \in [el : {1, 2}, tfp : {0, 1}, fpen : 0 .. 3]
        /\ fp' = [fp EXCEPT !.tfp = IF fp.el = 2 THEN 0 ELSE @, !.fpen = 3]
    BY DEF Booted, Core, Enter
  <2>2. fp'.fpen = 3 /\ fp'.tfp = (IF fp.el = 2 THEN 0 ELSE fp.tfp) /\ fp'.el = fp.el
    BY <2>1
  <2>3. fp' \in [el : {1, 2}, tfp : {0, 1}, fpen : 0 .. 3]
    <3>1. 0 \in {0, 1} /\ 3 \in 0 .. 3 /\ fp.tfp \in {0, 1}
      BY <2>1
    <3>2. \A t \in {0, 1}, k \in 0 .. 3 :
            [fp EXCEPT !.tfp = t, !.fpen = k] \in [el : {1, 2}, tfp : {0, 1}, fpen : 0 .. 3]
      BY <2>1
    <3> QED
      BY <2>1, <3>1, <3>2
  <2> QED
    BY <2>2, <2>3 DEF FpUsable
<1>4. program # "ramfb" => fp' = fp
  BY DEF Enter
<1> DEFINE new == IF program # "matmul" THEN "clear"
                  ELSE IF ~IsMaster(c) THEN "parked"
                  ELSE IF size = 0 THEN "main" ELSE "clear"
<1>5. cpu' = [cpu EXCEPT ![c].pc = new]
  BY DEF Enter
<1>6. /\ DOMAIN cpu' = DOMAIN cpu
      /\ \A d \in DOMAIN cpu : /\ cpu'[d].ptr = cpu[d].ptr /\ cpu'[d].left = cpu[d].left
                               /\ cpu'[d].pc = IF d = c THEN new ELSE cpu[d].pc
      /\ cpu' \in [CoresOf(program) -> [pc : {"reset", "parked", "clear", "main"}, ptr : Nat, left : Nat]]
  <2>1. cpu \in [CoresOf(program) -> [pc : {"reset", "parked", "clear", "main"}, ptr : Nat, left : Nat]]
    BY DEF Booted, Core
  <2>2. new \in {"reset", "parked", "clear", "main"}
    OBVIOUS
  <2> HIDE DEF new
  <2> QED
    BY <1>5, <2>1, <2>2
<1>7. /\ new = "clear" => IsMaster(c)
      /\ new = "main" => IsMaster(c) /\ size = 0
      /\ new = "parked" => ~IsMaster(c)
      /\ new # "reset"
      /\ new = "clear" /\ program = "matmul" => size # 0
  BY <1>1
<1> HIDE DEF new
<1>8. /\ program' = program /\ size' = size /\ cleared' = cleared
      /\ (CoresOf(program))' = CoresOf(program)
  BY DEF Enter, CoresOf
<1>9. ASSUME NEW d \in DOMAIN cpu'
      PROVE  Core(d)'
  <2>1. Core(d)
    BY <1>6 DEF Booted, Core
  <2>2. CASE d = c
    BY <1>2, <1>6, <1>7, <1>8, <2>1, <2>2 DEF Core
  <2>3. CASE d # c
    BY <1>6, <1>8, <2>1, <2>3 DEF Core
  <2> QED
    BY <2>2, <2>3
<1>10. program' = "ramfb" => \A d \in DOMAIN cpu' : cpu'[d].pc # "reset" => FpUsable'
  BY <1>3, <1>8
<1> QED
  BY <1>3, <1>6, <1>8, <1>9, <1>10 DEF Booted, Core

\* A word is cleared, by either loop.
LEMMA StoreOK ==
  ASSUME Booted, NEW c \in DOMAIN cpu, CountedStore(c) \/ ComparedStore(c)
  PROVE  Booted'
<1>1. /\ c \in 0 .. 255 /\ (IsMaster(c) <=> c = 0) /\ DOMAIN cpu = CoresOf(program)
      /\ \A d \in DOMAIN cpu : d \in 0 .. 255 /\ (IsMaster(d) <=> d = 0)
  <2>1. DOMAIN cpu = CoresOf(program)
    BY DEF Booted, Core
  <2> QED
    BY <2>1, OneMaster
<1>2. cpu[c].pc = "clear" /\ c = 0 /\ cpu[c].ptr \in Nat /\ cpu[c].left \in Nat
  BY <1>1 DEF Booted, Core, CountedStore, ComparedStore
<1>3. cleared' = 0 .. cpu[c].ptr + 7
  <2>1. cleared = 0 .. cpu[c].ptr - 1
    BY <1>1, <1>2 DEF Booted, Core
  <2>2. cleared' = cleared \cup (cpu[c].ptr .. cpu[c].ptr + 7)
    BY DEF CountedStore, ComparedStore, ClearWord
  <2> QED
    BY <1>2, <2>1, <2>2
<1>4. /\ DOMAIN cpu' = DOMAIN cpu
      /\ \A d \in DOMAIN cpu \ {c} : cpu'[d] = cpu[d]
      /\ cpu'[c].ptr = cpu[c].ptr + 8
  BY DEF Booted, Core, CountedStore, ComparedStore
<1>5. CASE CountedStore(c)
  <2>1. cpu[c].left % 8 = 0 /\ cpu[c].left # 0 /\ cpu[c].ptr + cpu[c].left = size
    BY <1>2, <1>5 DEF Booted, Core, CountedStore
  <2>2. cpu[c].left - 8 \in Nat /\ (cpu[c].left - 8) % 8 = 0
    BY <1>2, <2>1
  <2>3. cpu'[c] = [pc |-> IF cpu[c].left = 8 THEN "main" ELSE "clear",
                   ptr |-> cpu[c].ptr + 8, left |-> cpu[c].left - 8]
    BY <1>5 DEF CountedStore, Booted, Core
  <2>4. cpu' \in [CoresOf(program) -> [pc : {"reset", "parked", "clear", "main"}, ptr : Nat, left : Nat]]
    BY <1>2, <2>2, <2>3, <1>5 DEF CountedStore, Booted, Core
  <2>5. /\ program' = program /\ size' = size /\ fp' = fp /\ program = "matmul"
    BY <1>5 DEF CountedStore
  <2>6. /\ cpu'[c].ptr = cpu[c].ptr + 8 /\ cpu'[c].left = cpu[c].left - 8
        /\ cpu'[c].pc = IF cpu[c].left = 8 THEN "main" ELSE "clear"
    BY <2>3
  <2>7. CoresOf(program)' = CoresOf(program)
    BY <2>5 DEF CoresOf
  <2>8. ASSUME NEW d \in DOMAIN cpu'
        PROVE  Core(d)'
    <3>1. Core(d)
      BY <1>4 DEF Booted, Core
    <3>2. CASE d = c
      <4>1. cleared' = 0 .. cpu'[c].ptr - 1
        BY <1>2, <1>3, <2>6
      <4>2. cpu[c].left >= 8
        <5>1. \A x \in Nat : x % 8 = 0 /\ x # 0 => x >= 8
          OBVIOUS
        <5> QED
          BY <1>2, <2>1, <5>1, Zenon
      <4>3. /\ cpu'[c].ptr + cpu'[c].left = size /\ cpu'[c].ptr =< size + 7
            /\ cpu[c].left = 8 => cpu'[c].ptr >= size
            /\ cpu'[c].left % 8 = 0
        BY <1>2, <2>1, <2>2, <2>6, <4>2
      <4>4. cpu'[c].pc = "clear" => cpu'[c].left # 0
        BY <1>2, <2>6
      <4>5. cpu'[c].pc \in {"clear", "main"} /\ (cpu'[c].pc = "main" => cpu[c].left = 8)
        BY <2>6
      <4>6. IsMaster(c)
        BY <1>1, <1>2
      <4> QED
        BY <2>5, <3>2, <4>1, <4>3, <4>4, <4>5, <4>6 DEF Core
    <3>3. CASE d # c
      BY <1>1, <1>2, <1>4, <2>5, <3>1, <3>3 DEF Core
    <3> QED
      BY <3>2, <3>3
  <2> QED
    BY <1>1, <1>2, <1>4, <2>4, <2>5, <2>7, <2>8 DEF Booted, Core
<1>6. CASE ComparedStore(c)
  <2>1. cpu' = [cpu EXCEPT ![c].ptr = @ + 8] /\ cpu[c].ptr < size /\ program # "matmul"
    BY <1>6 DEF ComparedStore
  <2>2. cpu'[c].pc = "clear" /\ cpu'[c].left = cpu[c].left
    BY <1>2, <2>1 DEF Booted, Core
  <2>3. cpu' \in [CoresOf(program) -> [pc : {"reset", "parked", "clear", "main"}, ptr : Nat, left : Nat]]
    BY <1>2, <2>1 DEF Booted, Core
  <2> QED
    BY <1>1, <1>2, <1>3, <1>4, <1>6, <2>1, <2>2, <2>3 DEF Booted, Core, ComparedStore, FpUsable
<1> QED
  BY <1>5, <1>6

LEMMA CallOK ==
  ASSUME Booted, NEW c \in DOMAIN cpu, CallMain(c)
  PROVE  Booted'
<1>1. cpu[c].pc = "clear" /\ cpu[c].ptr >= size /\ cpu' = [cpu EXCEPT ![c].pc = "main"]
  BY DEF CallMain
<1>2. /\ DOMAIN cpu' = DOMAIN cpu
      /\ \A d \in DOMAIN cpu : /\ cpu'[d].ptr = cpu[d].ptr /\ cpu'[d].left = cpu[d].left
                               /\ cpu'[d].pc = IF d = c THEN "main" ELSE cpu[d].pc
      /\ cpu' \in [CoresOf(program) -> [pc : {"reset", "parked", "clear", "main"}, ptr : Nat, left : Nat]]
  BY <1>1 DEF Booted, Core
<1> QED
  BY <1>1, <1>2 DEF Booted, Core, CallMain, FpUsable

LEMMA BootedStep ==
  ASSUME Booted, [SerialNext]_serialVars
  PROVE  Booted'
<1>1. CASE StartNext
  BY <1>1, EnterOK, StoreOK, CallOK DEF StartNext, Boot
<1>2. CASE UNCHANGED startVars
  BY <1>2 DEF startVars, Booted, Core, FpUsable
<1> QED
  BY <1>1, <1>2 DEF SerialNext, Program, StartCode, Transmit, Putc, UartInit, Greet, CountUp,
                    Title, FillMatrices, Multiply, Result, serialVars

\* Whatever cores enter _start and however long .bss is, main runs on core 0
\* alone, over zeroed memory and, in the ramfb program, with floating point
\* usable, and no start-up code writes past the last word of .bss.
THEOREM StartSafe == SerialSpec => []MainReady
<1>1. SerialInit => Booted
  BY StartsBooted DEF SerialInit
<1>2. Booted => MainReady
  <2> SUFFICES ASSUME Booted PROVE MainReady
    OBVIOUS
  <2>1. \A d \in DOMAIN cpu : d \in 0 .. 255 /\ (IsMaster(d) <=> d = 0)
    BY OneMaster DEF Booted, Core
  <2>2. /\ cleared \subseteq 0 .. size + 6
        /\ program = "matmul" => cleared \subseteq 0 .. size - 1
    <3>1. CASE \A c \in DOMAIN cpu : ~IsMaster(c)
      BY <3>1 DEF Booted, Core
    <3>2. CASE \E c \in DOMAIN cpu : IsMaster(c)
      <4> PICK c \in DOMAIN cpu : IsMaster(c)
        BY <3>2
      <4>1. cleared = 0 .. cpu[c].ptr - 1 /\ cpu[c].ptr \in Nat /\ cpu[c].left \in Nat /\ size \in Nat
        BY DEF Booted, Core
      <4>2. cpu[c].ptr =< size + 7 /\ (program = "matmul" => cpu[c].ptr =< size)
        BY <4>1 DEF Booted, Core
      <4> QED
        BY <4>1, <4>2
    <3> QED
      BY <3>1, <3>2
  <2>3. ASSUME NEW c \in DOMAIN cpu, cpu[c].pc = "main"
        PROVE  /\ c = 0 /\ 0 .. size - 1 \subseteq cleared
               /\ program = "ramfb" => FpUsable
    <3>1. cleared = 0 .. cpu[c].ptr - 1 /\ cpu[c].ptr >= size /\ cpu[c].ptr \in Nat /\ size \in Nat
      BY <2>3 DEF Booted, Core
    <3> QED
      BY <2>1, <2>3, <3>1 DEF Booted, Core
  <2> QED
    BY <2>2, <2>3 DEF MainReady
<1>3. QED
  BY <1>1, <1>2, BootedStep, PTL DEF SerialSpec

-----------------------------------------------------------------------------
(***************************************************************************)
(* The UART.                                                               *)
(***************************************************************************)
\* How far hello has come with uart_init, and what the UART holds by then.  The
\* divisors reach the baud rate generator while the UART is off, and nothing is
\* sent before all the writes are done.  The other programs find them there.
Registers == {"on", "fen", "ibrd", "fbrd", "baud", "fifo"}

Tuned ==
  /\ uart = [r \in Registers |-> uart[r]]
  /\ main = [pc |-> main.pc, n |-> main.n, i |-> main.i, k |-> main.k, j |-> main.j]
  /\ program # "hello" => uart.baud = <<13, 1>>
  /\ program = "hello" =>
       /\ main.n \in 0 .. 7
       /\ main.pc \in {"begin", "greet", "halt"}
       /\ main.pc = "begin" => main.n # 7 /\ out = <<>> /\ uart.fifo = <<>>
       /\ main.pc # "begin" => main.n = 7
       /\ main.n \in 1 .. 6 => ~uart.on
       /\ main.n >= 3 => uart.ibrd = 13
       /\ main.n >= 4 => uart.fbrd = 1
       /\ main.n >= 5 => uart.baud = <<13, 1>>

\* One register is set.
LEMMA RegisterSet ==
  ASSUME NEW u, u = [r \in Registers |-> u[r]], NEW x \in Registers, NEW v,
         NEW w, w = [u EXCEPT ![x] = v]
  PROVE  /\ w = [r \in Registers |-> w[r]]
         /\ w[x] = v
         /\ \A r \in Registers \ {x} : w[r] = u[r]
OBVIOUS

LEMMA UartInitOK ==
  ASSUME Tuned, UartInit
  PROVE  Tuned' /\ (uart.on => uart'.baud = uart.baud) /\ uart'.fifo = uart.fifo
<1>1. /\ program = "hello" /\ main.pc = "begin" /\ main.n \in 0 .. 6 /\ program' = program
      /\ out = <<>> /\ out' = out /\ uart.fifo = <<>>
  BY DEF Tuned, UartInit, Runs, startVars
<1> DEFINE k == main.n + 1
           u == uart
<1>2. /\ uart' = Written(uart, InitWrites[k][1], InitWrites[k][2])
      /\ main' = [main EXCEPT !.n = k, !.pc = IF k = 7 THEN "greet" ELSE @]
  BY DEF UartInit, InitWrites
<1>3. /\ main'.n = k /\ main'.pc = IF k = 7 THEN "greet" ELSE "begin"
      /\ main' = [pc |-> main'.pc, n |-> main'.n, i |-> main'.i, k |-> main'.k, j |-> main'.j]
  BY <1>1, <1>2 DEF Tuned
<1>4. u = [r \in Registers |-> u[r]]
  BY DEF Tuned
<1>5. /\ uart' = [r \in Registers |-> uart'[r]]
      /\ uart'.fifo = u.fifo
      /\ k = 1 => ~uart'.on
      /\ k \in 2 .. 6 => uart'.on = u.on
      /\ uart'.ibrd = IF k = 3 THEN 13 ELSE u.ibrd
      /\ uart'.fbrd = IF k = 4 THEN 1 ELSE u.fbrd
      /\ uart'.baud = IF k = 5 THEN <<u.ibrd, u.fbrd>> ELSE u.baud
  <2>1. k \in 1 .. 7
    BY <1>1
  <2> HIDE DEF k, u
  <2>2. CASE k = 1
    <3>1. uart' = [u EXCEPT !["on"] = FALSE]
      BY <1>2, <2>2 DEF Written, InitWrites, u
    <3>2. /\ uart' = [r \in Registers |-> uart'[r]]
          /\ uart'["on"] = FALSE
          /\ \A r \in Registers \ {"on"} : uart'[r] = u[r]
      BY <1>4, <3>1, RegisterSet, Zenon DEF Registers
    <3> QED
      BY <2>2, <3>2 DEF Registers
  <2>3. CASE k \in {2, 6}
    <3>1. uart' = u
      BY <1>2, <2>3 DEF Written, InitWrites, u
    <3> QED
      BY <1>4, <2>3, <3>1 DEF Registers
  <2>4. CASE k = 3
    <3>1. uart' = [u EXCEPT !.ibrd = 13]
      BY <1>2, <2>4 DEF Written, InitWrites, u
    <3> QED
      BY <1>4, <2>4, <3>1 DEF Registers
  <2>5. CASE k = 4
    <3>1. uart' = [u EXCEPT !.fbrd = 1]
      BY <1>2, <2>5 DEF Written, InitWrites, u
    <3> QED
      BY <1>4, <2>5, <3>1 DEF Registers
  <2>6. CASE k = 5
    <3>1. uart' = [u EXCEPT !.fen = TRUE, !.baud = <<u.ibrd, u.fbrd>>]
      BY <1>2, <2>6 DEF Written, InitWrites, u
    <3> QED
      <4>1. /\ uart' = [r \in Registers |-> uart'[r]]
            /\ uart'.baud = <<u.ibrd, u.fbrd>> /\ uart'.fifo = u.fifo
            /\ uart'.ibrd = u.ibrd /\ uart'.fbrd = u.fbrd
        BY <1>4, <3>1 DEF Registers
      <4>2. uart'.on = u.on
        BY <1>4, <3>1 DEF Registers
      <4> QED
        BY <2>6, <4>1, <4>2
  <2>7. CASE k = 7
    <3>1. uart' = [u EXCEPT !["on"] = TRUE]
      BY <1>2, <2>7 DEF Written, InitWrites, u
    <3>2. /\ uart' = [r \in Registers |-> uart'[r]]
          /\ uart'["on"] = TRUE
          /\ \A r \in Registers \ {"on"} : uart'[r] = u[r]
      BY <1>4, <3>1, RegisterSet, Zenon DEF Registers
    <3> QED
      BY <2>7, <3>2 DEF Registers
  <2> QED
    BY <2>1, <2>2, <2>3, <2>4, <2>5, <2>6, <2>7
<1>6. /\ main.n \in 1 .. 6 => ~u.on
      /\ main.n >= 3 => u.ibrd = 13
      /\ main.n >= 4 => u.fbrd = 1
      /\ main.n >= 5 => u.baud = <<13, 1>>
  BY <1>1 DEF Tuned
<1> HIDE DEF u
<1>7. uart.on => uart'.baud = uart.baud
  BY <1>1, <1>5, <1>6 DEF u
<1>8. /\ k \in 1 .. 6 => ~uart'.on
      /\ k >= 3 => uart'.ibrd = 13
      /\ k >= 4 => uart'.fbrd = 1
      /\ k >= 5 => uart'.baud = <<13, 1>>
  BY <1>1, <1>5, <1>6
<1>9. /\ main'.n \in 0 .. 7 /\ main'.pc \in {"begin", "greet", "halt"}
      /\ main'.pc = "begin" => main'.n # 7 /\ out' = <<>> /\ uart'.fifo = <<>>
      /\ main'.pc # "begin" => main'.n = 7
      /\ main'.n \in 1 .. 6 => ~uart'.on
      /\ main'.n >= 3 => uart'.ibrd = 13
      /\ main'.n >= 4 => uart'.fbrd = 1
      /\ main'.n >= 5 => uart'.baud = <<13, 1>>
  BY <1>1, <1>3, <1>5, <1>8 DEF u
<1>10. uart' = [r \in Registers |-> uart'[r]]
  BY <1>5
<1>11. uart'.fifo = uart.fifo
  BY <1>5 DEF u
<1> QED
  BY <1>1, <1>3, <1>7, <1>9, <1>10, <1>11 DEF Tuned

\* uart_putc has seen room in the FIFO, which therefore takes the character.
LEMMA TakenWhole ==
  ASSUME Putc
  PROVE  uart' = [uart EXCEPT !.fifo = Append(@, Head(out))]
BY DEF Putc, Taken

\* What is sent arrives as it is: at that time the divisors are set.
LEMMA ArrivesAsSent ==
  ASSUME Tuned, Transmit
  PROVE  term' = Shown(term, Head(uart.fifo))
<1>1. NearRate(<<13, 1>>)
  BY DEF NearRate
<1>2. uart.baud = <<13, 1>>
  <2>1. program = "hello" => main.n = 7
    BY DEF Tuned, Transmit
  <2>2. \/ program # "hello" /\ uart.baud = <<13, 1>>
        \/ program = "hello" /\ (main.n >= 5 => uart.baud = <<13, 1>>)
    BY DEF Tuned
  <2> QED
    BY <2>1, <2>2
<1>3. Arrivals(Head(uart.fifo)) = {Head(uart.fifo)}
  BY <1>1, <1>2 DEF Arrivals
<1> QED
  BY <1>3 DEF Transmit

\* Whatever else happens keeps the registers, and hello prints nothing before it
\* is done with them.
LEMMA RegistersKept ==
  ASSUME Tuned, SerialNext, ~UartInit
  PROVE  /\ Tuned' /\ uart'.baud = uart.baud
         /\ program' = program
         /\ program = "hello" /\ term' # term => main.n = 7
<1>1. CASE Transmit
  BY <1>1 DEF Tuned, Registers, Transmit, startVars
<1>2. CASE Putc
  <2>1. uart' = [uart EXCEPT !.fifo = Append(@, Head(out))]
    BY <1>2, TakenWhole
  <2> QED
    BY <1>2, <2>1 DEF Tuned, Registers, Putc, startVars
<1>3. CASE StartCode
  BY <1>3 DEF Tuned, Registers, StartCode, StartNext, Boot, Enter, CountedStore, ComparedStore, CallMain
<1>4. CASE Greet
  BY <1>4 DEF Tuned, Registers, Greet, Runs, startVars
<1>5. CASE CountUp
  BY <1>5 DEF Tuned, Registers, CountUp, Runs, startVars
<1>6. CASE Title \/ FillMatrices \/ Result
  BY <1>6 DEF Tuned, Registers, Title, FillMatrices, Result, Runs, startVars
<1>7. CASE Multiply
  BY <1>7 DEF Tuned, Registers, Multiply, NextCell, Runs, startVars
<1> QED
  BY <1>1, <1>2, <1>3, <1>4, <1>5, <1>6, <1>7 DEF SerialNext, Program

\* The divisors of an enabled UART are left alone, and all that hello sends goes
\* out within 1% of 115200 baud, whatever state the UART was found in.
THEOREM BaudKept == SerialSpec => BaudSafe
<1>1. SerialInit => Tuned
  BY DEF SerialInit, StartInit, Tuned, Registers
<1>2. Tuned /\ [SerialNext]_serialVars => Tuned'
  <2>1. Tuned /\ UNCHANGED serialVars => Tuned'
    BY DEF Tuned, serialVars, startVars
  <2> QED
    BY <2>1, UartInitOK, RegistersKept
<1>3. Tuned /\ [SerialNext]_serialVars =>
        \/ /\ uart.on => uart'.baud = uart.baud
           /\ program = "hello" /\ term' # term => NearRate(uart.baud)
        \/ UNCHANGED serialVars
  <2>1. NearRate(<<13, 1>>)
    BY DEF NearRate
  <2>2. UartInit => term' = term
    BY DEF UartInit
  <2>3. Tuned /\ program = "hello" /\ main.n = 7 => uart.baud = <<13, 1>>
    BY DEF Tuned
  <2> QED
    BY <2>1, <2>2, <2>3, UartInitOK, RegistersKept
<1>4. SerialSpec => []Tuned
  BY <1>1, <1>2, PTL DEF SerialSpec
<1>5. QED
  BY <1>3, <1>4, PTL DEF SerialSpec, BaudSafe

-----------------------------------------------------------------------------
(***************************************************************************)
(* The matrix product.                                                     *)
(***************************************************************************)
\* The products that C[row][col] holds already.
Summed(row, col) ==
  IF row < main.i THEN 0 .. N - 1
  ELSE IF row > main.i THEN {}
  ELSE IF col < main.j THEN 0 .. main.k ELSE 0 .. main.k - 1

\* Every cell of C is the sum of the products the loops have come by.
Multiplied ==
  program = "matmul" =>
    /\ mat.A \in [Elements -> Nat] /\ mat.B \in [Elements -> Nat] /\ mat.C \in [Elements -> Nat]
    /\ mat = [x \in {"A", "B", "C"} |-> mat[x]]
    /\ main = [x \in {"pc", "n", "i", "k", "j"} |-> main[x]]
    /\ main.pc \in {"begin", "fill", "multiply", "result", "halt"}
    /\ main.pc \in {"begin", "fill"} => main.i = 0 /\ main.k = 0 /\ main.j = 0
    /\ main.pc = "multiply" =>
         main.i \in 0 .. N - 1 /\ main.k \in 0 .. N - 1 /\ main.j \in 0 .. N - 1
    /\ main.pc \in {"result", "halt"} => main.i = N
    /\ main.pc \in {"multiply", "result", "halt"} =>
         \A row, col \in 0 .. N - 1 :
           mat.C[<<row, col>>] = SumFunctionOnSet(Products(row, col), Summed(row, col))

LEMMA Sizes == N \in Nat \ {0}
  BY SerialAssumption DEF SerialAssumption

LEMMA Contents == Matrices \subseteq [Elements -> Nat]
  BY SerialAssumption DEF SerialAssumption

\* C is filled with zeros: no product is summed.
LEMMA FillOK ==
  ASSUME Multiplied, FillMatrices
  PROVE  Multiplied'
<1>1. /\ program = "matmul" /\ program' = program
      /\ main.pc = "fill" /\ main.i = 0 /\ main.k = 0 /\ main.j = 0
      /\ main = [x \in {"pc", "n", "i", "k", "j"} |-> main[x]]
      /\ main' = [main EXCEPT !.pc = "multiply"]
  BY DEF FillMatrices, Runs, Multiplied, startVars
<1>2. PICK a, b \in Matrices : mat' = [A |-> a, B |-> b, C |-> Zeros]
  BY DEF FillMatrices
<1>3. /\ main' = [x \in {"pc", "n", "i", "k", "j"} |-> main'[x]]
      /\ main'.pc = "multiply" /\ main'.i = 0 /\ main'.k = 0 /\ main'.j = 0
  BY <1>1
<1>4. /\ mat'.A \in [Elements -> Nat] /\ mat'.B \in [Elements -> Nat] /\ mat'.C = Zeros
      /\ mat' = [x \in {"A", "B", "C"} |-> mat'[x]] /\ Zeros \in [Elements -> Nat]
  <2>1. Zeros \in [Elements -> Nat]
    BY DEF Zeros
  <2>2. a \in [Elements -> Nat] /\ b \in [Elements -> Nat]
    BY Contents
  <2> QED
    BY <1>2, <2>1, <2>2
<1>5. ASSUME NEW row \in 0 .. N - 1, NEW col \in 0 .. N - 1
      PROVE  Zeros[<<row, col>>] = SumFunctionOnSet((Products(row, col))', (Summed(row, col))')
  <2>1. (Summed(row, col))' = {}
    BY <1>3, Sizes DEF Summed
  <2>2. Zeros[<<row, col>>] = 0
    BY DEF Zeros, Elements
  <2> QED
    BY <2>1, <2>2, SumEmpty
<1> QED
  BY <1>1, <1>3, <1>4, <1>5, Sizes DEF Multiplied

\* One product is added to one cell, and the counters go on to the next cell.
LEMMA MultiplyOK ==
  ASSUME Multiplied, Multiply
  PROVE  Multiplied'
<1>1. /\ program = "matmul" /\ program' = program /\ main.pc = "multiply"
      /\ mat.A \in [Elements -> Nat] /\ mat.B \in [Elements -> Nat] /\ mat.C \in [Elements -> Nat]
      /\ mat = [x \in {"A", "B", "C"} |-> mat[x]]
      /\ main = [x \in {"pc", "n", "i", "k", "j"} |-> main[x]]
      /\ main.i \in 0 .. N - 1 /\ main.k \in 0 .. N - 1 /\ main.j \in 0 .. N - 1
      /\ main' = NextCell(main)
  BY DEF Multiply, Runs, Multiplied, startVars
<1> DEFINE here == <<main.i, main.j>>
           new  == mat.C[here] + mat.A[<<main.i, main.k>>] * mat.B[<<main.k, main.j>>]
<1>2. mat' = [mat EXCEPT !.C[here] = new]
  BY <1>1 DEF Multiply
<1>3. /\ here \in Elements /\ <<main.i, main.k>> \in Elements /\ <<main.k, main.j>> \in Elements
      /\ \A row, col \in 0 .. N - 1 : <<row, col>> \in Elements
  BY <1>1 DEF Elements
<1>4. new \in Nat
  BY <1>1, <1>3
<1>5. /\ mat'.A = mat.A /\ mat'.B = mat.B /\ mat'.C = [mat.C EXCEPT ![here] = new]
      /\ mat' = [x \in {"A", "B", "C"} |-> mat'[x]]
  <2> HIDE DEF here, new
  <2> QED
    BY <1>1, <1>2
<1>6. mat'.C \in [Elements -> Nat]
  <2> HIDE DEF here, new
  <2> QED
    BY <1>1, <1>3, <1>4, <1>5
<1>7. /\ main' = [x \in {"pc", "n", "i", "k", "j"} |-> main'[x]]
      /\ IF main.j < N - 1
         THEN main'.j = main.j + 1 /\ main'.k = main.k /\ main'.i = main.i /\ main'.pc = "multiply"
         ELSE IF main.k < N - 1
         THEN main'.j = 0 /\ main'.k = main.k + 1 /\ main'.i = main.i /\ main'.pc = "multiply"
         ELSE /\ main'.j = 0 /\ main'.k = 0 /\ main'.i = main.i + 1
              /\ main'.pc = IF main.i < N - 1 THEN "multiply" ELSE "result"
  <2>1. CASE main.j < N - 1
    BY <1>1, <2>1 DEF NextCell
  <2>2. CASE ~(main.j < N - 1) /\ main.k < N - 1
    BY <1>1, <2>2 DEF NextCell
  <2>3. CASE ~(main.j < N - 1) /\ ~(main.k < N - 1)
    BY <1>1, <2>3 DEF NextCell
  <2> QED
    BY <2>1, <2>2, <2>3
<1>8. ASSUME NEW row \in 0 .. N - 1, NEW col \in 0 .. N - 1
      PROVE  mat'.C[<<row, col>>] = SumFunctionOnSet((Products(row, col))', (Summed(row, col))')
  <2> DEFINE p == Products(row, col)
             s == Summed(row, col)
  <2>1. (Products(row, col))' = p
    BY <1>5 DEF Products
  <2>2. mat.C[<<row, col>>] = SumFunctionOnSet(p, s)
    BY <1>1 DEF Multiplied
  <2>3. CASE row = main.i /\ col = main.j
    <3>1. s = 0 .. main.k - 1 /\ (Summed(row, col))' = s \cup {main.k} /\ main.k \notin s
      <4> HIDE DEF here, new, p
      <4>1. main.i \in Int /\ main.k \in Int /\ main.j \in Int
        BY <1>1
      <4>2. s = 0 .. main.k - 1
        BY <2>3, <4>1 DEF Summed
      <4>3. (Summed(row, col))' = 0 .. main.k
        BY <1>1, <1>7, <2>3, Sizes DEF Summed
      <4>4. 0 .. main.k = (0 .. main.k - 1) \cup {main.k}
        BY <1>1
      <4> HIDE DEF s
      <4> QED
        BY <4>1, <4>2, <4>3, <4>4
    <3>2. \A k \in 0 .. N - 1 : p[k] = mat.A[<<row, k>>] * mat.B[<<k, col>>] /\ p[k] \in Int
      BY <1>1, <1>3 DEF Products
    <3>3. IsFiniteSet(s)
      <4>1. 0 \in Int /\ main.k - 1 \in Int
        BY <1>1
      <4> HIDE DEF s
      <4> QED
        BY <3>1, <4>1, FS_Interval
    <3>4. \A k \in s : p[k] \in Int
      <4>1. 0 .. main.k - 1 \subseteq 0 .. N - 1
        BY <1>1, Sizes
      <4> HIDE DEF p, s
      <4> QED
        BY <3>1, <3>2, <4>1
    <3>5. p[main.k] = mat.A[<<row, main.k>>] * mat.B[<<main.k, col>>] /\ p[main.k] \in Int
      BY <1>1, <3>2
    <3> HIDE DEF p, s
    <3>6. SumFunctionOnSet(p, s \cup {main.k}) = SumFunctionOnSet(p, s) + p[main.k]
      BY <3>1, <3>3, <3>4, <3>5, SumAdd
    <3>7. mat'.C[<<row, col>>] = new
      BY <1>1, <1>3, <1>5, <2>3
    <3> QED
      BY <2>1, <2>2, <2>3, <3>1, <3>5, <3>6, <3>7
  <2>4. CASE ~(row = main.i /\ col = main.j)
    <3>1. (Summed(row, col))' = s
      BY <1>1, <1>7, <2>4, Sizes DEF Summed
    <3>2. mat'.C[<<row, col>>] = mat.C[<<row, col>>]
      <4>1. <<row, col>> # here
        BY <2>4
      <4> HIDE DEF here, new
      <4> QED
        BY <1>1, <1>3, <1>5, <4>1
    <3> QED
      BY <2>1, <2>2, <3>1, <3>2
  <2> QED
    BY <2>3, <2>4
<1>9. /\ main'.pc \in {"multiply", "result"}
      /\ main'.pc = "multiply" =>
           main'.i \in 0 .. N - 1 /\ main'.k \in 0 .. N - 1 /\ main'.j \in 0 .. N - 1
      /\ main'.pc = "result" => main'.i = N
  BY <1>1, <1>7, Sizes
<1> QED
  BY <1>1, <1>5, <1>6, <1>7, <1>8, <1>9 DEF Multiplied

LEMMA MultipliedStep ==
  ASSUME Multiplied, [SerialNext]_serialVars
  PROVE  Multiplied'
<1>1. CASE UNCHANGED <<program, main, mat>>
  <2>1. \A row, col : (Summed(row, col))' = Summed(row, col) /\ (Products(row, col))' = Products(row, col)
    BY <1>1 DEF Summed, Products
  <2> QED
    BY <1>1, <2>1 DEF Multiplied
<1>2. CASE program' = program /\ program # "matmul"
  BY <1>2 DEF Multiplied
<1>3. CASE Title
  BY <1>3 DEF Title, Runs, Multiplied, startVars
<1>4. CASE Result
  <2>1. /\ program = "matmul" /\ program' = program /\ mat' = mat /\ main.pc = "result"
        /\ main' = [main EXCEPT !.pc = "halt"]
        /\ main = [x \in {"pc", "n", "i", "k", "j"} |-> main[x]]
    BY <1>4 DEF Result, Runs, startVars, Multiplied
  <2>2. /\ main' = [x \in {"pc", "n", "i", "k", "j"} |-> main'[x]]
        /\ main'.pc = "halt" /\ main'.i = main.i /\ main'.k = main.k /\ main'.j = main.j
    BY <2>1
  <2>3. \A row, col : (Summed(row, col))' = Summed(row, col) /\ (Products(row, col))' = Products(row, col)
    BY <2>1, <2>2 DEF Summed, Products
  <2> QED
    BY <2>1, <2>2, <2>3 DEF Multiplied
<1>5. StartCode => UNCHANGED <<program, main, mat>>
  BY DEF StartCode, StartNext, Boot, Enter, CountedStore, ComparedStore, CallMain
<1>6. CASE Greet \/ CountUp \/ UartInit
  BY <1>2, <1>6 DEF Greet, CountUp, UartInit, Runs, startVars
<1>7. CASE Putc \/ Transmit \/ UNCHANGED serialVars
  BY <1>1, <1>7 DEF Putc, Transmit, serialVars, startVars
<1> QED
  BY <1>1, <1>3, <1>4, <1>5, <1>6, <1>7, FillOK, MultiplyOK DEF SerialNext, Program

\* matrix-mul computes the product of its matrices, row after row, for every size
\* of the matrices and whatever they hold.
THEOREM ProductCorrect == SerialSpec => []ProductRight
<1>1. SerialInit => Multiplied
  <2>1. Zeros \in [Elements -> Nat]
    BY DEF Zeros
  <2> QED
    BY <2>1 DEF SerialInit, Multiplied
<1>2. Multiplied => ProductRight
  <2> SUFFICES ASSUME Multiplied, program = "matmul",
                      main.pc \in {"multiply", "result", "halt"}
               PROVE  /\ main.pc = "multiply" \/ main.i = N
                      /\ \A row, col \in 0 .. N - 1 :
                           /\ row < main.i => mat.C[<<row, col>>] = Dot(row, col)
                           /\ row > main.i => mat.C[<<row, col>>] = 0
    BY DEF ProductRight
  <2>1. \A row, col \in 0 .. N - 1 :
          mat.C[<<row, col>>] = SumFunctionOnSet(Products(row, col), Summed(row, col))
    BY DEF Multiplied
  <2>2. main.i \in 0 .. N
    BY Sizes DEF Multiplied
  <2>3. ASSUME NEW row \in 0 .. N - 1, NEW col \in 0 .. N - 1
        PROVE  /\ row < main.i => mat.C[<<row, col>>] = Dot(row, col)
               /\ row > main.i => mat.C[<<row, col>>] = 0
    <3>1. mat.C[<<row, col>>] = SumFunctionOnSet(Products(row, col), Summed(row, col))
      BY <2>1
    <3>2. CASE row < main.i
      <4>1. Summed(row, col) = 0 .. N - 1
        BY <3>2 DEF Summed
      <4>2. ~(row > main.i)
        BY <2>2, <3>2, Sizes
      <4> QED
        BY <3>1, <4>1, <4>2 DEF Dot
    <3>3. CASE row > main.i
      <4>1. ~(row < main.i)
        BY <2>2, <3>3, Sizes
      <4>2. Summed(row, col) = {}
        BY <3>3, <4>1 DEF Summed
      <4>3. SumFunctionOnSet(Products(row, col), {}) = 0
        BY SumEmpty
      <4> QED
        BY <3>1, <4>1, <4>2, <4>3
    <3> QED
      BY <3>2, <3>3
  <2>4. main.pc = "multiply" \/ main.i = N
    BY DEF Multiplied
  <2> QED
    BY <2>3, <2>4
<1>3. QED
  BY <1>1, <1>2, MultipliedStep, PTL DEF SerialSpec

-----------------------------------------------------------------------------
(***************************************************************************)
(* Numbers in decimal notation.                                            *)
(***************************************************************************)
Glyphs == {"0", "1", "2", "3", "4", "5", "6", "7", "8", "9"}

LEMMA NumeralsType ==
  \A m \in Nat : Numerals[1 + (m % 10)] \in Glyphs
<1>1. Numerals \in [1 .. 10 -> Glyphs]
  BY DEF Numerals, Glyphs
<1>2. \A m \in Nat : m % 10 \in 0 .. 9
  OBVIOUS
<1>3. \A d \in 0 .. 9 : 1 + d \in 1 .. 10
  OBVIOUS
<1> QED
  BY <1>1, <1>2, <1>3

\* One turn of the digit loop, when g has the digits of what is left.
DigitTurn(g, m) == IF m = 0 THEN <<>> ELSE <<Numerals[1 + (m % 10)]>> \o g[m \div 10]
DigitsTo(g, m)  == g = [k \in 0 .. m |-> DigitTurn(g, k)]

LEMMA TenthLess == \A m \in Nat : m \div 10 \in Nat /\ (m # 0 => m \div 10 < m)
  OBVIOUS

\* The loop has digits for all numbers up to any.
LEMMA DigitsToExist == \A m \in Nat : \E g : DigitsTo(g, m)
<1> DEFINE Q == {m \in Nat : \E g : DigitsTo(g, m)}
<1>1. 0 \in Q
  <2> DEFINE g == [k \in 0 .. 0 |-> <<>>]
  <2>1. g = [k \in 0 .. 0 |-> DigitTurn(g, k)]
    BY DEF DigitTurn
  <2> QED
    BY <2>1 DEF DigitsTo
<1>2. ASSUME NEW m \in Nat, m \in Q
      PROVE  m + 1 \in Q
  <2>1. PICK g : g = [k \in 0 .. m |-> DigitTurn(g, k)]
    BY <1>2 DEF DigitsTo
  <2> DEFINE h == [k \in 0 .. m + 1 |-> DigitTurn(g, k)]
  <2>2. ASSUME NEW k \in 0 .. m + 1
        PROVE  DigitTurn(g, k) = DigitTurn(h, k)
    <3>1. CASE k = 0
      BY <3>1 DEF DigitTurn
    <3>2. CASE k # 0
      <4>1. k \div 10 \in 0 .. m
        BY <3>2, TenthLess
      <4>2. g[k \div 10] = DigitTurn(g, k \div 10) /\ h[k \div 10] = DigitTurn(g, k \div 10)
        <5> DEFINE q == k \div 10
        <5>0. q \in 0 .. m /\ q \in 0 .. m + 1
          BY <4>1
        <5> HIDE DEF q
        <5>1. g[q] = DigitTurn(g, q)
          BY <2>1, <5>0
        <5>2. h[q] = DigitTurn(g, q)
          BY <5>0
        <5> QED
          BY <5>1, <5>2 DEF q
      <4> QED
        BY <3>2, <4>2 DEF DigitTurn
    <3> QED
      BY <3>1, <3>2
  <2>3. h = [k \in 0 .. m + 1 |-> DigitTurn(h, k)]
    BY <2>2
  <2> HIDE DEF h
  <2> QED
    BY <2>3 DEF DigitsTo
<1>3. Nat \subseteq Q
  <2> HIDE DEF Q
  <2> QED
    BY <1>1, <1>2, NatSetInduction
<1> QED
  BY <1>3

\* Two that go far enough agree.
LEMMA DigitsToUnique ==
  ASSUME NEW m \in Nat, NEW l \in Nat, NEW g, NEW h, DigitsTo(g, m), DigitsTo(h, l),
         NEW x \in Nat, x =< m, x =< l
  PROVE  g[x] = h[x]
<1> DEFINE Q == {k \in Nat : k =< m /\ k =< l => g[k] = h[k]}
<1>1. ASSUME NEW k \in Nat, \A j \in Nat : j < k => j \in Q
      PROVE  k \in Q
  <2> SUFFICES ASSUME k =< m, k =< l PROVE g[k] = h[k]
    OBVIOUS
  <2>1. g[k] = DigitTurn(g, k) /\ h[k] = DigitTurn(h, k)
    BY DEF DigitsTo
  <2>2. CASE k = 0
    BY <2>1, <2>2 DEF DigitTurn
  <2>3. CASE k # 0
    <3>1. k \div 10 \in Nat /\ k \div 10 < k
      BY <2>3, TenthLess
    <3>2. g[k \div 10] = h[k \div 10]
      <4> DEFINE q == k \div 10
      <4>1. q \in Q /\ q =< m /\ q =< l
        BY <1>1, <3>1
      <4> QED
        BY <4>1
    <3> QED
      BY <2>1, <2>3, <3>2 DEF DigitTurn
  <2> QED
    BY <2>2, <2>3
<1>2. Nat \subseteq Q
  <2> HIDE DEF Q
  <2> QED
    BY <1>1, StrongInduction
<1> QED
  BY <1>2

\* The recursion that defines Digits has a solution, so Digits is one.
LEMMA DigitsTurn ==
  \A m \in Nat : Digits[m] = IF m = 0 THEN <<>>
                             ELSE <<Numerals[1 + (m % 10)]>> \o Digits[m \div 10]
<1> DEFINE To(m) == CHOOSE g : DigitsTo(g, m)
           h == [m \in Nat |-> To(m)[m]]
<1>1. \A m \in Nat : DigitsTo(To(m), m)
  BY DigitsToExist
<1>2. ASSUME NEW m \in Nat
      PROVE  To(m)[m] = DigitTurn(h, m)
  <2> HIDE DEF To
  <2>1. To(m)[m] = DigitTurn(To(m), m)
    BY <1>1 DEF DigitsTo
  <2>2. CASE m = 0
    BY <2>1, <2>2 DEF DigitTurn
  <2>3. CASE m # 0
    <3> DEFINE q == m \div 10
    <3>1. q \in Nat /\ q =< m
      BY TenthLess, <2>3
    <3> HIDE DEF q
    <3>2. To(m)[q] = To(q)[q]
      BY <1>1, <3>1, DigitsToUnique
    <3>3. h[q] = To(q)[q]
      BY <3>1
    <3> HIDE DEF h
    <3> QED
      BY <2>1, <2>3, <3>2, <3>3 DEF DigitTurn, q
  <2> QED
    BY <2>2, <2>3
<1>3. h = [m \in Nat |-> DigitTurn(h, m)]
  BY <1>2
<1>4. \E g : g = [m \in Nat |-> DigitTurn(g, m)]
  <2> HIDE DEF h
  <2> QED
    BY <1>3
<1>5. Digits = CHOOSE g : g = [m \in Nat |-> DigitTurn(g, m)]
  BY DEF Digits, DigitTurn
<1>6. Digits = [m \in Nat |-> DigitTurn(Digits, m)]
  <2> DEFINE D == Digits
  <2> HIDE DEF D
  <2>1. D = CHOOSE g : g = [m \in Nat |-> DigitTurn(g, m)]
    BY <1>5 DEF D
  <2>2. D = [m \in Nat |-> DigitTurn(D, m)]
    BY <1>4, <2>1
  <2> QED
    BY <2>2 DEF D
<1> QED
  BY <1>6 DEF DigitTurn

LEMMA DigitsType == \A m \in Nat : Digits[m] \in Seq(Glyphs)
<1> DEFINE Q == {m \in Nat : Digits[m] \in Seq(Glyphs)}
<1>1. ASSUME NEW m \in Nat, \A k \in Nat : k < m => k \in Q
      PROVE  m \in Q
  <2>1. CASE m = 0
    <3>1. Digits[m] = <<>>
      BY <2>1, DigitsTurn
    <3>2. <<>> \in Seq(Glyphs)
      BY EmptySeq
    <3> QED
      BY <3>1, <3>2
  <2>2. CASE m # 0
    <3>1. m \div 10 \in Q
      BY <1>1, <2>2, TenthLess
    <3>2. Digits[m] = <<Numerals[1 + (m % 10)]>> \o Digits[m \div 10]
      BY <2>2, DigitsTurn
    <3>3. <<Numerals[1 + (m % 10)]>> \in Seq(Glyphs)
      <4> DEFINE e == Numerals[1 + (m % 10)]
      <4>1. e \in Glyphs
        BY NumeralsType
      <4> HIDE DEF e
      <4>2. <<e>> \in Seq(Glyphs)
        BY <4>1
      <4> QED
        BY <4>2 DEF e
    <3>4. Digits[m \div 10] \in Seq(Glyphs)
      BY <3>1
    <3> QED
      BY <3>2, <3>3, <3>4, ConcatProperties
  <2> QED
    BY <2>1, <2>2
<1>2. Nat \subseteq Q
  <2> HIDE DEF Q
  <2> QED
    BY <1>1, StrongInduction
<1> QED
  BY <1>2

\* A number is printed as digits.
LEMMA PrintNumType == \A m \in Nat : PrintNum(m) \in Seq(Glyphs)
<1> SUFFICES ASSUME NEW m \in Nat PROVE PrintNum(m) \in Seq(Glyphs)
  OBVIOUS
<1> DEFINE d == Digits[m]
<1>1. d \in Seq(Glyphs)
  BY DigitsType
<1>2. <<"0">> \in Seq(Glyphs)
  BY DEF Glyphs
<1>3. Reverse(d) \in Seq(Glyphs)
  <2> HIDE DEF d
  <2>1. Len(d) \in Nat /\ \A k \in 1 .. Len(d) : d[k] \in Glyphs
    BY <1>1, LenProperties, ElementOfSeq
  <2>2. \A k \in 1 .. Len(d) : (Len(d) - k) + 1 \in 1 .. Len(d)
    BY <2>1
  <2>3. Reverse(d) = [k \in 1 .. Len(d) |-> d[(Len(d) - k) + 1]]
    BY DEF Reverse
  <2>4. Reverse(d) \in [1 .. Len(d) -> Glyphs]
    BY <2>1, <2>2, <2>3
  <2> QED
    BY <2>1, <2>4
<1> QED
  BY <1>2, <1>3 DEF PrintNum
-----------------------------------------------------------------------------
(***************************************************************************)
(* The ends of lines.                                                      *)
(***************************************************************************)
\* Flattening stays within any set of sequences that concatenation stays within.
Strung(q, g, m) == g = [k \in 1 .. m |-> IF k = 1 THEN q[k] ELSE g[k - 1] \o q[k]]

LEMMA StrungExists == \A q : \A m \in Nat : \E g : Strung(q, g, m)
<1> SUFFICES ASSUME NEW q PROVE \A m \in Nat : \E g : Strung(q, g, m)
  OBVIOUS
<1> DEFINE Q == {m \in Nat : \E g : Strung(q, g, m)}
           T(g, k) == IF k = 1 THEN q[k] ELSE g[k - 1] \o q[k]
<1>1. 0 \in Q
  <2> DEFINE g == [k \in 1 .. 0 |-> <<>>]
  <2>1. g = [k \in 1 .. 0 |-> T(g, k)]
    OBVIOUS
  <2> QED
    BY <2>1 DEF Strung
<1>2. ASSUME NEW m \in Nat, m \in Q
      PROVE  m + 1 \in Q
  <2>1. PICK g : g = [k \in 1 .. m |-> T(g, k)]
    BY <1>2 DEF Strung
  <2> DEFINE h == [k \in 1 .. m + 1 |-> T(g, k)]
  <2>2. ASSUME NEW k \in 1 .. m + 1
        PROVE  T(g, k) = T(h, k)
    <3>1. CASE k = 1
      BY <3>1
    <3>2. CASE k # 1
      <4>1. k - 1 \in 1 .. m /\ k - 1 \in 1 .. m + 1
        BY <3>2
      <4>2. g[k - 1] = T(g, k - 1)
        <5> HIDE DEF T
        <5> QED
          BY <2>1, <4>1
      <4>3. h[k - 1] = T(g, k - 1)
        <5> HIDE DEF T
        <5> QED
          BY <4>1
      <4> QED
        BY <3>2, <4>2, <4>3
    <3> QED
      BY <3>1, <3>2
  <2>3. h = [k \in 1 .. m + 1 |-> T(h, k)]
    <3> HIDE DEF T
    <3> QED
      BY <2>2
  <2>4. Strung(q, h, m + 1)
    <3> HIDE DEF h
    <3> QED
      BY <2>3 DEF Strung
  <2> QED
    BY <2>4
<1>3. Nat \subseteq Q
  <2> HIDE DEF Q
  <2> QED
    BY <1>1, <1>2, NatSetInduction
<1> QED
  BY <1>3

LEMMA FlattenWithin ==
  ASSUME NEW W, \A a, b \in W : a \o b \in W, <<>> \in W, NEW q \in Seq(W)
  PROVE  FlattenSeq(q) \in W
<1>1. Len(q) \in Nat /\ \A k \in 1 .. Len(q) : q[k] \in W
  BY LenProperties, ElementOfSeq
<1>2. CASE Len(q) = 0
  <2>1. q = <<>>
    BY <1>2, EmptySeq
  <2>2. FlattenSeq(q) = q
    BY <1>2 DEF FlattenSeq
  <2> QED
    BY <2>1, <2>2
<1>3. CASE Len(q) # 0
  <2> DEFINE f == CHOOSE g : Strung(q, g, Len(q))
  <2>1. FlattenSeq(q) = f[Len(q)]
    BY <1>3 DEF FlattenSeq, Strung
  <2>2. Strung(q, f, Len(q))
    BY <1>1, StrungExists
  <2> HIDE DEF f
  <2> DEFINE Q == {m \in Nat : m + 1 =< Len(q) => f[m + 1] \in W}
  <2>3. 0 \in Q
    <3>1. 1 =< Len(q) => f[1] = q[1]
      BY <1>1, <2>2 DEF Strung
    <3> QED
      BY <1>1, <3>1
  <2>4. ASSUME NEW m \in Nat, m \in Q
        PROVE  m + 1 \in Q
    <3> SUFFICES ASSUME (m + 1) + 1 =< Len(q) PROVE f[(m + 1) + 1] \in W
      OBVIOUS
    <3>1. f[m + 1] \in W
      BY <1>1, <2>4
    <3>2. (m + 1) + 1 \in 1 .. Len(q) /\ (m + 1) + 1 # 1 /\ ((m + 1) + 1) - 1 = m + 1
      BY <1>1
    <3>3. f[(m + 1) + 1] = f[m + 1] \o q[(m + 1) + 1]
      BY <2>2, <3>2 DEF Strung
    <3> QED
      BY <1>1, <3>1, <3>2, <3>3
  <2>5. Nat \subseteq Q
    <3> HIDE DEF Q
    <3> QED
      BY <2>3, <2>4, NatSetInduction
  <2>6. Len(q) - 1 \in Q /\ (Len(q) - 1) + 1 = Len(q)
    <3>1. Len(q) - 1 \in Nat
      BY <1>1, <1>3
    <3> HIDE DEF Q
    <3> QED
      BY <1>1, <2>5, <3>1
  <2>7. f[Len(q)] \in W
    BY <2>6
  <2> QED
    BY <2>1, <2>7
<1> QED
  BY <1>2, <1>3

\* Every line feed comes after a carriage return, or before one.
LfAfterCr(s) == \A k \in 1 .. Len(s) : s[k] = LF => k > 1 /\ s[k - 1] = CR
CrAfterLf(s) == \A k \in 1 .. Len(s) : s[k] = LF => k < Len(s) /\ s[k + 1] = CR

LEMMA ConcatEnds ==
  ASSUME NEW S, NEW s \in Seq(S), NEW t \in Seq(S)
  PROVE  /\ LfAfterCr(s) /\ LfAfterCr(t) => LfAfterCr(s \o t)
         /\ CrAfterLf(s) /\ CrAfterLf(t) => CrAfterLf(s \o t)
<1> DEFINE u == s \o t
           l == Len(s)
<1>1. /\ l \in Nat /\ Len(t) \in Nat /\ Len(u) = l + Len(t)
      /\ \A k \in 1 .. l + Len(t) : u[k] = IF k =< l THEN s[k] ELSE t[k - l]
  BY ConcatProperties, LenProperties
<1> HIDE DEF u, l
<1>2. ASSUME NEW k \in 1 .. l + Len(t), u[k] = LF, LfAfterCr(s), LfAfterCr(t), l = Len(s)
      PROVE  k > 1 /\ u[k - 1] = CR
  <2>1. CASE k =< l
    <3>1. s[k] = LF
      BY <1>1, <1>2, <2>1
    <3>2. k > 1 /\ s[k - 1] = CR
      BY <1>1, <1>2, <2>1, <3>1 DEF LfAfterCr
    <3> QED
      BY <1>1, <2>1, <3>2
  <2>2. CASE k > l
    <3>1. t[k - l] = LF /\ k - l \in 1 .. Len(t)
      BY <1>1, <1>2, <2>2
    <3>2. k - l > 1 /\ t[(k - l) - 1] = CR
      BY <1>1, <1>2, <3>1 DEF LfAfterCr
    <3>3. (k - l) - 1 = (k - 1) - l /\ k - 1 > l /\ k - 1 \in 1 .. l + Len(t)
      BY <1>1, <3>2
    <3> QED
      BY <1>1, <3>2, <3>3
  <2> QED
    BY <1>1, <2>1, <2>2
<1>3. ASSUME NEW k \in 1 .. l + Len(t), u[k] = LF, CrAfterLf(s), CrAfterLf(t), l = Len(s)
      PROVE  k < l + Len(t) /\ u[k + 1] = CR
  <2>1. CASE k =< l
    <3>1. s[k] = LF
      BY <1>1, <1>3, <2>1
    <3>2. k < l /\ s[k + 1] = CR
      BY <1>1, <1>3, <2>1, <3>1 DEF CrAfterLf
    <3> QED
      BY <1>1, <2>1, <3>2
  <2>2. CASE k > l
    <3>1. t[k - l] = LF /\ k - l \in 1 .. Len(t)
      BY <1>1, <1>3, <2>2
    <3>2. k - l < Len(t) /\ t[(k - l) + 1] = CR
      BY <1>1, <1>3, <3>1 DEF CrAfterLf
    <3>3. (k - l) + 1 = (k + 1) - l /\ k + 1 > l /\ k + 1 \in 1 .. l + Len(t)
      BY <1>1, <2>2, <3>2
    <3> QED
      BY <1>1, <3>2, <3>3
  <2> QED
    BY <1>1, <2>1, <2>2
<1> QED
  BY <1>1, <1>2, <1>3 DEF LfAfterCr, CrAfterLf, u, l

\* What hello and rust send: the text with a carriage return put before each line
\* feed, whatever the text is.
LEMMA CrBeforeLfOK ==
  ASSUME NEW S, CR \in S, LF \in S, NEW s \in Seq(S)
  PROVE  CrBeforeLf(s) \in Seq(S) /\ LfAfterCr(CrBeforeLf(s))
<1> DEFINE W == {t \in Seq(S) : LfAfterCr(t)}
           e(k) == IF s[k] = LF THEN <<CR, LF>> ELSE <<s[k]>>
           q == [k \in DOMAIN s |-> e(k)]
<1>1. CR # LF
  BY DEF CR, LF
<1>2. DOMAIN s = 1 .. Len(s) /\ Len(s) \in Nat /\ \A k \in 1 .. Len(s) : s[k] \in S
  BY LenProperties, ElementOfSeq
<1>3. <<>> \in W
  BY DEF LfAfterCr
<1>4. \A a, b \in W : a \o b \in W
  BY ConcatEnds, ConcatProperties
<1>5. ASSUME NEW k \in 1 .. Len(s)
      PROVE  e(k) \in W
  <2>1. <<CR, LF>> \in Seq(S)
    BY <1>1
  <2>2. LfAfterCr(<<CR, LF>>)
    <3> DEFINE t == <<CR, LF>>
    <3>1. Len(t) = 2 /\ t[1] = CR /\ t[2] = LF
      OBVIOUS
    <3> HIDE DEF t
    <3>2. LfAfterCr(t)
      BY <1>1, <3>1 DEF LfAfterCr
    <3> QED
      BY <3>2 DEF t
  <2>3. <<s[k]>> \in Seq(S)
    BY <1>2
  <2>4. s[k] # LF => LfAfterCr(<<s[k]>>)
    BY DEF LfAfterCr
  <2> QED
    BY <2>1, <2>2, <2>3, <2>4
<1>6. q \in Seq(W)
  <2> HIDE DEF W, e
  <2>1. q \in [1 .. Len(s) -> W]
    BY <1>2, <1>5
  <2> QED
    BY <1>2, <2>1
<1>7. FlattenSeq(q) \in W
  <2> HIDE DEF W, q
  <2> QED
    BY <1>3, <1>4, <1>6, FlattenWithin
<1>8. CrBeforeLf(s) = FlattenSeq(q)
  BY DEF CrBeforeLf
<1> QED
  BY <1>7, <1>8

Tokens == {CR, LF, Greeting, CounterIs, Banner, Filling, Starting, RowDone, OutOf, RowsText,
           CalculationDone, ValueAt} \cup Glyphs

\* What matrix-mul sends: a carriage return follows each line feed.
Texts == {s \in Seq(Tokens) : CrAfterLf(s)}

LEMMA TokensDiffer ==
  /\ CR # LF /\ CR \in Tokens /\ LF \in Tokens
  /\ Tokens \ {LF} = (Tokens \ {CR, LF}) \cup {CR}
  /\ Glyphs \subseteq Tokens \ {LF}
  /\ {Greeting, CounterIs, Banner, Filling, Starting, RowDone, OutOf, RowsText,
      CalculationDone, ValueAt} \subseteq Tokens \ {LF}
  BY DEF Tokens, Glyphs, CR, LF, Greeting, CounterIs, Banner, Filling, Starting, RowDone,
         OutOf, RowsText, CalculationDone, ValueAt

LEMMA TextParts ==
  /\ \A a, b \in Texts : a \o b \in Texts
  /\ LfCr \in Texts
  /\ \A x \in Tokens \ {LF} : <<x>> \in Texts
  /\ \A m \in Nat : PrintNum(m) \in Texts
<1>1. \A a, b \in Texts : a \o b \in Texts
  BY ConcatEnds, ConcatProperties DEF Texts
<1>2. LfCr \in Texts
  <2>1. LfCr \in Seq(Tokens)
    BY TokensDiffer DEF LfCr
  <2>2. Len(LfCr) = 2 /\ LfCr[1] = LF /\ LfCr[2] = CR
    BY DEF LfCr
  <2>3. CrAfterLf(LfCr)
    BY <2>2, TokensDiffer DEF CrAfterLf
  <2> QED
    BY <2>1, <2>3 DEF Texts
<1>3. ASSUME NEW x \in Tokens \ {LF} PROVE <<x>> \in Texts
  <2> DEFINE t == <<x>>
  <2>1. t \in Seq(Tokens) /\ Len(t) = 1 /\ t[1] = x
    OBVIOUS
  <2> HIDE DEF t
  <2>2. CrAfterLf(t)
    BY <2>1 DEF CrAfterLf
  <2>3. t \in Texts
    BY <2>1, <2>2 DEF Texts
  <2> QED
    BY <2>3 DEF t
<1>4. ASSUME NEW m \in Nat PROVE PrintNum(m) \in Texts
  <2> DEFINE t == PrintNum(m)
  <2>1. t \in Seq(Glyphs)
    BY PrintNumType
  <2> HIDE DEF t
  <2>2. t \in Seq(Tokens)
    BY <2>1, TokensDiffer, SeqMonotonic
  <2>3. \A k \in 1 .. Len(t) : t[k] # LF
    BY <2>1, TokensDiffer, ElementOfSeq
  <2>4. t \in Texts
    BY <2>2, <2>3 DEF Texts, CrAfterLf
  <2> QED
    BY <2>4 DEF t
<1> QED
  BY <1>1, <1>2, <1>3, <1>4

Terminals == [line : Seq(Tokens), home : BOOLEAN, last : Seq(Tokens), row : {0, 1}]

\* What is on its way to the terminal t of program p leaves no staircase: where a
\* line feed arrives the terminal is at the left edge (hello and rust), or a
\* carriage return arrives before anything else (matrix-mul).
Straight(p, s, t) ==
  IF p = "matmul"
  THEN /\ CrAfterLf(s)
       /\ t.line = <<>> /\ ~t.home => Len(s) > 0 /\ s[1] = CR
  ELSE /\ \A k \in 1 .. Len(s) : s[k] = LF => IF k = 1 THEN t.home ELSE s[k - 1] = CR
       /\ t.line = <<>> => t.home

\* One more character arrives.
LEMMA SentOK ==
  ASSUME NEW p, NEW s \in Seq(Tokens), s # <<>>, NEW t \in Terminals, Straight(p, s, t)
  PROVE  /\ Shown(t, Head(s)) \in Terminals
         /\ Straight(p, Tail(s), Shown(t, Head(s)))
         /\ t.line = <<>> /\ Shown(t, Head(s)).line # <<>> => t.home
<1> DEFINE ch == Head(s)
           u  == Tail(s)
           v  == Shown(t, ch)
<1>1. /\ Len(s) \in Nat \ {0} /\ ch = s[1] /\ ch \in Tokens /\ u \in Seq(Tokens)
      /\ Len(u) = Len(s) - 1 /\ \A k \in 1 .. Len(u) : u[k] = s[k + 1] /\ k + 1 \in 1 .. Len(s)
  BY EmptySeq, HeadTailProperties, LenProperties, ElementOfSeq
<1>2. t.line \in Seq(Tokens) /\ t.home \in BOOLEAN /\ t.last \in Seq(Tokens) /\ t.row \in {0, 1}
  BY DEF Terminals
<1>3. /\ v \in Terminals
      /\ ch = CR => v.line = t.line /\ v.home
      /\ ch = LF => v.line = <<>> /\ v.home = t.home
      /\ ch \notin {CR, LF} => v.line # <<>>
  <2> HIDE DEF ch
  <2>1. CASE ch = CR
    BY <1>2, <2>1, TokensDiffer DEF Shown, Terminals
  <2>2. CASE ch = LF
    <3>1. v = [t EXCEPT !.line = <<>>, !.last = t.line, !.row = 1 - @] /\ ch # CR
      BY <2>2, TokensDiffer DEF Shown
    <3> HIDE DEF v
    <3>2. <<>> \in Seq(Tokens)
      BY EmptySeq
    <3>3. t = [line |-> t.line, home |-> t.home, last |-> t.last, row |-> t.row]
      BY DEF Terminals
    <3>4. v = [line |-> <<>>, home |-> t.home, last |-> t.line, row |-> 1 - t.row]
      BY <3>1, <3>3
    <3>5. v.line = <<>> /\ v.home = t.home /\ ch # CR
      BY <3>1, <3>4
    <3>6. v \in Terminals
      BY <1>2, <3>2, <3>4 DEF Terminals
    <3> QED
      BY <2>2, <3>5, <3>6
  <2>3. CASE ch \notin {CR, LF}
    <3> DEFINE a == Append(t.line, ch)
    <3>1. a \in Seq(Tokens) /\ a # <<>>
      BY <1>1, <1>2, AppendProperties
    <3>2. v = [t EXCEPT !.line = a, !.home = FALSE]
      BY <2>3 DEF Shown
    <3> HIDE DEF v, a
    <3> QED
      BY <1>2, <2>3, <3>1, <3>2 DEF Terminals
  <2> QED
    BY <2>1, <2>2, <2>3
<1> HIDE DEF ch, u, v
<1>4. CASE p = "matmul"
  <2>1. CrAfterLf(u)
    <3> SUFFICES ASSUME NEW k \in 1 .. Len(u), u[k] = LF PROVE k < Len(u) /\ u[k + 1] = CR
      BY DEF CrAfterLf
    <3>1. k + 1 \in 1 .. Len(s) /\ s[k + 1] = LF
      BY <1>1
    <3>2. k + 1 < Len(s) /\ s[(k + 1) + 1] = CR
      BY <1>4, <3>1 DEF Straight, CrAfterLf
    <3>3. k + 1 \in 1 .. Len(u)
      BY <1>1, <3>2
    <3> QED
      BY <1>1, <3>2, <3>3
  <2>2. v.line = <<>> /\ ~v.home => Len(u) > 0 /\ u[1] = CR
    <3> SUFFICES ASSUME v.line = <<>>, ~v.home PROVE Len(u) > 0 /\ u[1] = CR
      OBVIOUS
    <3>1. s[1] = LF /\ 1 \in 1 .. Len(s)
      BY <1>1, <1>3
    <3>2. 1 < Len(s) /\ s[1 + 1] = CR
      BY <1>4, <3>1 DEF Straight, CrAfterLf
    <3>3. 1 \in 1 .. Len(u)
      BY <1>1, <3>2
    <3> QED
      BY <1>1, <3>2, <3>3
  <2>3. t.line = <<>> /\ v.line # <<>> => t.home
    BY <1>1, <1>3, <1>4 DEF Straight
  <2> QED
    BY <1>3, <1>4, <2>1, <2>2, <2>3 DEF Straight, ch, u, v
<1>5. CASE p # "matmul"
  <2>1. ASSUME NEW k \in 1 .. Len(u), u[k] = LF
        PROVE  IF k = 1 THEN v.home ELSE u[k - 1] = CR
    <3>1. k + 1 \in 1 .. Len(s) /\ s[k + 1] = LF /\ k + 1 # 1 /\ (k + 1) - 1 = k
      BY <1>1, <2>1
    <3>2. s[k] = CR
      BY <1>5, <3>1 DEF Straight
    <3>3. CASE k = 1
      BY <1>1, <1>3, <3>2, <3>3
    <3>4. CASE k # 1
      <4>1. k - 1 \in 1 .. Len(u) /\ (k - 1) + 1 = k
        BY <1>1, <3>4
      <4> QED
        BY <1>1, <3>2, <3>4, <4>1
    <3> QED
      BY <3>3, <3>4
  <2>2. v.line = <<>> => v.home
    <3>1. s[1] = LF => t.home
      BY <1>1, <1>5 DEF Straight
    <3> QED
      BY <1>1, <1>3, <3>1
  <2>3. t.line = <<>> => t.home
    BY <1>5 DEF Straight
  <2> QED
    BY <1>3, <1>5, <2>1, <2>2, <2>3 DEF Straight, ch, u, v
<1> QED
  BY <1>4, <1>5

\* A text is added to what is on its way.
LEMMA SaidOK ==
  ASSUME NEW p, NEW s \in Seq(Tokens), NEW t, Straight(p, s, t), NEW x \in Seq(Tokens),
         IF p = "matmul" THEN CrAfterLf(x) ELSE LfAfterCr(x)
  PROVE  Straight(p, s \o x, t)
<1> DEFINE y == s \o x
<1>1. /\ Len(s) \in Nat /\ Len(x) \in Nat /\ Len(y) = Len(s) + Len(x)
      /\ \A k \in 1 .. Len(s) + Len(x) : y[k] = IF k =< Len(s) THEN s[k] ELSE x[k - Len(s)]
  BY ConcatProperties, LenProperties
<1>2. CASE p = "matmul"
  <2>1. CrAfterLf(y)
    BY <1>2, ConcatEnds DEF Straight
  <2> HIDE DEF y
  <2>2. Len(s) > 0 /\ s[1] = CR => Len(y) > 0 /\ y[1] = CR
    BY <1>1
  <2> QED
    BY <1>2, <2>1, <2>2 DEF Straight, y
<1>3. CASE p # "matmul"
  <2> HIDE DEF y
  <2>1. ASSUME NEW k \in 1 .. Len(y), y[k] = LF
        PROVE  IF k = 1 THEN t.home ELSE y[k - 1] = CR
    <3>1. CASE k =< Len(s)
      <4>1. k \in 1 .. Len(s) /\ s[k] = LF
        BY <1>1, <2>1, <3>1
      <4>2. IF k = 1 THEN t.home ELSE s[k - 1] = CR
        BY <1>3, <4>1 DEF Straight
      <4>3. k # 1 => y[k - 1] = s[k - 1]
        BY <1>1, <4>1
      <4> QED
        BY <4>2, <4>3
    <3>2. CASE k > Len(s)
      <4>1. k - Len(s) \in 1 .. Len(x) /\ x[k - Len(s)] = LF
        BY <1>1, <2>1, <3>2
      <4>2. k - Len(s) > 1 /\ x[(k - Len(s)) - 1] = CR
        BY <1>3, <4>1 DEF LfAfterCr
      <4>3. /\ k - 1 \in 1 .. Len(s) + Len(x) /\ k - 1 > Len(s) /\ k # 1
            /\ (k - 1) - Len(s) = (k - Len(s)) - 1
        BY <1>1, <4>1, <4>2
      <4> QED
        BY <1>1, <4>2, <4>3
    <3> QED
      BY <1>1, <3>1, <3>2
  <2> QED
    BY <1>3, <2>1 DEF Straight, y
<1> QED
  BY <1>2, <1>3

\* What is on its way to the terminal, through the FIFO and from uart_puts.
Lined ==
  /\ uart.fifo \in Seq(Tokens) /\ out \in Seq(Tokens) /\ term \in Terminals
  /\ program = "rust" => main.n \in Nat
  /\ Straight(program, uart.fifo \o out, term)

\* uart_puts begins with a text.
LEMMA SaysOK ==
  ASSUME Lined, out = <<>>, NEW x \in Seq(Tokens), program = "matmul" => CrAfterLf(x), Says(x),
         uart'.fifo = uart.fifo, term' = term, program' = program,
         program = "rust" => main'.n \in Nat
  PROVE  Lined'
<1>1. Wire(x) \in Seq(Tokens) /\ IF program = "matmul" THEN CrAfterLf(Wire(x)) ELSE LfAfterCr(Wire(x))
  BY TokensDiffer, CrBeforeLfOK DEF Wire
<1>2. uart.fifo \o out = uart.fifo /\ uart.fifo \in Seq(Tokens)
  BY ConcatEmptySeq DEF Lined
<1>3. Straight(program, uart.fifo \o Wire(x), term)
  BY <1>1, <1>2, SaidOK DEF Lined
<1> QED
  BY <1>1, <1>3 DEF Lined, Says

\* A character moves into the FIFO.
LEMMA PutcOK ==
  ASSUME Tuned, Lined, Putc
  PROVE  Lined' /\ term' = term
<1> DEFINE f == uart.fifo
           a == Append(f, Head(out))
<1>1. f \in Seq(Tokens) /\ out \in Seq(Tokens) /\ out # <<>>
  BY DEF Lined, Putc
<1>2. Head(out) \in Tokens /\ Tail(out) \in Seq(Tokens)
  BY <1>1, HeadTailProperties
<1>3. a \in Seq(Tokens)
  BY <1>1, <1>2, AppendProperties
<1>4. a \o Tail(out) = f \o out
  <2> DEFINE h == <<Head(out)>>
  <2>1. a = f \o h /\ h \in Seq(Tokens)
    BY <1>1, <1>2, AppendIsConcat
  <2>2. out = h \o Tail(out)
    BY <1>1
  <2> HIDE DEF f, a, h
  <2>3. (f \o h) \o Tail(out) = f \o (h \o Tail(out))
    BY <1>1, <1>2, <2>1, ConcatAssociative
  <2> QED
    BY <2>1, <2>2, <2>3
<1>5. uart' = [uart EXCEPT !.fifo = a] /\ uart = [r \in Registers |-> uart[r]]
  BY TakenWhole DEF Tuned
<1>6. uart'.fifo = a
  <2> HIDE DEF a
  <2> QED
    BY <1>5 DEF Registers
<1>7. /\ out' = Tail(out) /\ term' = term /\ program' = program /\ main' = main
  BY DEF Putc, startVars
<1> HIDE DEF a, f
<1>8. Straight(program, a \o Tail(out), term)
  BY <1>4 DEF Lined, f
<1> QED
  BY <1>2, <1>3, <1>6, <1>7, <1>8 DEF Lined

\* A character arrives at the terminal.
LEMMA TransmitOK ==
  ASSUME Tuned, Lined, Transmit
  PROVE  Lined' /\ (term.line = <<>> /\ term'.line # <<>> => term.home)
<1> DEFINE f == uart.fifo
           s == f \o out
<1>1. /\ f \in Seq(Tokens) /\ out \in Seq(Tokens) /\ f # <<>> /\ term \in Terminals
      /\ Straight(program, s, term)
  BY DEF Lined, Transmit
<1>2. Tail(f) \in Seq(Tokens)
  BY <1>1, HeadTailProperties
<1>3. s \in Seq(Tokens) /\ s # <<>> /\ Head(s) = Head(f) /\ Tail(s) = Tail(f) \o out
  <2> HIDE DEF f
  <2>1. s \in Seq(Tokens) /\ s # <<>>
    BY <1>1, ConcatProperties, ConcatEqualIffEmpty
  <2>2. Head(s) = Head(f) /\ Tail(s) = Tail(f) \o out
    BY <1>1
  <2> QED
    BY <2>1, <2>2
<1>4. uart' = [uart EXCEPT !.fifo = Tail(f)] /\ uart = [r \in Registers |-> uart[r]]
  BY DEF Transmit, Tuned
<1>5. uart'.fifo = Tail(f)
  BY <1>4 DEF Registers
<1>6. term' = Shown(term, Head(f)) /\ out' = out /\ program' = program /\ main' = main
  BY ArrivesAsSent DEF Transmit, startVars
<1> HIDE DEF f, s
<1>7. /\ Shown(term, Head(s)) \in Terminals
      /\ Straight(program, Tail(s), Shown(term, Head(s)))
      /\ term.line = <<>> /\ Shown(term, Head(s)).line # <<>> => term.home
  BY <1>1, <1>3, SentOK
<1> QED
  BY <1>1, <1>2, <1>3, <1>5, <1>6, <1>7 DEF Lined

\* The texts of the programs.
LEMMA TextsOK ==
  /\ <<Greeting, LF>> \in Seq(Tokens)
  /\ \A m \in Nat : <<CounterIs>> \o PrintNum(m) \o <<LF>> \in Seq(Tokens)
  /\ LfCr \o <<Banner>> \o LfCr \o <<Filling>> \o LfCr \in Texts
  /\ <<Starting>> \o LfCr \in Texts
  /\ \A m \in Nat : <<RowDone>> \o PrintNum(m) \o <<OutOf>> \o PrintNum(N) \o <<RowsText>> \o LfCr \in Texts
  /\ \A m \in Nat : <<CalculationDone>> \o LfCr \o <<ValueAt>> \o PrintNum(m) \o LfCr \in Texts
<1>1. /\ <<Greeting, LF>> \in Seq(Tokens) /\ <<LF>> \in Seq(Tokens)
      /\ <<CounterIs>> \in Texts
  BY TokensDiffer, TextParts
<1>2. \A m \in Nat : <<CounterIs>> \o PrintNum(m) \o <<LF>> \in Seq(Tokens)
  <2>1. \A t \in Texts : t \in Seq(Tokens)
    BY DEF Texts
  <2> QED
    BY <1>1, <2>1, TextParts, ConcatProperties
<1>3. N \in Nat
  BY Sizes
<1> QED
  BY <1>1, <1>2, <1>3, TokensDiffer, TextParts

\* No step breaks the line ends.
LEMMA LinedStep ==
  ASSUME Tuned, Multiplied, Lined, [SerialNext]_serialVars
  PROVE  Lined' /\ (term.line = <<>> /\ term'.line # <<>> => term.home)
<1>1. CASE Putc
  BY <1>1, PutcOK
<1>2. CASE Transmit
  BY <1>2, TransmitOK
<1>3. CASE UNCHANGED serialVars
  BY <1>3 DEF Lined, serialVars, startVars
<1>4. CASE StartCode
  BY <1>4 DEF Lined, StartCode, StartNext, Boot, Enter, CountedStore, ComparedStore, CallMain
<1>5. CASE UartInit
  <2>1. uart'.fifo = uart.fifo
    BY <1>5, UartInitOK
  <2>2. program = "hello" /\ program' = program /\ out' = out /\ term' = term
    BY <1>5 DEF UartInit, Runs, startVars
  <2> QED
    BY <2>1, <2>2 DEF Lined
<1>6. CASE Greet
  <2>1. /\ out = <<>> /\ program' = program /\ program # "matmul" /\ uart' = uart /\ term' = term
        /\ Says(<<Greeting, LF>>)
    BY <1>6 DEF Greet, Runs, startVars
  <2>2. main'.n = main.n
    BY <1>6 DEF Greet, Tuned
  <2>3. Lined'
    BY <2>1, <2>2, TextsOK, SaysOK DEF Lined
  <2> QED
    BY <2>1, <2>3
<1>7. CASE CountUp
  <2>1. /\ out = <<>> /\ program' = program /\ program = "rust" /\ uart' = uart /\ term' = term
        /\ Says(<<CounterIs>> \o PrintNum(main.n) \o <<LF>>)
        /\ main' = [main EXCEPT !.n = (@ + 1) % CounterMod]
    BY <1>7 DEF CountUp, Runs, startVars
  <2>2. main.n \in Nat
    BY <2>1 DEF Lined
  <2>3. main'.n = (main.n + 1) % CounterMod
    BY <2>1 DEF Tuned
  <2>4. main'.n \in Nat
    BY <2>2, <2>3, SerialAssumption DEF SerialAssumption
  <2>5. Lined'
    BY <2>1, <2>2, <2>4, TextsOK, SaysOK
  <2> QED
    BY <2>1, <2>5
<1>8. ASSUME NEW x \in Texts, Says(x), program = "matmul", out = <<>>,
             UNCHANGED <<program, uart, term>>
      PROVE  Lined' /\ (term.line = <<>> /\ term'.line # <<>> => term.home)
  <2>1. x \in Seq(Tokens) /\ CrAfterLf(x)
    BY DEF Texts
  <2> QED
    BY <1>8, <2>1, SaysOK
<1>9. CASE Title
  <2>1. /\ Says(LfCr \o <<Banner>> \o LfCr \o <<Filling>> \o LfCr)
        /\ program = "matmul" /\ out = <<>> /\ UNCHANGED <<program, uart, term>>
    BY <1>9 DEF Title, Runs, startVars
  <2> QED
    BY <1>8, <2>1, TextsOK
<1>10. CASE FillMatrices
  <2>1. /\ Says(<<Starting>> \o LfCr)
        /\ program = "matmul" /\ out = <<>> /\ UNCHANGED <<program, uart, term>>
    BY <1>10 DEF FillMatrices, Runs, startVars
  <2> QED
    BY <1>8, <2>1, TextsOK
<1>11. CASE Multiply
  <2>1. /\ program = "matmul" /\ out = <<>> /\ UNCHANGED <<program, uart, term>>
        /\ \/ Says(<<RowDone>> \o PrintNum(main.i) \o <<OutOf>> \o PrintNum(N) \o <<RowsText>> \o LfCr)
           \/ out' = out
        /\ main.pc = "multiply"
    BY <1>11 DEF Multiply, Runs, startVars
  <2>2. main.i \in Nat
    BY <2>1, Sizes DEF Multiplied
  <2>3. CASE out' = out
    BY <2>1, <2>3 DEF Lined
  <2> QED
    BY <1>8, <2>1, <2>2, <2>3, TextsOK
<1>12. CASE Result
  <2> DEFINE v == mat.C[<<0, 0>>] \div 100
  <2>1. /\ Says(<<CalculationDone>> \o LfCr \o <<ValueAt>> \o PrintNum(v) \o LfCr)
        /\ program = "matmul" /\ out = <<>> /\ UNCHANGED <<program, uart, term>>
    BY <1>12 DEF Result, Runs, startVars
  <2>2. v \in Nat
    <3>1. mat.C[<<0, 0>>] \in Nat
      BY <2>1, Sizes DEF Multiplied, Elements
    <3> QED
      BY <3>1
  <2> HIDE DEF v
  <2> QED
    BY <1>8, <2>1, <2>2, TextsOK
<1> QED
  BY <1>1, <1>2, <1>3, <1>4, <1>5, <1>6, <1>7, <1>9, <1>10, <1>11, <1>12 DEF SerialNext, Program

\* At reset nothing has been printed.
LEMMA LinedInit == SerialInit => Tuned /\ Multiplied /\ Lined
<1>1. SerialInit => Tuned
  BY DEF SerialInit, StartInit, Tuned, Registers
<1>2. SerialInit => Multiplied
  <2>1. Zeros \in [Elements -> Nat]
    BY DEF Zeros
  <2> QED
    BY <2>1 DEF SerialInit, Multiplied
<1>3. SerialInit => Lined
  <2> SUFFICES ASSUME SerialInit PROVE Lined
    OBVIOUS
  <2>1. /\ uart.fifo = <<>> /\ out = <<>> /\ main.n = 0
        /\ term = [line |-> <<>>, home |-> TRUE, last |-> NoLine, row |-> 0]
    BY DEF SerialInit
  <2>2. /\ <<>> \in Seq(Tokens) /\ Len(<<>>) = 0 /\ <<>> \o <<>> = <<>>
        /\ NoLine \in Seq(Tokens)
    BY EmptySeq, ConcatEmptySeq, TokensDiffer DEF NoLine
  <2>3. term \in Terminals /\ term.line = <<>> /\ term.home
    BY <2>1, <2>2 DEF Terminals
  <2>4. Straight(program, <<>>, term)
    BY <2>2, <2>3 DEF Straight, CrAfterLf
  <2> QED
    BY <2>1, <2>2, <2>3, <2>4 DEF Lined
<1> QED
  BY <1>1, <1>2, <1>3

\* Whatever the text, the numbers in it and the pace of the device: the first
\* character of a line is shown at the left edge.
THEOREM LinesStraight == SerialSpec => NoStaircase
<1>1. SerialInit => Tuned /\ Multiplied /\ Lined
  BY LinedInit
<1>2. Tuned /\ Multiplied /\ Lined /\ [SerialNext]_serialVars => (Tuned /\ Multiplied /\ Lined)'
  <2>1. Tuned /\ UNCHANGED serialVars => Tuned'
    BY DEF Tuned, serialVars, startVars
  <2> QED
    BY <2>1, UartInitOK, RegistersKept, MultipliedStep, LinedStep
<1>3. Tuned /\ Multiplied /\ Lined /\ [SerialNext]_serialVars =>
        [term.line = <<>> /\ term'.line # <<>> => term.home]_serialVars
  BY LinedStep
<1> QED
  BY <1>1, <1>2, <1>3, PTL DEF SerialSpec, NoStaircase

-----------------------------------------------------------------------------
(***************************************************************************)
(* What is printed is decimal notation, and no two numbers have the same.  *)
(***************************************************************************)
\* The text backwards, with one more character put before it.
LEMMA ReverseOnto ==
  ASSUME NEW S, NEW d \in Seq(S), NEW x \in S
  PROVE  Reverse(<<x>> \o d) = Append(Reverse(d), x)
<1> DEFINE e == <<x>> \o d
           l == Len(d)
<1>1. /\ l \in Nat /\ Len(e) = l + 1 /\ e[1] = x
      /\ \A k \in 1 .. l : e[k + 1] = d[k]
  BY LenProperties
<1> HIDE DEF e, l
<1>2. Reverse(e) = [k \in 1 .. l + 1 |-> e[((l + 1) - k) + 1]]
  BY <1>1 DEF Reverse
<1>3. Reverse(d) = [k \in 1 .. l |-> d[(l - k) + 1]]
  BY DEF Reverse, l
<1>4. Reverse(d) \in Seq(S) /\ Len(Reverse(d)) = l
  <2>1. \A k \in 1 .. l : (l - k) + 1 \in 1 .. l
    BY <1>1
  <2>2. \A k \in 1 .. l : d[k] \in S
    BY ElementOfSeq DEF l
  <2>3. Reverse(d) \in [1 .. l -> S]
    BY <1>3, <2>1, <2>2
  <2> QED
    BY <1>1, <2>3
<1>5. Append(Reverse(d), x) = [k \in 1 .. l + 1 |-> IF k = l + 1 THEN x ELSE Reverse(d)[k]]
  <2> DEFINE r == Reverse(d)
  <2>1. r \in Seq(S) /\ Len(r) = l
    BY <1>4
  <2> HIDE DEF r
  <2>2. /\ Append(r, x) \in Seq(S) /\ Len(Append(r, x)) = l + 1
        /\ \A k \in 1 .. l : Append(r, x)[k] = r[k]
        /\ Append(r, x)[l + 1] = x
    BY <2>1, AppendProperties
  <2>3. Append(r, x) = [k \in 1 .. l + 1 |-> Append(r, x)[k]]
    BY <2>2, LenProperties
  <2>4. \A k \in 1 .. l + 1 : Append(r, x)[k] = IF k = l + 1 THEN x ELSE r[k]
    BY <1>1, <2>2
  <2>5. Append(r, x) = [k \in 1 .. l + 1 |-> IF k = l + 1 THEN x ELSE r[k]]
    BY <2>3, <2>4
  <2> QED
    BY <2>5 DEF r
<1>6. ASSUME NEW k \in 1 .. l + 1
      PROVE  e[((l + 1) - k) + 1] = IF k = l + 1 THEN x ELSE Reverse(d)[k]
  <2>1. CASE k = l + 1
    BY <1>1, <2>1
  <2>2. CASE k # l + 1
    <3>1. k \in 1 .. l /\ (l - k) + 1 \in 1 .. l /\ ((l + 1) - k) + 1 = ((l - k) + 1) + 1
      BY <1>1, <2>2
    <3>2. e[((l + 1) - k) + 1] = d[(l - k) + 1]
      BY <1>1, <3>1
    <3> QED
      BY <1>3, <2>2, <3>1, <3>2
  <2> QED
    BY <2>1, <2>2
<1> QED
  BY <1>2, <1>5, <1>6 DEF e

NumeralTurn(g, m) ==
  IF m < 10 THEN <<Numerals[1 + m]>> ELSE Append(g[m \div 10], Numerals[1 + (m % 10)])

\* print_num satisfies the recursion that defines Numeral.
LEMMA PrintNumTurn ==
  ASSUME NEW m \in Nat
  PROVE  PrintNum(m) = NumeralTurn([k \in Nat |-> PrintNum(k)], m)
<1> DEFINE x == Numerals[1 + (m % 10)]
           q == m \div 10
           g == [k \in Nat |-> PrintNum(k)]
<1>1. x \in Glyphs /\ q \in Nat /\ Digits[q] \in Seq(Glyphs)
  BY NumeralsType, TenthLess, DigitsType
<1>2. m # 0 => Digits[m] = <<x>> \o Digits[q]
  BY DigitsTurn
<1>3. m < 10 => m % 10 = m /\ q = 0
  OBVIOUS
<1>4. m >= 10 => q # 0
  OBVIOUS
<1>5. Numerals[1 + 0] = "0"
  BY DEF Numerals
<1>6. CASE m = 0
  BY <1>5, <1>6 DEF PrintNum, NumeralTurn
<1> HIDE DEF x, q, g
<1>7. m # 0 => PrintNum(m) = Append(Reverse(Digits[q]), x)
  BY <1>1, <1>2, ReverseOnto DEF PrintNum
<1>8. CASE m # 0 /\ m < 10
  <2>1. Digits[q] = <<>>
    BY <1>3, <1>8, DigitsTurn
  <2>2. Reverse(<<>>) = <<>> /\ Append(<<>>, x) = <<x>>
    BY DEF Reverse
  <2>3. x = Numerals[1 + m]
    BY <1>3, <1>8 DEF x
  <2> QED
    BY <1>7, <1>8, <2>1, <2>2, <2>3 DEF NumeralTurn
<1>9. CASE m >= 10
  <2>1. PrintNum(q) = Reverse(Digits[q])
    BY <1>4, <1>9 DEF PrintNum
  <2>2. g[q] = PrintNum(q)
    BY <1>1 DEF g
  <2>3. m # 0 /\ ~(m < 10)
    BY <1>9
  <2> QED
    BY <1>7, <2>1, <2>2, <2>3 DEF NumeralTurn, x, q, g
<1> QED
  BY <1>6, <1>8, <1>9

\* So the recursion has a solution, and Numeral is one.
LEMMA NumeralTurns == \A m \in Nat : Numeral[m] = NumeralTurn(Numeral, m)
<1> DEFINE h == [m \in Nat |-> PrintNum(m)]
<1>1. h = [m \in Nat |-> NumeralTurn(h, m)]
  <2>1. \A m \in Nat : PrintNum(m) = NumeralTurn(h, m)
    BY PrintNumTurn
  <2> QED
    BY <2>1
<1>2. \E g : g = [m \in Nat |-> NumeralTurn(g, m)]
  <2> HIDE DEF h
  <2> QED
    BY <1>1
<1>3. Numeral = CHOOSE g : g = [m \in Nat |-> NumeralTurn(g, m)]
  BY DEF Numeral, NumeralTurn
<1> DEFINE D == Numeral
<1> HIDE DEF D
<1>4. D = CHOOSE g : g = [m \in Nat |-> NumeralTurn(g, m)]
  BY <1>3 DEF D
<1>5. D = [m \in Nat |-> NumeralTurn(D, m)]
  BY <1>2, <1>4
<1>6. \A m \in Nat : D[m] = NumeralTurn(D, m)
  BY <1>5
<1> QED
  BY <1>6 DEF D

\* The digits found last first and printed backwards are decimal notation.
THEOREM PrintedInDecimal == \A m \in Nat : PrintNum(m) = Numeral[m]
<1> DEFINE Q == {m \in Nat : PrintNum(m) = Numeral[m]}
           h == [k \in Nat |-> PrintNum(k)]
<1>1. ASSUME NEW m \in Nat, \A k \in Nat : k < m => k \in Q
      PROVE  m \in Q
  <2>1. PrintNum(m) = NumeralTurn(h, m) /\ Numeral[m] = NumeralTurn(Numeral, m)
    BY PrintNumTurn, NumeralTurns
  <2>2. CASE m < 10
    BY <2>1, <2>2 DEF NumeralTurn
  <2>3. CASE m >= 10
    <3>1. m \div 10 \in Nat /\ m \div 10 < m
      BY <2>3, TenthLess
    <3>2. h[m \div 10] = Numeral[m \div 10]
      BY <1>1, <3>1
    <3>3. ~(m < 10)
      BY <2>3
    <3> HIDE DEF h
    <3>4. NumeralTurn(h, m) = NumeralTurn(Numeral, m)
      BY <3>2, <3>3 DEF NumeralTurn
    <3> QED
      BY <2>1, <3>4
  <2> QED
    BY <2>2, <2>3
<1>2. Nat \subseteq Q
  <2> HIDE DEF Q
  <2> QED
    BY <1>1, StrongInduction
<1> QED
  BY <1>2

LEMMA NumeralType == \A m \in Nat : Numeral[m] \in Seq(Glyphs) /\ Numeral[m] # <<>>
<1> SUFFICES ASSUME NEW m \in Nat PROVE Numeral[m] \in Seq(Glyphs) /\ Numeral[m] # <<>>
  OBVIOUS
<1>1. Numeral[m] \in Seq(Glyphs)
  BY PrintedInDecimal, PrintNumType
<1>2. m \div 10 \in Nat => Numeral[m \div 10] \in Seq(Glyphs)
  BY PrintedInDecimal, PrintNumType
<1>3. Numeral[m] = NumeralTurn(Numeral, m)
  BY NumeralTurns
<1>4. CASE m < 10
  <2>1. Numeral[m] = <<Numerals[1 + m]>>
    BY <1>3, <1>4 DEF NumeralTurn
  <2>2. \A z : <<z>> # <<>>
    OBVIOUS
  <2>3. Numeral[m] # <<>>
    BY <2>1, <2>2
  <2> QED
    BY <1>1, <2>3
<1>5. CASE ~(m < 10)
  <2> DEFINE s == Numeral[m \div 10]
             x == Numerals[1 + (m % 10)]
  <2>1. s \in Seq(Glyphs) /\ x \in Glyphs /\ Numeral[m] = Append(s, x)
    BY <1>2, <1>3, <1>5, TenthLess, NumeralsType DEF NumeralTurn
  <2> HIDE DEF s, x
  <2>2. Append(s, x) # <<>>
    BY <2>1, AppendProperties
  <2> QED
    BY <1>1, <2>1, <2>2
<1> QED
  BY <1>1, <1>4, <1>5

LEMMA NumeralsDiffer ==
  \A a, b \in 0 .. 9 : Numerals[1 + a] = Numerals[1 + b] => a = b
<1> DEFINE f == [d \in 0 .. 9 |-> Numerals[1 + d]]
<1>1. /\ f[0] = "0" /\ f[1] = "1" /\ f[2] = "2" /\ f[3] = "3" /\ f[4] = "4"
      /\ f[5] = "5" /\ f[6] = "6" /\ f[7] = "7" /\ f[8] = "8" /\ f[9] = "9"
  BY DEF Numerals
<1>2. \A d \in 0 .. 9 : f[d] = Numerals[1 + d]
  OBVIOUS
<1>3. 0 .. 9 = {0, 1, 2, 3, 4, 5, 6, 7, 8, 9}
  OBVIOUS
<1> HIDE DEF f
<1>4. \A a, b \in 0 .. 9 : f[a] = f[b] => a = b
  BY <1>1, <1>3
<1> QED
  BY <1>2, <1>4

\* A reader of the notation knows the number.
THEOREM NumeralInjective == \A m, k \in Nat : Numeral[m] = Numeral[k] => m = k
<1> DEFINE Q == {m \in Nat : \A k \in Nat : Numeral[m] = Numeral[k] => m = k}
<1>1. ASSUME NEW m \in Nat, \A l \in Nat : l < m => l \in Q
      PROVE  m \in Q
  <2> SUFFICES ASSUME NEW k \in Nat, Numeral[m] = Numeral[k]
               PROVE  m = k
    OBVIOUS
  <2> DEFINE s == Numeral[m \div 10]
             x == Numerals[1 + (m % 10)]
             t == Numeral[k \div 10]
             y == Numerals[1 + (k % 10)]
  <2>1. /\ s \in Seq(Glyphs) /\ s # <<>> /\ t \in Seq(Glyphs) /\ t # <<>>
        /\ x \in Glyphs /\ y \in Glyphs
    BY TenthLess, NumeralType, NumeralsType
  <2>2. /\ m < 10 => Numeral[m] = <<Numerals[1 + m]>>
        /\ ~(m < 10) => Numeral[m] = Append(s, x)
        /\ k < 10 => Numeral[k] = <<Numerals[1 + k]>>
        /\ ~(k < 10) => Numeral[k] = Append(t, y)
    BY NumeralTurns DEF NumeralTurn
  <2>3. CASE m < 10 /\ k < 10
    <3>1. Numerals[1 + m] = Numerals[1 + k] /\ m \in 0 .. 9 /\ k \in 0 .. 9
      BY <2>2, <2>3
    <3> QED
      BY <3>1, NumeralsDiffer
  <2>4. /\ Len(s) >= 1 /\ Len(Append(s, x)) = Len(s) + 1 /\ Len(s) \in Nat
        /\ Len(t) >= 1 /\ Len(Append(t, y)) = Len(t) + 1 /\ Len(t) \in Nat
    <3> HIDE DEF s, t, x, y
    <3> QED
      BY <2>1, EmptySeq, AppendProperties, LenProperties
  <2>5. \A z : Len(<<z>>) = 1
    OBVIOUS
  <2> HIDE DEF s, t, x, y
  <2>6. ~(m < 10 /\ ~(k < 10)) /\ ~(k < 10 /\ ~(m < 10))
    BY <2>2, <2>4, <2>5
  <2>7. CASE ~(m < 10) /\ ~(k < 10)
    <3>1. s = t /\ x = y
      BY <2>1, <2>2, <2>7, AppendInjective
    <3>2. m \div 10 \in Nat /\ m \div 10 < m /\ k \div 10 \in Nat
      BY <2>7, TenthLess
    <3>3. m \div 10 = k \div 10
      BY <1>1, <3>1, <3>2 DEF s, t
    <3>4. m % 10 = k % 10
      <4>1. m % 10 \in 0 .. 9 /\ k % 10 \in 0 .. 9
        OBVIOUS
      <4> QED
        BY <3>1, <4>1, NumeralsDiffer DEF x, y
    <3> QED
      BY <3>3, <3>4
  <2> QED
    BY <2>3, <2>6, <2>7
<1>2. Nat \subseteq Q
  <2> HIDE DEF Q
  <2> QED
    BY <1>1, StrongInduction
<1> QED
  BY <1>2

-----------------------------------------------------------------------------
(***************************************************************************)
(* The lines of the terminal.                                              *)
(***************************************************************************)
\* What the terminal keeps of the lines it has completed.
Mark(t) == <<t.last, t.row>>

\* The text s takes the terminal from t to u, and each mark goes with the one
\* before it: the two are a pair of L.
Run(T, t, s, u, L) ==
  /\ T \in [0 .. Len(s) -> Terminals]
  /\ T[0] = t /\ T[Len(s)] = u
  /\ \A k \in 0 .. Len(s) : <<Mark(T[k]), Mark(T[k])>> \in L
  /\ \A k \in 1 .. Len(s) : T[k] = Shown(T[k - 1], s[k]) /\ <<Mark(T[k - 1]), Mark(T[k])>> \in L

RunsTo(t, s, u, L) == \E T : Run(T, t, s, u, L)

LEMMA ShownType ==
  ASSUME NEW t \in Terminals, NEW x \in Tokens
  PROVE  /\ Shown(t, x) \in Terminals
         /\ x = CR => Shown(t, x).line = t.line /\ Mark(Shown(t, x)) = Mark(t)
         /\ x = LF => Shown(t, x).line = <<>> /\ Mark(Shown(t, x)) = <<t.line, 1 - t.row>>
         /\ x \notin {CR, LF} =>
              Shown(t, x) = [line |-> Append(t.line, x), home |-> FALSE, last |-> t.last, row |-> t.row]
<1>1. t.line \in Seq(Tokens) /\ t.home \in BOOLEAN /\ t.last \in Seq(Tokens) /\ t.row \in {0, 1}
      /\ t = [line |-> t.line, home |-> t.home, last |-> t.last, row |-> t.row]
  BY DEF Terminals
<1>2. Append(t.line, x) \in Seq(Tokens) /\ <<>> \in Seq(Tokens)
  BY <1>1, AppendProperties, EmptySeq
<1>3. CASE x = CR
  <2>1. Shown(t, x) = [t EXCEPT !.home = TRUE]
    BY <1>3, TokensDiffer DEF Shown
  <2> QED
    BY <1>1, <1>3, <2>1, TokensDiffer DEF Terminals, Mark
<1>4. CASE x = LF
  <2>1. Shown(t, x) = [t EXCEPT !.line = <<>>, !.last = t.line, !.row = 1 - @]
    BY <1>4, TokensDiffer DEF Shown
  <2>2. Shown(t, x) = [line |-> <<>>, home |-> t.home, last |-> t.line, row |-> 1 - t.row]
    BY <1>1, <2>1
  <2> QED
    BY <1>1, <1>2, <1>4, <2>2, TokensDiffer DEF Terminals, Mark
<1>5. CASE x \notin {CR, LF}
  <2>1. Shown(t, x) = [t EXCEPT !.line = Append(@, x), !.home = FALSE]
    BY <1>5 DEF Shown
  <2>2. Shown(t, x) = [line |-> Append(t.line, x), home |-> FALSE, last |-> t.last, row |-> t.row]
    BY <1>1, <2>1
  <2> QED
    BY <1>1, <1>2, <1>5, <2>2 DEF Terminals
<1> QED
  BY <1>3, <1>4, <1>5

\* More pairs of lines.
LEMMA RunMore ==
  ASSUME NEW t, NEW s, NEW u, NEW L, NEW M, L \subseteq M, RunsTo(t, s, u, L)
  PROVE  RunsTo(t, s, u, M)
<1>1. PICK T : Run(T, t, s, u, L)
  BY DEF RunsTo
<1>2. Run(T, t, s, u, M)
  BY <1>1 DEF Run
<1> QED
  BY <1>2 DEF RunsTo

\* One character less is on its way.
LEMMA RunHead ==
  ASSUME NEW t, NEW s \in Seq(Tokens), s # <<>>, NEW u, NEW L, RunsTo(t, s, u, L)
  PROVE  /\ <<Mark(t), Mark(Shown(t, Head(s)))>> \in L
         /\ RunsTo(Shown(t, Head(s)), Tail(s), u, L)
<1>1. PICK T : Run(T, t, s, u, L)
  BY DEF RunsTo
<1> DEFINE l == Len(s)
           r == Tail(s)
           V == [k \in 0 .. l - 1 |-> T[k + 1]]
<1>2. /\ l \in Nat \ {0} /\ Len(r) = l - 1 /\ Head(s) = s[1]
      /\ \A k \in 1 .. l - 1 : r[k] = s[k + 1]
  BY EmptySeq, HeadTailProperties
<1>3. /\ T \in [0 .. l -> Terminals] /\ T[0] = t /\ T[l] = u
      /\ \A k \in 0 .. l : <<Mark(T[k]), Mark(T[k])>> \in L
      /\ \A k \in 1 .. l : T[k] = Shown(T[k - 1], s[k]) /\ <<Mark(T[k - 1]), Mark(T[k])>> \in L
  BY <1>1 DEF Run
<1> HIDE DEF l, r
<1>4. T[1] = Shown(t, Head(s)) /\ <<Mark(t), Mark(T[1])>> \in L
  <2>1. 1 \in 1 .. l /\ 1 - 1 = 0
    BY <1>2
  <2> QED
    BY <1>2, <1>3, <2>1
<1>5. V \in [0 .. l - 1 -> Terminals] /\ V[0] = T[1] /\ V[l - 1] = u
  <2>1. \A k \in 0 .. l - 1 : k + 1 \in 0 .. l
    BY <1>2
  <2>2. 0 \in 0 .. l - 1 /\ l - 1 \in 0 .. l - 1 /\ 0 + 1 = 1 /\ (l - 1) + 1 = l
    BY <1>2
  <2> QED
    BY <1>3, <2>1, <2>2
<1>6. \A k \in 0 .. l - 1 : <<Mark(V[k]), Mark(V[k])>> \in L
  <2>1. \A k \in 0 .. l - 1 : k + 1 \in 0 .. l
    BY <1>2
  <2> QED
    BY <1>3, <2>1
<1>7. ASSUME NEW k \in 1 .. l - 1
      PROVE  V[k] = Shown(V[k - 1], r[k]) /\ <<Mark(V[k - 1]), Mark(V[k])>> \in L
  <2>1. /\ k \in 0 .. l - 1 /\ k - 1 \in 0 .. l - 1 /\ k + 1 \in 1 .. l
        /\ (k + 1) - 1 = k /\ (k - 1) + 1 = k
    BY <1>2
  <2>2. V[k] = T[k + 1] /\ V[k - 1] = T[k] /\ r[k] = s[k + 1]
    BY <1>2, <2>1
  <2> HIDE DEF V
  <2> QED
    BY <1>3, <2>1, <2>2
<1> HIDE DEF V
<1>8. Run(V, T[1], r, u, L)
  BY <1>2, <1>5, <1>6, <1>7 DEF Run
<1> QED
  BY <1>4, <1>8 DEF RunsTo, r

\* One character.
LEMMA RunOne ==
  ASSUME NEW t \in Terminals, NEW x \in Tokens, NEW L, <<Mark(t), Mark(t)>> \in L,
         <<Mark(t), Mark(Shown(t, x))>> \in L, <<Mark(Shown(t, x)), Mark(Shown(t, x))>> \in L
  PROVE  RunsTo(t, <<x>>, Shown(t, x), L)
<1> DEFINE s == <<x>>
           v == Shown(t, x)
           T == [k \in 0 .. 1 |-> IF k = 0 THEN t ELSE v]
<1>1. Len(s) = 1 /\ s[1] = x /\ v \in Terminals
  BY ShownType
<1>2. T \in [0 .. 1 -> Terminals] /\ T[0] = t /\ T[1] = v
  BY <1>1
<1>3. Run(T, t, s, v, L)
  <2>1. 0 .. 1 = {0, 1} /\ 1 .. 1 = {1} /\ 1 - 1 = 0
    OBVIOUS
  <2> HIDE DEF T, s
  <2> QED
    BY <1>1, <1>2, <2>1 DEF Run
<1> QED
  BY <1>3 DEF RunsTo

LEMMA RunNone ==
  ASSUME NEW t \in Terminals, NEW L, <<Mark(t), Mark(t)>> \in L
  PROVE  RunsTo(t, <<>>, t, L)
<1> DEFINE T == [k \in 0 .. 0 |-> t]
<1>1. Len(<<>>) = 0 /\ T \in [0 .. 0 -> Terminals] /\ T[0] = t /\ 0 .. 0 = {0} /\ 1 .. 0 = {}
  OBVIOUS
<1> HIDE DEF T
<1>2. Run(T, t, <<>>, t, L)
  BY <1>1 DEF Run
<1> QED
  BY <1>2 DEF RunsTo

\* One text after the other.
LEMMA RunJoin ==
  ASSUME NEW t, NEW s \in Seq(Tokens), NEW u, NEW r \in Seq(Tokens), NEW v, NEW L,
         RunsTo(t, s, u, L), RunsTo(u, r, v, L)
  PROVE  RunsTo(t, s \o r, v, L)
<1>1. PICK T : Run(T, t, s, u, L)
  BY DEF RunsTo
<1>2. PICK V : Run(V, u, r, v, L)
  BY DEF RunsTo
<1> DEFINE l == Len(s)
           m == Len(r)
           y == s \o r
           W == [k \in 0 .. l + m |-> IF k =< l THEN T[k] ELSE V[k - l]]
<1>3. /\ l \in Nat /\ m \in Nat /\ Len(y) = l + m
      /\ \A k \in 1 .. l + m : y[k] = IF k =< l THEN s[k] ELSE r[k - l]
  BY ConcatProperties, LenProperties
<1>4. /\ T \in [0 .. l -> Terminals] /\ T[0] = t /\ T[l] = u
      /\ \A k \in 0 .. l : <<Mark(T[k]), Mark(T[k])>> \in L
      /\ \A k \in 1 .. l : T[k] = Shown(T[k - 1], s[k]) /\ <<Mark(T[k - 1]), Mark(T[k])>> \in L
  BY <1>1 DEF Run
<1>5. /\ V \in [0 .. m -> Terminals] /\ V[0] = u /\ V[m] = v
      /\ \A k \in 0 .. m : <<Mark(V[k]), Mark(V[k])>> \in L
      /\ \A k \in 1 .. m : V[k] = Shown(V[k - 1], r[k]) /\ <<Mark(V[k - 1]), Mark(V[k])>> \in L
  BY <1>2 DEF Run
<1> HIDE DEF l, m, y
<1>6. ASSUME NEW k \in 0 .. l + m
      PROVE  /\ k =< l => k \in 0 .. l /\ W[k] = T[k]
             /\ k >= l => k - l \in 0 .. m /\ W[k] = V[k - l]
  <2>1. CASE k < l
    BY <1>3, <2>1
  <2>2. CASE k = l
    <3>1. k - l = 0 /\ W[k] = T[l]
      BY <1>3, <2>2
    <3> HIDE DEF W
    <3> QED
      BY <1>3, <1>4, <1>5, <2>2, <3>1
  <2>3. CASE k > l
    BY <1>3, <2>3
  <2> QED
    BY <1>3, <2>1, <2>2, <2>3
<1>7. DOMAIN W = 0 .. l + m /\ W = [k \in 0 .. l + m |-> W[k]]
  OBVIOUS
<1> HIDE DEF W
<1>8. \A k \in 0 .. l + m : W[k] \in Terminals /\ <<Mark(W[k]), Mark(W[k])>> \in L
  <2> TAKE k \in 0 .. l + m
  <2>1. k =< l \/ k >= l
    BY <1>3
  <2> QED
    BY <1>4, <1>5, <1>6, <2>1
<1>9. W \in [0 .. l + m -> Terminals]
  BY <1>7, <1>8
<1>10. W[0] = t /\ W[l + m] = v
  <2>1. 0 \in 0 .. l + m /\ 0 =< l /\ l + m \in 0 .. l + m /\ l + m >= l /\ (l + m) - l = m
    BY <1>3
  <2> QED
    BY <1>4, <1>5, <1>6, <2>1
<1>11. ASSUME NEW k \in 1 .. l + m
       PROVE  W[k] = Shown(W[k - 1], y[k]) /\ <<Mark(W[k - 1]), Mark(W[k])>> \in L
  <2>1. k \in 0 .. l + m /\ k - 1 \in 0 .. l + m
    BY <1>3
  <2>2. CASE k =< l
    <3>1. k \in 1 .. l /\ k - 1 =< l /\ y[k] = s[k]
      BY <1>3, <2>2
    <3>2. W[k] = T[k] /\ W[k - 1] = T[k - 1]
      BY <1>6, <2>1, <2>2, <3>1
    <3> QED
      BY <1>4, <3>1, <3>2
  <2>3. CASE k > l
    <3>1. k - l \in 1 .. m /\ k - 1 >= l /\ k >= l /\ y[k] = r[k - l] /\ (k - 1) - l = (k - l) - 1
      BY <1>3, <2>3
    <3>2. W[k] = V[k - l] /\ W[k - 1] = V[(k - l) - 1]
      BY <1>6, <2>1, <3>1
    <3> QED
      BY <1>5, <3>1, <3>2
  <2> QED
    BY <1>3, <2>2, <2>3
<1>12. Run(W, t, y, v, L)
  BY <1>3, <1>8, <1>9, <1>10, <1>11 DEF Run
<1> QED
  BY <1>12 DEF RunsTo, y

\* What is shown on a line.
Ink == Tokens \ {CR, LF}

LEMMA Regroup ==
  \A a, b, c \in Seq(Tokens) : (a \o b) \o c = a \o (b \o c) /\ a \o b \in Seq(Tokens)
BY ConcatAssociative, ConcatProperties

\* A text without line ends stays on the line.
LEMMA RunWord ==
  ASSUME NEW t \in Terminals, NEW w \in Seq(Ink), w # <<>>, NEW L, <<Mark(t), Mark(t)>> \in L
  PROVE  RunsTo(t, w, [line |-> t.line \o w, home |-> FALSE, last |-> t.last, row |-> t.row], L)
<1> DEFINE l == Len(w)
           part(k) == SubSeq(w, 1, k)
           T == [k \in 0 .. l |-> IF k = 0 THEN t
                                  ELSE [line |-> t.line \o part(k), home |-> FALSE, last |-> t.last, row |-> t.row]]
           u == [line |-> t.line \o w, home |-> FALSE, last |-> t.last, row |-> t.row]
<1>1. l \in Nat \ {0} /\ \A k \in 1 .. l : w[k] \in Ink
  BY EmptySeq, ElementOfSeq
<1>2. Ink \subseteq Tokens /\ w \in Seq(Tokens) /\ t.line \in Seq(Tokens) /\ t.last \in Seq(Tokens)
      /\ t.row \in {0, 1} /\ t = [line |-> t.line, home |-> t.home, last |-> t.last, row |-> t.row]
  <2>1. Ink \subseteq Tokens
    BY DEF Ink
  <2>2. w \in Seq(Tokens)
    BY <2>1, SeqMonotonic
  <2> QED
    BY <2>1, <2>2 DEF Terminals
<1>3. part(0) = <<>> /\ part(l) = w
  BY <1>1, SubSeqEmpty, SubSeqFull
<1>4. ASSUME NEW k \in 0 .. l
      PROVE  part(k) \in Seq(Tokens) /\ t.line \o part(k) \in Seq(Tokens)
  <2>1. \A j \in 1 .. k : w[j] \in Tokens
    BY <1>1, <1>2
  <2>2. part(k) \in Seq(Tokens)
    <3>1. k \in Int
      OBVIOUS
    <3> QED
      BY <2>1, <3>1, SubSeqProperties
  <2> HIDE DEF part
  <2> QED
    BY <1>2, <2>2, ConcatProperties
<1>5. ASSUME NEW k \in 1 .. l
      PROVE  t.line \o part(k) = Append(t.line \o part(k - 1), w[k])
  <2>1. part(k) = part(k - 1) \o <<w[k]>>
    <3>1. 1 \in 1 .. l /\ k \in 1 .. l
      BY <1>1
    <3> QED
      BY <3>1, <1>2, SubSeqRecursiveSecond
  <2>2. k - 1 \in 0 .. l
    BY <1>1
  <2>3. <<w[k]>> \in Seq(Tokens) /\ w[k] \in Tokens
    <3>1. w[k] \in Tokens
      BY <1>1, <1>2
    <3> QED
      BY <3>1
  <2> HIDE DEF part
  <2>4. (t.line \o part(k - 1)) \o <<w[k]>> = t.line \o (part(k - 1) \o <<w[k]>>)
    <3> DEFINE a == t.line
               b == part(k - 1)
               c == <<w[k]>>
    <3>1. a \in Seq(Tokens) /\ b \in Seq(Tokens) /\ c \in Seq(Tokens)
      BY <1>2, <1>4, <2>2, <2>3
    <3> HIDE DEF a, b, c
    <3>2. (a \o b) \o c = a \o (b \o c)
      BY ONLY <3>1, Regroup
    <3> QED
      BY <3>2 DEF a, b, c
  <2>5. Append(t.line \o part(k - 1), w[k]) = (t.line \o part(k - 1)) \o <<w[k]>>
    BY <1>4, <2>2, <2>3, AppendIsConcat
  <2> QED
    BY <2>1, <2>4, <2>5
<1>6. t.line \o part(0) = t.line
  BY <1>2, <1>3, ConcatEmptySeq
<1> HIDE DEF part, l
<1>7. ASSUME NEW k \in 0 .. l
      PROVE  T[k] \in Terminals /\ T[k].line = t.line \o part(k) /\ T[k].last = t.last /\ T[k].row = t.row
  <2>1. CASE k = 0
    BY <1>1, <1>6, <2>1
  <2>2. CASE k # 0
    <3>1. T[k] = [line |-> t.line \o part(k), home |-> FALSE, last |-> t.last, row |-> t.row]
      BY <2>2
    <3> QED
      BY <1>2, <1>4, <3>1 DEF Terminals
  <2> QED
    BY <2>1, <2>2
<1>8. ASSUME NEW k \in 1 .. l
      PROVE  T[k] = Shown(T[k - 1], w[k])
  <2>1. k \in 0 .. l /\ k - 1 \in 0 .. l /\ k # 0
    BY <1>1
  <2>2. T[k] = [line |-> t.line \o part(k), home |-> FALSE, last |-> t.last, row |-> t.row]
    BY <2>1
  <2>3. w[k] \in Tokens /\ w[k] \notin {CR, LF}
    BY <1>1 DEF Ink
  <2> HIDE DEF T
  <2>4. Shown(T[k - 1], w[k]) = [line |-> Append(T[k - 1].line, w[k]), home |-> FALSE, last |-> T[k - 1].last,
                                       row |-> T[k - 1].row]
    BY <1>7, <2>1, <2>3, ShownType
  <2> QED
    BY <1>5, <1>7, <2>1, <2>2, <2>4
<1>9. T[0] = t /\ T[l] = u /\ T = [k \in 0 .. l |-> T[k]]
  BY <1>1, <1>3
<1> HIDE DEF T, u
<1>10. T \in [0 .. l -> Terminals]
  BY <1>7, <1>9
<1>11. \A k \in 1 .. l : k \in 0 .. l /\ k - 1 \in 0 .. l
  BY <1>1
<1>12. Run(T, t, w, u, L)
  BY <1>7, <1>8, <1>9, <1>10, <1>11 DEF Run, Mark, l
<1> QED
  BY <1>12 DEF RunsTo, u

LEMMA Pair ==
  ASSUME NEW S, NEW x \in S, NEW y \in S
  PROVE  <<x>> \o <<y>> = <<x, y>>
<1> DEFINE a == <<x>>
           b == <<y>>
           c == <<x, y>>
<1>1. /\ a \in Seq(S) /\ b \in Seq(S) /\ c \in Seq(S)
      /\ Len(a) = 1 /\ Len(b) = 1 /\ Len(c) = 2
      /\ a[1] = x /\ b[1] = y /\ c[1] = x /\ c[2] = y
  OBVIOUS
<1> HIDE DEF a, b, c
<1>2. a \o b \in Seq(S) /\ Len(a \o b) = 2 /\ (a \o b)[1] = x /\ (a \o b)[2] = y
  <2>1. /\ a \o b \in Seq(S) /\ Len(a \o b) = Len(a) + Len(b)
        /\ \A k \in 1 .. Len(a) + Len(b) : (a \o b)[k] = IF k =< Len(a) THEN a[k] ELSE b[k - Len(a)]
    BY <1>1, ConcatProperties
  <2>2. 1 \in 1 .. 1 + 1 /\ 2 \in 1 .. 1 + 1 /\ 2 - 1 = 1
    OBVIOUS
  <2> QED
    BY <1>1, <2>1, <2>2
<1>3. \A k \in 1 .. 2 : (a \o b)[k] = c[k]
  BY <1>1, <1>2
<1>4. a \o b = c
  BY <1>1, <1>2, <1>3, SeqEqual
<1> QED
  BY <1>4 DEF a, b, c

\* A line is ended either way, and is the last one then.
LEMMA RunEnd ==
  ASSUME NEW t \in Terminals, NEW L, NEW m, m = <<t.line, 1 - t.row>>,
         <<Mark(t), Mark(t)>> \in L, <<Mark(t), m>> \in L, <<m, m>> \in L,
         NEW e \in {<<CR, LF>>, LfCr}
  PROVE  \E u \in Terminals : u.line = <<>> /\ Mark(u) = m /\ RunsTo(t, e, u, L)
<1>1. CR \in Tokens /\ LF \in Tokens /\ <<CR>> \in Seq(Tokens) /\ <<LF>> \in Seq(Tokens)
  BY TokensDiffer
<1>2. CASE e = <<CR, LF>>
  <2> DEFINE b == Shown(t, CR)
             c == Shown(b, LF)
  <2>1. b \in Terminals /\ b.line = t.line /\ Mark(b) = Mark(t) /\ b.row = t.row
    BY <1>1, ShownType DEF Mark
  <2>2. RunsTo(t, <<CR>>, b, L)
    BY <1>1, <2>1, RunOne
  <2> HIDE DEF b
  <2>3. c \in Terminals /\ c.line = <<>> /\ Mark(c) = m
    BY <1>1, <2>1, ShownType
  <2>4. RunsTo(b, <<LF>>, c, L)
    BY <1>1, <2>1, <2>3, RunOne
  <2> HIDE DEF c
  <2>5. <<CR>> \o <<LF>> = e
    BY <1>1, <1>2, Pair
  <2>6. RunsTo(t, e, c, L)
    BY <1>1, <2>2, <2>4, <2>5, RunJoin
  <2> QED
    BY <2>3, <2>6
<1>3. CASE e = LfCr
  <2> DEFINE b == Shown(t, LF)
             c == Shown(b, CR)
  <2>1. b \in Terminals /\ b.line = <<>> /\ Mark(b) = m
    BY <1>1, ShownType
  <2>2. RunsTo(t, <<LF>>, b, L)
    BY <1>1, <2>1, RunOne
  <2> HIDE DEF b
  <2>3. c \in Terminals /\ c.line = <<>> /\ Mark(c) = m
    BY <1>1, <2>1, ShownType
  <2>4. RunsTo(b, <<CR>>, c, L)
    BY <1>1, <2>1, <2>3, RunOne
  <2> HIDE DEF c
  <2>5. <<LF>> \o <<CR>> = e
    BY <1>1, <1>3, Pair DEF LfCr
  <2>6. RunsTo(t, e, c, L)
    BY <1>1, <2>2, <2>4, <2>5, RunJoin
  <2> QED
    BY <2>3, <2>6
<1> QED
  BY <1>2, <1>3

\* A whole line, ended either way.
LEMMA RunLine ==
  ASSUME NEW t \in Terminals, t.line = <<>>, NEW w \in Seq(Ink), w # <<>>, NEW L,
         NEW m, m = <<w, 1 - t.row>>, <<Mark(t), Mark(t)>> \in L, <<Mark(t), m>> \in L,
         <<m, m>> \in L, NEW e \in {<<CR, LF>>, LfCr}
  PROVE  /\ w \o e \in Seq(Tokens)
         /\ \E u \in Terminals : u.line = <<>> /\ Mark(u) = m /\ RunsTo(t, w \o e, u, L)
<1> DEFINE a == [line |-> w, home |-> FALSE, last |-> t.last, row |-> t.row]
<1>1. w \in Seq(Tokens) /\ t.last \in Seq(Tokens) /\ a \in Terminals
  <2>1. Ink \subseteq Tokens
    BY DEF Ink
  <2>2. w \in Seq(Tokens)
    BY <2>1, SeqMonotonic
  <2> QED
    BY <2>2 DEF Terminals
<1>2. RunsTo(t, w, a, L)
  <2>1. <<>> \o w = w
    BY <1>1, ConcatEmptySeq
  <2> QED
    BY <2>1, RunWord
<1>3. a.line = w /\ Mark(a) = Mark(t) /\ a.row = t.row
  BY DEF Mark
<1> HIDE DEF a
<1>4. PICK u \in Terminals : u.line = <<>> /\ Mark(u) = m /\ RunsTo(a, e, u, L)
  BY <1>1, <1>3, RunEnd
<1>5. e \in Seq(Tokens)
  <2>1. <<CR, LF>> \in Seq(Tokens) /\ <<LF, CR>> \in Seq(Tokens)
    BY TokensDiffer
  <2> QED
    BY <2>1 DEF LfCr
<1>6. RunsTo(t, w \o e, u, L)
  BY <1>1, <1>2, <1>4, <1>5, RunJoin
<1> QED
  BY <1>1, <1>4, <1>5, <1>6, ConcatProperties

\* How hello and rust send a line.
LEMMA WireLine ==
  ASSUME NEW w \in Seq(Ink)
  PROVE  CrBeforeLf(w \o <<LF>>) = w \o <<CR, LF>>
<1> DEFINE s == w \o <<LF>>
           l == Len(w)
           q == [k \in DOMAIN s |-> IF s[k] = LF THEN <<CR, LF>> ELSE <<s[k]>>]
           full == w \o <<CR, LF>>
<1>1. Ink \subseteq Tokens /\ w \in Seq(Tokens) /\ CR \in Tokens /\ LF \in Tokens /\ CR # LF
  <2>1. Ink \subseteq Tokens
    BY DEF Ink
  <2> QED
    BY <2>1, SeqMonotonic, TokensDiffer
<1>2. <<LF>> \in Seq(Tokens) /\ Len(<<LF>>) = 1 /\ <<LF>>[1] = LF /\ <<CR, LF>> \in Seq(Tokens)
  BY <1>1
<1>3. /\ l \in Nat /\ s \in Seq(Tokens) /\ Len(s) = l + 1 /\ DOMAIN s = 1 .. l + 1
      /\ \A k \in 1 .. l : s[k] = w[k] /\ w[k] \in Ink
      /\ s[l + 1] = LF
  <2>1. l \in Nat /\ s \in Seq(Tokens) /\ Len(s) = l + 1
    BY <1>1, <1>2, ConcatProperties, LenProperties
  <2>2. DOMAIN s = 1 .. l + 1
    <3> HIDE DEF s, l
    <3> QED
      BY <2>1, LenProperties
  <2>3. \A k \in 1 .. l + 1 : s[k] = IF k =< l THEN w[k] ELSE <<LF>>[k - l]
    BY <1>1, <1>2, ConcatProperties
  <2>4. \A k \in 1 .. l : w[k] \in Ink
    BY ElementOfSeq
  <2> HIDE DEF s, l
  <2>5. s[l + 1] = LF
    <3>1. l + 1 \in 1 .. l + 1 /\ ~(l + 1 =< l) /\ (l + 1) - l = 1
      BY <2>1
    <3> QED
      BY <1>2, <2>3, <3>1
  <2> QED
    BY <2>1, <2>2, <2>3, <2>4, <2>5
<1>4. Len(q) = l + 1 /\ (\A k \in 1 .. l : q[k] = <<w[k]>>) /\ q[l + 1] = <<CR, LF>>
  <2> HIDE DEF s, l
  <2>1. q = [k \in 1 .. l + 1 |-> IF s[k] = LF THEN <<CR, LF>> ELSE <<s[k]>>]
    BY <1>3
  <2>2. q[l + 1] = <<CR, LF>>
    BY <1>3, <2>1
  <2>3. \A k \in 1 .. l : s[k] # LF
    BY <1>3 DEF Ink
  <2> QED
    BY <1>3, <2>1, <2>2, <2>3
<1>5. CrBeforeLf(w \o <<LF>>) = FlattenSeq(q)
  BY DEF CrBeforeLf
<1> HIDE DEF q
<1> DEFINE f == CHOOSE g : Strung(q, g, l + 1)
<1>6. FlattenSeq(q) = f[l + 1]
  <2>1. Len(q) # 0
    BY <1>3, <1>4
  <2> QED
    BY <1>4, <2>1 DEF FlattenSeq, Strung
<1>7. Strung(q, f, l + 1)
  <2>1. l + 1 \in Nat
    BY <1>3
  <2> QED
    BY <2>1, StrungExists
<1> HIDE DEF f
<1>8. /\ f[1] = q[1]
      /\ \A k \in 2 .. l + 1 : f[k] = f[k - 1] \o q[k]
  <2>1. \A k \in 1 .. l + 1 : f[k] = IF k = 1 THEN q[k] ELSE f[k - 1] \o q[k]
    BY <1>7 DEF Strung
  <2>2. 1 \in 1 .. l + 1 /\ \A k \in 2 .. l + 1 : k \in 1 .. l + 1 /\ k # 1
    BY <1>3
  <2> QED
    BY <2>1, <2>2
<1> HIDE DEF s, l
<1> DEFINE Q == {k \in Nat : k + 1 =< l => f[k + 1] = SubSeq(w, 1, k + 1)}
<1>9. 0 \in Q
  <2> SUFFICES ASSUME 1 =< l PROVE f[1] = SubSeq(w, 1, 1)
    OBVIOUS
  <2>1. 1 \in 1 .. l
    BY <1>3
  <2>2. SubSeq(w, 1, 1) = SubSeq(w, 1, 1 - 1) \o <<w[1]>>
    BY <1>1, <2>1, SubSeqRecursiveSecond DEF l
  <2>3. SubSeq(w, 1, 1 - 1) = <<>>
    BY SubSeqEmpty
  <2>4. <<>> \o <<w[1]>> = <<w[1]>>
    OBVIOUS
  <2> QED
    BY <1>4, <1>8, <2>1, <2>2, <2>3, <2>4
<1>10. ASSUME NEW k \in Nat, k \in Q
       PROVE  k + 1 \in Q
  <2> SUFFICES ASSUME (k + 1) + 1 =< l PROVE f[(k + 1) + 1] = SubSeq(w, 1, (k + 1) + 1)
    OBVIOUS
  <2>1. /\ 1 \in 1 .. l /\ (k + 1) + 1 \in 1 .. l /\ (k + 1) + 1 \in 2 .. l + 1
        /\ ((k + 1) + 1) - 1 = k + 1
    BY <1>3
  <2>2. f[k + 1] = SubSeq(w, 1, k + 1)
    BY <1>3, <1>10
  <2>3. SubSeq(w, 1, (k + 1) + 1) = SubSeq(w, 1, k + 1) \o <<w[(k + 1) + 1]>>
    BY <1>1, <2>1, SubSeqRecursiveSecond DEF l
  <2> QED
    BY <1>4, <1>8, <2>1, <2>2, <2>3
<1>11. Nat \subseteq Q
  <2> HIDE DEF Q
  <2> QED
    BY <1>9, <1>10, NatSetInduction
<1>12. CASE l = 0
  <2>1. w = <<>>
    BY <1>12, EmptySeq DEF l
  <2>2. full = <<CR, LF>>
    BY <1>2, <2>1, ConcatEmptySeq
  <2>3. f[l + 1] = q[l + 1]
    BY <1>8, <1>12
  <2> QED
    BY <1>4, <1>5, <1>6, <2>2, <2>3
<1>13. CASE l # 0
  <2>1. l - 1 \in Nat /\ (l - 1) + 1 = l /\ l + 1 \in 2 .. l + 1 /\ (l + 1) - 1 = l
    BY <1>3, <1>13
  <2>2. f[l] = SubSeq(w, 1, l)
    <3>1. l - 1 \in Q
      BY <1>11, <2>1
    <3> QED
      BY <1>3, <2>1, <3>1
  <2>3. SubSeq(w, 1, l) = w
    BY SubSeqFull DEF l
  <2> QED
    BY <1>4, <1>5, <1>6, <1>8, <2>1, <2>2, <2>3
<1> QED
  BY <1>12, <1>13

\* A line that starts with the word a, and cannot be taken for one that starts with
\* another word.
Begins(s, a) == s \in Seq(Ink) /\ s # <<>> /\ s[1] = a

LEMMA BeginsMore ==
  ASSUME NEW s, NEW a, Begins(s, a), NEW r \in Seq(Ink)
  PROVE  Begins(s \o r, a)
<1>1. s \in Seq(Ink) /\ Len(s) \in Nat \ {0} /\ s[1] = a /\ Len(r) \in Nat
  BY EmptySeq, LenProperties DEF Begins
<1>2. /\ s \o r \in Seq(Ink) /\ Len(s \o r) = Len(s) + Len(r)
      /\ \A k \in 1 .. Len(s) + Len(r) : (s \o r)[k] = IF k =< Len(s) THEN s[k] ELSE r[k - Len(s)]
  BY <1>1, ConcatProperties
<1>3. 1 \in 1 .. Len(s) + Len(r) /\ 1 =< Len(s)
  BY <1>1
<1>4. (s \o r)[1] = a
  BY <1>1, <1>2, <1>3
<1>5. s \o r # <<>>
  BY <1>1, ConcatEqualIffEmpty DEF Begins
<1> QED
  BY <1>2, <1>4, <1>5 DEF Begins

\* No such line is taken for the one that stands for none.
LEMMA NoLineApart ==
  /\ NoLine \in Seq(Tokens) /\ NoLine # <<>>
  /\ \A s, a : Begins(s, a) => s # NoLine
<1>1. NoLine \in Seq(Tokens) /\ NoLine # <<>> /\ NoLine[1] = LF
  BY TokensDiffer DEF NoLine
<1>2. ASSUME NEW s, NEW a, Begins(s, a) PROVE s # NoLine
  <2>1. Len(s) \in Nat \ {0} /\ s \in Seq(Ink)
    BY <1>2, EmptySeq, LenProperties DEF Begins
  <2>2. s[1] \in Ink
    BY <2>1, ElementOfSeq
  <2> QED
    BY <1>1, <2>2 DEF Ink
<1> QED
  BY <1>1, <1>2

\* The words the lines start with.
LEMMA WordsDiffer ==
  /\ {Greeting, CounterIs, Banner, Filling, Starting, RowDone, OutOf, RowsText,
      CalculationDone, ValueAt} \subseteq Ink
  /\ Glyphs \subseteq Ink
  /\ Greeting # CounterIs
  /\ Banner \notin {Filling, Starting, RowDone, CalculationDone, ValueAt}
  /\ Filling \notin {Starting, RowDone, CalculationDone, ValueAt}
  /\ Starting \notin {RowDone, CalculationDone, ValueAt}
  /\ RowDone \notin {CalculationDone, ValueAt}
  /\ CalculationDone # ValueAt
BY DEF Ink, Tokens, Glyphs, CR, LF, Greeting, CounterIs, Banner, Filling, Starting, RowDone, OutOf,
       RowsText, CalculationDone, ValueAt

LEMMA LineStarts ==
  /\ \A a \in Ink : Begins(<<a>>, a)
  /\ \A m \in Nat : /\ Begins(Counted(m), CounterIs) /\ Begins(Reported(m), RowDone)
                    /\ Begins(<<ValueAt>> \o Numeral[m], ValueAt)
<1>1. ASSUME NEW a \in Ink PROVE Begins(<<a>>, a)
  BY DEF Begins
<1>2. \A m \in Nat : Numeral[m] \in Seq(Ink)
  BY NumeralType, WordsDiffer, SeqMonotonic
<1>3. /\ CounterIs \in Ink /\ RowDone \in Ink /\ ValueAt \in Ink
      /\ <<OutOf>> \in Seq(Ink) /\ <<RowsText>> \in Seq(Ink)
  BY WordsDiffer
<1>4. ASSUME NEW m \in Nat PROVE Begins(Counted(m), CounterIs)
  BY <1>1, <1>2, <1>3, BeginsMore DEF Counted
<1>5. ASSUME NEW m \in Nat PROVE Begins(<<ValueAt>> \o Numeral[m], ValueAt)
  BY <1>1, <1>2, <1>3, BeginsMore
<1>6. ASSUME NEW m \in Nat PROVE Begins(Reported(m), RowDone)
  <2> DEFINE a == <<RowDone>>
             b == a \o Numeral[m]
             c == b \o <<OutOf>>
             d == c \o Numeral[N]
  <2>1. Begins(a, RowDone) /\ Numeral[N] \in Seq(Ink)
    BY <1>1, <1>2, <1>3, Sizes
  <2> HIDE DEF a
  <2>2. Begins(b, RowDone)
    BY <1>2, <2>1, BeginsMore
  <2> HIDE DEF b
  <2>3. Begins(c, RowDone)
    BY <1>3, <2>2, BeginsMore
  <2> HIDE DEF c
  <2>4. Begins(d, RowDone)
    BY <2>1, <2>3, BeginsMore
  <2> HIDE DEF d
  <2>5. Begins(d \o <<RowsText>>, RowDone)
    BY <1>3, <2>4, BeginsMore
  <2> QED
    BY <2>5 DEF Reported, a, b, c, d
<1> QED
  BY <1>1, <1>4, <1>5, <1>6

\* The reports of two rows differ.
LEMMA ReportedDiffer == \A m, k \in Nat : Reported(m) = Reported(k) => m = k
<1> SUFFICES ASSUME NEW m \in Nat, NEW k \in Nat, Reported(m) = Reported(k) PROVE m = k
  OBVIOUS
<1> DEFINE S == Seq(Ink)
           a == <<RowDone>>
           x == Numeral[m]
           y == Numeral[k]
           c == <<OutOf>>
           d == Numeral[N]
           e == <<RowsText>>
<1>1. a \in S /\ x \in S /\ y \in S /\ c \in S /\ d \in S /\ e \in S
  BY NumeralType, WordsDiffer, SeqMonotonic, Sizes
<1>2. (((a \o x) \o c) \o d) \o e = (((a \o y) \o c) \o d) \o e
  BY DEF Reported
<1>3. \A s, t \in S : s \o t \in S
  BY ConcatProperties
<1>4. /\ \A s, t, v \in S : s \o v = t \o v => s = t
      /\ \A s, t, v \in S : s \o t = s \o v => t = v
  BY ConcatSimplifications
<1> HIDE DEF S, a, x, y, c, d, e
<1>5. a \o x \in S /\ a \o y \in S
  BY <1>1, <1>3
<1> DEFINE f == a \o x
           g == a \o y
<1>6. f \in S /\ g \in S /\ ((f \o c) \o d) \o e = ((g \o c) \o d) \o e
  BY <1>2, <1>5
<1> HIDE DEF f, g
<1> DEFINE h == f \o c
           j == g \o c
<1>7. h \in S /\ j \in S /\ (h \o d) \o e = (j \o d) \o e
  BY <1>1, <1>3, <1>6
<1> HIDE DEF h, j
<1>8. h \o d \in S /\ j \o d \in S
  BY <1>1, <1>3, <1>7
<1> DEFINE u == h \o d
           v == j \o d
<1>9. u = v
  <2>1. u \in S /\ v \in S /\ u \o e = v \o e
    BY <1>7, <1>8
  <2> HIDE DEF u, v
  <2> QED
    BY <1>1, <1>4, <2>1
<1>10. f = g
  <2>1. h = j
    BY <1>1, <1>4, <1>7, <1>9
  <2> QED
    BY <1>1, <1>4, <1>6, <2>1 DEF h, j
<1>11. x = y
  BY <1>1, <1>4, <1>10 DEF f, g
<1> QED
  BY <1>11, NumeralInjective DEF x, y

\* The row after a reported row and before the next one.
LEMMA NextReport ==
  ASSUME NEW E \in Nat \ {0}, NEW r \in Nat, r % E = 0
  PROVE  /\ (r + E) % E = 0
         /\ \A m \in Nat : m % E = 0 /\ r < m /\ m =< r + E => m = r + E
<1> DEFINE q == r \div E
<1>1. q \in Nat /\ r = E * q
  OBVIOUS
<1> HIDE DEF q
<1>2. r + E = E * (q + 1)
  BY <1>1
<1>3. (r + E) \div E = q + 1
  <2>1. E * (q + 1) < E * ((q + 1) + 1) /\ q + 1 \in Nat /\ r + E \in Nat
    BY <1>1
  <2> QED
    BY <1>2, <2>1, DivUnique
<1>4. (r + E) % E = 0
  BY <1>2, <1>3
<1>5. ASSUME NEW m \in Nat, m % E = 0, r < m, m =< r + E PROVE m = r + E
  <2> DEFINE p == m \div E
  <2>1. p \in Nat /\ m = E * p
    BY <1>5
  <2> HIDE DEF p
  <2>2. E * q < E * p /\ E * p =< E * (q + 1)
    BY <1>1, <1>2, <1>5, <2>1
  <2>3. p > q
    BY <1>1, <2>1, <2>2
  <2>4. p =< q + 1
    BY <1>1, <2>1, <2>2
  <2>5. p = q + 1
    BY <1>1, <2>1, <2>3, <2>4
  <2> QED
    BY <1>2, <2>1, <2>5
<1> QED
  BY <1>4, <1>5

\* The lines that may be complete by now.
Known ==
  IF program = "matmul"
  THEN {NoLine, <<>>, <<Banner>>, <<Filling>>, <<Starting>>}
         \cup {Reported(row) : row \in 0 .. main.i - 1}
         \cup (IF main.pc = "halt" THEN {<<CalculationDone>>, ResultLine} ELSE {})
  ELSE Seq(Tokens)

Marks == Known \X {0, 1}

\* Nothing is completed, or one line is that may follow.
Allowed ==
  {p \in Marks \X Marks :
     \/ p[2] = p[1]
     \/ p[2][2] # p[1][2] /\ p[2][1] \in Following(p[1][1])}

\* The last line when the loops have come to a row: the latest report.
Latest(last, row) ==
  IF row = 0 THEN last = <<Starting>>
  ELSE \E r \in 0 .. N - 1 : r % Every = 0 /\ r < row /\ row =< r + Every /\ last = Reported(r)

\* The last line when all that has been said is shown.
Ahead(last) ==
  /\ program = "hello" /\ main.pc # "halt" => last = NoLine
  /\ program = "rust" =>
       \/ main.pc = "begin" /\ main.n = 0 /\ last = NoLine
       \/ /\ main.pc = "count" /\ main.n \in 0 .. CounterMod - 1
          /\ \/ last = <<Greeting>> /\ main.n = 0
             \/ \E m \in 0 .. CounterMod - 1 : last = Counted(m) /\ main.n = (m + 1) % CounterMod
  /\ program = "matmul" =>
       /\ main.pc = "begin" => last = NoLine
       /\ main.pc = "fill" => last = <<Filling>>
       /\ main.pc \in {"multiply", "result"} => Latest(last, main.i)

\* All that is on its way makes lines that follow each other, up to where the
\* program stands.
Printing ==
  \E u \in Terminals :
    RunsTo(term, uart.fifo \o out, u, Allowed) /\ u.line = <<>> /\ Ahead(u.last)

LEMMA AllowedIs ==
  \A t, u : <<Mark(t), Mark(u)>> \in Allowed =>
    /\ t.last \in Known
    /\ u.row # t.row => u.last \in Following(t.last)
BY DEF Allowed, Marks, Mark

LEMMA RunEnds ==
  ASSUME NEW t, NEW s \in Seq(Tokens), NEW u, NEW L, RunsTo(t, s, u, L)
  PROVE  <<Mark(t), Mark(t)>> \in L /\ <<Mark(u), Mark(u)>> \in L
<1>1. PICK T : Run(T, t, s, u, L)
  BY DEF RunsTo
<1>2. 0 \in 0 .. Len(s) /\ Len(s) \in 0 .. Len(s)
  <2>1. Len(s) \in Nat
    BY LenProperties
  <2> QED
    BY <2>1
<1> QED
  BY <1>1, <1>2 DEF Run

\* What may follow a line depends on the program and on what it multiplies.
LEMMA FollowingKept ==
  ASSUME program' = program,
         program = "matmul" => mat'.A = mat.A /\ mat'.B = mat.B
  PROVE  /\ \A a : (Following(a))' = Following(a)
         /\ program = "matmul" => ResultLine' = ResultLine
<1>1. program = "matmul" => ResultLine' = ResultLine
  <2> SUFFICES ASSUME program = "matmul" PROVE ResultLine' = ResultLine
    OBVIOUS
  <2>1. (Products(0, 0))' = Products(0, 0)
    BY DEF Products
  <2> QED
    BY <2>1 DEF ResultLine, Dot
<1>2. ASSUME NEW a PROVE (Following(a))' = Following(a)
  BY <1>1 DEF Following
<1> QED
  BY <1>1, <1>2

LEMMA KnownGrows ==
  ASSUME program' = program, main.i \in Nat, main'.i \in Nat, main.i =< main'.i,
         main.pc = "halt" => main'.pc = "halt" /\ ResultLine' = ResultLine
  PROVE  Known \subseteq Known'
<1>1. \A row \in 0 .. main.i - 1 : row \in 0 .. main'.i - 1
  OBVIOUS
<1> QED
  BY <1>1 DEF Known

LEMMA AllowedMore ==
  ASSUME Known \subseteq Known', \A a \in Known : Following(a) \subseteq (Following(a))'
  PROVE  Allowed \subseteq Allowed'
BY DEF Allowed, Marks

\* No line is forgotten, and what follows what has been shown stays.
LEMMA AllowedStep ==
  ASSUME Tuned, Multiplied, [SerialNext]_serialVars
  PROVE  Allowed \subseteq Allowed'
<1>1. program' = program
  <2>1. UNCHANGED serialVars => program' = program
    BY DEF serialVars, startVars
  <2>2. UartInit => program' = program
    BY DEF UartInit, startVars
  <2> QED
    BY <2>1, <2>2, RegistersKept
<1>2. CASE program # "matmul"
  <2>1. Known' = Known
    BY <1>1, <1>2 DEF Known
  <2> QED
    BY <1>1, <1>2, <2>1, FollowingKept, AllowedMore
<1>3. ASSUME program = "matmul", mat'.A = mat.A /\ mat'.B = mat.B, main.i \in Nat, main'.i \in Nat,
             main.i =< main'.i, main.pc = "halt" => main'.pc = "halt"
      PROVE  Allowed \subseteq Allowed'
  <2>1. Known \subseteq Known'
    BY <1>1, <1>3, FollowingKept, KnownGrows
  <2> QED
    BY <1>1, <1>3, <2>1, FollowingKept, AllowedMore
<1>4. CASE program = "matmul"
  <2>1. /\ main.i \in Nat
        /\ mat = [x \in {"A", "B", "C"} |-> mat[x]]
        /\ main = [x \in {"pc", "n", "i", "k", "j"} |-> main[x]]
        /\ main.pc = "multiply" => main.i \in 0 .. N - 1
        /\ main.pc = "fill" => main.i = 0
    BY <1>4, Sizes DEF Multiplied
  <2>2. CASE UNCHANGED <<main, mat>>
    BY <1>3, <1>4, <2>1, <2>2
  <2>3. StartCode \/ Putc \/ Transmit \/ UNCHANGED serialVars => UNCHANGED <<main, mat>>
    BY DEF StartCode, Putc, Transmit, serialVars
  <2>4. ~(UartInit \/ Greet \/ CountUp)
    BY <1>4 DEF UartInit, Greet, CountUp, Runs
  <2>5. CASE Title \/ Result
    <3>1. mat' = mat /\ main.pc # "halt" /\ main'.i = main.i
      BY <2>1, <2>5 DEF Title, Result, Runs
    <3> QED
      BY <1>3, <1>4, <2>1, <3>1
  <2>6. CASE Multiply
    <3>1. main.pc = "multiply" /\ main' = NextCell(main) /\ mat'.A = mat.A /\ mat'.B = mat.B
      BY <2>1, <2>6 DEF Multiply, Runs
    <3>2. main'.i = main.i \/ main'.i = main.i + 1
      BY <2>1, <3>1 DEF NextCell
    <3> QED
      BY <1>3, <1>4, <2>1, <3>1, <3>2
  <2>7. CASE FillMatrices
    <3>1. main.pc = "fill" /\ main.i = 0 /\ main'.pc = "multiply" /\ main'.i = 0
      BY <2>1, <2>7 DEF FillMatrices, Runs
    <3>2. Known = {NoLine, <<>>, <<Banner>>, <<Filling>>, <<Starting>>}
      BY <1>4, <3>1 DEF Known
    <3>3. Known \subseteq Known'
      BY <1>1, <3>1, KnownGrows
    <3>4. ASSUME NEW a \in Known PROVE Following(a) \subseteq (Following(a))'
      BY <1>1, <1>4, <3>2 DEF Following
    <3> QED
      BY <3>3, <3>4, AllowedMore
  <2> QED
    BY <2>2, <2>3, <2>4, <2>5, <2>6, <2>7 DEF SerialNext, Program
<1> QED
  BY <1>2, <1>4

\* The program begins with a text.
LEMMA TextSaid ==
  ASSUME Lined, NEW u \in Terminals, RunsTo(term, uart.fifo \o out, u, Allowed), out = <<>>,
         uart'.fifo = uart.fifo, term' = term, Allowed \subseteq Allowed',
         NEW x \in Seq(Tokens), out' = x,
         NEW v \in Terminals, RunsTo(u, x, v, Allowed'), v.line = <<>>, Ahead(v.last)'
  PROVE  Printing'
<1>1. uart.fifo \in Seq(Tokens) /\ uart.fifo \o out = uart.fifo
  BY ConcatEmptySeq DEF Lined
<1> DEFINE L == Allowed
           M == Allowed'
           f == uart.fifo
           t == term
<1>2. RunsTo(t, f, u, M)
  <2>1. RunsTo(t, f, u, L) /\ L \subseteq M
    BY <1>1
  <2> HIDE DEF L, M, f, t
  <2> QED
    BY <2>1, RunMore
<1>3. RunsTo(t, f \o x, v, M)
  <2>1. f \in Seq(Tokens) /\ RunsTo(u, x, v, M)
    BY <1>1
  <2> HIDE DEF M, f, t
  <2> QED
    BY <1>2, <2>1, RunJoin
<1>4. RunsTo(term', uart'.fifo \o out', v, Allowed')
  BY <1>3
<1> QED
  BY <1>4 DEF Printing

\* The program begins with a line.
LEMMA LineSaid ==
  ASSUME Lined, NEW u \in Terminals, RunsTo(term, uart.fifo \o out, u, Allowed), u.line = <<>>,
         out = <<>>, uart'.fifo = uart.fifo, term' = term, Allowed \subseteq Allowed',
         NEW w \in Seq(Ink), w # <<>>, NEW e \in {<<CR, LF>>, LfCr}, out' = w \o e,
         w \in Known', w \in (Following(u.last))', Ahead(w)'
  PROVE  Printing'
<1> DEFINE M == Allowed'
           m == <<w, 1 - u.row>>
<1>1. <<Mark(u), Mark(u)>> \in Allowed
  BY RunEnds, ConcatEmptySeq DEF Lined
<1>2. u.last \in Known' /\ u.row \in {0, 1} /\ <<Mark(u), Mark(u)>> \in M
  <2>1. <<Mark(u), Mark(u)>> \in M
    BY <1>1
  <2> QED
    BY <2>1 DEF Allowed, Marks, Mark
<1>3. <<Mark(u), m>> \in M /\ <<m, m>> \in M
  <2>1. 1 - u.row \in {0, 1} /\ 1 - u.row # u.row
    BY <1>2
  <2>2. PICK q : q = 1 - u.row
    OBVIOUS
  <2>3. <<<<u.last, u.row>>, <<w, q>>>> \in M /\ <<<<w, q>>, <<w, q>>>> \in M
    BY <1>2, <2>1, <2>2 DEF Allowed, Marks
  <2> QED
    BY <2>2, <2>3 DEF Mark
<1>4. \A v : Mark(v) = m => v.last = w
  BY DEF Mark
<1> HIDE DEF M
<1>5. /\ w \o e \in Seq(Tokens)
      /\ \E v \in Terminals : v.line = <<>> /\ Mark(v) = m /\ RunsTo(u, w \o e, v, M)
  BY <1>2, <1>3, RunLine
<1> QED
  BY <1>4, <1>5, TextSaid DEF M

\* hello and rust: the greeting.
LEMMA GreetPrints ==
  ASSUME Tuned, Multiplied, Lined, Printing, Greet
  PROVE  Printing'
<1>1. PICK u \in Terminals : RunsTo(term, uart.fifo \o out, u, Allowed) /\ u.line = <<>> /\ Ahead(u.last)
  BY DEF Printing
<1>2. /\ program' = program /\ uart' = uart /\ term' = term /\ out = <<>>
      /\ \/ program = "hello" /\ main.pc = "greet"
         \/ program = "rust" /\ main.pc = "begin"
      /\ out' = Wire(<<Greeting, LF>>)
      /\ main' = [main EXCEPT !.pc = IF program = "hello" THEN "halt" ELSE "count"]
  BY DEF Greet, Runs, Says, startVars
<1>3. Allowed \subseteq Allowed'
  <2>1. [SerialNext]_serialVars
    BY DEF SerialNext, Program
  <2> QED
    BY <2>1, AllowedStep
<1> DEFINE w == <<Greeting>>
<1>4. w \in Seq(Ink) /\ w # <<>>
  BY LineStarts, WordsDiffer DEF Begins
<1>5. out' = w \o <<CR, LF>>
  <2>1. w \o <<LF>> = <<Greeting, LF>>
    BY Pair, TokensDiffer
  <2>2. out' = CrBeforeLf(<<Greeting, LF>>)
    BY <1>2 DEF Wire
  <2> QED
    BY <1>4, <2>1, <2>2, WireLine
<1>6. u.last = NoLine /\ (program = "rust" => main.n = 0)
  BY <1>1, <1>2 DEF Ahead
<1>7. main'.pc = (IF program = "hello" THEN "halt" ELSE "count") /\ main'.n = main.n
  BY <1>2 DEF Tuned
<1>8. w \in Known'
  <2>1. Ink \subseteq Tokens
    BY DEF Ink
  <2>2. w \in Seq(Tokens)
    BY <1>4, <2>1, SeqMonotonic
  <2> QED
    BY <1>2, <2>2 DEF Known
<1>9. w \in (Following(u.last))'
  BY <1>2, <1>6 DEF Following
<1>10. Ahead(w)'
  <2>1. 0 \in 0 .. CounterMod - 1
    BY SerialAssumption DEF SerialAssumption
  <2> QED
    BY <1>2, <1>6, <1>7, <2>1 DEF Ahead
<1> HIDE DEF w
<1> QED
  BY <1>1, <1>2, <1>3, <1>4, <1>5, <1>8, <1>9, <1>10, LineSaid

\* rust: the counter.
LEMMA CountPrints ==
  ASSUME Tuned, Multiplied, Lined, Printing, CountUp
  PROVE  Printing'
<1>1. PICK u \in Terminals : RunsTo(term, uart.fifo \o out, u, Allowed) /\ u.line = <<>> /\ Ahead(u.last)
  BY DEF Printing
<1>2. /\ program' = program /\ uart' = uart /\ term' = term /\ out = <<>>
      /\ program = "rust" /\ main.pc = "count"
      /\ out' = Wire(<<CounterIs>> \o PrintNum(main.n) \o <<LF>>)
      /\ main' = [main EXCEPT !.n = (@ + 1) % CounterMod]
  BY DEF CountUp, Runs, Says, startVars
<1>3. Allowed \subseteq Allowed'
  <2>1. [SerialNext]_serialVars
    BY DEF SerialNext, Program
  <2> QED
    BY <2>1, AllowedStep
<1>0. PICK w : w = Counted(main.n)
  OBVIOUS
<1>4. main.n \in 0 .. CounterMod - 1 /\ CounterMod \in Nat \ {0} /\ main.n \in Nat
  BY <1>1, <1>2, SerialAssumption DEF Ahead, SerialAssumption
<1>5. w \in Seq(Ink) /\ w # <<>>
  BY <1>0, <1>4, LineStarts DEF Begins
<1>6. out' = w \o <<CR, LF>>
  <2>1. w = <<CounterIs>> \o PrintNum(main.n)
    BY <1>0, <1>4, PrintedInDecimal DEF Counted
  <2>2. out' = CrBeforeLf(w \o <<LF>>)
    BY <1>2, <2>1 DEF Wire
  <2> QED
    BY <1>5, <2>2, WireLine
<1>7. main'.pc = "count" /\ main'.n = (main.n + 1) % CounterMod
  BY <1>2 DEF Tuned
<1>8. w \in Known'
  <2>1. Ink \subseteq Tokens
    BY DEF Ink
  <2>2. w \in Seq(Tokens)
    BY <1>5, <2>1, SeqMonotonic
  <2> QED
    BY <1>2, <2>2 DEF Known
<1>9. w \in (Following(u.last))'
  <2>1. CASE u.last = <<Greeting>> /\ main.n = 0
    <3>1. <<Greeting>> # NoLine
      BY LineStarts, WordsDiffer, NoLineApart
    <3> QED
      BY <1>0, <1>2, <2>1, <3>1 DEF Following
  <2>2. ASSUME NEW m \in 0 .. CounterMod - 1, u.last = Counted(m), main.n = (m + 1) % CounterMod
        PROVE  w \in (Following(u.last))'
    <3>1. m \in Nat
      BY <1>4
    <3>2. Begins(Counted(m), CounterIs) /\ Begins(<<Greeting>>, Greeting)
      BY <3>1, LineStarts, WordsDiffer
    <3>3. Counted(m) # NoLine /\ Counted(m) # <<Greeting>>
      BY <3>2, WordsDiffer, NoLineApart DEF Begins
    <3>4. (Following(u.last))' = {Counted((n1 + 1) % CounterMod) :
                 n1 \in {n2 \in 0 .. CounterMod - 1 : u.last = Counted(n2)}}
      BY <1>2, <2>2, <3>3 DEF Following
    <3> QED
      BY <1>0, <2>2, <3>4
  <2> QED
    BY <1>1, <1>2, <2>1, <2>2 DEF Ahead
<1>10. Ahead(w)'
  <2>1. (main.n + 1) % CounterMod \in 0 .. CounterMod - 1
    BY <1>4
  <2>2. main'.n \in 0 .. CounterMod - 1
    BY <1>7, <2>1
  <2> QED
    BY <1>0, <1>2, <1>4, <1>7, <2>2 DEF Ahead
<1> QED
  BY <1>1, <1>2, <1>3, <1>5, <1>6, <1>8, <1>9, <1>10, LineSaid

\* matrix-mul: the blank line, the title and the next line.
LEMMA TitlePrints ==
  ASSUME Tuned, Multiplied, Lined, Printing, Title
  PROVE  Printing'
<1>1. PICK u \in Terminals : RunsTo(term, uart.fifo \o out, u, Allowed) /\ u.line = <<>> /\ Ahead(u.last)
  BY DEF Printing
<1>2. /\ program' = program /\ uart' = uart /\ term' = term /\ out = <<>> /\ mat' = mat
      /\ program = "matmul" /\ main.pc = "begin"
      /\ out' = LfCr \o <<Banner>> \o LfCr \o <<Filling>> \o LfCr
      /\ main' = [main EXCEPT !.pc = "fill"]
  BY DEF Title, Runs, Says, Wire, startVars
<1>3. Allowed \subseteq Allowed'
  <2>1. [SerialNext]_serialVars
    BY DEF SerialNext, Program
  <2> QED
    BY <2>1, AllowedStep
<1>4. u.last = NoLine /\ main'.pc = "fill"
  BY <1>1, <1>2 DEF Ahead, Tuned
<1> DEFINE b == <<Banner>>
           f == <<Filling>>
           M == Allowed'
<1>5. b \in Seq(Ink) /\ b # <<>> /\ f \in Seq(Ink) /\ f # <<>>
  BY LineStarts, WordsDiffer DEF Begins
<1>6. /\ {NoLine, <<>>, b, f} \subseteq Known'
      /\ <<>> \in (Following(NoLine))' /\ b \in (Following(<<>>))' /\ f \in (Following(b))'
  <2>1. NoLine # <<>> /\ b # NoLine
    BY LineStarts, WordsDiffer, NoLineApart
  <2> QED
    BY <1>2, <1>5, <2>1 DEF Known, Following
<1>7. PICK m, m0, m1, m2 :
        /\ m = <<NoLine, u.row>> /\ m0 = <<<<>>, 1 - u.row>>
        /\ m1 = <<b, u.row>> /\ m2 = <<f, 1 - u.row>>
  OBVIOUS
<1>20. u.row \in {0, 1} /\ Mark(u) = m
  BY <1>4, <1>7 DEF Mark, Terminals
<1>21. \A x \in {m, m0, m1, m2} : <<x, x>> \in M
  BY <1>6, <1>7, <1>20 DEF Allowed, Marks
<1>22. <<m, m0>> \in M /\ <<m0, m1>> \in M /\ <<m1, m2>> \in M
  BY <1>6, <1>7, <1>20 DEF Allowed, Marks
<1> HIDE DEF b, f, M
<1>23. ASSUME NEW v, NEW a, NEW q, Mark(v) = <<a, q>>
       PROVE  v.last = a /\ v.row = q
  BY <1>23 DEF Mark
<1>8. PICK v0 \in Terminals : v0.line = <<>> /\ Mark(v0) = m0 /\ RunsTo(u, LfCr, v0, M)
  BY <1>1, <1>7, <1>20, <1>21, <1>22, RunEnd
<1>24. m1 = <<b, 1 - v0.row>>
  BY <1>7, <1>8, <1>20, <1>23
<1>9. /\ b \o LfCr \in Seq(Tokens)
      /\ \E v \in Terminals : v.line = <<>> /\ Mark(v) = m1 /\ RunsTo(v0, b \o LfCr, v, M)
  BY <1>5, <1>8, <1>21, <1>22, <1>24, RunLine
<1>10. PICK v1 \in Terminals : v1.line = <<>> /\ Mark(v1) = m1 /\ RunsTo(v0, b \o LfCr, v1, M)
  BY <1>9
<1>25. m2 = <<f, 1 - v1.row>>
  BY <1>7, <1>10, <1>23
<1>11. /\ f \o LfCr \in Seq(Tokens)
       /\ \E v \in Terminals : v.line = <<>> /\ Mark(v) = m2 /\ RunsTo(v1, f \o LfCr, v, M)
  BY <1>5, <1>10, <1>21, <1>22, <1>25, RunLine
<1>12. PICK v2 \in Terminals : v2.line = <<>> /\ v2.last = f /\ RunsTo(v1, f \o LfCr, v2, M)
  BY <1>7, <1>11, <1>23
<1> DEFINE e == LfCr
<1>13. e \in Seq(Tokens) /\ b \in Seq(Tokens) /\ f \in Seq(Tokens)
  <2>1. Ink \subseteq Tokens
    BY DEF Ink
  <2> QED
    BY <1>5, <2>1, SeqMonotonic, TextParts DEF Texts
<1> DEFINE x == (e \o (b \o e)) \o (f \o e)
<1>14. x = out' /\ x \in Seq(Tokens)
  <2>1. out' = (((e \o b) \o e) \o f) \o e
    BY <1>2 DEF b, f
  <2> HIDE DEF e
  <2>2. (e \o b) \o e = e \o (b \o e) /\ e \o b \in Seq(Tokens) /\ (e \o b) \o e \in Seq(Tokens)
    BY <1>13, Regroup
  <2>3. /\ (((e \o b) \o e) \o f) \o e = ((e \o b) \o e) \o (f \o e)
        /\ f \o e \in Seq(Tokens)
    BY <1>13, <2>2, Regroup
  <2>4. ((e \o b) \o e) \o (f \o e) \in Seq(Tokens)
    BY <2>2, <2>3, Regroup
  <2> QED
    BY <2>1, <2>2, <2>3, <2>4
<1>15. RunsTo(u, x, v2, M)
  <2>1. RunsTo(u, e, v0, M) /\ RunsTo(v0, b \o e, v1, M) /\ RunsTo(v1, f \o e, v2, M)
    BY <1>8, <1>10, <1>12
  <2>2. e \o (b \o e) \in Seq(Tokens) /\ b \o e \in Seq(Tokens) /\ f \o e \in Seq(Tokens)
    BY <1>13, Regroup
  <2> HIDE DEF e
  <2>3. RunsTo(u, e \o (b \o e), v1, M)
    BY <1>13, <2>1, <2>2, RunJoin
  <2> QED
    BY <2>1, <2>2, <2>3, RunJoin
<1>16. Ahead(v2.last)'
  BY <1>2, <1>4, <1>12 DEF Ahead, f
<1> HIDE DEF x
<1> QED
  BY <1>1, <1>2, <1>3, <1>12, <1>14, <1>15, <1>16, TextSaid DEF M

\* matrix-mul: the calculation is announced.
LEMMA FillPrints ==
  ASSUME Tuned, Multiplied, Lined, Printing, FillMatrices
  PROVE  Printing'
<1>1. PICK u \in Terminals : RunsTo(term, uart.fifo \o out, u, Allowed) /\ u.line = <<>> /\ Ahead(u.last)
  BY DEF Printing
<1>2. /\ program' = program /\ uart' = uart /\ term' = term /\ out = <<>>
      /\ program = "matmul" /\ main.pc = "fill" /\ main.i = 0
      /\ out' = <<Starting>> \o LfCr
      /\ main' = [main EXCEPT !.pc = "multiply"]
  BY DEF FillMatrices, Runs, Says, Wire, startVars, Multiplied
<1>3. Allowed \subseteq Allowed'
  <2>1. [SerialNext]_serialVars
    BY DEF SerialNext, Program
  <2> QED
    BY <2>1, AllowedStep
<1>4. u.last = <<Filling>> /\ main'.pc = "multiply" /\ main'.i = 0
  BY <1>1, <1>2 DEF Ahead, Tuned
<1> DEFINE w == <<Starting>>
<1>5. /\ w \in Seq(Ink) /\ w # <<>>
      /\ <<Filling>> # NoLine /\ <<Filling>> # <<>> /\ <<Filling>> # <<Banner>>
  BY LineStarts, WordsDiffer, NoLineApart DEF Begins
<1>6. w \in Known' /\ w \in (Following(u.last))'
  BY <1>2, <1>4, <1>5 DEF Known, Following
<1>7. Ahead(w)'
  BY <1>2, <1>4 DEF Ahead, Latest
<1> HIDE DEF w
<1> QED
  BY <1>1, <1>2, <1>3, <1>5, <1>6, <1>7, LineSaid DEF w

\* What follows a report.
LEMMA AfterReport ==
  ASSUME program = "matmul", NEW r \in 0 .. N - 1, NEW last, last = Reported(r)
  PROVE  (IF r + Every < N THEN Reported(r + Every) ELSE <<CalculationDone>>) \in Following(last)
<1>1. r \in Nat
  BY Sizes
<1>2. /\ Begins(Reported(r), RowDone) /\ Begins(<<Banner>>, Banner) /\ Begins(<<Filling>>, Filling)
      /\ Begins(<<Starting>>, Starting) /\ Begins(<<CalculationDone>>, CalculationDone)
  BY <1>1, LineStarts, WordsDiffer
<1>3. /\ last # NoLine /\ last # <<>> /\ last # <<Banner>> /\ last # <<Filling>>
      /\ last # <<Starting>> /\ last # <<CalculationDone>>
  BY <1>2, WordsDiffer, NoLineApart DEF Begins
<1>4. Following(last) = {IF row + Every < N THEN Reported(row + Every) ELSE <<CalculationDone>> :
                           row \in {m \in 0 .. N - 1 : last = Reported(m)}}
  BY <1>3 DEF Following
<1> QED
  BY <1>4

\* matrix-mul: a product, and after the last of a row perhaps a report.
LEMMA MultiplyPrints ==
  ASSUME Tuned, Multiplied, Lined, Printing, Multiply
  PROVE  Printing'
<1>1. PICK u \in Terminals : RunsTo(term, uart.fifo \o out, u, Allowed) /\ u.line = <<>> /\ Ahead(u.last)
  BY DEF Printing
<1> DEFINE row == main.i
<1>2. /\ program' = program /\ uart' = uart /\ term' = term /\ out = <<>>
      /\ program = "matmul" /\ main.pc = "multiply" /\ row \in 0 .. N - 1
      /\ main.k \in 0 .. N - 1 /\ main.j \in 0 .. N - 1
      /\ main' = NextCell(main) /\ main = [y \in {"pc", "n", "i", "k", "j"} |-> main[y]]
      /\ mat'.A = mat.A /\ mat'.B = mat.B
  BY DEF Multiply, Runs, startVars, Multiplied
<1>3. Allowed \subseteq Allowed'
  <2>1. [SerialNext]_serialVars
    BY DEF SerialNext, Program
  <2> QED
    BY <2>1, AllowedStep
<1>4. Latest(u.last, row)
  BY <1>1, <1>2 DEF Ahead
<1>5. N \in Nat \ {0} /\ Every \in Nat \ {0} /\ row \in Nat
  BY <1>2, SerialAssumption DEF SerialAssumption
<1>6. /\ main'.i = IF LastOfRow(main) THEN row + 1 ELSE row
      /\ main'.pc \in {"multiply", "result"}
  BY <1>2, <1>5 DEF NextCell, LastOfRow
<1>7. CASE LastOfRow(main) /\ main.i % Every = 0
  <2>0. PICK w : w = Reported(row)
    OBVIOUS
  <2>1. w \in Seq(Ink) /\ w # <<>>
    BY <1>5, <2>0, LineStarts DEF Begins
  <2>2. out' = w \o LfCr
    <3>1. PrintNum(main.i) = Numeral[main.i] /\ PrintNum(N) = Numeral[N]
      BY <1>5, PrintedInDecimal
    <3> QED
      BY <1>2, <1>7, <2>0, <3>1 DEF Multiply, Says, Wire, Reported
  <2>3. main'.i = row + 1
    BY <1>6, <1>7
  <2>4. w \in Known'
    <3>1. row \in 0 .. main'.i - 1
      BY <1>5, <2>3
    <3> QED
      BY <1>2, <2>0, <3>1 DEF Known
  <2>5. (Following(u.last))' = Following(u.last)
    BY <1>2, FollowingKept
  <2>6. w \in Following(u.last)
    <3>1. CASE row = 0
      <4>1. u.last = <<Starting>>
        BY <1>4, <3>1 DEF Latest
      <4>2. Begins(<<Banner>>, Banner) /\ Begins(<<Filling>>, Filling) /\ Begins(<<Starting>>, Starting)
        BY LineStarts, WordsDiffer
      <4>3. u.last # NoLine /\ u.last # <<>> /\ u.last # <<Banner>> /\ u.last # <<Filling>>
        <5>1. u.last # NoLine
          BY <4>1, <4>2, NoLineApart
        <5>2. u.last # <<>> /\ u.last # <<Banner>> /\ u.last # <<Filling>>
          BY <4>1, <4>2, WordsDiffer DEF Begins
        <5> QED
          BY <5>1, <5>2
      <4> QED
        BY <1>2, <2>0, <3>1, <4>1, <4>3 DEF Following
    <3>2. CASE row # 0
      <4>1. PICK r \in 0 .. N - 1 : r % Every = 0 /\ r < row /\ row =< r + Every /\ u.last = Reported(r)
        BY <1>4, <3>2 DEF Latest
      <4>2. row = r + Every
        <5>1. r \in Nat /\ row % Every = 0
          BY <1>5, <1>7
        <5>2. \A m \in Nat : m % Every = 0 /\ r < m /\ m =< r + Every => m = r + Every
          BY <1>5, <4>1, <5>1, NextReport
        <5> QED
          BY <1>5, <4>1, <5>1, <5>2
      <4>3. r + Every < N
        BY <1>2, <1>5, <4>2
      <4> QED
        BY <1>2, <2>0, <4>1, <4>2, <4>3, AfterReport
    <3> QED
      BY <3>1, <3>2
  <2>7. Ahead(w)'
    <3>1. main'.i # 0 /\ row < main'.i /\ main'.i =< row + Every
      BY <1>5, <2>3
    <3>2. Latest(w, main'.i)
      BY <1>2, <1>7, <2>0, <3>1 DEF Latest
    <3> QED
      BY <1>2, <1>6, <3>2 DEF Ahead, Latest
  <2> QED
    BY <1>1, <1>2, <1>3, <2>1, <2>2, <2>4, <2>5, <2>6, <2>7, LineSaid
<1>8. CASE ~(LastOfRow(main) /\ main.i % Every = 0)
  <2>1. out' = out
    BY <1>8 DEF Multiply
  <2>2. Latest(u.last, main'.i)
    <3>1. CASE main'.i = row
      BY <1>4, <3>1
    <3>2. CASE main'.i # row
      <4>1. main'.i = row + 1 /\ row % Every # 0
        BY <1>6, <1>8, <3>2
      <4>2. row # 0
        <5>1. 0 % Every = 0
          BY <1>5
        <5> QED
          BY <4>1, <5>1
      <4>3. PICK r \in 0 .. N - 1 : r % Every = 0 /\ r < row /\ row =< r + Every /\ u.last = Reported(r)
        BY <1>4, <4>2 DEF Latest
      <4>4. row # r + Every
        <5>1. r \in Nat
          BY <1>5
        <5>2. (r + Every) % Every = 0
          BY <1>5, <4>3, <5>1, NextReport
        <5> QED
          BY <4>1, <5>2
      <4>5. r < row + 1 /\ row + 1 =< r + Every /\ row + 1 # 0
        BY <1>5, <4>3, <4>4
      <4> QED
        BY <4>1, <4>3, <4>5 DEF Latest
    <3> QED
      BY <3>1, <3>2
  <2>3. Ahead(u.last)'
    BY <1>2, <1>6, <2>2 DEF Ahead, Latest
  <2>4. RunsTo(term, uart.fifo \o out, u, Allowed')
    <3> DEFINE L == Allowed
               M == Allowed'
               f == uart.fifo \o out
               t == term
    <3>1. RunsTo(t, f, u, L) /\ L \subseteq M
      BY <1>1, <1>3
    <3> HIDE DEF L, M, f, t
    <3>2. RunsTo(t, f, u, M)
      BY <3>1, RunMore
    <3> QED
      BY <3>2 DEF M, f, t
  <2> QED
    BY <1>1, <1>2, <2>1, <2>3, <2>4 DEF Printing
<1> QED
  BY <1>7, <1>8

\* matrix-mul: the end, and the first element of the product.
LEMMA ResultPrints ==
  ASSUME Tuned, Multiplied, Lined, Printing, Result
  PROVE  Printing'
<1>1. PICK u \in Terminals : RunsTo(term, uart.fifo \o out, u, Allowed) /\ u.line = <<>> /\ Ahead(u.last)
  BY DEF Printing
<1> DEFINE v == mat.C[<<0, 0>>] \div 100
<1>2. /\ program' = program /\ uart' = uart /\ term' = term /\ out = <<>> /\ mat' = mat
      /\ program = "matmul" /\ main.pc = "result" /\ main.i = N
      /\ out' = <<CalculationDone>> \o LfCr \o <<ValueAt>> \o PrintNum(v) \o LfCr
      /\ main' = [main EXCEPT !.pc = "halt"]
  BY DEF Result, Runs, Says, Wire, startVars, Multiplied
<1>3. Allowed \subseteq Allowed'
  <2>1. [SerialNext]_serialVars
    BY DEF SerialNext, Program
  <2> QED
    BY <2>1, AllowedStep
<1>4. main'.pc = "halt"
  BY <1>2 DEF Tuned
<1>5. N \in Nat \ {0} /\ Every \in Nat \ {0}
  BY SerialAssumption DEF SerialAssumption
<1>6. PICK r \in 0 .. N - 1 : r < N /\ N =< r + Every /\ u.last = Reported(r)
  BY <1>1, <1>2, <1>5 DEF Ahead, Latest
<1>7. v \in Nat /\ v = Dot(0, 0) \div 100
  <2>1. mat.C[<<0, 0>>] \in Nat
    BY <1>2, <1>5 DEF Multiplied, Elements
  <2>2. mat.C[<<0, 0>>] = SumFunctionOnSet(Products(0, 0), Summed(0, 0))
    BY <1>2, <1>5 DEF Multiplied
  <2>3. Summed(0, 0) = 0 .. N - 1
    BY <1>2, <1>5 DEF Summed
  <2> QED
    BY <2>1, <2>2, <2>3 DEF Dot
<1> HIDE DEF v
<1>8. PICK d, w : d = <<CalculationDone>> /\ w = <<ValueAt>> \o Numeral[v]
  OBVIOUS
<1>9. /\ d \in Seq(Ink) /\ d # <<>> /\ d[1] = CalculationDone
      /\ w \in Seq(Ink) /\ w # <<>>
  BY <1>7, <1>8, LineStarts, WordsDiffer DEF Begins
<1> DEFINE M == Allowed'
<1>10. ResultLine' = w /\ \A a : (Following(a))' = Following(a)
  <2>1. ResultLine = w
    BY <1>7, <1>8 DEF ResultLine
  <2> QED
    BY <1>2, <2>1, FollowingKept
<1>11. {d, w} \subseteq Known'
  BY <1>2, <1>4, <1>8, <1>10 DEF Known
<1>12. d \in (Following(u.last))'
  <2>1. ~(r + Every < N)
    BY <1>5, <1>6
  <2> QED
    BY <1>2, <1>6, <1>8, <1>10, <2>1, AfterReport
<1>13. w \in (Following(d))'
  <2>1. Begins(<<Banner>>, Banner) /\ Begins(<<Filling>>, Filling) /\ Begins(<<Starting>>, Starting)
    BY LineStarts, WordsDiffer
  <2>2. d # NoLine /\ d # <<>> /\ d # <<Banner>> /\ d # <<Filling>> /\ d # <<Starting>>
    BY <1>9, <2>1, WordsDiffer, NoLineApart DEF Begins
  <2> QED
    BY <1>2, <1>8, <1>10, <2>2 DEF Following
<1>25. PICK md, mw : md = <<d, 1 - u.row>> /\ mw = <<w, u.row>>
  OBVIOUS
<1>14. <<Mark(u), Mark(u)>> \in M /\ u.last \in Known' /\ u.row \in {0, 1}
  <2>1. <<Mark(u), Mark(u)>> \in Allowed
    BY <1>1, <1>2, RunEnds, ConcatEmptySeq DEF Lined
  <2>2. <<Mark(u), Mark(u)>> \in M
    BY <1>3, <2>1
  <2> QED
    BY <2>2 DEF Allowed, Marks, Mark
<1>15. <<Mark(u), md>> \in M /\ <<md, md>> \in M /\ <<md, mw>> \in M /\ <<mw, mw>> \in M
  BY <1>11, <1>12, <1>13, <1>14, <1>25 DEF Allowed, Marks, Mark
<1> HIDE DEF M
<1>16. /\ d \o LfCr \in Seq(Tokens)
       /\ \E t \in Terminals : t.line = <<>> /\ Mark(t) = md /\ RunsTo(u, d \o LfCr, t, M)
  BY <1>1, <1>9, <1>14, <1>15, <1>25, RunLine
<1>17. PICK t0 \in Terminals : t0.line = <<>> /\ Mark(t0) = md /\ RunsTo(u, d \o LfCr, t0, M)
  BY <1>16
<1>18. PICK a, g : a = <<ValueAt>> /\ g = Numeral[v]
  OBVIOUS
<1>19. /\ a \in Seq(Ink) /\ a # <<>> /\ g \in Seq(Ink) /\ g # <<>> /\ w = a \o g
       /\ a \in Seq(Tokens) /\ g \in Seq(Tokens)
  <2>1. Ink \subseteq Tokens /\ Glyphs \subseteq Ink
    BY WordsDiffer DEF Ink
  <2>2. a \in Seq(Ink) /\ a # <<>>
    BY <1>18, LineStarts, WordsDiffer DEF Begins
  <2>3. g \in Seq(Ink) /\ g # <<>>
    BY <1>7, <1>18, <2>1, NumeralType, SeqMonotonic
  <2>4. w = a \o g
    BY <1>8, <1>18
  <2> QED
    BY <2>1, <2>2, <2>3, <2>4, SeqMonotonic
<1> DEFINE ta == [line |-> t0.line \o a, home |-> FALSE, last |-> t0.last, row |-> t0.row]
<1>20. ta \in Terminals /\ ta.line = a /\ Mark(ta) = md /\ RunsTo(t0, a, ta, M)
  <2>1. t0.line \o a = a
    BY <1>17, <1>19, ConcatEmptySeq
  <2>2. t0.last \in Seq(Tokens) /\ t0.row \in {0, 1} /\ Mark(t0) = md
    BY <1>17 DEF Terminals
  <2>3. RunsTo(t0, a, ta, M)
    BY <1>15, <1>17, <1>19, RunWord
  <2> QED
    BY <1>17, <1>19, <2>1, <2>2, <2>3 DEF Terminals, Mark
<1> HIDE DEF ta
<1> DEFINE tg == [line |-> ta.line \o g, home |-> FALSE, last |-> ta.last, row |-> ta.row]
<1>21. tg \in Terminals /\ tg.line = w /\ Mark(tg) = md /\ RunsTo(ta, g, tg, M)
  <2>1. ta.line \o g = w /\ w \in Seq(Tokens)
    BY <1>19, <1>20, ConcatProperties
  <2>2. ta.last \in Seq(Tokens) /\ ta.row \in {0, 1}
    BY <1>20 DEF Terminals
  <2>3. RunsTo(ta, g, tg, M)
    BY <1>15, <1>19, <1>20, RunWord
  <2> QED
    BY <1>20, <2>1, <2>2, <2>3 DEF Terminals, Mark
<1> HIDE DEF tg
<1>22. PICK t1 \in Terminals : t1.line = <<>> /\ RunsTo(tg, LfCr, t1, M)
  <2>1. mw = <<tg.line, 1 - tg.row>>
    BY <1>14, <1>21, <1>25 DEF Mark
  <2> QED
    BY <1>15, <1>21, <2>1, RunEnd
<1>23. out' \in Seq(Tokens) /\ RunsTo(u, out', t1, M)
  <2> DEFINE x == d \o LfCr
             y == x \o a
             z == y \o g
  <2>1. LfCr \in Seq(Tokens)
    BY TextParts DEF Texts
  <2>2. out' = z \o LfCr
    BY <1>2, <1>7, <1>8, <1>18, PrintedInDecimal
  <2>3. x \in Seq(Tokens) /\ RunsTo(u, x, t0, M)
    BY <1>16, <1>17
  <2> HIDE DEF x
  <2>4. y \in Seq(Tokens) /\ RunsTo(u, y, ta, M)
    BY <1>19, <1>20, <2>3, RunJoin, ConcatProperties
  <2> HIDE DEF y
  <2>5. z \in Seq(Tokens) /\ RunsTo(u, z, tg, M)
    BY <1>19, <1>21, <2>4, RunJoin, ConcatProperties
  <2> HIDE DEF z
  <2>6. z \o LfCr \in Seq(Tokens) /\ RunsTo(u, z \o LfCr, t1, M)
    BY <1>22, <2>1, <2>5, RunJoin, ConcatProperties
  <2> QED
    BY <2>2, <2>6
<1>24. Ahead(t1.last)'
  BY <1>2, <1>4 DEF Ahead
<1> QED
  BY <1>1, <1>2, <1>3, <1>22, <1>23, <1>24, TextSaid DEF M

\* Where the program stands is not touched, nor what is on its way.
LEMMA StaysPrinting ==
  ASSUME Printing, Allowed \subseteq Allowed', term' = term,
         uart'.fifo \o out' = uart.fifo \o out, program' = program,
         \/ main' = main
         \/ program = "hello" /\ (main.pc # "halt" <=> main'.pc # "halt")
  PROVE  Printing'
<1>1. PICK u \in Terminals : RunsTo(term, uart.fifo \o out, u, Allowed) /\ u.line = <<>> /\ Ahead(u.last)
  BY DEF Printing
<1>2. Ahead(u.last)'
  BY <1>1 DEF Ahead, Latest
<1> DEFINE L == Allowed
           M == Allowed'
           f == uart.fifo \o out
           t == term
<1>3. RunsTo(t, f, u, M)
  <2>1. RunsTo(t, f, u, L) /\ L \subseteq M
    BY <1>1
  <2> HIDE DEF L, M, f, t
  <2> QED
    BY <2>1, RunMore
<1>4. RunsTo(term', uart'.fifo \o out', u, Allowed')
  <2>1. t = term' /\ f = uart'.fifo \o out'
    OBVIOUS
  <2> HIDE DEF f, t
  <2> QED
    BY <1>3, <2>1
<1> QED
  BY <1>1, <1>2, <1>4 DEF Printing

\* A character is shown.
LEMMA TransmitPrints ==
  ASSUME Tuned, Multiplied, Lined, Printing, Transmit
  PROVE  Printing' /\ <<Mark(term), Mark(term')>> \in Allowed
<1>1. PICK u \in Terminals : RunsTo(term, uart.fifo \o out, u, Allowed) /\ u.line = <<>> /\ Ahead(u.last)
  BY DEF Printing
<1> DEFINE f == uart.fifo
           s == f \o out
           L == Allowed
           t == term
<1>2. /\ f \in Seq(Tokens) /\ out \in Seq(Tokens) /\ f # <<>>
      /\ term' = Shown(term, Head(f)) /\ out' = out /\ program' = program /\ main' = main /\ mat' = mat
      /\ uart' = [uart EXCEPT !.fifo = Tail(f)] /\ uart = [r \in Registers |-> uart[r]]
  BY ArrivesAsSent DEF Lined, Transmit, Tuned, startVars
<1>3. uart'.fifo = Tail(f)
  BY <1>2 DEF Registers
<1>4. s \in Seq(Tokens) /\ s # <<>> /\ Head(s) = Head(f) /\ Tail(s) = Tail(f) \o out
  <2> HIDE DEF f
  <2>1. s \in Seq(Tokens) /\ s # <<>>
    BY <1>2, ConcatProperties, ConcatEqualIffEmpty
  <2>2. Head(s) = Head(f) /\ Tail(s) = Tail(f) \o out
    BY <1>2
  <2> QED
    BY <2>1, <2>2
<1>5. <<Mark(t), Mark(Shown(t, Head(s)))>> \in L /\ RunsTo(Shown(t, Head(s)), Tail(s), u, L)
  <2>1. RunsTo(t, s, u, L)
    BY <1>1
  <2> HIDE DEF t, s, L
  <2> QED
    BY <1>4, <2>1, RunHead
<1>6. Shown(t, Head(s)) = term' /\ Tail(s) = uart'.fifo \o out'
  <2> HIDE DEF f, s
  <2> QED
    BY <1>2, <1>3, <1>4
<1> HIDE DEF f, s
<1>7. Allowed' = L
  <2>1. \A a : (Following(a))' = Following(a)
    BY <1>2, FollowingKept
  <2>2. Known' = Known
    <3>1. program = "matmul" => ResultLine' = ResultLine
      BY <1>2, FollowingKept
    <3> QED
      BY <1>2, <3>1 DEF Known
  <2> QED
    BY <2>1, <2>2 DEF Allowed, Marks
<1>8. Ahead(u.last)'
  BY <1>1, <1>2 DEF Ahead, Latest
<1>9. RunsTo(term', uart'.fifo \o out', u, Allowed')
  <2> HIDE DEF L, t
  <2> QED
    BY <1>5, <1>6, <1>7
<1> QED
  BY <1>1, <1>5, <1>6, <1>8, <1>9 DEF Printing

\* Every step.
LEMMA PrintingStep ==
  ASSUME Tuned, Multiplied, Lined, Printing, [SerialNext]_serialVars
  PROVE  Printing' /\ (Transmit \/ term' = term)
<1>1. Allowed \subseteq Allowed'
  BY AllowedStep
<1>2. CASE Putc
  <2> DEFINE f == uart.fifo
             a == Append(f, Head(out))
  <2>1. f \in Seq(Tokens) /\ out \in Seq(Tokens) /\ out # <<>>
    BY <1>2 DEF Lined, Putc
  <2>2. Head(out) \in Tokens /\ Tail(out) \in Seq(Tokens)
    BY <2>1, HeadTailProperties
  <2>3. a \o Tail(out) = f \o out
    <3> DEFINE h == <<Head(out)>>
    <3>1. a = f \o h /\ h \in Seq(Tokens)
      BY <2>1, <2>2, AppendIsConcat
    <3>2. out = h \o Tail(out)
      BY <2>1
    <3> HIDE DEF f, a, h
    <3>3. (f \o h) \o Tail(out) = f \o (h \o Tail(out))
      BY <2>1, <2>2, <3>1, Regroup
    <3> QED
      BY <3>1, <3>2, <3>3
  <2>4. uart' = [uart EXCEPT !.fifo = a] /\ uart = [r \in Registers |-> uart[r]]
    BY <1>2, TakenWhole DEF Tuned
  <2>5. uart'.fifo = a
    <3> HIDE DEF a
    <3> QED
      BY <2>4 DEF Registers
  <2>6. out' = Tail(out) /\ term' = term /\ program' = program /\ main' = main
    BY <1>2 DEF Putc, startVars
  <2> HIDE DEF a
  <2>7. uart'.fifo \o out' = uart.fifo \o out
    BY <2>3, <2>5, <2>6
  <2> QED
    BY <1>1, <2>6, <2>7, StaysPrinting
<1>3. CASE Transmit
  BY <1>3, TransmitPrints
<1>4. CASE StartCode \/ UNCHANGED serialVars
  <2>1. UNCHANGED <<program, uart, out, main, term>>
    BY <1>4 DEF StartCode, StartNext, Boot, Enter, CountedStore, ComparedStore, CallMain,
                serialVars, startVars
  <2> QED
    BY <1>1, <2>1, StaysPrinting
<1>5. CASE UartInit
  <2>1. uart'.fifo = uart.fifo
    BY <1>5, UartInitOK
  <2>2. program = "hello" /\ program' = program /\ out' = out /\ term' = term /\ main.pc = "begin"
    BY <1>5 DEF UartInit, Runs, startVars
  <2>3. main'.pc # "halt"
    BY <1>5, <2>2 DEF UartInit, Tuned
  <2> QED
    BY <1>1, <2>1, <2>2, <2>3, StaysPrinting
<1>6. Greet \/ CountUp \/ Title \/ FillMatrices \/ Multiply \/ Result => term' = term
  BY DEF Greet, CountUp, Title, FillMatrices, Multiply, Result
<1> QED
  BY <1>2, <1>3, <1>4, <1>5, <1>6, GreetPrints, CountPrints, TitlePrints, FillPrints,
     MultiplyPrints, ResultPrints DEF SerialNext, Program

\* The invariant of the three programs.
Told == Tuned /\ Multiplied /\ Lined /\ Printing

LEMMA ToldAlways == SerialSpec => []Told
<1>1. SerialInit => Tuned /\ Multiplied /\ Lined
  BY LinedInit
<1>2. SerialInit => Printing
  <2> SUFFICES ASSUME SerialInit PROVE Printing
    OBVIOUS
  <2>1. /\ uart.fifo = <<>> /\ out = <<>> /\ main.n = 0 /\ main.pc = "begin"
        /\ term = [line |-> <<>>, home |-> TRUE, last |-> NoLine, row |-> 0]
    BY DEF SerialInit
  <2>2. <<>> \in Seq(Tokens) /\ <<>> \o <<>> = <<>> /\ NoLine \in Seq(Tokens)
    BY EmptySeq, ConcatEmptySeq, NoLineApart
  <2>3. term \in Terminals /\ term.line = <<>> /\ term.last = NoLine
    BY <2>1, <2>2 DEF Terminals
  <2>4. <<Mark(term), Mark(term)>> \in Allowed
    BY <2>1, <2>2, <2>3 DEF Allowed, Marks, Mark, Known
  <2>5. Ahead(term.last)
    BY <2>1, <2>3 DEF Ahead
  <2>6. RunsTo(term, <<>>, term, Allowed)
    BY <2>3, <2>4, RunNone
  <2> QED
    BY <2>1, <2>2, <2>3, <2>5, <2>6 DEF Printing
<1>3. Told /\ [SerialNext]_serialVars => Told'
  <2>1. Tuned /\ UNCHANGED serialVars => Tuned'
    BY DEF Tuned, serialVars, startVars
  <2> QED
    BY <2>1, UartInitOK, RegistersKept, MultipliedStep, LinedStep, PrintingStep DEF Told
<1> QED
  BY <1>1, <1>2, <1>3, PTL DEF SerialSpec, Told

\* Every line that is completed is the one that belongs after the line above it, and
\* none is repeated, whatever the size of the matrices, the number of rows between
\* reports, the room in the FIFO and the pace of the device: no character is lost
\* to a full FIFO and none is garbled.
THEOREM LinesFollow == SerialSpec => LinesRight
<1>1. Told /\ [SerialNext]_serialVars =>
        [term'.row # term.row => term'.last \in Following(term.last)]_serialVars
  <2> SUFFICES ASSUME Told, [SerialNext]_serialVars, term'.row # term.row
               PROVE  term'.last \in Following(term.last)
    OBVIOUS
  <2>1. Transmit
    BY PrintingStep DEF Told
  <2>2. <<Mark(term), Mark(term')>> \in Allowed
    BY <2>1, TransmitPrints DEF Told
  <2> QED
    BY <2>2, AllowedIs
<1> QED
  BY <1>1, ToldAlways, PTL DEF SerialSpec, LinesRight

\* What the terminal reports is so: the row it names last and the rows before it hold
\* the product, and all rows do when it says that the calculation is done.
THEOREM ReportsTrue == SerialSpec => []RowsFinal
<1>1. Told => RowsFinal
  <2> SUFFICES ASSUME Told, program = "matmul", NEW row \in 0 .. N - 1, NEW col \in 0 .. N - 1,
                      \/ term.last = Reported(row)
                      \/ \E m \in 0 .. N - 1 : m > row /\ term.last = Reported(m)
                      \/ term.last = <<CalculationDone>>
               PROVE  mat.C[<<row, col>>] = Dot(row, col)
    BY DEF RowsFinal
  <2>1. term.last \in Known
    <3>1. PICK u \in Terminals : RunsTo(term, uart.fifo \o out, u, Allowed)
      BY DEF Told, Printing
    <3>2. uart.fifo \o out \in Seq(Tokens)
      BY ConcatProperties DEF Told, Lined
    <3>3. <<Mark(term), Mark(term)>> \in Allowed
      BY <3>1, <3>2, RunEnds
    <3> QED
      BY <3>3, AllowedIs
  <2>2. main.i \in Nat /\ N \in Nat /\ row \in Nat
    BY Sizes DEF Told, Multiplied
  <2>3. /\ Begins(<<Banner>>, Banner) /\ Begins(<<Filling>>, Filling) /\ Begins(<<Starting>>, Starting)
        /\ Begins(<<CalculationDone>>, CalculationDone)
        /\ \A m \in Nat : Begins(Reported(m), RowDone)
    BY LineStarts, WordsDiffer
  <2>4. row < main.i
    <3>1. ASSUME NEW m \in 0 .. N - 1, m >= row, term.last = Reported(m)
          PROVE  row < main.i
      <4>1. /\ m \in Nat /\ term.last # NoLine /\ term.last # <<>> /\ term.last # <<Banner>>
            /\ term.last # <<Filling>> /\ term.last # <<Starting>> /\ term.last # <<CalculationDone>>
        <5>1. m \in Nat
          BY <2>2
        <5>2. term.last # NoLine /\ term.last # <<>> /\ term.last[1] = RowDone
          BY <2>3, <3>1, <5>1, NoLineApart DEF Begins
        <5>3. /\ <<Banner>>[1] = Banner /\ <<Filling>>[1] = Filling /\ <<Starting>>[1] = Starting
              /\ <<CalculationDone>>[1] = CalculationDone
          BY <2>3 DEF Begins
        <5> QED
          BY <5>1, <5>2, <5>3, WordsDiffer
      <4>2. main.pc = "halt" => main.i = N
        BY DEF Told, Multiplied
      <4>3. CASE main.pc = "halt"
        BY <2>2, <4>2, <4>3
      <4>4. CASE main.pc # "halt"
        <5>1. PICK k \in 0 .. main.i - 1 : term.last = Reported(k)
          BY <2>1, <4>1, <4>4 DEF Known
        <5>2. k \in Nat /\ k < main.i
          BY <2>2
        <5>3. k = m
          BY <3>1, <4>1, <5>1, <5>2, ReportedDiffer
        <5> QED
          BY <2>2, <3>1, <5>2, <5>3
      <4> QED
        BY <4>3, <4>4
    <3>2. CASE term.last = <<CalculationDone>>
      <4>1. /\ term.last # NoLine /\ term.last # <<>> /\ term.last # <<Banner>>
            /\ term.last # <<Filling>> /\ term.last # <<Starting>>
        <5>1. term.last # NoLine
          BY <2>3, <3>2, NoLineApart
        <5>2. /\ term.last # <<>> /\ term.last # <<Banner>> /\ term.last # <<Filling>>
              /\ term.last # <<Starting>>
          BY <2>3, <3>2, WordsDiffer DEF Begins
        <5> QED
          BY <5>1, <5>2
      <4>2. \A k \in 0 .. main.i - 1 : term.last # Reported(k)
        <5>1. \A k \in 0 .. main.i - 1 : k \in Nat
          BY <2>2
        <5> QED
          BY <2>3, <3>2, <5>1, WordsDiffer DEF Begins
      <4>3. main.pc = "halt"
        BY <2>1, <4>1, <4>2 DEF Known
      <4>4. main.i = N
        BY <4>3 DEF Told, Multiplied
      <4> QED
        BY <2>2, <4>4
    <3>3. \A m \in 0 .. N - 1 : m > row => m >= row
      BY <2>2
    <3> QED
      BY <2>2, <3>1, <3>2, <3>3
  <2>5. main.pc \in {"multiply", "result", "halt"}
    BY <2>2, <2>4 DEF Told, Multiplied
  <2>6. mat.C[<<row, col>>] = SumFunctionOnSet(Products(row, col), Summed(row, col))
    BY <2>5 DEF Told, Multiplied
  <2> QED
    BY <2>4, <2>6 DEF Summed, Dot
<1> QED
  BY <1>1, ToldAlways, PTL

=============================================================================
