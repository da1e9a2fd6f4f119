------------------------------ MODULE FwCfgDma ------------------------------
(***************************************************************************)
(* How metal/Heat2D_ramfb.cpp gets its display: main looks for a file in   *)
(* QEMU's fw_cfg directory and writes the frame buffer's configuration to  *)
(* it, every byte by DMA (fw_cfg_dma_transfer, fw_cfg_find_file, main).    *)
(*                                                                         *)
(* Three actors: the program, the memory system (a store to the descriptor *)
(* g_dma reaches memory some time after it was issued, and stores may      *)
(* overtake each other until the dsb), and the device, which reads the     *)
(* descriptor when the low half of its address is written, and answers     *)
(* through the descriptor's control word.                                  *)
(*                                                                         *)
(* Descriptor fields and data are shown as the device reads them: the      *)
(* program stores them byte-swapped because the device is big-endian.      *)
(*                                                                         *)
(* The program reads the buffer a transfer filled after the control word,  *)
(* in program order, although no barrier in the code says so: QEMU's       *)
(* device acts while the doorbell is being written.                        *)
(***************************************************************************)
EXTENDS Naturals, Sequences

CONSTANTS
  Dirs,      \* the fw_cfg directories QEMU may present: sequences of [name, sel]
  Target,    \* the name main looks for, "etc/ramfb"
  Writable,  \* the selectors of files the guest may write
  DirSel     \* FW_CFG_FILE_DIR, the selector of the directory

ASSUME DmaAssumption ==
  /\ Dirs \subseteq Seq([name : STRING, sel : Nat])
  /\ Target \in STRING
  /\ DirSel \in Nat

Fields == {"control", "length", "address"}

\* A request: the control word (which may select a file), the length, and the
\* buffer, named after main's and fw_cfg_find_file's variables.
SelectRead(sel)  == [op |-> "read",  select |-> TRUE,  sel |-> sel]
ReadOn           == [op |-> "read",  select |-> FALSE, sel |-> 0]
SelectWrite(sel) == [op |-> "write", select |-> TRUE,  sel |-> sel]
Done  == [op |-> "done",  select |-> FALSE, sel |-> 0]
Error == [op |-> "error", select |-> FALSE, sel |-> 0]

VARIABLES
  pc, ret,       \* the program; where a transfer returns to
  req,           \* the transfer asked for: [control, length, address]
  n, ent, i,     \* n_be, the current entry, the loop index
  ramfbSel,      \* the selector found
  desc,          \* g_dma as memory holds it
  pending,       \* the fields whose store has not reached memory
  dev, job,      \* the device: what it does; the descriptor it read
  dir,           \* its directory
  key, offset,   \* the device's selected file and its read position
  ramfb,         \* what the display was configured from, <<>> if nothing
  owed           \* history: transfers triggered and not yet answered

prog   == <<pc, ret, req, n, ent, i, ramfbSel>>
memory == <<desc, pending>>
device == <<dir, dev, job, key, offset, ramfb>>
vars   == <<prog, memory, device, owed>>

NoEntry == [name |-> "", sel |-> 0]
NoReq == [control |-> Done, length |-> "0", address |-> "null"]

Init ==
  /\ pc = "find" /\ ret = "none" /\ req = NoReq
  /\ n = 0 /\ ent = NoEntry /\ i = 0 /\ ramfbSel = 0
  /\ desc = NoReq /\ pending = {}
  /\ dir \in Dirs
  /\ dev = "idle" /\ job = NoReq /\ key = 0 /\ offset = 0
  /\ ramfb = <<>>
  /\ owed = 0

-----------------------------------------------------------------------------
(***************************************************************************)
(* fw_cfg_dma_transfer.                                                    *)
(***************************************************************************)
Call(control, len, buf, label) ==
  /\ req' = [control |-> control, length |-> len, address |-> buf]
  /\ ret' = label
  /\ pc' = "store"

\* The three stores to g_dma are issued.
Store ==
  /\ pc = "store"
  /\ pending' = Fields
  /\ pc' = "dsb"
  /\ UNCHANGED <<ret, req, n, ent, i, ramfbSel, desc, device, owed>>

\* Mutant: no barrier.
NoBarrier ==
  /\ pc = "dsb"
  /\ pc' = "ring"
  /\ UNCHANGED <<ret, req, n, ent, i, ramfbSel, memory, device, owed>>

\* dsb sy: goes on when every store has reached memory.
Barrier ==
  /\ pc = "dsb"
  /\ pending = {}
  /\ pc' = "ring"
  /\ UNCHANGED <<ret, req, n, ent, i, ramfbSel, memory, device, owed>>

\* The high half of g_dma's address is written, then the low half: the device
\* starts.
Ring ==
  /\ pc = "ring"
  /\ dev' = "fetch"
  /\ owed' = owed + 1
  /\ pc' = "poll"
  /\ UNCHANGED <<ret, req, n, ent, i, ramfbSel, memory, dir, job, key, offset, ramfb>>

\* The program reads its own last store until that store has reached memory.
Control == IF "control" \in pending THEN req.control ELSE desc.control

\* Mutant: an error is taken for completion.
PollIgnoresError ==
  /\ pc = "poll"
  /\ Control \in {Done, Error}
  /\ pc' = ret
  /\ UNCHANGED <<ret, req, n, ent, i, ramfbSel, memory, device, owed>>

PollDone ==
  /\ pc = "poll"
  /\ Control = Done
  /\ pc' = ret
  /\ UNCHANGED <<ret, req, n, ent, i, ramfbSel, memory, device, owed>>

PollError ==
  /\ pc = "poll"
  /\ Control = Error
  /\ pc' = "halt"
  /\ UNCHANGED <<ret, req, n, ent, i, ramfbSel, memory, device, owed>>

Transfer == Store \/ Barrier \/ Ring \/ PollDone \/ PollError

-----------------------------------------------------------------------------
(***************************************************************************)
(* fw_cfg_find_file and main.                                              *)
(***************************************************************************)
FindFile ==
  /\ pc = "find"
  /\ Call(SelectRead(DirSel), "4", "n", "loop")
  /\ i' = 0
  /\ UNCHANGED <<n, ent, ramfbSel, memory, device, owed>>

\* Mutant: one entry too many.
ReadEntryPastEnd ==
  /\ pc = "loop"
  /\ i =< n
  /\ Call(ReadOn, "64", "ent", "match")
  /\ UNCHANGED <<n, ent, i, ramfbSel, memory, device, owed>>

ReadEntry ==
  /\ pc = "loop"
  /\ i < n
  /\ Call(ReadOn, "64", "ent", "match")
  /\ UNCHANGED <<n, ent, i, ramfbSel, memory, device, owed>>

\* Mutant: the loop index is not incremented.
NoMatchForgetsIndex ==
  /\ pc = "match"
  /\ ent.name # Target
  /\ pc' = "loop"
  /\ UNCHANGED <<ret, req, n, ent, i, ramfbSel, memory, device, owed>>

NoMatch ==
  /\ pc = "match"
  /\ ent.name # Target
  /\ i' = i + 1
  /\ pc' = "loop"
  /\ UNCHANGED <<ret, req, n, ent, ramfbSel, memory, device, owed>>

\* A match ends the search, and main writes the configuration to the file.
Match ==
  /\ pc = "match"
  /\ ent.name = Target
  /\ ramfbSel' = ent.sel
  /\ Call(SelectWrite(ent.sel), "28", "cfg", "paint")
  /\ UNCHANGED <<n, ent, i, memory, device, owed>>

NotFound ==
  /\ pc = "loop"
  /\ i >= n
  /\ pc' = "halt"
  /\ UNCHANGED <<ret, req, n, ent, i, ramfbSel, memory, device, owed>>

Main == FindFile \/ ReadEntry \/ NoMatch \/ Match \/ NotFound

\* wfi for ever, or the main loop of the demo, which uses no DMA.
Rest == pc \in {"halt", "paint"} /\ UNCHANGED vars

-----------------------------------------------------------------------------
(***************************************************************************)
(* The memory system and the device.                                       *)
(***************************************************************************)
Drain(f) ==
  /\ f \in pending
  /\ desc' = [desc EXCEPT ![f] = req[f]]
  /\ pending' = pending \ {f}
  /\ UNCHANGED <<prog, device, owed>>

Fetch ==
  /\ dev = "fetch"
  /\ job' = desc
  /\ dev' = "run"
  /\ UNCHANGED <<prog, memory, dir, key, offset, ramfb, owed>>

\* The file selected and the read position, after the control word's SELECT.
Key == IF job.control.select THEN job.control.sel ELSE key
Pos == IF job.control.select THEN 0 ELSE offset

Answer(control) ==
  /\ desc' = [desc EXCEPT !.control = control]
  /\ owed' = owed - 1
  /\ dev' = "idle"

\* The directory is its length, then its entries, then zeros.
ServeRead ==
  /\ dev = "run"
  /\ job.control.op = "read"
  /\ Key = DirSel
  /\ \/ job.address = "n" /\ n' = Len(dir) /\ UNCHANGED ent
     \/ job.address = "ent" /\ ent' = (IF Pos \in DOMAIN dir THEN dir[Pos] ELSE NoEntry) /\ UNCHANGED n
  /\ key' = Key /\ offset' = (IF Pos =< Len(dir) THEN Pos + 1 ELSE Pos)
  /\ Answer(Done)
  /\ UNCHANGED <<pc, ret, req, i, ramfbSel, pending, dir, job, ramfb>>

ServeWrite ==
  /\ dev = "run"
  /\ job.control.op = "write"
  /\ Key \in Writable
  /\ key' = Key /\ offset' = Pos
  /\ ramfb' = <<job.address, job.length>>
  /\ Answer(Done)
  /\ UNCHANGED <<prog, pending, dir, job>>

\* Any transfer may end in an error, and a write to a read-only file does.
Fail ==
  /\ dev = "run"
  /\ Answer(Error)
  /\ key' = Key /\ offset' = Pos
  /\ UNCHANGED <<prog, pending, dir, job, ramfb>>

Device == Fetch \/ ServeRead \/ ServeWrite \/ Fail

Next ==
  \/ Transfer \/ Main \/ Rest
  \/ \E f \in Fields : Drain(f)
  \/ Device

Spec == Init /\ [][Next]_vars

\* The program is one thread that never blocks for good, a store reaches memory
\* in the end, and the device answers what it is asked.
FairSpec ==
  /\ Spec
  /\ WF_vars(Transfer \/ Main)
  /\ \A f \in Fields : WF_vars(Drain(f))
  /\ WF_vars(Device)

-----------------------------------------------------------------------------
(***************************************************************************)
(* Properties.                                                             *)
(***************************************************************************)
\* The search stays within the directory, and at most one transfer is under way.
TypeOK ==
  /\ pc \in {"find", "store", "dsb", "ring", "poll", "loop", "match", "paint", "halt"}
  /\ dir \in Dirs
  /\ i \in 0 .. Len(dir) /\ n \in {0, Len(dir)}
  /\ dev \in {"idle", "fetch", "run"}
  /\ pending \subseteq Fields
  /\ owed \in 0 .. 1

\* The device carries out the very request the program made, never a descriptor
\* that mixes it with the one before (what the dsb is for).
DeviceSeesRequest == dev = "run" => job = req

\* The program acts on a transfer only when the device has answered the one it
\* posted last, without an error: a control word left at 0 by the transfer
\* before, or by the cleared .bss, is never taken for this one's completion.
CompletionIsReal ==
  pc \in {"loop", "match", "paint"} =>
    dev = "idle" /\ owed = 0 /\ desc.control = Done /\ pending = {}

\* The frame buffer is drawn to only after QEMU has taken the whole 28-byte
\* configuration, through the first directory entry of the target's name.
First(k) == k \in 1 .. Len(dir) /\ dir[k].name = Target
            /\ \A j \in 1 .. k-1 : dir[j].name # Target
PaintConfigured ==
  pc = "paint" =>
    /\ ramfb = <<"cfg", "28">>
    /\ \E k \in 1 .. Len(dir) : First(k) /\ ramfbSel = dir[k].sel /\ key = dir[k].sel

\* The display comes up or the program halts, and it halts only for a reason:
\* the device reported an error, or the directory has no entry of that name.
BringUpEnds ==
  <>(\/ pc = "paint"
     \/ pc = "halt" /\ (desc.control = Error \/ ~ \E k \in 1 .. Len(dir) : First(k)))

=============================================================================
