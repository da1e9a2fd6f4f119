------------------------------- MODULE Heat2D -------------------------------
(***************************************************************************)
(* UefiMain of uefi/Heat2D.c: allocation, the main loop (keyboard,         *)
(* pointer, one conduction step, rendering) and the exit paths.            *)
(*                                                                         *)
(* The firmware runs the program on one thread, so pc says which part of   *)
(* the loop body comes next.  The user is the environment: keys arrive in  *)
(* the firmware's queue at any moment, and the pointer reports what it     *)
(* likes each time it is polled (module Pointer models the polling).       *)
(***************************************************************************)
EXTENDS HeatGrid, Sequences

CONSTANTS
  Keys,         \* the keys the user presses (a subset of AllKeys)
  MaxQueue,     \* bound: keys waiting in the firmware's queue
  RadInit, RadMin, RadMax, RadStep,  \* brushRad: 7 at first, 2 .. NX/4 in twos
  Temp1, Temp2, \* the brush temperatures of keys '1' and '2'; '3' is Hot
  NPalettes,    \* entries of gPalettes
  CursorCells,  \* the grid cells the cursor can be over
  StartCell     \* the cell under the middle of the screen

AllKeys == {"esc", "space", "r", "c", "p", "b", "+", "-", "1", "2", "3", "other"}

ASSUME AppAssumption ==
  /\ Keys \subseteq AllKeys
  /\ MaxQueue \in Nat
  /\ RadMin \in Nat /\ RadMax \in Nat /\ RadStep \in Nat
  /\ RadInit \in RadMin .. RadMax
  /\ Temp1 \in Temps /\ Temp2 \in Temps
  /\ NPalettes \in Nat \ {0}
  /\ CursorCells \subseteq Cells
  /\ StartCell \in CursorCells

Palettes == 0 .. NPalettes-1
KeyTemps == [k \in {"1", "2", "3"} |->
               CASE k = "1" -> Temp1 [] k = "2" -> Temp2 [] OTHER -> Hot]

\* The pools UefiMain allocates; "p1" and "p2" are the two temperature buffers.
Buffers == {"p1", "p2"}
Tables  == {"K", "Kx", "Ky", "Mat"}
Pools   == Buffers \cup Tables

VARIABLES
  pc, status,            \* what runs next; the EFI_STATUS UefiMain returned
  conIn,                 \* ConIn's queue of keys
  live,                  \* the pools that are allocated
  mem,                   \* what the two temperature buffers hold
  A, B,                  \* the pointers: current and next temperatures
  bc, Paused,
  brushRad, brushTemp,
  paletteIdx, lut,       \* the chosen palette; the one gColorLut was built from
  cursor,                \* the cell under the cursor
  dirty, screen          \* <<>> is a black screen, <<v>> the view last drawn

proc  == <<pc, status>>
heap  == <<live, mem, A, B>>
modes == <<bc, Paused>>
brush == <<brushRad, brushTemp>>
look  == <<paletteIdx, lut>>
vars  == <<proc, conIn, heap, modes, brush, look, cursor, dirty, screen>>

Loop == {"keys", "pointer", "sim", "render", "stall"}

\* What the render section would draw now.
View == [heat |-> mem[A], lut |-> lut, label |-> paletteIdx, cursor |-> cursor]
Views == [heat : Fields, lut : Palettes, label : Palettes, cursor : CursorCells]

Init ==
  /\ pc = "start" /\ status = "none"
  /\ conIn = <<>>
  /\ live = {} /\ mem = [p \in Buffers |-> Cold] /\ A = "p1" /\ B = "p2"
  /\ bc = BC_DIRICHLET_COLD /\ Paused = FALSE
  /\ brushRad = RadInit /\ brushTemp = Hot
  /\ paletteIdx = 0 /\ lut = 0
  /\ cursor = StartCell
  /\ dirty = FALSE /\ screen = <<>>

-----------------------------------------------------------------------------
(***************************************************************************)
(* Start-up.                                                               *)
(***************************************************************************)
Exit(st) == pc' = "exited" /\ status' = st

\* No GOP, a null GOP (LocateProtocol's own success is returned), or a mode the
\* program cannot draw to.
RejectGop ==
  /\ pc = "start"
  /\ \E st \in {"not_found", "success", "unsupported"} : Exit(st)
  /\ UNCHANGED <<conIn, heap, modes, brush, look, cursor, dirty, screen>>

\* Six AllocateZeroPool calls, each of which may fail, whatever the others did.
AllocatePools ==
  /\ pc = "start"
  /\ \E got \in SUBSET Pools :
       /\ live' = got
       /\ pc' = IF got = Pools THEN "setup" ELSE "nomem"
  /\ mem' = [p \in Buffers |-> Cold]
  /\ A' = "p1" /\ B' = "p2"
  /\ paletteIdx' = 0 /\ lut' = 0
  /\ UNCHANGED <<status, conIn, modes, brush, cursor, dirty, screen>>

OutOfMemory ==
  /\ pc = "nomem"
  /\ live' = live \ ({p \in {A, B} : p \in live} \cup {p \in Tables : p \in live})
  /\ Exit("out_of_resources")
  /\ UNCHANGED <<conIn, mem, A, B, modes, brush, look, cursor, dirty, screen>>

\* The brush and the modes get their first values; InitPointer centres the
\* cursor and resets ConIn, which drops the keys typed so far; the screen is
\* cleared to black.
Setup ==
  /\ pc = "setup"
  /\ brushRad' = RadInit /\ brushTemp' = Hot
  /\ bc' = BC_DIRICHLET_COLD /\ Paused' = FALSE
  /\ cursor' = StartCell /\ conIn' = <<>>
  /\ screen' = <<>> /\ dirty' = TRUE
  /\ pc' = "keys"
  /\ UNCHANGED <<status, heap, look>>

-----------------------------------------------------------------------------
(***************************************************************************)
(* Keyboard: every waiting key is handled before the loop goes on.         *)
(***************************************************************************)
\* Mutant: the key is looked at but not consumed.
ReadAndKeep(k) ==
  /\ pc = "keys"
  /\ conIn # <<>>
  /\ k = Head(conIn)
  /\ UNCHANGED conIn

Read(k) ==
  /\ pc = "keys"
  /\ conIn # <<>>
  /\ k = Head(conIn)
  /\ conIn' = Tail(conIn)

\* Mutant: the handlers forget dirty.
HandleWithoutRedraw(k) ==
  /\ Read(k)
  /\ UNCHANGED <<proc, cursor, dirty, screen>>

\* A key other than Esc that is handled: the loop reads on, and will redraw.
Handle(k) ==
  /\ Read(k)
  /\ dirty' = TRUE
  /\ UNCHANGED <<proc, cursor, screen>>

\* Mutant: Esc only breaks out of the loop that reads keys.
KeyEscBreaks ==
  /\ Read("esc")
  /\ pc' = "pointer"
  /\ UNCHANGED <<status, heap, modes, brush, look, cursor, dirty, screen>>

KeyEsc ==
  /\ Read("esc")
  /\ pc' = "done"
  /\ UNCHANGED <<status, heap, modes, brush, look, cursor, dirty, screen>>

KeySpace ==
  /\ Handle("space")
  /\ Paused' = ~Paused
  /\ UNCHANGED <<bc, heap, brush, look>>

KeyReset ==
  /\ Handle("r")
  /\ mem' = [mem EXCEPT ![A] = Cold, ![B] = Cold]
  /\ UNCHANGED <<live, A, B, modes, brush, look>>

\* Only the current buffer is cleared.
KeyClear ==
  /\ Handle("c")
  /\ mem' = [mem EXCEPT ![A] = Cold]
  /\ UNCHANGED <<live, A, B, modes, brush, look>>

KeyPalette ==
  /\ Handle("p")
  /\ paletteIdx' = (paletteIdx + 1) % NPalettes
  /\ lut' = paletteIdx'
  /\ UNCHANGED <<heap, modes, brush>>

KeyBoundary ==
  /\ Handle("b")
  /\ bc' = (bc + 1) % BC_COUNT
  /\ UNCHANGED <<Paused, heap, brush, look>>

\* Mutant: no clamp.
KeyPlusUnclamped ==
  /\ Handle("+")
  /\ brushRad' = brushRad + RadStep
  /\ UNCHANGED <<brushTemp, heap, modes, look>>

KeyPlus ==
  /\ Handle("+")
  /\ brushRad' = ClampI32(brushRad + RadStep, RadMin, RadMax)
  /\ UNCHANGED <<brushTemp, heap, modes, look>>

KeyMinus ==
  /\ Handle("-")
  /\ brushRad' = ClampI32(brushRad - RadStep, RadMin, RadMax)
  /\ UNCHANGED <<brushTemp, heap, modes, look>>

KeyTemp ==
  /\ \E k \in DOMAIN KeyTemps : Handle(k) /\ brushTemp' = KeyTemps[k]
  /\ UNCHANGED <<brushRad, heap, modes, look>>

KeyOther ==
  /\ Read("other")
  /\ UNCHANGED <<proc, heap, modes, brush, look, cursor, dirty, screen>>

KeysDrained ==
  /\ pc = "keys"
  /\ conIn = <<>>
  /\ pc' = "pointer"
  /\ UNCHANGED <<status, conIn, heap, modes, brush, look, cursor, dirty, screen>>

Keyboard ==
  \/ KeyEsc \/ KeySpace \/ KeyReset \/ KeyClear \/ KeyPalette \/ KeyBoundary
  \/ KeyPlus \/ KeyMinus \/ KeyTemp \/ KeyOther \/ KeysDrained

-----------------------------------------------------------------------------
(***************************************************************************)
(* Pointer: PollPointer says where the cursor is and whether a button is   *)
(* held; a held button paints the current buffer.                          *)
(***************************************************************************)
PaintAt(c) ==
  /\ pc = "pointer"
  /\ cursor' = c
  /\ mem' = [mem EXCEPT ![A] = StampDisk(mem[A], c[1], c[2], brushRad, brushTemp)]
  /\ dirty' = TRUE
  /\ pc' = "sim"
  /\ UNCHANGED <<status, conIn, live, A, B, modes, brush, look, screen>>

\* The pointer moved, maybe within one cell.
MoveCursor(c) ==
  /\ pc = "pointer"
  /\ cursor' = c
  /\ dirty' = TRUE
  /\ pc' = "sim"
  /\ UNCHANGED <<status, conIn, heap, modes, brush, look, screen>>

NoPointerEvent ==
  /\ pc = "pointer"
  /\ pc' = "sim"
  /\ UNCHANGED <<status, conIn, heap, modes, brush, look, cursor, dirty, screen>>

PollPointer ==
  \/ \E c \in CursorCells : PaintAt(c) \/ MoveCursor(c)
  \/ NoPointerEvent

-----------------------------------------------------------------------------
(***************************************************************************)
(* Simulation: the sources are stamped into the current buffer, the next   *)
(* one is computed from it, and the pointers are swapped.                  *)
(***************************************************************************)
\* Mutant: A takes B, but B does not take A.
StepLosesBuffer ==
  /\ pc = "sim"
  /\ ~Paused
  /\ LET S == StampSources(mem[A])
     IN  mem' = [mem EXCEPT ![A] = S, ![B] = ApplyBoundary(Diffuse(S, mem[B]), bc)]
  /\ A' = B /\ UNCHANGED B
  /\ dirty' = TRUE
  /\ pc' = "render"
  /\ UNCHANGED <<status, conIn, live, modes, brush, look, cursor, screen>>

Step ==
  /\ pc = "sim"
  /\ ~Paused
  /\ LET S == StampSources(mem[A])
     IN  mem' = [mem EXCEPT ![A] = S, ![B] = ApplyBoundary(Diffuse(S, mem[B]), bc)]
  /\ A' = B /\ B' = A
  /\ dirty' = TRUE
  /\ pc' = "render"
  /\ UNCHANGED <<status, conIn, live, modes, brush, look, cursor, screen>>

SkipStep ==
  /\ pc = "sim"
  /\ Paused
  /\ pc' = "render"
  /\ UNCHANGED <<status, conIn, heap, modes, brush, look, cursor, dirty, screen>>

-----------------------------------------------------------------------------
Render ==
  /\ pc = "render"
  /\ dirty
  /\ screen' = <<View>>
  /\ dirty' = FALSE
  /\ pc' = "stall"
  /\ UNCHANGED <<status, conIn, heap, modes, brush, look, cursor>>

SkipRender ==
  /\ pc = "render"
  /\ ~dirty
  /\ pc' = "stall"
  /\ UNCHANGED <<status, conIn, heap, modes, brush, look, cursor, dirty, screen>>

Stall ==
  /\ pc = "stall"
  /\ pc' = "keys"
  /\ UNCHANGED <<status, conIn, heap, modes, brush, look, cursor, dirty, screen>>

\* Mutant: the temperature buffer that is not current is forgotten.
ReleaseOneBuffer ==
  /\ pc = "done"
  /\ live' = live \ ({A} \cup Tables)
  /\ Exit("success")
  /\ UNCHANGED <<conIn, mem, A, B, modes, brush, look, cursor, dirty, screen>>

\* The label done: the pools are freed through the pointers.
Release ==
  /\ pc = "done"
  /\ live' = live \ ({A, B} \cup Tables)
  /\ Exit("success")
  /\ UNCHANGED <<conIn, mem, A, B, modes, brush, look, cursor, dirty, screen>>

Program ==
  \/ RejectGop \/ AllocatePools \/ OutOfMemory \/ Setup
  \/ Keyboard \/ PollPointer
  \/ Step \/ SkipStep \/ Render \/ SkipRender \/ Stall
  \/ Release

-----------------------------------------------------------------------------
\* The user presses a key, at any time until the program has exited.
Type(k) ==
  /\ pc # "exited"
  /\ Len(conIn) < MaxQueue
  /\ conIn' = Append(conIn, k)
  /\ UNCHANGED <<proc, heap, modes, brush, look, cursor, dirty, screen>>

User == \E k \in Keys : Type(k)

\* Control is back in the firmware.
Exited == pc = "exited" /\ UNCHANGED vars

Next == Program \/ User \/ Exited

Spec == Init /\ [][Next]_vars

\* One thread runs the program and nothing in it waits, so it always goes on.
\* Nobody has to press a key.
FairSpec == Spec /\ WF_vars(Program)

-----------------------------------------------------------------------------
(***************************************************************************)
(* Properties.                                                             *)
(***************************************************************************)
\* Every variable has its type; in particular no stamp, no conduction step and
\* no boundary condition ever leaves a temperature outside 0 .. Hot, and the
\* brush radius stays within its clamp.
TypeOK ==
  /\ pc \in {"start", "nomem", "setup", "done", "exited"} \cup Loop
  /\ status \in {"none", "success", "not_found", "unsupported", "out_of_resources"}
  /\ conIn \in Seq(AllKeys)
  /\ live \subseteq Pools
  /\ mem \in [Buffers -> Fields]
  /\ A \in Buffers /\ B \in Buffers
  /\ bc \in BoundaryModes /\ Paused \in BOOLEAN
  /\ brushRad \in RadMin .. RadMax /\ brushTemp \in {Temp1, Temp2, Hot}
  /\ paletteIdx \in Palettes /\ lut \in Palettes
  /\ cursor \in CursorCells
  /\ dirty \in BOOLEAN
  /\ screen \in Seq(Views) /\ Len(screen) =< 1

\* Through every swap A and B name the two different buffers, the loop runs only
\* with all six pools allocated, and whatever was allocated is free again when
\* the program has exited, however it exits (UefiMain's OOM path, goto done).
PoolsOK ==
  /\ {A, B} = Buffers
  /\ pc \in Loop \cup {"setup", "done"} => live = Pools
  /\ pc \in {"start", "exited"} => live = {}

\* Whenever the loop is not about to redraw (dirty is clear), the screen shows
\* the current temperatures in the chosen palette, with its name in the legend
\* and the cursor where it is: no handler changes what is shown and forgets
\* dirty, and no swap leaves an old buffer on the screen.
ScreenCurrent ==
  /\ pc \in Loop /\ ~dirty => screen = <<View>>
  /\ lut = paletteIdx

\* The program implements HeatField: what the user sees as the field is only
\* ever painted, cleared or advanced by one step of the current mode, and the
\* stale contents of the other buffer never come back.
HF == INSTANCE HeatField WITH
        field <- mem[A], mode <- bc, paused <- Paused,
        BrushCells <- CursorCells, BrushRads <- RadMin .. RadMax,
        BrushTemps <- {Temp1, Temp2, Hot}
Refinement == HF!Spec

\* Once the loop runs, an Esc in the queue ends the program, whatever keys wait
\* before it and whatever else the user does.
EscWaits == pc \in Loop /\ \E i \in 1 .. Len(conIn) : conIn[i] = "esc"
EscQuits == EscWaits ~> pc = "exited"

\* The loop reads keys until none is waiting, so keys that keep coming can hold
\* up the frames; a user who stops typing gets frames for ever (or an exit).
FramesUnlessFlooded ==
  <>[][~User]_vars => []<>(pc = "stall") \/ <>(pc = "exited")

\* hotkeys.md says 'c' clears painted heat "while keeping the fixed heat
\* sources": the source cells should be as hot after the key as before it.
ClearKeepsSources ==
  [][KeyClear => \A c \in SourceCells : mem'[A'][c] = mem[A][c]]_vars

=============================================================================
