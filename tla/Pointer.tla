------------------------------ MODULE Pointer ------------------------------
(***************************************************************************)
(* InitPointer and PollPointer of uefi/Heat2D.c with the two devices they  *)
(* poll: a touch screen (EFI_ABSOLUTE_POINTER_PROTOCOL) and a mouse        *)
(* (EFI_SIMPLE_POINTER_PROTOCOL), either of which may be missing, and with *)
(* the part of the main loop that redraws when a poll asks for it.         *)
(*                                                                         *)
(* A device reports its state when it changed since it was last asked, and *)
(* otherwise answers EFI_NOT_READY (or, some touch screens, the same state *)
(* again); the mouse adds up its movements until it is asked.              *)
(***************************************************************************)
EXTENDS PointerMap

CONSTANTS
  HasAbs, HasRel,  \* which protocols LocateProtocol finds
  AbsPoints,       \* the coordinate pairs the touch screen reports
  RelMoves,        \* the movements the mouse makes
  MaxCount         \* bound: counts the mouse adds up between two polls

ASSUME PointerAssumption ==
  /\ HasAbs \in BOOLEAN /\ HasRel \in BOOLEAN
  /\ AbsPoints \subseteq Int \X Int
  /\ RelMoves \subseteq Int \X Int
  /\ MaxCount \in Nat

VARIABLES
  X, Y,               \* the cursor
  LastAbsValid, LastAbs,  \* the last touch position seen, in pixels
  pressed,            \* OutPressed of the last poll
  dirty,              \* a frame is due
  crosshair,          \* where the last frame shows it; <<>> before the first
  touch,              \* the touch screen: [at, down, fresh]
  mouse,              \* the mouse: [dx, dy, down, fresh]
  travel              \* history: mouse counts read on x since X last changed,
                      \* capped at RelScale either way

cursor == <<X, Y>>
pstate == <<X, Y, LastAbsValid, LastAbs, pressed, dirty, crosshair, travel>>
vars   == <<pstate, touch, mouse>>

Init ==
  /\ X = Width \div 2 /\ Y = Height \div 2
  /\ LastAbsValid = FALSE /\ LastAbs = <<0, 0>>
  /\ pressed = FALSE /\ dirty = TRUE /\ crosshair = <<>>
  /\ \E p \in AbsPoints, f \in {FALSE, HasAbs} : touch = [at |-> p, down |-> FALSE, fresh |-> f]
  /\ mouse = [dx |-> 0, dy |-> 0, down |-> FALSE, fresh |-> FALSE]
  /\ travel = 0

-----------------------------------------------------------------------------
(***************************************************************************)
(* The devices.                                                            *)
(***************************************************************************)
Touch(p, d) ==
  /\ HasAbs
  /\ <<p, d>> # <<touch.at, touch.down>>
  /\ touch' = [at |-> p, down |-> d, fresh |-> TRUE]
  /\ UNCHANGED <<pstate, mouse>>

InCount(n) == -MaxCount =< n /\ n =< MaxCount

MoveMouse(m) ==
  /\ HasRel
  /\ InCount(mouse.dx + m[1]) /\ InCount(mouse.dy + m[2])
  /\ mouse' = [dx |-> mouse.dx + m[1], dy |-> mouse.dy + m[2],
               down |-> mouse.down, fresh |-> TRUE]
  /\ UNCHANGED <<pstate, touch>>

Click ==
  /\ HasRel
  /\ mouse' = [mouse EXCEPT !.down = ~@, !.fresh = TRUE]
  /\ UNCHANGED <<pstate, touch>>

-----------------------------------------------------------------------------
(***************************************************************************)
(* One poll.                                                               *)
(***************************************************************************)
absAvail   == HasAbs /\ touch.fresh
absAt      == <<ToScreen(touch.at[1], Width), ToScreen(touch.at[2], Height)>>
absPressed == absAvail /\ touch.down

\* Mutant: a touch that was not pressed counts as moved every time.
absMovedAlways == absAvail

absMoved == absAvail /\ (~LastAbsValid \/ absAt # LastAbs)

relAvail   == HasRel /\ mouse.fresh
relStep    == IF relAvail THEN <<Pixels(mouse.dx), Pixels(mouse.dy)>> ELSE <<0, 0>>
relMoved   == relStep # <<0, 0>>
relPressed == relAvail /\ mouse.down

\* The cursor goes to p; the main loop will redraw if the poll says that it moved
\* or that a button is held.
GoTo(p, moved) ==
  /\ X' = p[1] /\ Y' = p[2]
  /\ pressed' = (absPressed \/ relPressed)
  /\ dirty' = (dirty \/ moved \/ pressed')

\* A pressed touch wins.
Drag ==
  /\ absPressed
  /\ GoTo(absAt, absAt # cursor)

\* Then the mouse; at the end of the screen it may move and leave the cursor there.
Roll ==
  /\ ~absPressed /\ relMoved
  /\ LET n == <<Moved(X, relStep[1], Width), Moved(Y, relStep[2], Height)>>
     IN  GoTo(n, n # cursor)

\* Mutant: whether the cursor moved is asked of the last touch.
HoverSinceLastTouch ==
  /\ ~absPressed /\ ~relMoved /\ absMoved
  /\ GoTo(absAt, absAt # LastAbs)

\* Then a touch that moved.
Hover ==
  /\ ~absPressed /\ ~relMoved /\ absMoved
  /\ GoTo(absAt, absAt # cursor)

Rest ==
  /\ ~absPressed /\ ~relMoved /\ ~absMoved
  /\ GoTo(cursor, FALSE)

PollPointer ==
  /\ Drag \/ Roll \/ Hover \/ Rest
  /\ LastAbsValid' = (LastAbsValid \/ absAvail)
  /\ LastAbs' = IF absAvail THEN absAt ELSE LastAbs
  /\ travel' = IF X' # X THEN 0 ELSE Clamp(travel + mouse.dx, -RelScale, RelScale)
  /\ \E f \in {FALSE, HasAbs} : touch' = [touch EXCEPT !.fresh = f]
  /\ mouse' = [dx |-> 0, dy |-> 0, down |-> mouse.down, fresh |-> FALSE]
  /\ UNCHANGED crosshair

-----------------------------------------------------------------------------
(***************************************************************************)
(* What the rest of the main loop does with it.                            *)
(***************************************************************************)
\* A key or a step of the simulation asks for a new frame.
Stir ==
  /\ dirty' = TRUE
  /\ UNCHANGED <<X, Y, LastAbsValid, LastAbs, pressed, crosshair, travel, touch, mouse>>

Render ==
  /\ dirty
  /\ crosshair' = cursor
  /\ dirty' = FALSE
  /\ UNCHANGED <<X, Y, LastAbsValid, LastAbs, pressed, travel, touch, mouse>>

\* The cell a press paints.
gx == GridCell(X, Width, NX)
gy == GridCell(Y, Height, NY)

Next ==
  \/ \E p \in AbsPoints, d \in BOOLEAN : Touch(p, d)
  \/ \E m \in RelMoves : MoveMouse(m)
  \/ Click
  \/ PollPointer
  \/ Stir
  \/ Render

Spec == Init /\ [][Next]_vars

-----------------------------------------------------------------------------
(***************************************************************************)
(* Properties.                                                             *)
(***************************************************************************)
\* The cursor is a pixel of the screen, whatever the devices report.
TypeOK ==
  /\ X \in 0 .. Width-1 /\ Y \in 0 .. Height-1
  /\ LastAbsValid \in BOOLEAN
  /\ LastAbs \in (0 .. Width-1) \X (0 .. Height-1)
  /\ pressed \in BOOLEAN /\ dirty \in BOOLEAN
  /\ crosshair \in {<<>>} \cup ((0 .. Width-1) \X (0 .. Height-1))
  /\ touch \in [at : AbsPoints, down : BOOLEAN, fresh : BOOLEAN]
  /\ mouse \in [dx : Int, dy : Int, down : BOOLEAN, fresh : BOOLEAN]
  /\ travel \in -RelScale .. RelScale

\* Unless a frame is due, the crosshair on the screen is where the cursor is: no
\* branch of the poll moves the cursor without reporting it, the first touch, a
\* touch after the mouse and a mouse at the end of the screen included, and the
\* main loop heeds every report.
CrosshairCurrent == ~dirty => crosshair = cursor

\* A touch screen that was seen before, is not pressed and reports the position
\* it reported last never overrides the mouse: the cursor goes where the mouse
\* takes it and nowhere else.
IdleTouchYields ==
  [][PollPointer /\ LastAbsValid /\ absAvail /\ ~touch.down /\ absAt = LastAbs =>
       cursor' = <<Moved(X, relStep[1], Width), Moved(Y, relStep[2], Height)>>]_vars

\* A press paints what is under the cursor.  On either axis the painted cell is
\* among those the block drawn at the cursor stands for, or the last one when the
\* cursor is in the margin beyond the grid; and if the grid covers the cursor, the
\* smallest brush there heats the cell whose colour is drawn, also on a screen on
\* which every other row and column is skipped.
PaintsUnderCursor ==
  LET di == gx - DrawnCell(X, Width, NX)
      dj == gy - DrawnCell(Y, Height, NY)
      overX == X < DrawSize(Width, NX)
      overY == Y < DrawSize(Height, NY)
  IN  /\ IF overX THEN di \in 0 .. drawSkip-1 ELSE gx = NX-1
      /\ IF overY THEN dj \in 0 .. drawSkip-1 ELSE gy = NY-1
      /\ overX /\ overY => di * di + dj * dj =< BrushMin * BrushMin

\* The guide says "Move mouse - Move cursor": a cursor in mid-screen should not
\* stay put while the mouse reports RelScale counts in one direction.
SlowMouseMoves == X \in 1 .. Width-2 => -RelScale < travel /\ travel < RelScale

=============================================================================
