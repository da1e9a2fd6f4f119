------------------------------ MODULE HeatQ16 ------------------------------
(***************************************************************************)
(* The solver and main loop of uefi/archive/Heat2D.c, the version that     *)
(* computes in fixed point.  Temperatures are Q16.16 and conductivities    *)
(* Q0.16, so with HeatGrid's constants Hot is Q16_ONE (65536), KOne is     *)
(* K_ONE (65535), and RNum / RDen is baseR_Q16 / 65536.  Each product is   *)
(* shifted right on its own, and a shift rounds down, below 0 too.         *)
(*                                                                         *)
(* The loop is modelled from the point where both buffers are allocated.   *)
(* It reads the keys that wait, polls the pointer, takes a step and draws; *)
(* module Heat2D has the firmware's queue of keys, and module Pointer the  *)
(* polling.                                                                *)
(***************************************************************************)
EXTENDS HeatGrid, Functions

CONSTANTS
  RadInit, RadMin, RadMax, RadStep,  \* brushRad: NX/70 at first, 2 .. NX/8 in twos
  Temp1, Temp2,                      \* keys '1' and '2'; '3' is Q16_ONE
  CursorCells, StartCell,            \* the cells the cursor can be over; its first
  Shades,                            \* the last index of gColorLut (255)
  DrawSkip                           \* of every DrawSkip rows and columns one is drawn

Q16_ONE == Hot
UINT32_RANGE == Hot * Hot

ASSUME Q16Assumption ==
  /\ KOne = Hot - 1 /\ RDen = Hot
  /\ RadMin \in Nat /\ RadMax \in Nat /\ RadStep \in Nat
  /\ RadInit \in RadMin .. RadMax
  /\ Temp1 \in Temps /\ Temp2 \in Temps
  /\ CursorCells \subseteq Cells /\ StartCell \in CursorCells
  /\ Shades \in Nat \ {0} /\ DrawSkip \in 1 .. 4

BrushTempsQ == {Temp1, Temp2, Q16_ONE}

VARIABLES
  pc,
  A, B,                   \* what the current and the next buffer hold
  bc, Paused,
  brushRad, brushTempQ,
  cursor,                 \* the cell under the cursor
  dirty, screen           \* <<>> is a black screen, <<v>> the view last drawn

modes == <<bc, Paused>>
brush == <<brushRad, brushTempQ>>
vars  == <<pc, A, B, modes, brush, cursor, dirty, screen>>

-----------------------------------------------------------------------------
(***************************************************************************)
(* Face conductivities, computed once.                                     *)
(***************************************************************************)
\* The product 2*k0*k1 is a UINT32.
KFaceHarmonic_U16(k0, k1) ==
  IF k0 + k1 = 0 THEN 0 ELSE ((2*k0*k1) % UINT32_RANGE) \div (k0 + k1)

KxU16 == [c \in Cells |-> IF c[1] < NX-1 THEN KFaceHarmonic_U16(K[c], K[Right(c)]) ELSE 0]
KyU16 == [c \in Cells |-> IF c[2] < NY-1 THEN KFaceHarmonic_U16(K[c], K[Down(c)]) ELSE 0]

(***************************************************************************)
(* The hot loop.                                                           *)
(***************************************************************************)
\* Mutant: the shift rounds to the nearest.
Shr16Nearest(x) == (x + Q16_ONE \div 2) \div Q16_ONE

\* x >> 16 of an INT64.
Shr16(x) == x \div Q16_ONE

FluxSum(T, c) ==
  Shr16(KxU16[c] * (T[Right(c)] - T[c])) + Shr16(KxU16[Left(c)] * (T[Left(c)] - T[c]))
    + Shr16(KyU16[c] * (T[Down(c)] - T[c])) + Shr16(KyU16[Up(c)] * (T[Up(c)] - T[c]))

Out(T, c) == ClampI32(T[c] + Shr16(RNum * FluxSum(T, c)), 0, Q16_ONE)

DiffuseQ16(T, U) == [c \in Cells |-> IF c \in Interior THEN Out(T, c) ELSE U[c]]

-----------------------------------------------------------------------------
(***************************************************************************)
(* The main loop.                                                          *)
(***************************************************************************)
\* TempQ16_ToRGB: the temperature times 255, rounded to the nearest.
Shade(tQ) == (tQ * Shades + Q16_ONE \div 2) \div Q16_ONE

DrawnCells == {c \in Cells : c[1] % DrawSkip = 0 /\ c[2] % DrawSkip = 0}

View == [shade |-> [c \in DrawnCells |-> Shade(A[c])], cursor |-> cursor]

Init ==
  /\ pc = "keys"
  /\ A = Cold /\ B = Cold
  /\ bc = BC_DIRICHLET_COLD /\ Paused = FALSE
  /\ brushRad = RadInit /\ brushTempQ = Q16_ONE
  /\ cursor = StartCell
  /\ dirty = TRUE /\ screen = <<>>

\* Mutant: the handlers forget dirty.
HandleWithoutRedraw == pc = "keys" /\ UNCHANGED <<pc, cursor, dirty, screen>>

\* A key that is handled; the loop reads on and will redraw.
Handle == pc = "keys" /\ dirty' = TRUE /\ UNCHANGED <<pc, cursor, screen>>

KeyEsc ==
  /\ pc = "keys"
  /\ pc' = "exited"
  /\ UNCHANGED <<A, B, modes, brush, cursor, dirty, screen>>

KeySpace == Handle /\ Paused' = ~Paused /\ UNCHANGED <<A, B, bc, brush>>

KeyReset == Handle /\ A' = Cold /\ B' = Cold /\ UNCHANGED <<modes, brush>>

KeyClear == Handle /\ A' = Cold /\ UNCHANGED <<B, modes, brush>>

KeyBoundary == Handle /\ bc' = (bc + 1) % BC_COUNT /\ UNCHANGED <<A, B, Paused, brush>>

KeyRadius ==
  /\ Handle
  /\ \E d \in {RadStep, -RadStep} : brushRad' = ClampI32(brushRad + d, RadMin, RadMax)
  /\ UNCHANGED <<A, B, modes, brushTempQ>>

KeyTemp ==
  /\ Handle
  /\ brushTempQ' \in BrushTempsQ
  /\ UNCHANGED <<A, B, modes, brushRad>>

KeysDrained ==
  /\ pc = "keys"
  /\ pc' = "pointer"
  /\ UNCHANGED <<A, B, modes, brush, cursor, dirty, screen>>

Keyboard ==
  \/ KeyEsc \/ KeySpace \/ KeyReset \/ KeyClear \/ KeyBoundary
  \/ KeyRadius \/ KeyTemp \/ KeysDrained

\* A held button paints the current buffer.
PaintAt(c) ==
  /\ pc = "pointer"
  /\ cursor' = c
  /\ A' = StampDisk(A, c[1], c[2], brushRad, brushTempQ)
  /\ dirty' = TRUE
  /\ pc' = "sim"
  /\ UNCHANGED <<B, modes, brush, screen>>

MoveCursor(c) ==
  /\ pc = "pointer"
  /\ cursor' = c
  /\ dirty' = TRUE
  /\ pc' = "sim"
  /\ UNCHANGED <<A, B, modes, brush, screen>>

NoPointerEvent ==
  /\ pc = "pointer"
  /\ pc' = "sim"
  /\ UNCHANGED <<A, B, modes, brush, cursor, dirty, screen>>

\* Mutant: the boundary condition goes to the buffer that is read, not to the
\* one that was written.
StepBoundaryFirst ==
  /\ pc = "sim"
  /\ ~Paused
  /\ LET S == ApplyBoundary(StampSources(A), bc)
     IN  A' = DiffuseQ16(S, B) /\ B' = S
  /\ dirty' = TRUE
  /\ pc' = "render"
  /\ UNCHANGED <<modes, brush, cursor, screen>>

\* The sources are stamped into A, B is computed from it, and the two are
\* swapped.
Step ==
  /\ pc = "sim"
  /\ ~Paused
  /\ LET S == StampSources(A)
     IN  A' = ApplyBoundary(DiffuseQ16(S, B), bc) /\ B' = S
  /\ dirty' = TRUE
  /\ pc' = "render"
  /\ UNCHANGED <<modes, brush, cursor, screen>>

SkipStep ==
  /\ pc = "sim"
  /\ Paused
  /\ pc' = "render"
  /\ UNCHANGED <<A, B, modes, brush, cursor, dirty, screen>>

Render ==
  /\ pc = "render"
  /\ screen' = IF dirty THEN <<View>> ELSE screen
  /\ dirty' = FALSE
  /\ pc' = "keys"
  /\ UNCHANGED <<A, B, modes, brush, cursor>>

Exited == pc = "exited" /\ UNCHANGED vars

Next ==
  \/ Keyboard
  \/ \E c \in CursorCells : PaintAt(c) \/ MoveCursor(c)
  \/ NoPointerEvent
  \/ Step \/ SkipStep \/ Render \/ Exited

Spec == Init /\ [][Next]_vars

-----------------------------------------------------------------------------
(***************************************************************************)
(* Properties.                                                             *)
(***************************************************************************)
\* The fixed-point program keeps HeatField's law: with every product rounded on
\* its own, every face conductivity cut to 16 bits and two buffers swapped, a
\* step still keeps each cell between its neighbours and leaves no cell of the
\* boundary to an older field, and nothing but a step, a paint or a clearing key
\* changes the field.
HF == INSTANCE HeatField WITH
        field <- A, mode <- bc, paused <- Paused,
        BrushCells <- CursorCells, BrushRads <- RadMin .. RadMax,
        BrushTemps <- BrushTempsQ
KeepsLaw == HF!LawSpec

\* Whenever nothing is marked for redrawing, the screen shows the current
\* buffer's shades and the cursor: no handler forgets dirty, no swap leaves the
\* other buffer on the screen.
ScreenCurrent == pc # "exited" /\ ~dirty => screen = <<View>>

Total(T, S) == SumFunction([c \in S |-> T[c]])

\* What flows into the interior over its outer faces, in units of 1 / 65536.
EdgeInflow(T) ==
  Total([c \in Interior |->
           (IF Right(c) \in Interior THEN 0 ELSE KxU16[c] * (T[Right(c)] - T[c]))
         + (IF Left(c) \in Interior THEN 0 ELSE KxU16[Left(c)] * (T[Left(c)] - T[c]))
         + (IF Down(c) \in Interior THEN 0 ELSE KyU16[c] * (T[Down(c)] - T[c]))
         + (IF Up(c) \in Interior THEN 0 ELSE KyU16[Up(c)] * (T[Up(c)] - T[c]))], Interior)

\* Rounding never makes heat: every product is rounded down, and a step warms
\* the interior by no more than what flows in over its outer faces.  Rounding to
\* the nearest, or a face whose flux enters one cell with another conductivity
\* than it leaves the other, would let a closed grid warm up on its own.
RoundingNeverHeats ==
  [][Step =>
       LET S == StampSources(A)
       IN  Q16_ONE * Q16_ONE * (Total(A', Interior) - Total(S, Interior)) =< RNum * EdgeInflow(S)]_vars

\* The comment before KFaceHarmonic_U16 says that a face conducts with the
\* harmonic mean "k_face = (2*k0*k1)/(k0+k1)".  With HeatGrid's faces, which are
\* that mean, the sum of a cell's four fluxes should differ only by what the four
\* shifts cut off.
FacesConductHarmonicMean ==
  [][Step =>
       LET S == StampSources(A)
       IN  \A c \in Interior :
             Q16_ONE * FluxSum(S, c) \in NetFlux(S, c) - 4*Q16_ONE .. NetFlux(S, c)]_vars

=============================================================================
