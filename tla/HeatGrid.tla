------------------------------ MODULE HeatGrid ------------------------------
(***************************************************************************)
(* The temperature grid of uefi/Heat2D.c and the helpers that work on it:  *)
(* boundary conditions, stamps and the explicit conduction step.           *)
(*                                                                         *)
(* A cell is a pair <<i, j>> (column, row); a field gives every cell a     *)
(* temperature.  The code keeps temperatures as floats in [0, 1]; here a   *)
(* temperature is one of the levels 0 .. Hot (Hot stands for 1.0) and the  *)
(* conduction step rounds down to a level.  Conductivities are in units of *)
(* 1/KOne, and baseR = RNum / RDen.                                        *)
(***************************************************************************)
EXTENDS Integers

CONSTANTS
  NX, NY,      \* columns and rows of the grid
  Hot,         \* the level of temperature 1.0 (heatTemp)
  KOne, KAir,  \* conductivity of copper (1.0) and of air, in units of 1/KOne
  RNum, RDen,  \* baseR as a fraction
  Copper,      \* the cells of the heatsink comb (Mat = 1)
  Sources      \* the three heat sources, as rectangles [x0, y0, w, h]

Cols  == 0 .. NX-1
Rows  == 0 .. NY-1
Cells == Cols \X Rows
Temps == 0 .. Hot
Fields == [Cells -> Temps]

Rects == [x0 : Int, y0 : Int, w : Int, h : Int]

(***************************************************************************)
(* What the solver relies on.  "Stability: baseR <= 0.25 for max k ~ 1" is *)
(* the conjunct 4 * RNum =< RDen.                                          *)
(***************************************************************************)
ASSUME GridAssumption ==
  /\ NX \in Nat /\ NX >= 3
  /\ NY \in Nat /\ NY >= 3
  /\ Hot \in Nat \ {0}
  /\ KOne \in Nat \ {0}
  /\ KAir \in 0 .. KOne
  /\ RNum \in Nat
  /\ RDen \in Nat \ {0}
  /\ 4 * RNum =< RDen
  /\ Copper \subseteq Cells
  /\ Sources \subseteq Rects

ClampI32(v, lo, hi) == IF v < lo THEN lo ELSE IF v > hi THEN hi ELSE v

Interior == (1 .. NX-2) \X (1 .. NY-2)

\* The grid as AllocateZeroPool and SetMem(.., 0) leave it.
Cold == [c \in Cells |-> 0]

-----------------------------------------------------------------------------
(***************************************************************************)
(* Boundary modes, in the order key 'b' cycles through them.               *)
(***************************************************************************)
BC_DIRICHLET_COLD == 0
BC_NEUMANN_INSULATED == 1
BC_MIXED == 2
BC_COUNT == 3
BoundaryModes == 0 .. BC_COUNT-1

\* The interior cell an edge or corner cell is copied from.
Inward(c) == <<ClampI32(c[1], 1, NX-2), ClampI32(c[2], 1, NY-2)>>
InwardY(c) == <<c[1], ClampI32(c[2], 1, NY-2)>>

\* Mutant: the insulated mode forgets the four corners.
ApplyBoundaryNoCorners(T, mode) ==
  [c \in Cells |->
     CASE mode = BC_DIRICHLET_COLD    -> IF c \in Interior THEN T[c] ELSE 0
       [] mode = BC_NEUMANN_INSULATED ->
            IF c[1] \in {0, NX-1} /\ c[2] \in {0, NY-1} THEN T[c] ELSE T[Inward(c)]
       [] OTHER -> IF c[1] \in {0, NX-1} THEN 0 ELSE T[InwardY(c)]]

ApplyBoundary(T, mode) ==
  [c \in Cells |->
     CASE mode = BC_DIRICHLET_COLD    -> IF c \in Interior THEN T[c] ELSE 0
       [] mode = BC_NEUMANN_INSULATED -> T[Inward(c)]
       [] OTHER -> IF c[1] \in {0, NX-1} THEN 0 ELSE T[InwardY(c)]]

-----------------------------------------------------------------------------
(***************************************************************************)
(* Stamps: raise the cells of a set to a temperature, never lower one.     *)
(***************************************************************************)
RaiseTo(T, S, val) ==
  [c \in Cells |-> IF c \in S /\ val > T[c] THEN val ELSE T[c]]

Disk(cx, cy, rad) ==
  {c \in Cells : (c[1]-cx)*(c[1]-cx) + (c[2]-cy)*(c[2]-cy) =< rad*rad}

StampDisk(T, cx, cy, rad, val) == RaiseTo(T, Disk(cx, cy, rad), val)

\* Both corners of the rectangle are clamped into the grid.
RectCells(r) ==
  {c \in Cells :
     /\ c[1] >= ClampI32(r.x0, 0, NX-1)
     /\ c[1] =< ClampI32(r.x0 + r.w - 1, 0, NX-1)
     /\ c[2] >= ClampI32(r.y0, 0, NY-1)
     /\ c[2] =< ClampI32(r.y0 + r.h - 1, 0, NY-1)}

SourceCells == UNION {RectCells(s) : s \in Sources}

\* The three StampRectMax calls at the head of a step.
StampSources(T) == RaiseTo(T, SourceCells, Hot)

-----------------------------------------------------------------------------
(***************************************************************************)
(* Face conductivities, computed once from the cell conductivities.        *)
(***************************************************************************)
\* Mutant: the denominator of the harmonic mean is lost.
KFaceSum(k0, k1) == 2*(k0 + k1)

KFaceHarmonic(k0, k1) == IF k0 + k1 = 0 THEN 0 ELSE (2*k0*k1) \div (k0 + k1)

K == [c \in Cells |-> IF c \in Copper THEN KOne ELSE KAir]

Right(c) == <<c[1]+1, c[2]>>
Left(c)  == <<c[1]-1, c[2]>>
Down(c)  == <<c[1], c[2]+1>>
Up(c)    == <<c[1], c[2]-1>>

Kx == [c \in Cells |-> IF c[1] < NX-1 THEN KFaceHarmonic(K[c], K[Right(c)]) ELSE 0]
Ky == [c \in Cells |-> IF c[2] < NY-1 THEN KFaceHarmonic(K[c], K[Down(c)]) ELSE 0]

(***************************************************************************)
(* The net flux into an interior cell, in units of 1/KOne, and the         *)
(* temperature the hot loop gives the cell.                                *)
(***************************************************************************)
\* Mutant: the left face uses the conductivity of the right one.
NetFluxOneFace(T, c) ==
  Kx[c] * (T[Right(c)] - T[c]) + Kx[c] * (T[Left(c)] - T[c])
    + Ky[c] * (T[Down(c)] - T[c]) + Ky[Up(c)] * (T[Up(c)] - T[c])

NetFlux(T, c) ==
  Kx[c] * (T[Right(c)] - T[c]) + Kx[Left(c)] * (T[Left(c)] - T[c])
    + Ky[c] * (T[Down(c)] - T[c]) + Ky[Up(c)] * (T[Up(c)] - T[c])

Conducted(T, c) == T[c] + (RNum * NetFlux(T, c)) \div (RDen * KOne)

\* The hot loop writes the interior of buffer U from buffer T; the edge cells
\* of U keep what they held.
Diffuse(T, U) == [c \in Cells |-> IF c \in Interior THEN Conducted(T, c) ELSE U[c]]

=============================================================================
