------------------------------ MODULE Heatsink ------------------------------
(***************************************************************************)
(* BuildHeatsinkCombMask of uefi/Heat2D.c as it fills the material map:    *)
(* air, plate, fins one by one, die; then UefiMain lays out the sources.   *)
(* The loops store to Mat and K without a bounds check.                    *)
(***************************************************************************)
EXTENDS HeatsinkGeometry

CONSTANTS GridWidths, GridHeights  \* the grid sizes to try

ASSUME HeatsinkAssumption ==
  GridWidths \subseteq Nat /\ GridHeights \subseteq Nat

VARIABLES
  gridW, gridH,   \* the grid
  step,     \* the part that is written next
  f,        \* the next fin
  copper,   \* the copper boxes written so far
  sources   \* the source boxes

maskVars == <<gridW, gridH, step, f, copper, sources>>

MaskInit ==
  /\ gridW \in GridWidths /\ gridH \in GridHeights
  /\ step = "plate" /\ f = 0
  /\ copper = {} /\ sources = {}

FillBase ==
  /\ step = "plate"
  /\ copper' = copper \cup {Base(gridW, gridH)}
  /\ step' = "fins"
  /\ UNCHANGED <<gridW, gridH, f, sources>>

FillFin ==
  /\ step = "fins"
  /\ f < finCount
  /\ copper' = copper \cup {Fin(gridW, gridH, f)}
  /\ f' = f + 1
  /\ UNCHANGED <<gridW, gridH, step, sources>>

FillDie ==
  /\ step = "fins"
  /\ f = finCount
  /\ copper' = copper \cup {Die(gridW, gridH)}
  /\ step' = "sources"
  /\ UNCHANGED <<gridW, gridH, f, sources>>

PlaceSources ==
  /\ step = "sources"
  /\ sources' = {Source(gridW, gridH, s) : s \in 0 .. 2}
  /\ step' = "done"
  /\ UNCHANGED <<gridW, gridH, f, copper>>

MaskNext == FillBase \/ FillFin \/ FillDie \/ PlaceSources

MaskSpec == MaskInit /\ [][MaskNext]_maskVars

-----------------------------------------------------------------------------
\* Every store to Mat and K hits a cell of the grid: no box that is not empty
\* reaches over an edge (the loops index j*NX + i, so a column off the grid
\* would land in a neighbouring row, and a row off the grid outside the pool).
InBounds == \A b \in copper : Empty(b) \/ Inside(b, Grid(gridW, gridH))

\* It is a comb: a column of air lies between any two fins, and each fin stands
\* on the plate, so all copper is one piece.
IsComb ==
  /\ \A a, b \in 0 .. f-1 : a # b => ColumnBetween(Fin(gridW, gridH, a), Fin(gridW, gridH, b))
  /\ \A a \in 0 .. f-1 : Overlap(Fin(gridW, gridH, a), Base(gridW, gridH))

\* The three sources lie on the copper plate, apart from each other and off the
\* edge of the grid, where the boundary condition would overwrite them; so
\* StampRectMax never clamps a corner.
SourcesOnPlate ==
  \A b \in sources :
    /\ ~Empty(b) /\ Inside(b, Base(gridW, gridH)) /\ Inside(b, InteriorOf(gridW, gridH))
    /\ \A c \in sources : b # c => Disjoint(b, c)

=============================================================================
