-------------------------- MODULE HeatsinkGeometry --------------------------
(***************************************************************************)
(* The arithmetic of BuildHeatsinkCombMask and of the heat source layout   *)
(* in UefiMain (uefi/Heat2D.c): where the copper base plate, the fins, the *)
(* die block and the three sources lie on an NX x NY grid.  The code fixes *)
(* the grid at 260 x 220; the guide invites the reader to change it.       *)
(***************************************************************************)
EXTENDS Integers

\* A rectangle of cells, both corners included; empty if x1 < x0 or y1 < y0.
Box(x0, x1, y0, y1) == [x0 |-> x0, x1 |-> x1, y0 |-> y0, y1 |-> y1]

ClampTo(v, lo, hi) == IF v < lo THEN lo ELSE IF v > hi THEN hi ELSE v
AtLeast(v, lo) == IF v < lo THEN lo ELSE v
AtMost(v, hi)  == IF v > hi THEN hi ELSE v

-----------------------------------------------------------------------------
marginX(NX) == NX \div 8
baseW(NX) == NX - 2 * marginX(NX)
baseH(NY) == NY \div 10
baseX0(NX) == marginX(NX)
baseX1(NX) == baseX0(NX) + baseW(NX) - 1
baseY1(NY) == NY - 10
baseY0(NY) == AtLeast(baseY1(NY) - baseH(NY) + 1, 0)

Base(NX, NY) == Box(baseX0(NX), baseX1(NX), baseY0(NY), baseY1(NY))

finCount == 14
finGap(NX) == AtLeast(baseW(NX) \div finCount, 6)
finW(NX) == AtLeast(finGap(NX) \div 2, 3)
finCx(NX, f) == baseX0(NX) + f * finGap(NX) + finGap(NX) \div 2
finX0(NX, f) == finCx(NX, f) - finW(NX) \div 2
finY0(NY) == AtLeast(baseY0(NY) - NY \div 3, 2)

\* Mutant: fins as wide as their spacing.
FinTooWide(NX, NY, f) ==
  Box(ClampTo(finX0(NX, f), baseX0(NX), baseX1(NX)),
      ClampTo(finX0(NX, f) + finGap(NX) - 1, baseX0(NX), baseX1(NX)),
      finY0(NY), baseY0(NY))

\* Fin number f, which reaches into the first row of the plate.
Fin(NX, NY, f) ==
  Box(ClampTo(finX0(NX, f), baseX0(NX), baseX1(NX)),
      ClampTo(finX0(NX, f) + finW(NX) - 1, baseX0(NX), baseX1(NX)),
      finY0(NY), baseY0(NY))

dieW(NX) == baseW(NX) \div 6
dieX0(NX) == NX \div 2 - dieW(NX) \div 2

\* Mutant: the die is not cut off at the last row.
DieUncut(NX, NY) ==
  Box(dieX0(NX), dieX0(NX) + dieW(NX) - 1,
      baseY1(NY) + 1, baseY1(NY) + baseH(NY) \div 2)

\* The die block hangs under the plate.
Die(NX, NY) ==
  Box(dieX0(NX), dieX0(NX) + dieW(NX) - 1,
      baseY1(NY) + 1, AtMost(baseY1(NY) + baseH(NY) \div 2, NY - 1))

-----------------------------------------------------------------------------
plateH(NY) == baseY1(NY) - baseY0(NY) + 1
srcH(NY) == ClampTo(plateH(NY) \div 2, 2, plateH(NY))
srcW(NX) == ClampTo(baseW(NX) \div 8, 6, baseW(NX) \div 3)
srcGap(NX) == ClampTo(baseW(NX) \div 12, 4, baseW(NX) \div 4)
srcMid(NX) == (baseX0(NX) + baseX1(NX)) \div 2 - srcW(NX) \div 2

\* Mutant: the right source starts a gap after the middle one's left end.
srcX0Overlapping(NX, s) ==
  CASE s = 0 -> AtLeast(srcMid(NX) - (srcW(NX) + srcGap(NX)), baseX0(NX))
    [] s = 1 -> srcMid(NX)
    [] s = 2 -> AtMost(srcMid(NX) + srcGap(NX), baseX1(NX) - srcW(NX) + 1)

\* The left, middle and right source, kept within the plate.
srcX0(NX, s) ==
  CASE s = 0 -> AtLeast(srcMid(NX) - (srcW(NX) + srcGap(NX)), baseX0(NX))
    [] s = 1 -> srcMid(NX)
    [] s = 2 -> AtMost(srcMid(NX) + (srcW(NX) + srcGap(NX)), baseX1(NX) - srcW(NX) + 1)

Source(NX, NY, s) ==
  Box(srcX0(NX, s), srcX0(NX, s) + srcW(NX) - 1,
      baseY1(NY) - srcH(NY) + 1, baseY1(NY))

-----------------------------------------------------------------------------
Empty(b) == b.x1 < b.x0 \/ b.y1 < b.y0
Inside(b, c) == c.x0 =< b.x0 /\ b.x1 =< c.x1 /\ c.y0 =< b.y0 /\ b.y1 =< c.y1
Disjoint(b, c) == b.x1 < c.x0 \/ c.x1 < b.x0 \/ b.y1 < c.y0 \/ c.y1 < b.y0
Overlap(b, c) == ~Disjoint(b, c)

\* At least one column lies between them.
ColumnBetween(b, c) == b.x1 + 1 < c.x0 \/ c.x1 + 1 < b.x0

Grid(NX, NY) == Box(0, NX-1, 0, NY-1)
InteriorOf(NX, NY) == Box(1, NX-2, 1, NY-2)

=============================================================================
