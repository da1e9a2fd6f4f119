--------------------------- MODULE GeometryProofs ---------------------------
(***************************************************************************)
(* Where things are in uefi/Heat2D.c, for every screen, grid and device:   *)
(* the pointer (the cursor stays on the screen, an idle touch screen       *)
(* leaves it to the mouse, a press paints the cell drawn under the cursor) *)
(* and the heatsink (for which grids its geometry is what it is meant to   *)
(* be).                                                                    *)
(***************************************************************************)
EXTENDS Pointer, Heatsink, SumTheorems

-----------------------------------------------------------------------------
(***************************************************************************)
(* Arithmetic.                                                             *)
(***************************************************************************)
LEMMA ClampBetween ==
  ASSUME NEW v \in Int, NEW lo \in Int, NEW hi \in Int, lo =< hi
  PROVE  /\ Clamp(v, lo, hi) \in lo .. hi
         /\ v \in lo .. hi => Clamp(v, lo, hi) = v
         /\ v >= hi => Clamp(v, lo, hi) = hi
  BY DEF Clamp

\* C's division yields an integer, and on Nat it is \div.
LEMMA TruncDivInt ==
  ASSUME NEW a \in Int, NEW b \in Nat \ {0}
  PROVE  TruncDiv(a, b) \in Int /\ (a >= 0 => TruncDiv(a, b) = a \div b)
  BY DEF TruncDiv

-----------------------------------------------------------------------------
\* Dividing by c and then by s is dividing by c * s.
LEMMA DivTwice ==
  ASSUME NEW x \in Nat, NEW c \in Nat \ {0}, NEW s \in Nat \ {0}
  PROVE  x \div (c * s) = (x \div c) \div s
  <1> DEFINE q == x \div c
             h == q \div s
  <1>1. q \in Nat /\ c * q =< x /\ x < c * (q + 1)
    BY DivBounds
  <1> HIDE DEF q
  <1>2. h \in Nat /\ s * h =< q /\ q < s * (h + 1)
    BY <1>1, DivBounds
  <1> HIDE DEF h
  <1>3. /\ c * s \in Nat \ {0} /\ s * h \in Nat /\ s * (h + 1) \in Nat
        /\ (c * s) * h = c * (s * h) /\ (c * s) * (h + 1) = c * (s * (h + 1))
    BY <1>2
  <1>4. (c * s) * h =< x
    <2>1. c * (s * h) =< c * q
      BY <1>1, <1>2, <1>3
    <2> QED
      BY <1>1, <1>3, <2>1
  <1>5. x < (c * s) * (h + 1)
    <2>1. c * (q + 1) =< c * (s * (h + 1))
      <3>1. q + 1 =< s * (h + 1)
        BY <1>1, <1>2, <1>3
      <3> DEFINE m == s * (h + 1)
      <3>2. m \in Nat
        BY <1>3
      <3> HIDE DEF m
      <3>3. q + 1 =< m => c * (q + 1) =< c * m
        BY <1>1, <3>2
      <3> QED
        BY <3>1, <3>3 DEF m
    <2>2. c * (q + 1) \in Nat /\ c * (s * (h + 1)) \in Nat
      BY <1>1, <1>3
    <2> QED
      BY <1>1, <1>3, <2>1, <2>2
  <1>6. x \div (c * s) = h
    BY <1>2, <1>3, <1>4, <1>5, DivUnique
  <1> QED
    BY <1>6 DEF h, q

\* On an axis with at least one pixel per cell, the cell a press paints is the
\* one that pixel lies in; beyond the drawn grid it is the last one.
LEMMA GridCellIsUnder ==
  ASSUME NEW n \in Nat \ {0}, NEW size \in Nat \ {0}, n =< size, NEW x \in 0 .. size-1
  PROVE  /\ CellSize(size, n) \in Nat \ {0}
         /\ GridCell(x, size, n)
              = IF x < DrawSize(size, n) THEN x \div CellSize(size, n) ELSE n-1
  <1> DEFINE c == size \div n
             q == x \div c
  <1>1. c \in Nat /\ n * c =< size
    BY DivBounds
  <1>2. c >= 1
    <2>1. size < n * (c + 1)
      BY DivBounds
    <2>2. n * (0 + 1) = n
      OBVIOUS
    <2> HIDE DEF c
    <2> QED
      BY <1>1, <2>1, <2>2
  <1> HIDE DEF c
  <1>3. c \in Nat \ {0} /\ n * c \in Nat \ {0} /\ x \in Nat /\ x * n \in Nat
    BY <1>1, <1>2
  <1>4. CellSize(size, n) = c /\ DrawSize(size, n) = n * c
    BY <1>1, <1>2 DEF CellSize, DrawSize, c
  <1>5. TruncDiv(x * n, DrawSize(size, n)) = q
    <2>1. (x * n) \div (n * c) = q
      BY <1>3, DivCancel
    <2>2. TruncDiv(x * n, n * c) = (x * n) \div (n * c)
      <3> DEFINE a == x * n
                 b == n * c
      <3>1. a \in Nat /\ b \in Nat \ {0}
        BY <1>3
      <3> HIDE DEF a, b
      <3>2. TruncDiv(a, b) = a \div b
        BY <3>1 DEF TruncDiv
      <3> QED
        BY <3>2 DEF a, b
    <2> QED
      BY <1>4, <2>1, <2>2
  <1>6. q \in Nat /\ c * q =< x /\ x < c * (q + 1)
    BY <1>3, DivBounds
  <1>7. x \div CellSize(size, n) = q
    BY <1>4
  <1> HIDE DEF q
  <1>8. GridCell(x, size, n) = Clamp(q, 0, n-1)
    BY <1>5 DEF GridCell
  <1>9. CASE x < n * c
    <2>1. q < n
      <3>1. SUFFICES ASSUME n =< q PROVE FALSE
        BY <1>6
      <3>2. c * n =< c * q
        BY <1>3, <1>6, <3>1
      <3>3. c * n = n * c /\ c * n \in Nat /\ c * q \in Nat
        BY <1>3, <1>6
      <3> QED
        BY <1>3, <1>6, <1>9, <3>2, <3>3
    <2>2. Clamp(q, 0, n-1) = q
      BY <1>6, <2>1, ClampBetween
    <2> QED
      BY <1>3, <1>4, <1>7, <1>8, <1>9, <2>2
  <1>10. CASE ~(x < n * c)
    <2>1. n =< q
      <3>1. SUFFICES ASSUME q + 1 =< n PROVE FALSE
        BY <1>6
      <3>2. c * (q + 1) =< c * n
        BY <1>3, <1>6, <3>1
      <3>3. c * n = n * c /\ c * n \in Nat /\ c * (q + 1) \in Nat
        BY <1>3, <1>6
      <3> QED
        BY <1>3, <1>6, <1>10, <3>2, <3>3
    <2>2. Clamp(q, 0, n-1) = n-1
      BY <1>6, <2>1, ClampBetween
    <2> QED
      BY <1>3, <1>4, <1>8, <1>10, <2>2
  <1> QED
    BY <1>3, <1>4, <1>9, <1>10

\* It is one of those the block drawn at that pixel stands for.
LEMMA GridCellIsDrawn ==
  ASSUME NEW n \in Nat \ {0}, NEW size \in Nat \ {0}, n =< size, NEW x \in 0 .. size-1
  PROVE  IF x < DrawSize(size, n)
         THEN GridCell(x, size, n) - DrawnCell(x, size, n) \in 0 .. drawSkip-1
         ELSE GridCell(x, size, n) = n-1
  <1> DEFINE c == CellSize(size, n)
             q == x \div c
  <1>1. c \in Nat \ {0} /\ x \in Nat /\ drawSkip \in {1, 2}
    BY GridCellIsUnder DEF drawSkip
  <1>2. CASE x < DrawSize(size, n)
    <2>1. GridCell(x, size, n) = q
      BY <1>2, GridCellIsUnder
    <2>2. DrawnCell(x, size, n) = drawSkip * (q \div drawSkip)
      BY <1>1, DivTwice DEF DrawnCell
    <2>3. q \in Nat
      BY <1>1, DivBounds
    <2> HIDE DEF q
    <2>4. q - drawSkip * (q \div drawSkip) \in 0 .. drawSkip-1
      BY <1>1, <2>3
    <2> QED
      BY <1>2, <2>1, <2>2, <2>4
  <1>3. CASE ~(x < DrawSize(size, n))
    BY <1>3, GridCellIsUnder
  <1> QED
    BY <1>2, <1>3

-----------------------------------------------------------------------------
\* Both ways to a new coordinate end on the screen, and no movement is none.
LEMMA OnScreen ==
  ASSUME NEW size \in Nat \ {0}
  PROVE  /\ \A a \in Int : ToScreen(a, size) \in 0 .. size-1
         /\ \A x \in 0 .. size-1, d \in Int : Moved(x, d, size) \in 0 .. size-1
         /\ \A x \in 0 .. size-1 : Moved(x, 0, size) = x
  <1>1. AbsRange \in Nat \ {0} /\ AbsMin \in Int
    BY MapAssumption DEF AbsRange
  <1>2. ASSUME NEW a \in Int PROVE ToScreen(a, size) \in 0 .. size-1
    <2>1. (a - AbsMin) * (size - 1) \in Int
      BY <1>1
    <2>2. TruncDiv((a - AbsMin) * (size - 1), AbsRange) \in Int
      BY <1>1, <2>1, TruncDivInt
    <2> QED
      BY <2>2, ClampBetween DEF ToScreen
  <1>3. \A x \in 0 .. size-1, d \in Int : Moved(x, d, size) \in 0 .. size-1
    BY ClampBetween DEF Moved
  <1>4. \A x \in 0 .. size-1 : Moved(x, 0, size) = x
    BY ClampBetween DEF Moved
  <1> QED
    BY <1>2, <1>3, <1>4

\* The two positions a poll can take the cursor to are on the screen.
LEMMA TargetOnScreen ==
  ASSUME TypeOK
  PROVE  /\ absAt \in (0 .. Width-1) \X (0 .. Height-1)
         /\ <<Moved(X, relStep[1], Width), Moved(Y, relStep[2], Height)>>
              \in (0 .. Width-1) \X (0 .. Height-1)
         /\ cursor \in (0 .. Width-1) \X (0 .. Height-1)
  <1>0. Width \in Nat \ {0} /\ Height \in Nat \ {0}
    BY MapAssumption
  <1>1. touch.at[1] \in Int /\ touch.at[2] \in Int
    BY PointerAssumption DEF TypeOK
  <1>2. absAt \in (0 .. Width-1) \X (0 .. Height-1)
    BY <1>0, <1>1, OnScreen DEF absAt
  <1>3. relStep[1] \in Int /\ relStep[2] \in Int
    <2>1. Pixels(mouse.dx) \in Int /\ Pixels(mouse.dy) \in Int
      BY MapAssumption, TruncDivInt DEF TypeOK, Pixels
    <2> QED
      BY <2>1 DEF relStep
  <1>4. X \in 0 .. Width-1 /\ Y \in 0 .. Height-1
    BY DEF TypeOK
  <1>5. /\ Moved(X, relStep[1], Width) \in 0 .. Width-1
        /\ Moved(Y, relStep[2], Height) \in 0 .. Height-1
    BY <1>0, <1>3, <1>4, OnScreen
  <1> QED
    BY <1>2, <1>4, <1>5 DEF cursor

\* A poll takes the cursor to one of these, and what moved it says so.
LEMMA PollGoes ==
  ASSUME TypeOK, PollPointer
  PROVE  /\ cursor' \in (0 .. Width-1) \X (0 .. Height-1)
         /\ pressed' = (absPressed \/ relPressed)
         /\ dirty' = (dirty \/ cursor' # cursor \/ pressed')
  <1> DEFINE Screen == (0 .. Width-1) \X (0 .. Height-1)
             rolled == <<Moved(X, relStep[1], Width), Moved(Y, relStep[2], Height)>>
  <1>1. \E p \in Screen : GoTo(p, p # cursor)
    <2>1. CASE Drag
      BY <2>1, TargetOnScreen DEF Drag
    <2>2. CASE Roll
      BY <2>2, TargetOnScreen DEF Roll
    <2>3. CASE Hover
      BY <2>3, TargetOnScreen DEF Hover
    <2>4. CASE Rest
      <3>1. (cursor # cursor) = FALSE
        OBVIOUS
      <3> QED
        BY <2>4, <3>1, TargetOnScreen DEF Rest
    <2> QED
      BY <2>1, <2>2, <2>3, <2>4 DEF PollPointer
  <1>2. PICK p \in Screen : GoTo(p, p # cursor)
    BY <1>1
  <1>3. cursor' = p
    BY <1>2 DEF GoTo, cursor
  <1> QED
    BY <1>2, <1>3 DEF GoTo

\* The cursor never leaves the screen, whatever the devices report.
THEOREM TypeCorrect == Spec => []TypeOK
  <1>0. Width \in Nat \ {0} /\ Height \in Nat \ {0} /\ RelScale \in Nat \ {0}
    BY MapAssumption
  <1>1. Init => TypeOK
    <2> SUFFICES ASSUME Init PROVE TypeOK
      OBVIOUS
    <2>1. Width \div 2 \in 0 .. Width-1 /\ Height \div 2 \in 0 .. Height-1
      BY <1>0
    <2>2. touch \in [at : AbsPoints, down : BOOLEAN, fresh : BOOLEAN]
      <3>1. PICK p \in AbsPoints, q \in {FALSE, HasAbs} :
              touch = [at |-> p, down |-> FALSE, fresh |-> q]
        BY DEF Init
      <3>2. q \in BOOLEAN
        BY PointerAssumption
      <3> QED
        BY <3>1, <3>2
    <2>4. mouse \in [dx : Int, dy : Int, down : BOOLEAN, fresh : BOOLEAN]
      BY DEF Init
    <2>3. <<0, 0>> \in (0 .. Width-1) \X (0 .. Height-1) /\ 0 \in -RelScale .. RelScale
      BY <1>0
    <2> QED
      BY <2>1, <2>2, <2>3, <2>4 DEF Init, TypeOK
  <1>2. TypeOK /\ [Next]_vars => TypeOK'
    <2> SUFFICES ASSUME TypeOK, [Next]_vars
                 PROVE  TypeOK'
      OBVIOUS
    <2>1. ASSUME NEW p \in AbsPoints, NEW d \in BOOLEAN, Touch(p, d) PROVE TypeOK'
      BY <2>1 DEF Touch, TypeOK, pstate
    <2>2. ASSUME NEW m \in RelMoves, MoveMouse(m) PROVE TypeOK'
      <3>1. m[1] \in Int /\ m[2] \in Int
        BY PointerAssumption
      <3>2. mouse' \in [dx : Int, dy : Int, down : BOOLEAN, fresh : BOOLEAN]
        BY <2>2, <3>1 DEF MoveMouse, TypeOK
      <3> QED
        BY <2>2, <3>2 DEF MoveMouse, TypeOK, pstate
    <2>3. CASE Click
      BY <2>3 DEF Click, TypeOK, pstate
    <2>4. CASE PollPointer
      <3>1. X' \in 0 .. Width-1 /\ Y' \in 0 .. Height-1
        BY <2>4, PollGoes DEF cursor
      <3>2. LastAbs' \in (0 .. Width-1) \X (0 .. Height-1)
        BY <2>4, TargetOnScreen DEF PollPointer, TypeOK
      <3>3. /\ LastAbsValid' \in BOOLEAN /\ pressed' \in BOOLEAN /\ dirty' \in BOOLEAN
            /\ crosshair' \in {<<>>} \cup ((0 .. Width-1) \X (0 .. Height-1))
        <4>1. absAvail \in BOOLEAN /\ absPressed \in BOOLEAN /\ relPressed \in BOOLEAN
          BY PointerAssumption DEF TypeOK, absAvail, absPressed, relPressed, relAvail
        <4>2. crosshair' = crosshair
          BY <2>4 DEF PollPointer
        <4> QED
          BY <2>4, <4>1, <4>2, PollGoes DEF PollPointer, TypeOK
      <3>4. touch' \in [at : AbsPoints, down : BOOLEAN, fresh : BOOLEAN]
        BY <2>4, PointerAssumption DEF PollPointer, TypeOK
      <3>5. mouse' \in [dx : Int, dy : Int, down : BOOLEAN, fresh : BOOLEAN]
        BY <2>4 DEF PollPointer, TypeOK
      <3>6. travel' \in -RelScale .. RelScale
        <4>1. travel + mouse.dx \in Int
          BY <1>0 DEF TypeOK
        <4>2. Clamp(travel + mouse.dx, -RelScale, RelScale) \in -RelScale .. RelScale
          BY <1>0, <4>1, ClampBetween
        <4> QED
          BY <1>0, <2>4, <4>2 DEF PollPointer
      <3> QED
        BY <3>1, <3>2, <3>3, <3>4, <3>5, <3>6 DEF TypeOK
    <2>5. CASE Stir
      BY <2>5 DEF Stir, TypeOK
    <2>6. CASE Render
      <3>1. crosshair' \in (0 .. Width-1) \X (0 .. Height-1)
        BY <2>6, TargetOnScreen DEF Render
      <3> QED
        BY <2>6, <3>1 DEF Render, TypeOK
    <2>7. CASE UNCHANGED vars
      BY <2>7 DEF vars, pstate, TypeOK
    <2> QED
      BY <2>1, <2>2, <2>3, <2>4, <2>5, <2>6, <2>7 DEF Next
  <1> QED
    BY <1>1, <1>2, PTL DEF Spec

\* A touch screen that does not move and is not pressed never takes the cursor
\* from the mouse.
THEOREM IdleTouch == Spec => IdleTouchYields
  <1>1. ASSUME TypeOK, PollPointer, absAvail, ~touch.down, LastAbsValid, absAt = LastAbs
        PROVE  cursor' = <<Moved(X, relStep[1], Width), Moved(Y, relStep[2], Height)>>
    <2>1. ~absPressed /\ ~absMoved
      BY <1>1 DEF absPressed, absMoved
    <2>2. CASE Roll
      BY <2>2 DEF Roll, GoTo, cursor
    <2>3. CASE Rest
      <3>1. cursor' = <<X, Y>>
        BY <2>3 DEF Rest, GoTo, cursor
      <3>2. relStep[1] = 0 /\ relStep[2] = 0
        BY <2>3 DEF Rest, relMoved
      <3>3. Moved(X, 0, Width) = X /\ Moved(Y, 0, Height) = Y
        BY <1>1, MapAssumption, OnScreen DEF TypeOK
      <3> QED
        BY <3>1, <3>2, <3>3
    <2> QED
      BY <1>1, <2>1, <2>2, <2>3 DEF PollPointer, Drag, Hover
  <1> QED
    BY <1>1, TypeCorrect, PTL DEF Spec, IdleTouchYields

\* On every screen at least as large as the grid, whether or not it is so large
\* that every other row and column is skipped, a press paints what is drawn under
\* the cursor.
THEOREM PaintsRightCell ==
  ASSUME Width >= NX, Height >= NY
  PROVE  Spec => []PaintsUnderCursor
  <1>1. TypeOK => PaintsUnderCursor
    <2> SUFFICES ASSUME TypeOK PROVE PaintsUnderCursor
      OBVIOUS
    <2> DEFINE di == gx - DrawnCell(X, Width, NX)
               dj == gy - DrawnCell(Y, Height, NY)
    <2>1. IF X < DrawSize(Width, NX) THEN di \in 0 .. drawSkip-1 ELSE gx = NX-1
      BY MapAssumption, GridCellIsDrawn DEF TypeOK, gx
    <2>2. IF Y < DrawSize(Height, NY) THEN dj \in 0 .. drawSkip-1 ELSE gy = NY-1
      BY MapAssumption, GridCellIsDrawn DEF TypeOK, gy
    <2>3. ASSUME X < DrawSize(Width, NX), Y < DrawSize(Height, NY)
          PROVE  di * di + dj * dj =< BrushMin * BrushMin
      <3>1. di \in {0, 1} /\ dj \in {0, 1}
        BY <2>1, <2>2, <2>3 DEF drawSkip
      <3> HIDE DEF di, dj
      <3> QED
        BY <3>1 DEF BrushMin
    <2> HIDE DEF di, dj
    <2> QED
      BY <2>1, <2>2, <2>3 DEF PaintsUnderCursor, di, dj
  <1> QED
    BY <1>1, TypeCorrect, PTL

\* For all screens and devices: when no frame is due, the crosshair is at the
\* cursor.
THEOREM CrosshairKept == Spec => []CrosshairCurrent
  <1>1. Init => CrosshairCurrent
    BY DEF Init, CrosshairCurrent
  <1>2. TypeOK /\ CrosshairCurrent /\ [Next]_vars => CrosshairCurrent'
    <2> SUFFICES ASSUME TypeOK, CrosshairCurrent, [Next]_vars
                 PROVE  CrosshairCurrent'
      OBVIOUS
    <2>1. CASE PollPointer
      <3>1. ~dirty' => ~dirty /\ cursor' = cursor
        BY <2>1, PollGoes
      <3>2. crosshair' = crosshair
        BY <2>1 DEF PollPointer
      <3> QED
        BY <3>1, <3>2 DEF CrosshairCurrent
    <2>2. CASE Stir
      BY <2>2 DEF Stir, CrosshairCurrent
    <2>3. CASE Render
      BY <2>3 DEF Render, CrosshairCurrent, cursor
    <2>4. ASSUME UNCHANGED pstate PROVE CrosshairCurrent'
      BY <2>4 DEF pstate, CrosshairCurrent, cursor
    <2> QED
      BY <2>1, <2>2, <2>3, <2>4 DEF Next, Touch, MoveMouse, Click, vars
  <1> QED
    BY <1>1, <1>2, TypeCorrect, PTL DEF Spec

-----------------------------------------------------------------------------
(***************************************************************************)
(* The heatsink.                                                           *)
(***************************************************************************)
\* The boxes that a step writes are those of the geometry; the rest of the proof
\* is about them.
Built ==
  /\ gridW \in GridWidths /\ gridH \in GridHeights
  /\ f \in 0 .. finCount
  /\ \A b \in copper :
       \/ b = Base(gridW, gridH)
       \/ b = Die(gridW, gridH)
       \/ \E a \in 0 .. finCount-1 : b = Fin(gridW, gridH, a)
  /\ \A b \in sources : \E s \in 0 .. 2 : b = Source(gridW, gridH, s)

\* Whatever has been written is a box of the geometry.
LEMMA BuiltInvariant == MaskSpec => []Built
<1>1. MaskInit => Built
  BY DEF MaskInit, Built, finCount
<1>2. Built /\ [MaskNext]_maskVars => Built'
  <2> SUFFICES ASSUME Built, [MaskNext]_maskVars PROVE Built'
    OBVIOUS
  <2>1. CASE FillBase
    BY <2>1 DEF FillBase, Built
  <2>2. CASE FillFin
    <3>1. f \in 0 .. finCount-1 /\ f' \in 0 .. finCount
      BY <2>2 DEF FillFin, Built, finCount
    <3>2. QED
      BY <2>2, <3>1 DEF FillFin, Built
  <2>3. CASE FillDie
    BY <2>3 DEF FillDie, Built
  <2>4. CASE PlaceSources
    BY <2>4 DEF PlaceSources, Built
  <2>5. CASE UNCHANGED maskVars
    BY <2>5 DEF maskVars, Built
  <2>6. QED
    BY <2>1, <2>2, <2>3, <2>4, <2>5 DEF MaskNext
<1>3. QED
  BY <1>1, <1>2, PTL DEF MaskSpec

-----------------------------------------------------------------------------
\* The plate's columns lie on the grid.
LEMMA PlateColumns ==
  ASSUME NEW W \in Nat \ {0}
  PROVE  /\ baseX0(W) \in Nat /\ baseX1(W) \in Nat /\ baseW(W) \in Nat
         /\ baseX0(W) =< baseX1(W) /\ baseX1(W) =< W - 1
BY DEF baseX0, baseX1, baseW, marginX

\* The plate's last row is 10 rows above the grid's end; on a low grid the plate
\* has no row at all.
LEMMA PlateRows ==
  ASSUME NEW H \in Nat \ {0}
  PROVE  /\ baseY0(H) \in Nat /\ baseY1(H) = H - 10 /\ baseY1(H) \in Int
         /\ baseH(H) \in Nat /\ baseY0(H) =< H - 1
BY DEF baseY0, baseY1, baseH, AtLeast

\* The plate writes only cells of the grid.
LEMMA BaseInBounds ==
  ASSUME NEW W \in Nat \ {0}, NEW H \in Nat \ {0}
  PROVE  Empty(Base(W, H)) \/ Inside(Base(W, H), Grid(W, H))
BY PlateColumns, PlateRows DEF Base, Box, Empty, Inside, Grid

\* ClampI32 with sane bounds returns a value within them.
LEMMA ClampBounds ==
  ASSUME NEW v \in Int, NEW lo \in Int, NEW hi \in Int, lo =< hi
  PROVE  ClampTo(v, lo, hi) \in Int /\ lo =< ClampTo(v, lo, hi) /\ ClampTo(v, lo, hi) =< hi
BY DEF ClampTo

\* A fin's columns before they are clamped are integers.
LEMMA FinColumns ==
  ASSUME NEW W \in Nat \ {0}, NEW a \in 0 .. finCount-1
  PROVE  /\ finGap(W) \in Nat /\ finW(W) \in Nat
         /\ finGap(W) >= 6 /\ finW(W) * 2 =< finGap(W) /\ finW(W) >= 3
         /\ finX0(W, a) \in Int
<1>1. finGap(W) \in Nat /\ finGap(W) >= 6
  BY PlateColumns DEF finGap, AtLeast, finCount
<1>2. finW(W) \in Nat /\ finW(W) * 2 =< finGap(W) /\ finW(W) >= 3
  BY <1>1 DEF finW, AtLeast
<1>3. a * finGap(W) \in Int
  BY <1>1 DEF finCount
<1>4. finX0(W, a) \in Int
  <2> DEFINE m == a * finGap(W)
  <2>1. m \in Int BY <1>3
  <2>2. finX0(W, a) = baseX0(W) + m + finGap(W) \div 2 - finW(W) \div 2
    BY <1>1, <1>2, <2>1, PlateColumns DEF finX0, finCx
  <2> HIDE DEF m
  <2>3. QED
    BY <1>1, <1>2, <2>1, <2>2, PlateColumns
<1>5. QED
  BY <1>1, <1>2, <1>4

\* A fin writes only cells of the grid: its columns are clamped to the plate.
LEMMA FinInBounds ==
  ASSUME NEW W \in Nat \ {0}, NEW H \in Nat \ {0}, NEW a \in 0 .. finCount-1
  PROVE  Empty(Fin(W, H, a)) \/ Inside(Fin(W, H, a), Grid(W, H))
<1> DEFINE l == ClampTo(finX0(W, a), baseX0(W), baseX1(W))
           r == ClampTo(finX0(W, a) + finW(W) - 1, baseX0(W), baseX1(W))
<1>1. /\ l \in Int /\ r \in Int
      /\ baseX0(W) =< l /\ r =< baseX1(W)
  <2>1. baseX0(W) \in Int /\ baseX1(W) \in Int /\ baseX0(W) =< baseX1(W)
    BY PlateColumns
  <2>2. finX0(W, a) \in Int /\ finX0(W, a) + finW(W) - 1 \in Int
    BY FinColumns
  <2>3. l \in Int /\ baseX0(W) =< l
    BY <2>1, <2>2, ClampBounds
  <2>4. r \in Int /\ r =< baseX1(W)
    BY <2>1, <2>2, ClampBounds
  <2>5. QED
    BY <2>3, <2>4
<1>2. finY0(H) \in Nat
  BY PlateRows DEF finY0, AtLeast
<1>3. Fin(W, H, a) = Box(l, r, finY0(H), baseY0(H))
  BY DEF Fin
<1> HIDE DEF l, r
<1>4. QED
  BY <1>1, <1>2, <1>3, PlateColumns, PlateRows DEF Box, Empty, Inside, Grid

\* The die writes only cells of the grid.
LEMMA DieInBounds ==
  ASSUME NEW W \in Nat \ {0}, NEW H \in Nat \ {0}
  PROVE  Empty(Die(W, H)) \/ Inside(Die(W, H), Grid(W, H))
<1>1. /\ dieW(W) \in Nat /\ dieX0(W) \in Nat /\ dieX0(W) + dieW(W) - 1 =< W - 1
  BY DEF dieW, dieX0, baseW, marginX
<1>2. \/ baseH(H) \div 2 = 0
      \/ baseY1(H) + 1 >= 0
  BY DEF baseH, baseY1
<1>3. AtMost(baseY1(H) + baseH(H) \div 2, H - 1) \in Int
      /\ AtMost(baseY1(H) + baseH(H) \div 2, H - 1) =< H - 1
      /\ AtMost(baseY1(H) + baseH(H) \div 2, H - 1) =< baseY1(H) + baseH(H) \div 2
  BY PlateRows DEF AtMost
<1>4. QED
  BY <1>1, <1>2, <1>3, PlateRows DEF Die, Box, Empty, Inside, Grid

\* No store of BuildHeatsinkCombMask leaves the grid, whatever its size, so that
\* a reader of the guide may change NX and NY.
THEOREM MasksInBounds ==
  ASSUME GridWidths \subseteq Nat \ {0}, GridHeights \subseteq Nat \ {0}
  PROVE  MaskSpec => []InBounds
<1>1. Built => InBounds
  BY BaseInBounds, FinInBounds, DieInBounds DEF Built, InBounds
<1>2. QED
  BY <1>1, BuiltInvariant, PTL

-----------------------------------------------------------------------------
\* On a grid of at least 25 x 20 every source lies on the plate, off the edge.
LEMMA SourceFits ==
  ASSUME NEW W \in Nat, W >= 25, NEW H \in Nat, H >= 20, NEW s \in 0 .. 2
  PROVE  /\ ~Empty(Source(W, H, s))
         /\ Inside(Source(W, H, s), Base(W, H))
         /\ Inside(Source(W, H, s), InteriorOf(W, H))
<1>1. /\ baseW(W) \in Nat /\ baseW(W) >= 19 /\ baseX0(W) \in Nat /\ baseX0(W) >= 3
      /\ baseX1(W) = baseX0(W) + baseW(W) - 1 /\ baseX1(W) =< W - 2
  BY DEF baseW, marginX, baseX0, baseX1
<1>2. /\ plateH(H) \in Nat /\ plateH(H) >= 2 /\ baseY0(H) \in Nat /\ baseY0(H) >= 1
      /\ baseY1(H) = baseY0(H) + plateH(H) - 1 /\ baseY1(H) = H - 10
  BY DEF plateH, baseY0, baseY1, baseH, AtLeast
<1>3. /\ srcH(H) \in Nat /\ srcH(H) >= 1 /\ srcH(H) =< plateH(H)
  BY <1>2 DEF srcH, ClampTo
<1>4. /\ srcW(W) \in Nat /\ srcW(W) >= 1 /\ srcW(W) * 3 =< baseW(W)
      /\ srcGap(W) \in Nat
  BY <1>1 DEF srcW, srcGap, ClampTo
<1>5. srcX0(W, s) \in Int
      /\ baseX0(W) =< srcX0(W, s) /\ srcX0(W, s) + srcW(W) - 1 =< baseX1(W)
  <2>1. CASE s = 0
    BY <1>1, <1>4, <2>1 DEF srcX0, srcMid, AtLeast
  <2>2. CASE s = 1
    BY <1>1, <1>4, <2>2 DEF srcX0, srcMid
  <2>3. CASE s = 2
    BY <1>1, <1>4, <2>3 DEF srcX0, srcMid, AtMost
  <2>4. QED
    BY <2>1, <2>2, <2>3
<1>6. QED
  BY <1>1, <1>2, <1>3, <1>4, <1>5
     DEF Source, Box, Empty, Inside, Base, InteriorOf

\* On such a grid the sources are apart.
LEMMA SourcesApart ==
  ASSUME NEW W \in Nat, W >= 25, NEW H \in Nat,
         NEW s \in 0 .. 2, NEW t \in 0 .. 2, s # t
  PROVE  Disjoint(Source(W, H, s), Source(W, H, t))
<1>1. /\ baseW(W) \in Nat /\ baseW(W) >= 19 /\ baseX0(W) \in Nat
      /\ baseX1(W) = baseX0(W) + baseW(W) - 1
  BY DEF baseW, marginX, baseX0, baseX1
<1>2. /\ srcW(W) \in Nat /\ srcW(W) >= 1 /\ srcGap(W) \in Nat
      /\ srcW(W) = 6 \/ srcW(W) * 8 =< baseW(W)
  BY <1>1 DEF srcW, srcGap, ClampTo
<1>3. /\ srcX0(W, 0) = AtLeast(srcMid(W) - (srcW(W) + srcGap(W)), baseX0(W))
      /\ srcX0(W, 1) = srcMid(W)
      /\ srcX0(W, 2) = AtMost(srcMid(W) + (srcW(W) + srcGap(W)), baseX1(W) - srcW(W) + 1)
  BY DEF srcX0
<1>4. srcX0(W, 0) + srcW(W) =< srcX0(W, 1) /\ srcX0(W, 1) + srcW(W) =< srcX0(W, 2)
  BY <1>1, <1>2, <1>3 DEF srcMid, AtLeast, AtMost
<1>5. srcX0(W, 0) \in Int /\ srcX0(W, 1) \in Int /\ srcX0(W, 2) \in Int
  BY <1>1, <1>2, <1>3 DEF srcMid, AtLeast, AtMost
<1>6. QED
  BY <1>2, <1>3, <1>4, <1>5 DEF Source, Box, Disjoint

\* On every grid of at least 25 x 20 the three sources lie side by side on the
\* copper, none cut off and none on the edge that ApplyBoundary overwrites.
THEOREM SourcesFit ==
  ASSUME GridWidths \subseteq {x \in Nat : x >= 25},
         GridHeights \subseteq {y \in Nat : y >= 20}
  PROVE  MaskSpec => []SourcesOnPlate
<1>1. Built => SourcesOnPlate
  <2> SUFFICES ASSUME Built, NEW b \in sources
      PROVE /\ ~Empty(b) /\ Inside(b, Base(gridW, gridH)) /\ Inside(b, InteriorOf(gridW, gridH))
            /\ \A c \in sources : b # c => Disjoint(b, c)
    BY DEF SourcesOnPlate
  <2>1. gridW \in Nat /\ gridW >= 25 /\ gridH \in Nat /\ gridH >= 20
    BY DEF Built
  <2>2. PICK s \in 0 .. 2 : b = Source(gridW, gridH, s)
    BY DEF Built
  <2>3. ASSUME NEW c \in sources, b # c PROVE Disjoint(b, c)
    <3>1. PICK t \in 0 .. 2 : c = Source(gridW, gridH, t)
      BY DEF Built
    <3>2. QED
      BY <2>1, <2>2, <2>3, <3>1, SourcesApart
  <2>4. QED
    BY <2>1, <2>2, <2>3, SourceFits
<1>2. QED
  BY <1>1, BuiltInvariant, PTL

-----------------------------------------------------------------------------
\* The fins' centres are at least a spacing apart and the last is the 14th.
LEMMA Spread ==
  ASSUME NEW g \in Nat, NEW a \in 0 .. 13, NEW b \in 0 .. 13, a < b
  PROVE  a * g \in Nat /\ b * g \in Nat /\ a * g + g =< b * g
<1>1. a * g \in Nat /\ b * g \in Nat
  OBVIOUS
<1>2. (b - a - 1) * g >= 0
  OBVIOUS
<1>3. (b - a - 1) * g = b * g - a * g - g
  OBVIOUS
<1>4. QED
  BY <1>1, <1>2, <1>3

\* On a grid at least 112 wide the spacing of the fins is a 14th of the plate, so
\* that no fin is clamped.
LEMMA FinUnclamped ==
  ASSUME NEW W \in Nat, W >= 112, NEW H \in Nat, NEW a \in 0 .. finCount-1
  PROVE  /\ Fin(W, H, a) = Box(finX0(W, a), finX0(W, a) + finW(W) - 1, finY0(H), baseY0(H))
         /\ finX0(W, a) \in Int
         /\ finX0(W, a) = baseX0(W) + a * finGap(W) + finGap(W) \div 2 - finW(W) \div 2
         /\ baseX0(W) =< finX0(W, a) /\ finX0(W, a) + finW(W) - 1 =< baseX1(W)
<1> DEFINE g == finGap(W)
           w == finW(W)
           m == a * g
<1>1. /\ baseX0(W) \in Nat /\ baseW(W) \in Nat /\ baseW(W) >= 84
      /\ baseX1(W) = baseX0(W) + baseW(W) - 1
  BY DEF baseW, marginX, baseX0, baseX1
<1>2. g \in Nat /\ g >= 6 /\ 14 * g =< baseW(W)
  BY <1>1 DEF finGap, AtLeast, finCount
<1>3. w \in Nat /\ w >= 3 /\ 2 * w =< g
  BY <1>2 DEF finW, AtLeast
<1>4. m \in Nat /\ m =< 13 * g
  <2>1. a \in 0 .. 13
    BY DEF finCount
  <2>2. CASE a = 13
    BY <1>2, <2>2
  <2>3. CASE a # 13
    <3>1. a * g \in Nat /\ 13 * g \in Nat /\ a * g + g =< 13 * g
      BY <1>2, <2>1, <2>3, Spread
    <3>2. QED
      BY <1>2, <3>1
  <2>4. QED
    BY <2>2, <2>3
<1>5. finX0(W, a) = baseX0(W) + m + g \div 2 - w \div 2
  BY <1>1, <1>2, <1>3, <1>4 DEF finX0, finCx
<1> HIDE DEF g, w, m
<1>6. /\ finX0(W, a) \in Int
      /\ baseX0(W) =< finX0(W, a) /\ finX0(W, a) + w - 1 =< baseX1(W)
  BY <1>1, <1>2, <1>3, <1>4, <1>5
<1>7. /\ ClampTo(finX0(W, a), baseX0(W), baseX1(W)) = finX0(W, a)
      /\ ClampTo(finX0(W, a) + w - 1, baseX0(W), baseX1(W)) = finX0(W, a) + w - 1
  BY <1>1, <1>3, <1>6 DEF ClampTo
<1>8. QED
  BY <1>5, <1>6, <1>7 DEF Fin, g, w, m

\* On such a grid two fins leave at least a column of air between them.
LEMMA FinsApart ==
  ASSUME NEW W \in Nat, W >= 112, NEW H \in Nat,
         NEW a \in 0 .. finCount-1, NEW b \in 0 .. finCount-1, a < b
  PROVE  ColumnBetween(Fin(W, H, a), Fin(W, H, b)) /\ ColumnBetween(Fin(W, H, b), Fin(W, H, a))
<1> DEFINE g == finGap(W)
           w == finW(W)
           m == a * g
           k == b * g
<1>1. g \in Nat /\ w \in Nat /\ w >= 3 /\ 2 * w =< g
  BY FinColumns
<1>2. m \in Nat /\ k \in Nat /\ m + g =< k
  <2>1. a \in 0 .. 13 /\ b \in 0 .. 13
    BY DEF finCount
  <2>2. QED
    BY <1>1, <2>1, Spread
<1>3. /\ finX0(W, a) = baseX0(W) + m + g \div 2 - w \div 2
      /\ finX0(W, b) = baseX0(W) + k + g \div 2 - w \div 2
  BY FinUnclamped
<1>4. baseX0(W) \in Nat
  BY DEF baseX0, marginX
<1> HIDE DEF m, k
<1>5. finX0(W, a) + w - 1 + 1 < finX0(W, b)
  <2> HIDE DEF g, w
  <2>1. QED
    BY <1>1, <1>2, <1>3, <1>4
<1>6. /\ Fin(W, H, a).x1 = finX0(W, a) + w - 1 /\ Fin(W, H, a).x0 = finX0(W, a)
      /\ Fin(W, H, b).x1 = finX0(W, b) + w - 1 /\ Fin(W, H, b).x0 = finX0(W, b)
  BY FinUnclamped DEF Box
<1>7. QED
  BY <1>5, <1>6 DEF ColumnBetween

\* On a grid of at least 112 x 12 what is built is a comb: as many fins as have
\* been written, air between them, each standing on the plate.
THEOREM Comb ==
  ASSUME GridWidths \subseteq {x \in Nat : x >= 112},
         GridHeights \subseteq {y \in Nat : y >= 12}
  PROVE  MaskSpec => []IsComb
<1>1. Built => IsComb
  <2> SUFFICES ASSUME Built PROVE IsComb
    OBVIOUS
  <2>1. gridW \in Nat /\ gridW >= 112 /\ gridH \in Nat /\ gridH >= 12
    BY DEF Built
  <2>2. \A a \in 0 .. f-1 : a \in 0 .. finCount-1
    BY DEF Built, finCount
  <2>3. ASSUME NEW a \in 0 .. f-1, NEW b \in 0 .. f-1, a # b
        PROVE ColumnBetween(Fin(gridW, gridH, a), Fin(gridW, gridH, b))
    <3>1. a < b \/ b < a
      BY <2>3
    <3>2. QED
      BY <2>1, <2>2, <2>3, <3>1, FinsApart
  <2>4. ASSUME NEW a \in 0 .. f-1 PROVE Overlap(Fin(gridW, gridH, a), Base(gridW, gridH))
    <3>1. a \in 0 .. finCount-1
      BY <2>2
    <3>2. /\ baseX0(gridW) =< finX0(gridW, a) /\ finX0(gridW, a) \in Int
          /\ finX0(gridW, a) + finW(gridW) - 1 =< baseX1(gridW)
          /\ finW(gridW) \in Nat /\ finW(gridW) >= 3
      BY <2>1, <3>1, FinUnclamped, FinColumns
    <3>3. /\ baseY0(gridH) \in Nat /\ baseY0(gridH) >= 2 /\ baseY0(gridH) =< baseY1(gridH)
          /\ baseY1(gridH) \in Int
      BY <2>1 DEF baseY0, baseY1, baseH, AtLeast
    <3>4. finY0(gridH) \in Int /\ finY0(gridH) =< baseY0(gridH)
      BY <2>1, <3>3 DEF finY0, AtLeast
    <3>5. baseX0(gridW) \in Nat /\ baseX1(gridW) \in Nat
      BY <2>1, PlateColumns
    <3>6. Fin(gridW, gridH, a) = Box(finX0(gridW, a), finX0(gridW, a) + finW(gridW) - 1, finY0(gridH), baseY0(gridH))
      BY <2>1, <3>1, FinUnclamped
    <3>7. QED
      BY <3>2, <3>3, <3>4, <3>5, <3>6 DEF Overlap, Disjoint, Base, Box
  <2>5. QED
    BY <2>3, <2>4 DEF IsComb
<1>2. QED
  BY <1>1, BuiltInvariant, PTL

=============================================================================
