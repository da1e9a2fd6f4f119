--------------------------- MODULE HeatQ16Proofs ---------------------------
(***************************************************************************)
(* HeatQ16 for every grid, comb, brush and width: the fixed-point solver   *)
(* keeps the law of HeatField, and what its faces conduct.                 *)
(***************************************************************************)
EXTENDS HeatQ16, HeatGridProofs

-----------------------------------------------------------------------------
(***************************************************************************)
(* Arithmetic of the hot loop.                                             *)
(***************************************************************************)
\* What is left of a number in fewer bits is no larger.
LEMMA ModAtMost ==
  ASSUME NEW x \in Nat, NEW r \in Nat \ {0}
  PROVE  x % r \in 0 .. x
  <1>1. CASE x < r
    BY <1>1
  <1>2. CASE x >= r
    <2>1. x % r \in 0 .. r-1
      OBVIOUS
    <2> QED
      BY <1>2, <2>1
  <1> QED
    BY <1>1, <1>2

\* Cut to 32 bits or not, a face conducts at least nothing and at most like
\* copper.
LEMMA FaceU16Bound ==
  ASSUME NEW k0 \in 0 .. KOne, NEW k1 \in 0 .. KOne
  PROVE  KFaceHarmonic_U16(k0, k1) \in 0 .. KOne
  <1>0. KOne \in Nat \ {0} /\ Hot \in Nat \ {0}
    BY GridAssumption
  <1>1. CASE k0 + k1 = 0
    BY <1>0, <1>1 DEF KFaceHarmonic_U16
  <1>2. CASE k0 + k1 # 0
    <2> DEFINE x == 2*k0*k1
               y == x % UINT32_RANGE
    <2>1. x \in Nat /\ x =< (k0 + k1) * KOne
      <3>1. k0*k1 =< k0*KOne /\ k0*k1 =< KOne*k1
        BY <1>0
      <3>2. k0*k1 \in Nat /\ k0*KOne \in Nat /\ KOne*k1 \in Nat
        BY <1>0
      <3>3. 2*k0*k1 = k0*k1 + k0*k1 /\ (k0 + k1) * KOne = k0*KOne + KOne*k1
        BY <1>0
      <3> QED
        BY <3>1, <3>2, <3>3
    <2>2. UINT32_RANGE \in Nat \ {0}
      BY <1>0 DEF UINT32_RANGE
    <2> HIDE DEF x
    <2>3. y \in 0 .. x
      BY <2>1, <2>2, ModAtMost
    <2>4. k0 + k1 \in Nat \ {0} /\ (k0 + k1) * KOne \in Int
      BY <1>0, <1>2
    <2>5. y \in Int /\ (k0 + k1) * 0 =< y /\ y =< (k0 + k1) * KOne
      BY <2>1, <2>3, <2>4
    <2> HIDE DEF y
    <2>6. y \div (k0 + k1) \in 0 .. KOne
      BY <1>0, <2>4, <2>5, DivBetween
    <2> QED
      BY <1>2, <2>6 DEF KFaceHarmonic_U16, x, y
  <1> QED
    BY <1>1, <1>2

\* So does every face of the grid.
LEMMA FacesU16 ==
  /\ KxU16 \in [Cells -> 0 .. KOne]
  /\ KyU16 \in [Cells -> 0 .. KOne]
  <1>0. NX \in Nat /\ NY \in Nat /\ KOne \in Nat \ {0} /\ KAir \in 0 .. KOne
    BY GridAssumption
  <1>1. \A c \in Cells : K[c] \in 0 .. KOne
    BY <1>0 DEF K
  <1>2. ASSUME NEW c \in Cells, c[1] < NX-1 PROVE KFaceHarmonic_U16(K[c], K[Right(c)]) \in 0 .. KOne
    <2>1. Right(c) \in Cells
      BY <1>0, <1>2 DEF Right, Cells, Cols, Rows
    <2>2. K[c] \in 0 .. KOne /\ K[Right(c)] \in 0 .. KOne
      BY <1>1, <2>1
    <2> QED
      BY <2>2, FaceU16Bound
  <1>3. ASSUME NEW c \in Cells, c[2] < NY-1 PROVE KFaceHarmonic_U16(K[c], K[Down(c)]) \in 0 .. KOne
    <2>1. Down(c) \in Cells
      BY <1>0, <1>3 DEF Down, Cells, Cols, Rows
    <2>2. K[c] \in 0 .. KOne /\ K[Down(c)] \in 0 .. KOne
      BY <1>1, <2>1
    <2> QED
      BY <2>2, FaceU16Bound
  <1>4. 0 \in 0 .. KOne
    BY <1>0
  <1> QED
    BY <1>2, <1>3, <1>4 DEF KxU16, KyU16

\* A flux shifted down 16 bits stays between bounds of the difference it came
\* from, whichever way the shift rounds it.
LEMMA FluxShifted ==
  ASSUME NEW k \in 0 .. KOne, NEW x \in Int, NEW a \in Int, NEW b \in Int,
         a =< 0, 0 =< b, a =< x, x =< b
  PROVE  Shr16(k * x) \in a .. b
  <1>0. Hot \in Nat \ {0} /\ k \in 0 .. Hot
    BY GridAssumption, Q16Assumption
  <1>1. Hot * a =< k * x /\ k * x =< Hot * b /\ k * x \in Int
    BY <1>0, FluxBetween
  <1> DEFINE p == k * x
  <1>2. p \in Int /\ Hot * a =< p /\ p =< Hot * b
    BY <1>1
  <1> HIDE DEF p
  <1>3. p \div Hot \in a .. b
    BY <1>0, <1>2, DivBetween
  <1> QED
    BY <1>3 DEF Shr16, Q16_ONE, p

\* The maximum principle of the fixed-point step, for one cell: with every
\* product rounded down, below zero too, the cell stays between any two
\* temperatures that bound it and its four neighbours.  The clamp of the code
\* never has to act.
THEOREM OutBetween ==
  ASSUME NEW T \in Fields, NEW c \in Interior, NEW lo \in Temps, NEW hi \in Temps,
         \A d \in {c, Right(c), Left(c), Down(c), Up(c)} : lo =< T[d] /\ T[d] =< hi
  PROVE  /\ Out(T, c) \in lo .. hi
         /\ Out(T, c) = T[c] + Shr16(RNum * FluxSum(T, c))
  <1> DEFINE t == T[c]
             a == lo - t
             b == hi - t
             fr == Shr16(KxU16[c] * (T[Right(c)] - T[c]))
             fl == Shr16(KxU16[Left(c)] * (T[Left(c)] - T[c]))
             fd == Shr16(KyU16[c] * (T[Down(c)] - T[c]))
             fu == Shr16(KyU16[Up(c)] * (T[Up(c)] - T[c]))
             s == FluxSum(T, c)
             w == Shr16(RNum * s)
  <1>0. Hot \in Nat \ {0} /\ RNum \in Nat /\ RDen = Hot /\ 4 * RNum =< RDen
    BY GridAssumption, Q16Assumption
  <1>1. /\ T[c] \in Int /\ T[Right(c)] \in Int /\ T[Left(c)] \in Int
        /\ T[Down(c)] \in Int /\ T[Up(c)] \in Int
        /\ lo \in 0 .. Hot /\ hi \in 0 .. Hot
    BY <1>0, InteriorNeighbours DEF Fields, Temps
  <1>2. /\ KxU16[c] \in 0 .. KOne /\ KxU16[Left(c)] \in 0 .. KOne
        /\ KyU16[c] \in 0 .. KOne /\ KyU16[Up(c)] \in 0 .. KOne
    BY FacesU16, InteriorNeighbours
  <1>3. /\ a \in Int /\ b \in Int /\ a =< 0 /\ 0 =< b
        /\ a =< T[Right(c)] - T[c] /\ T[Right(c)] - T[c] =< b /\ T[Right(c)] - T[c] \in Int
        /\ a =< T[Left(c)] - T[c] /\ T[Left(c)] - T[c] =< b /\ T[Left(c)] - T[c] \in Int
        /\ a =< T[Down(c)] - T[c] /\ T[Down(c)] - T[c] =< b /\ T[Down(c)] - T[c] \in Int
        /\ a =< T[Up(c)] - T[c] /\ T[Up(c)] - T[c] =< b /\ T[Up(c)] - T[c] \in Int
    BY <1>1
  <1> HIDE DEF a, b
  <1>4. fr \in a .. b /\ fl \in a .. b /\ fd \in a .. b /\ fu \in a .. b
    <2>1. fr \in a .. b
      BY <1>2, <1>3, FluxShifted
    <2>2. fl \in a .. b
      BY <1>2, <1>3, FluxShifted
    <2>3. fd \in a .. b
      BY <1>2, <1>3, FluxShifted
    <2>4. fu \in a .. b
      BY <1>2, <1>3, FluxShifted
    <2> QED
      BY <2>1, <2>2, <2>3, <2>4
  <1>5. s = fr + fl + fd + fu
    BY DEF FluxSum
  <1> HIDE DEF fr, fl, fd, fu, s
  <1>6. s \in Int /\ 4 * (1 * a) =< s /\ s =< 4 * (1 * b)
    BY <1>3, <1>4, <1>5
  <1>7. (RNum * s) \div (Hot * 1) \in a .. b
    BY <1>0, <1>3, <1>6, StepBetween
  <1>8. w \in a .. b
    <2>1. Hot * 1 = Hot
      BY <1>0
    <2> QED
      BY <1>7, <2>1 DEF Shr16, Q16_ONE
  <1> HIDE DEF w
  <1>9. w \in Int /\ t + w \in lo .. hi
    BY <1>1, <1>3, <1>8 DEF a, b
  <1>10. t + w >= 0 /\ t + w =< Hot
    BY <1>0, <1>1, <1>9
  <1>11. Out(T, c) = t + w
    <2>1. Out(T, c) = ClampI32(t + w, 0, Hot)
      BY DEF Out, Q16_ONE, w, s
    <2>2. ~(t + w < 0) /\ ~(t + w > Hot)
      BY <1>0, <1>1, <1>9, <1>10
    <2> QED
      BY <2>1, <2>2 DEF ClampI32
  <1> QED
    BY <1>9, <1>11 DEF w, s

\* The fixed-point step leaves legal temperatures.
LEMMA DiffuseQ16Type ==
  ASSUME NEW T \in Fields, NEW U \in Fields
  PROVE  DiffuseQ16(T, U) \in Fields
  <1>0. 0 \in Temps /\ Hot \in Temps /\ Hot \in Nat
    BY GridAssumption DEF Temps
  <1>1. ASSUME NEW c \in Interior
        PROVE  Out(T, c) \in Temps
    <2>1. \A d \in {c, Right(c), Left(c), Down(c), Up(c)} : 0 =< T[d] /\ T[d] =< Hot
      BY <1>0, InteriorNeighbours DEF Fields, Temps
    <2>2. Out(T, c) \in 0 .. Hot
      BY <1>0, <2>1, OutBetween
    <2> QED
      BY <2>2 DEF Temps
  <1>2. \A c \in Cells : U[c] \in Temps
    BY DEF Fields
  <1> QED
    BY <1>1, <1>2 DEF DiffuseQ16, Fields

-----------------------------------------------------------------------------
(***************************************************************************)
(* The program.                                                            *)
(***************************************************************************)
\* Every variable has its type: both buffers hold legal temperatures.
Typed ==
  /\ A \in Fields /\ B \in Fields
  /\ bc \in BoundaryModes /\ Paused \in BOOLEAN
  /\ brushRad \in RadMin .. RadMax /\ brushTempQ \in BrushTempsQ
  /\ cursor \in CursorCells
  /\ dirty \in BOOLEAN

LEMMA BrushTempsLegal == BrushTempsQ \subseteq Temps
  <1>1. Hot \in Temps
    BY GridAssumption DEF Temps
  <1> QED
    BY <1>1, Q16Assumption DEF BrushTempsQ, Q16_ONE

LEMMA StepType ==
  ASSUME Typed, Step
  PROVE  A' \in Fields /\ B' \in Fields
  <1>1. StampSources(A) \in Fields
    BY StampSourcesType DEF Typed
  <1>2. DiffuseQ16(StampSources(A), B) \in Fields
    BY <1>1, DiffuseQ16Type DEF Typed
  <1> QED
    BY <1>1, <1>2, ApplyBoundaryType DEF Step

\* The fixed-point program never holds a temperature outside 0 .. Q16_ONE, nor a
\* brush beyond its clamp.
THEOREM TypeCorrect == Spec => []Typed
  <1> USE DEF Typed
  <1>0. RadMin \in Int /\ RadMax \in Int /\ RadMin =< RadMax /\ RadStep \in Int
    BY Q16Assumption
  <1>1. Init => Typed
    <2>1. /\ Cold \in Fields /\ RadInit \in RadMin .. RadMax /\ Q16_ONE \in BrushTempsQ
          /\ StartCell \in CursorCells /\ BC_DIRICHLET_COLD \in BoundaryModes
      BY ColdType, Q16Assumption DEF BoundaryModes, BC_DIRICHLET_COLD, BC_COUNT, BrushTempsQ
    <2> QED
      BY <2>1 DEF Init
  <1>2. Typed /\ [Next]_vars => Typed'
    <2> SUFFICES ASSUME Typed, [Next]_vars
                 PROVE  Typed'
      OBVIOUS
    <2> USE DEF modes, brush
    <2>1. CASE KeyEsc \/ KeysDrained \/ NoPointerEvent \/ SkipStep \/ Render
      BY <2>1 DEF KeyEsc, KeysDrained, NoPointerEvent, SkipStep, Render
    <2>2. CASE KeySpace \/ KeyTemp
      BY <2>2 DEF KeySpace, KeyTemp, Handle
    <2>3. CASE KeyReset \/ KeyClear
      BY <2>3, ColdType DEF KeyReset, KeyClear, Handle
    <2>4. CASE KeyBoundary
      BY <2>4 DEF KeyBoundary, Handle, BoundaryModes, BC_COUNT
    <2>5. CASE KeyRadius
      <3>1. \A d \in {RadStep, -RadStep} : ClampI32(brushRad + d, RadMin, RadMax) \in RadMin .. RadMax
        BY <1>0 DEF ClampI32
      <3> QED
        BY <2>5, <3>1 DEF KeyRadius, Handle
    <2>6. ASSUME NEW c \in CursorCells, PaintAt(c) PROVE Typed'
      <3>1. StampDisk(A, c[1], c[2], brushRad, brushTempQ) \in Fields
        BY BrushTempsLegal, RaiseToType DEF StampDisk
      <3> QED
        BY <2>6, <3>1 DEF PaintAt
    <2>7. ASSUME NEW c \in CursorCells, MoveCursor(c) PROVE Typed'
      BY <2>7 DEF MoveCursor
    <2>8. CASE Step
      BY <2>8, StepType DEF Step
    <2>9. CASE Exited \/ UNCHANGED vars
      BY <2>9 DEF Exited, vars
    <2> QED
      BY <2>1, <2>2, <2>3, <2>4, <2>5, <2>6, <2>7, <2>8, <2>9 DEF Next, Keyboard
  <1> QED
    BY <1>1, <1>2, PTL DEF Spec

\* Whenever nothing is marked for redrawing, the screen shows what the loop would
\* draw, on every grid.
THEOREM ScreenSafe == Spec => []ScreenCurrent
  <1> USE DEF ScreenCurrent
  <1>1. Init => ScreenCurrent
    BY DEF Init
  <1>2. ScreenCurrent /\ [Next]_vars => ScreenCurrent'
    <2> SUFFICES ASSUME ScreenCurrent, [Next]_vars, pc' # "exited", ~dirty'
                 PROVE  screen' = <<View'>>
      OBVIOUS
    <2> USE DEF modes, brush
    <2>1. CASE KeyEsc
      BY <2>1 DEF KeyEsc
    <2>2. CASE KeySpace \/ KeyReset \/ KeyClear \/ KeyBoundary \/ KeyRadius \/ KeyTemp
      BY <2>2 DEF KeySpace, KeyReset, KeyClear, KeyBoundary, KeyRadius, KeyTemp, Handle
    <2>3. CASE KeysDrained \/ NoPointerEvent \/ SkipStep
      BY <2>3 DEF KeysDrained, NoPointerEvent, SkipStep, View
    <2>4. ASSUME NEW c \in CursorCells, PaintAt(c) \/ MoveCursor(c) PROVE FALSE
      BY <2>4 DEF PaintAt, MoveCursor
    <2>5. CASE Step
      BY <2>5 DEF Step
    <2>6. CASE Render
      BY <2>6 DEF Render, View
    <2>7. CASE Exited \/ UNCHANGED vars
      BY <2>7 DEF Exited, vars, View
    <2> QED
      BY <2>1, <2>2, <2>3, <2>4, <2>5, <2>6, <2>7 DEF Next, Keyboard
  <1> QED
    BY <1>1, <1>2, PTL DEF Spec

-----------------------------------------------------------------------------
(***************************************************************************)
(* The law of HeatField.                                                   *)
(***************************************************************************)
\* HeatField's grid operators, instantiated, are the program's own.
LEMMA SameGrid ==
  /\ HF!Cold = Cold /\ HF!Interior = Interior
  /\ HF!BC_DIRICHLET_COLD = BC_DIRICHLET_COLD /\ HF!BC_COUNT = BC_COUNT
  /\ \A T, x, y, r, v : HF!StampDisk(T, x, y, r, v) = StampDisk(T, x, y, r, v)
  /\ \A T : HF!StampSources(T) = StampSources(T)
  /\ \A T, m : HF!ApplyBoundary(T, m) = ApplyBoundary(T, m)
  /\ \A c : HF!Neighbourhood(c) = {c, Right(c), Left(c), Down(c), Up(c)}
  <1>1. /\ HF!Cells = Cells /\ HF!Interior = Interior
        /\ \A v, lo, hi : HF!ClampI32(v, lo, hi) = ClampI32(v, lo, hi)
    BY DEF HF!Cells, Cells, HF!Cols, Cols, HF!Rows, Rows, HF!Interior, Interior,
           HF!ClampI32, ClampI32
  <1>2. HF!Cold = Cold
    BY <1>1 DEF HF!Cold, Cold
  <1>3. HF!BC_DIRICHLET_COLD = BC_DIRICHLET_COLD /\ HF!BC_COUNT = BC_COUNT
        /\ HF!BC_NEUMANN_INSULATED = BC_NEUMANN_INSULATED
    BY DEF HF!BC_DIRICHLET_COLD, BC_DIRICHLET_COLD, HF!BC_COUNT, BC_COUNT,
           HF!BC_NEUMANN_INSULATED, BC_NEUMANN_INSULATED
  <1>4. \A T, S, v : HF!RaiseTo(T, S, v) = RaiseTo(T, S, v)
    BY <1>1 DEF HF!RaiseTo, RaiseTo
  <1>5. \A T, x, y, r, v : HF!StampDisk(T, x, y, r, v) = StampDisk(T, x, y, r, v)
    <2>1. \A x, y, r : HF!Disk(x, y, r) = Disk(x, y, r)
      BY <1>1 DEF HF!Disk, Disk
    <2> QED
      BY <1>4, <2>1 DEF HF!StampDisk, StampDisk
  <1>6. \A T : HF!StampSources(T) = StampSources(T)
    <2>1. \A r : HF!RectCells(r) = RectCells(r)
      BY <1>1 DEF HF!RectCells, RectCells
    <2>2. HF!SourceCells = SourceCells
      BY <2>1 DEF HF!SourceCells, SourceCells
    <2> QED
      BY <1>4, <2>2 DEF HF!StampSources, StampSources
  <1>7. \A T, m : HF!ApplyBoundary(T, m) = ApplyBoundary(T, m)
    <2>1. \A c : HF!Inward(c) = Inward(c) /\ HF!InwardY(c) = InwardY(c)
      BY <1>1 DEF HF!Inward, Inward, HF!InwardY, InwardY
    <2> QED
      BY <1>1, <1>3, <2>1 DEF HF!ApplyBoundary, ApplyBoundary
  <1>8. \A c : HF!Neighbourhood(c) = {c, Right(c), Left(c), Down(c), Up(c)}
    BY DEF HF!Neighbourhood, HF!Right, Right, HF!Left, Left, HF!Down, Down, HF!Up, Up
  <1> QED
    BY <1>1, <1>2, <1>3, <1>5, <1>6, <1>7, <1>8

\* Of a cell and its neighbours one is the coldest and one the hottest.
LEMMA CellExtremes ==
  ASSUME NEW T \in Fields, NEW c \in Interior
  PROVE  LET N == {c, Right(c), Left(c), Down(c), Up(c)}
         IN  /\ \E d \in N : \A e \in N : T[d] =< T[e]
             /\ \E d \in N : \A e \in N : T[e] =< T[d]
             /\ \A d \in N : T[d] \in Temps
  <1>0. Hot \in Nat
    BY GridAssumption
  <1>1. /\ T[c] \in Temps /\ T[Right(c)] \in Temps /\ T[Left(c)] \in Temps
        /\ T[Down(c)] \in Temps /\ T[Up(c)] \in Temps
    BY InteriorNeighbours DEF Fields
  <1> QED
    BY <1>0, <1>1 DEF Temps

\* The step keeps every cell between its neighbours, whatever the other buffer
\* held.
LEMMA StepWithin ==
  ASSUME NEW T \in Fields, NEW U \in Fields, NEW m
  PROVE  HF!WithinNeighbours(T, ApplyBoundary(DiffuseQ16(T, U), m))
  <1> SUFFICES ASSUME NEW c \in Interior
               PROVE  LET N == {c, Right(c), Left(c), Down(c), Up(c)}
                      IN  /\ \E d \in N : T[d] =< Out(T, c)
                          /\ \E d \in N : Out(T, c) =< T[d]
    <2>1. \A c \in Interior : ApplyBoundary(DiffuseQ16(T, U), m)[c] = Out(T, c)
      BY BoundaryKeepsInterior, InteriorNeighbours DEF DiffuseQ16
    <2> QED
      BY <2>1, SameGrid DEF HF!WithinNeighbours
  <1> DEFINE N == {c, Right(c), Left(c), Down(c), Up(c)}
  <1>1. PICK low \in N : \A e \in N : T[low] =< T[e]
    BY CellExtremes
  <1>2. PICK high \in N : \A e \in N : T[e] =< T[high]
    BY CellExtremes
  <1>3. T[low] \in Temps /\ T[high] \in Temps
    BY CellExtremes
  <1>4. Out(T, c) \in T[low] .. T[high]
    BY <1>1, <1>2, <1>3, OutBetween
  <1>5. T[low] =< Out(T, c) /\ Out(T, c) =< T[high]
    BY <1>3, <1>4, GridAssumption DEF Temps
  <1> QED
    BY <1>5

\* The fixed-point program keeps the law of HeatField on every grid and for every
\* width: it is the same solver as the one in floating point, but for rounding.
THEOREM Lawful == Spec => KeepsLaw
  <1>1. Init => HF!Init
    BY SameGrid DEF Init, HF!Init
  <1>2. Typed /\ [Next]_vars => [HF!LawNext]_(HF!vars)
    <2> SUFFICES ASSUME Typed, [Next]_vars
                 PROVE  HF!LawNext \/ UNCHANGED HF!vars
      OBVIOUS
    <2> USE DEF HF!vars, modes, brush
    <2>1. CASE KeyEsc \/ KeysDrained \/ NoPointerEvent \/ SkipStep \/ Render \/ Exited
      BY <2>1 DEF KeyEsc, KeysDrained, NoPointerEvent, SkipStep, Render, Exited, vars
    <2>2. CASE KeySpace
      BY <2>2 DEF KeySpace, HF!TogglePause, HF!LawNext
    <2>3. CASE KeyReset \/ KeyClear
      BY <2>3, SameGrid DEF KeyReset, KeyClear, HF!Clear, HF!LawNext
    <2>4. CASE KeyBoundary
      BY <2>4, SameGrid DEF KeyBoundary, HF!CycleBoundary, HF!LawNext
    <2>5. CASE KeyRadius \/ KeyTemp
      BY <2>5 DEF KeyRadius, KeyTemp
    <2>6. ASSUME NEW c \in CursorCells, PaintAt(c)
          PROVE  HF!LawNext
      <3>1. HF!Paint
        BY <2>6, SameGrid DEF PaintAt, HF!Paint, Typed
      <3> QED
        BY <3>1 DEF HF!LawNext
    <2>7. ASSUME NEW c \in CursorCells, MoveCursor(c)
          PROVE  UNCHANGED HF!vars
      BY <2>7 DEF MoveCursor
    <2>8. CASE Step
      <3> DEFINE S == StampSources(A)
                 D == DiffuseQ16(S, B)
      <3>1. S \in Fields /\ B \in Fields
        BY StampSourcesType DEF Typed
      <3>2. D \in Fields
        BY <3>1, DiffuseQ16Type
      <3>3. A' = ApplyBoundary(D, bc) /\ ~Paused /\ UNCHANGED <<bc, Paused>>
        BY <2>8 DEF Step
      <3>4. HF!WithinNeighbours(S, A')
        <4> HIDE DEF S
        <4> QED
          BY <3>1, <3>3, StepWithin
      <3>5. A' = ApplyBoundary(A', bc)
        <4> HIDE DEF S, D
        <4>1. \A c \in Interior : ApplyBoundary(D, bc)[c] = D[c]
          BY <3>2, BoundaryKeepsInterior
        <4>2. ApplyBoundary(ApplyBoundary(D, bc), bc) = ApplyBoundary(D, bc)
          BY <4>1, BoundaryForgetsEdges
        <4> QED
          BY <3>3, <4>2
      <3>6. HF!LawfulAdvance
        BY <3>3, <3>4, <3>5, SameGrid DEF HF!LawfulAdvance
      <3> QED
        BY <3>6 DEF HF!LawNext
    <2>9. CASE UNCHANGED vars
      BY <2>9 DEF vars
    <2> QED
      BY <2>1, <2>2, <2>3, <2>4, <2>5, <2>6, <2>7, <2>8, <2>9 DEF Next, Keyboard
  <1>3. HF!Init /\ [][HF!LawNext]_(HF!vars) => HF!LawSpec
    BY DEF HF!LawSpec
  <1> QED
    BY <1>1, <1>2, <1>3, TypeCorrect, PTL DEF Spec, KeepsLaw

-----------------------------------------------------------------------------
\* The product for a face of which one side conducts at most half like copper
\* fits a UINT32, and what fits is not changed by the cut.
LEMMA ProductFits ==
  ASSUME NEW k \in Nat, k =< 32768
  PROVE  2*k*65535 \in Nat /\ 2*k*65535 < 4294967296
  OBVIOUS

LEMMA ModSmall ==
  ASSUME NEW x \in Nat, NEW r \in Nat, x < r
  PROVE  x % r = x
  OBVIOUS

\* At the code's width a face between two copper cells conducts 32766 / 65536,
\* half of what the harmonic mean of 1 and 1 is: the product 2 * k0 * k1 does not
\* fit a UINT32.  A face with air on one side is not affected.
THEOREM CopperFaceHalved ==
  ASSUME Hot = 65536
  PROVE  /\ KFaceHarmonic_U16(65535, 65535) = 32766
         /\ \A k \in Nat : k =< 32768 => KFaceHarmonic_U16(k, 65535) = KFaceHarmonic(k, 65535)
  <1>1. UINT32_RANGE = 4294967296
    BY DEF UINT32_RANGE
  <1>2. KFaceHarmonic_U16(65535, 65535) = 32766
    <2>1. 2*65535*65535 = 8589672450 /\ 8589672450 % 4294967296 = 4294705154
      OBVIOUS
    <2>2. 4294705154 \div (65535 + 65535) = 32766
      OBVIOUS
    <2>3. KFaceHarmonic_U16(65535, 65535) = ((2*65535*65535) % UINT32_RANGE) \div (65535 + 65535)
      BY DEF KFaceHarmonic_U16
    <2> QED
      BY <1>1, <2>1, <2>2, <2>3
  <1>3. ASSUME NEW k \in Nat, k =< 32768
        PROVE  KFaceHarmonic_U16(k, 65535) = KFaceHarmonic(k, 65535)
    <2>1. KFaceHarmonic_U16(k, 65535) = ((2*k*65535) % UINT32_RANGE) \div (k + 65535)
      BY DEF KFaceHarmonic_U16
    <2>2. KFaceHarmonic(k, 65535) = (2*k*65535) \div (k + 65535)
      BY DEF KFaceHarmonic
    <2>3. (2*k*65535) % UINT32_RANGE = 2*k*65535
      <3> DEFINE x == 2*k*65535
      <3>1. x \in Nat /\ x < 4294967296
        BY <1>3, ProductFits
      <3> HIDE DEF x
      <3>2. x % UINT32_RANGE = x
        BY <1>1, <3>1, ModSmall
      <3> QED
        BY <3>2 DEF x
    <2> QED
      BY <2>1, <2>2, <2>3
  <1> QED
    BY <1>2, <1>3

-----------------------------------------------------------------------------
(***************************************************************************)
(* Rounding never makes heat.                                              *)
(***************************************************************************)
\* The exact fluxes of a cell, and those that come from the edge of the grid.
NetU16(T, c) ==
    KxU16[c] * (T[Right(c)] - T[c]) + KxU16[Left(c)] * (T[Left(c)] - T[c])
  + KyU16[c] * (T[Down(c)] - T[c]) + KyU16[Up(c)] * (T[Up(c)] - T[c])

EdgeU16(T, c) ==
    (IF Right(c) \in Interior THEN 0 ELSE KxU16[c] * (T[Right(c)] - T[c]))
  + (IF Left(c) \in Interior THEN 0 ELSE KxU16[Left(c)] * (T[Left(c)] - T[c]))
  + (IF Down(c) \in Interior THEN 0 ELSE KyU16[c] * (T[Down(c)] - T[c]))
  + (IF Up(c) \in Interior THEN 0 ELSE KyU16[Up(c)] * (T[Up(c)] - T[c]))

\* A face gives one cell what it takes from the other.
LEMMA OppositeFlux ==
  ASSUME NEW k \in Int, NEW a \in Int, NEW b \in Int
  PROVE  k * (a - b) \in Int /\ k * (a - b) = -(k * (b - a))
OBVIOUS

\* What a cell and its faces hold.
LEMMA AroundCell ==
  ASSUME NEW T \in Fields, NEW c \in Interior
  PROVE  /\ T[c] \in Int /\ T[Right(c)] \in Int /\ T[Left(c)] \in Int
         /\ T[Down(c)] \in Int /\ T[Up(c)] \in Int
         /\ KxU16[c] \in Int /\ KxU16[Left(c)] \in Int
         /\ KyU16[c] \in Int /\ KyU16[Up(c)] \in Int
<1>1. /\ c \in Cells /\ Right(c) \in Cells /\ Left(c) \in Cells
      /\ Down(c) \in Cells /\ Up(c) \in Cells
  BY InteriorNeighbours
<1> QED
  BY <1>1, FacesU16, GridAssumption DEF Fields, Temps

\* Summed over the interior, the exact fluxes are what flows in over its edge.
LEMMA NetIsInflow ==
  ASSUME NEW T \in Fields
  PROVE  /\ SumFunctionOnSet([c \in Interior |-> NetU16(T, c)], Interior) = EdgeInflow(T)
         /\ EdgeInflow(T) \in Int
<1> DEFINE rt == [c \in Interior |-> KxU16[c] * (T[Right(c)] - T[c])]
           lt == [c \in Interior |-> KxU16[Left(c)] * (T[Left(c)] - T[c])]
           dn == [c \in Interior |-> KyU16[c] * (T[Down(c)] - T[c])]
           up == [c \in Interior |-> KyU16[Up(c)] * (T[Up(c)] - T[c])]
           net == [c \in Interior |-> NetU16(T, c)]
           edge == [c \in Interior |-> EdgeU16(T, c)]
<1>1. ASSUME NEW c \in Interior
      PROVE  /\ rt[c] \in Int /\ lt[c] \in Int /\ dn[c] \in Int /\ up[c] \in Int
             /\ Right(c) \in Interior => lt[Right(c)] = -rt[c]
             /\ Down(c) \in Interior => up[Down(c)] = -dn[c]
             /\ net[c] = rt[c] + lt[c] + dn[c] + up[c]
             /\ edge[c] = (IF Right(c) \in Interior THEN 0 ELSE rt[c])
                       + (IF Left(c) \in Interior THEN 0 ELSE lt[c])
                       + (IF Down(c) \in Interior THEN 0 ELSE dn[c])
                       + (IF Up(c) \in Interior THEN 0 ELSE up[c])
  <2>1. rt[c] \in Int /\ lt[c] \in Int /\ dn[c] \in Int /\ up[c] \in Int
    BY AroundCell, OppositeFlux
  <2>2. Right(c) \in Interior => lt[Right(c)] = -rt[c]
    <3> SUFFICES ASSUME Right(c) \in Interior PROVE lt[Right(c)] = -rt[c]
      OBVIOUS
    <3>1. lt[Right(c)] = KxU16[c] * (T[c] - T[Right(c)])
      BY InteriorFinite
    <3> QED
      BY <3>1, AroundCell, OppositeFlux
  <2>3. Down(c) \in Interior => up[Down(c)] = -dn[c]
    <3> SUFFICES ASSUME Down(c) \in Interior PROVE up[Down(c)] = -dn[c]
      OBVIOUS
    <3>1. up[Down(c)] = KyU16[c] * (T[c] - T[Down(c)])
      BY InteriorFinite
    <3> QED
      BY <3>1, AroundCell, OppositeFlux
  <2>4. net[c] = rt[c] + lt[c] + dn[c] + up[c]
    BY DEF NetU16
  <2>5. edge[c] = (IF Right(c) \in Interior THEN 0 ELSE rt[c])
                       + (IF Left(c) \in Interior THEN 0 ELSE lt[c])
                       + (IF Down(c) \in Interior THEN 0 ELSE dn[c])
                       + (IF Up(c) \in Interior THEN 0 ELSE up[c])
    BY DEF EdgeU16
  <2> HIDE DEF rt, lt, dn, up, net, edge
  <2> QED
    BY <2>1, <2>2, <2>3, <2>4, <2>5
<1>2. EdgeInflow(T) = SumFunctionOnSet(edge, Interior)
  <2> DEFINE h == [c \in Interior |->
           (IF Right(c) \in Interior THEN 0 ELSE KxU16[c] * (T[Right(c)] - T[c]))
         + (IF Left(c) \in Interior THEN 0 ELSE KxU16[Left(c)] * (T[Left(c)] - T[c]))
         + (IF Down(c) \in Interior THEN 0 ELSE KyU16[c] * (T[Down(c)] - T[c]))
         + (IF Up(c) \in Interior THEN 0 ELSE KyU16[Up(c)] * (T[Up(c)] - T[c]))]
  <2>1. h = edge
    BY DEF EdgeU16
  <2>2. EdgeInflow(T) = SumFunction([c \in Interior |-> h[c]])
    BY DEF EdgeInflow, Total
  <2> HIDE DEF h
  <2>3. [c \in Interior |-> h[c]] = edge
    BY <2>1
  <2> QED
    BY <2>2, <2>3 DEF SumFunction
<1>3. Faces(rt, lt, dn, up, net, edge)
  <2> HIDE DEF rt, lt, dn, up, net, edge
  <2> QED
    BY <1>1 DEF Faces
<1> HIDE DEF rt, lt, dn, up, net, edge
<1>4. SumFunctionOnSet(net, Interior) = SumFunctionOnSet(edge, Interior)
        /\ SumFunctionOnSet(net, Interior) \in Int
  BY <1>3, InnerFacesCancel
<1> QED
  BY <1>2, <1>4 DEF net

\* A shift cuts off, it never adds.
LEMMA ShiftCuts ==
  ASSUME NEW x \in Int
  PROVE  Shr16(x) \in Int /\ Q16_ONE * Shr16(x) \in Int /\ Q16_ONE * Shr16(x) =< x
<1>1. Hot \in Nat \ {0}
  BY GridAssumption
<1>2. \A q \in Nat \ {0} : (x \div q) \in Int /\ q * (x \div q) \in Int /\ q * (x \div q) =< x
  OBVIOUS
<1> QED
  BY <1>1, <1>2 DEF Shr16, Q16_ONE

\* A step warms a cell by no more than its exact fluxes allow.
LEMMA CellGain ==
  ASSUME NEW T \in Fields, NEW c \in Interior
  PROVE  /\ Out(T, c) \in Int /\ NetU16(T, c) \in Int
         /\ (Q16_ONE * Q16_ONE) * (Out(T, c) - T[c]) =< RNum * NetU16(T, c)
<1> DEFINE a == KxU16[c] * (T[Right(c)] - T[c])
           b == KxU16[Left(c)] * (T[Left(c)] - T[c])
           d == KyU16[c] * (T[Down(c)] - T[c])
           e == KyU16[Up(c)] * (T[Up(c)] - T[c])
           F == FluxSum(T, c)
           G == Shr16(RNum * F)
<1>1. a \in Int /\ b \in Int /\ d \in Int /\ e \in Int
  BY AroundCell, OppositeFlux
<1>2. F = Shr16(a) + Shr16(b) + Shr16(d) + Shr16(e) /\ NetU16(T, c) = a + b + d + e
  BY DEF FluxSum, NetU16
<1>3. Q16_ONE \in Nat \ {0} /\ RNum \in Nat
  BY GridAssumption DEF Q16_ONE
<1>4. Out(T, c) = T[c] + G
  <2>1. 0 \in Temps /\ Hot \in Temps
    BY GridAssumption DEF Temps
  <2>2. \A x \in {c, Right(c), Left(c), Down(c), Up(c)} : 0 =< T[x] /\ T[x] =< Hot
    BY InteriorNeighbours, GridAssumption DEF Fields, Temps
  <2> QED
    BY <2>1, <2>2, OutBetween
<1> HIDE DEF a, b, d, e, F
<1>5. /\ Shr16(a) \in Int /\ Shr16(b) \in Int /\ Shr16(d) \in Int /\ Shr16(e) \in Int
      /\ Q16_ONE * Shr16(a) \in Int /\ Q16_ONE * Shr16(a) =< a
      /\ Q16_ONE * Shr16(b) \in Int /\ Q16_ONE * Shr16(b) =< b
      /\ Q16_ONE * Shr16(d) \in Int /\ Q16_ONE * Shr16(d) =< d
      /\ Q16_ONE * Shr16(e) \in Int /\ Q16_ONE * Shr16(e) =< e
  BY <1>1, ShiftCuts
<1>6. F \in Int /\ Q16_ONE * F \in Int /\ Q16_ONE * F =< NetU16(T, c) /\ NetU16(T, c) \in Int
  <2>1. \A q, w, x, y, z \in Int : q * (w + x + y + z) = q * w + q * x + q * y + q * z
    OBVIOUS
  <2>2. Q16_ONE * F = Q16_ONE * Shr16(a) + Q16_ONE * Shr16(b) + Q16_ONE * Shr16(d) + Q16_ONE * Shr16(e)
    BY <1>2, <1>3, <1>5, <2>1
  <2> QED
    BY <1>1, <1>2, <1>5, <2>2
<1>7. RNum * F \in Int /\ G \in Int /\ Q16_ONE * G \in Int /\ Q16_ONE * G =< RNum * F
  <2>1. RNum * F \in Int
    BY <1>3, <1>6
  <2> QED
    BY <2>1, ShiftCuts
<1> HIDE DEF G
<1>8. (Q16_ONE * Q16_ONE) * G =< RNum * NetU16(T, c)
  <2>1. \A q \in Nat, r \in Nat, g, f, n \in Int :
           q * g =< r * f /\ q * f =< n => (q * q) * g =< r * n
    <3> TAKE q \in Nat, r \in Nat, g, f, n \in Int
    <3> HAVE q * g =< r * f /\ q * f =< n
    <3>1. q * (q * g) =< q * (r * f)
      OBVIOUS
    <3>2. r * (q * f) =< r * n
      OBVIOUS
    <3>3. (q * q) * g = q * (q * g) /\ q * (r * f) = r * (q * f)
      OBVIOUS
    <3> QED
      BY <3>1, <3>2, <3>3
  <2> QED
    BY <1>3, <1>6, <1>7, <2>1
<1> QED
  BY <1>4, <1>6, <1>7, <1>8, AroundCell

\* No step of any behaviour makes heat by rounding: a closed grid never warms up
\* on its own, for every grid, comb and conductivity.
THEOREM NeverHeats == Spec => RoundingNeverHeats
<1> DEFINE S == StampSources(A)
           U == A'
           QQ == Q16_ONE * Q16_ONE
<1>1. ASSUME Typed, Step
      PROVE  Q16_ONE * Q16_ONE * (Total(A', Interior) - Total(S, Interior)) =< RNum * EdgeInflow(S)
  <2>1. S \in Fields
    BY <1>1, StampSourcesType DEF Typed
  <2>2. \A c \in Interior : U[c] = Out(S, c)
    BY <1>1, BoundaryKeepsInterior, InteriorNeighbours DEF Step, DiffuseQ16
  <2>3. Q16_ONE \in Nat /\ QQ \in Int /\ RNum \in Int
    BY GridAssumption DEF Q16_ONE
  <2> DEFINE u == [c \in Interior |-> U[c]]
             v == [c \in Interior |-> S[c]]
             gain == [c \in Interior |-> U[c] - S[c]]
             qgain == [c \in Interior |-> QQ * (U[c] - S[c])]
             net == [c \in Interior |-> NetU16(S, c)]
             rnet == [c \in Interior |-> RNum * NetU16(S, c)]
  <2> HIDE DEF U, QQ, S
  <2>4. ASSUME NEW c \in Interior
        PROVE  /\ u[c] \in Int /\ v[c] \in Int /\ gain[c] \in Int /\ u[c] = v[c] + gain[c]
               /\ qgain[c] = QQ * gain[c] /\ qgain[c] \in Int
               /\ net[c] \in Int /\ rnet[c] = RNum * net[c] /\ rnet[c] \in Int
               /\ qgain[c] =< rnet[c]
    <3>1. U[c] \in Int /\ S[c] \in Int /\ NetU16(S, c) \in Int
            /\ QQ * (U[c] - S[c]) =< RNum * NetU16(S, c)
      BY <2>1, <2>2, CellGain, AroundCell DEF QQ
    <3> QED
      BY <2>3, <3>1
  <2> HIDE DEF u, v, gain, qgain, net, rnet
  <2>5. Total(U, Interior) = SumFunctionOnSet(u, Interior)
          /\ Total(S, Interior) = SumFunctionOnSet(v, Interior)
    BY DEF Total, SumFunction, u, v
  <2>6. SumFunctionOnSet(u, Interior) = SumFunctionOnSet(v, Interior) + SumFunctionOnSet(gain, Interior)
    BY <2>4, InteriorFinite, SumPlus
  <2>7. SumFunctionOnSet(v, Interior) \in Int /\ SumFunctionOnSet(gain, Interior) \in Int
    BY <2>4, InteriorFinite, SumType
  <2>8. SumFunctionOnSet(qgain, Interior) = QQ * SumFunctionOnSet(gain, Interior)
    BY <2>3, <2>4, InteriorFinite, SumTimes
  <2>9. SumFunctionOnSet(rnet, Interior) = RNum * SumFunctionOnSet(net, Interior)
    BY <2>3, <2>4, InteriorFinite, SumTimes
  <2>10. SumFunctionOnSet(qgain, Interior) =< SumFunctionOnSet(rnet, Interior)
    BY <2>4, InteriorFinite, SumAtMost
  <2>11. SumFunctionOnSet(net, Interior) = EdgeInflow(S)
    BY <2>1, NetIsInflow DEF net
  <2>12. Total(U, Interior) - Total(S, Interior) = SumFunctionOnSet(gain, Interior)
    BY <2>5, <2>6, <2>7
  <2>13. QQ * (Total(U, Interior) - Total(S, Interior)) =< RNum * EdgeInflow(S)
    BY <2>8, <2>9, <2>10, <2>11, <2>12
  <2> QED
    BY <2>13 DEF U, QQ, S
<1>2. Typed /\ [Next]_vars =>
        [Step => LET Z == StampSources(A)
                 IN  Q16_ONE * Q16_ONE * (Total(A', Interior) - Total(Z, Interior))
                       =< RNum * EdgeInflow(Z)]_vars
  BY <1>1
<1> QED
  BY <1>2, TypeCorrect, PTL DEF Spec, RoundingNeverHeats

=============================================================================
