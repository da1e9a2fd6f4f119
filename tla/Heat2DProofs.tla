--------------------------- MODULE Heat2DProofs ---------------------------
(***************************************************************************)
(* Heat2D for every grid, comb, brush, key set and queue bound: types,     *)
(* memory, screen, and that it implements HeatField.                       *)
(***************************************************************************)
EXTENDS Heat2D, HeatGridProofs

-----------------------------------------------------------------------------
\* ClampI32 with sane bounds returns a value within them.
LEMMA ClampBetween ==
  ASSUME NEW v \in Int, NEW lo \in Int, NEW hi \in Int, lo =< hi
  PROVE  ClampI32(v, lo, hi) \in lo .. hi
  BY DEF ClampI32

\* The brush temperatures are temperatures.
LEMMA BrushTempsType ==
  /\ {Temp1, Temp2, Hot} \subseteq Temps
  /\ \A k \in DOMAIN KeyTemps : k \in AllKeys /\ KeyTemps[k] \in {Temp1, Temp2, Hot}
  <1>1. Hot \in Temps
    BY GridAssumption DEF Temps
  <1>2. {Temp1, Temp2, Hot} \subseteq Temps
    BY <1>1, AppAssumption
  <1>3. \A k \in DOMAIN KeyTemps : k \in AllKeys /\ KeyTemps[k] \in {Temp1, Temp2, Hot}
    BY DEF KeyTemps, AllKeys
  <1> QED
    BY <1>2, <1>3

\* Reading a key takes it from the queue.
LEMMA ReadType ==
  ASSUME TypeOK, NEW k, Read(k)
  PROVE  conIn' \in Seq(AllKeys)
  BY DEF TypeOK, Read

\* A black screen is a screen and an empty queue is a queue.
LEMMA EmptyScreen ==
  <<>> \in Seq(AllKeys) /\ <<>> \in Seq(Views) /\ Len(<<>>) =< 1
  OBVIOUS

-----------------------------------------------------------------------------
\* Every variable keeps its type, so every temperature stays within 0 .. Hot and
\* the brush radius within its clamp, for ever.
THEOREM TypeCorrect == Spec => []TypeOK
  <1> USE DEF TypeOK, Loop
  <1>1. Init => TypeOK
    <2>1. /\ Cold \in Fields /\ RadInit \in RadMin .. RadMax /\ Hot \in {Temp1, Temp2, Hot}
          /\ 0 \in Palettes /\ StartCell \in CursorCells /\ BC_DIRICHLET_COLD \in BoundaryModes
      BY ColdType, AppAssumption DEF Palettes, BoundaryModes, BC_DIRICHLET_COLD, BC_COUNT
    <2> QED
      BY <2>1, EmptyScreen DEF Init, Buffers
  <1>2. TypeOK /\ [Next]_vars => TypeOK'
    <2> SUFFICES ASSUME TypeOK, [Next]_vars
                 PROVE  TypeOK'
      OBVIOUS
    <2> USE DEF proc, heap, modes, brush, look
    <2>1. CASE RejectGop
      BY <2>1 DEF RejectGop, Exit
    <2>2. CASE AllocatePools
      <3>1. Cold \in Fields /\ 0 \in Palettes /\ "p1" \in Buffers /\ "p2" \in Buffers
        BY ColdType, AppAssumption DEF Palettes, Buffers
      <3> QED
        BY <2>2, <3>1 DEF AllocatePools
    <2>3. CASE OutOfMemory
      BY <2>3 DEF OutOfMemory, Exit
    <2>4. CASE Setup
      <3>1. /\ RadInit \in RadMin .. RadMax /\ Hot \in {Temp1, Temp2, Hot}
            /\ StartCell \in CursorCells /\ BC_DIRICHLET_COLD \in BoundaryModes
        BY AppAssumption DEF BoundaryModes, BC_DIRICHLET_COLD, BC_COUNT
      <3> QED
        BY <2>4, <3>1, EmptyScreen DEF Setup
    <2>5. CASE KeyEsc
      BY <2>5, ReadType DEF KeyEsc
    <2>6. CASE KeySpace
      BY <2>6, ReadType DEF KeySpace, Handle
    <2>7. CASE KeyReset
      BY <2>7, ReadType, ColdType DEF KeyReset, Handle
    <2>8. CASE KeyClear
      BY <2>8, ReadType, ColdType DEF KeyClear, Handle
    <2>9. CASE KeyPalette
      <3>1. (paletteIdx + 1) % NPalettes \in Palettes
        BY AppAssumption DEF Palettes
      <3> QED
        BY <2>9, <3>1, ReadType DEF KeyPalette, Handle
    <2>10. CASE KeyBoundary
      BY <2>10, ReadType DEF KeyBoundary, Handle, BoundaryModes, BC_COUNT
    <2>11. CASE KeyPlus
      <3>1. brushRad + RadStep \in Int /\ RadMin \in Int /\ RadMax \in Int /\ RadMin =< RadMax
        BY AppAssumption
      <3>2. ClampI32(brushRad + RadStep, RadMin, RadMax) \in RadMin .. RadMax
        BY <3>1, ClampBetween
      <3> QED
        BY <2>11, <3>2, ReadType DEF KeyPlus, Handle
    <2>12. CASE KeyMinus
      <3>1. brushRad - RadStep \in Int /\ RadMin \in Int /\ RadMax \in Int /\ RadMin =< RadMax
        BY AppAssumption
      <3>2. ClampI32(brushRad - RadStep, RadMin, RadMax) \in RadMin .. RadMax
        BY <3>1, ClampBetween
      <3> QED
        BY <2>12, <3>2, ReadType DEF KeyMinus, Handle
    <2>13. CASE KeyTemp
      <3>1. PICK k \in DOMAIN KeyTemps : Handle(k) /\ brushTemp' = KeyTemps[k]
        BY <2>13 DEF KeyTemp
      <3>2. brushTemp' \in {Temp1, Temp2, Hot}
        BY <3>1, BrushTempsType
      <3>3. conIn' \in Seq(AllKeys)
        BY <3>1, ReadType DEF Handle
      <3> QED
        BY <2>13, <3>1, <3>2, <3>3 DEF KeyTemp, Handle
    <2>14. CASE KeyOther
      BY <2>14, ReadType DEF KeyOther
    <2>15. CASE KeysDrained
      BY <2>15 DEF KeysDrained
    <2>16. ASSUME NEW c \in CursorCells, PaintAt(c) PROVE TypeOK'
      <3>1. brushTemp \in Temps
        BY BrushTempsType
      <3>2. StampDisk(mem[A], c[1], c[2], brushRad, brushTemp) \in Fields
        BY <3>1, RaiseToType DEF StampDisk
      <3> QED
        BY <2>16, <3>2 DEF PaintAt
    <2>17. ASSUME NEW c \in CursorCells, MoveCursor(c) PROVE TypeOK'
      BY <2>17 DEF MoveCursor
    <2>18. CASE NoPointerEvent
      BY <2>18 DEF NoPointerEvent
    <2>19. CASE Step
      <3> DEFINE S == StampSources(mem[A])
                 U == ApplyBoundary(Diffuse(S, mem[B]), bc)
      <3>1. S \in Fields
        BY StampSourcesType
      <3>2. U \in Fields
        BY <3>1, DiffuseType, ApplyBoundaryType
      <3>3. mem' = [mem EXCEPT ![A] = S, ![B] = U]
        BY <2>19 DEF Step
      <3> HIDE DEF S, U
      <3>4. mem' \in [Buffers -> Fields]
        BY <3>1, <3>2, <3>3
      <3> QED
        BY <2>19, <3>4 DEF Step
    <2>20. CASE SkipStep
      BY <2>20 DEF SkipStep
    <2>21. CASE Render
      <3>1. View \in Views
        BY DEF View, Views
      <3>2. <<View>> \in Seq(Views) /\ Len(<<View>>) =< 1
        BY <3>1
      <3> QED
        BY <2>21, <3>2 DEF Render
    <2>22. CASE SkipRender
      BY <2>22 DEF SkipRender
    <2>23. CASE Stall
      BY <2>23 DEF Stall
    <2>24. CASE Release
      BY <2>24 DEF Release, Exit
    <2>25. CASE User
      <3>1. PICK k \in Keys : Type(k)
        BY <2>25 DEF User
      <3>2. Append(conIn, k) \in Seq(AllKeys)
        BY AppAssumption
      <3> QED
        BY <3>1, <3>2 DEF Type
    <2>26. CASE Exited \/ UNCHANGED vars
      BY <2>26 DEF Exited, vars
    <2> QED
      BY <2>1, <2>2, <2>3, <2>4, <2>5, <2>6, <2>7, <2>8, <2>9, <2>10,
         <2>11, <2>12, <2>13, <2>14, <2>15, <2>16, <2>17, <2>18,
         <2>19, <2>20, <2>21, <2>22, <2>23, <2>24, <2>25, <2>26
         DEF Next, Program, Keyboard, PollPointer
  <1> QED
    BY <1>1, <1>2, PTL DEF Spec

-----------------------------------------------------------------------------
\* The steps of the loop that neither leave it nor touch what is allocated.
LEMMA LoopSteps ==
  ASSUME Keyboard \/ PollPointer \/ SkipStep \/ Render \/ SkipRender \/ Stall
  PROVE  /\ pc \in Loop /\ pc' \in Loop \cup {"done"}
         /\ UNCHANGED <<live, A, B>>
  <1> USE DEF proc, heap, Loop
  <1>1. CASE Keyboard
    BY <1>1 DEF Keyboard, KeyEsc, KeySpace, KeyReset, KeyClear, KeyPalette, KeyBoundary,
                KeyPlus, KeyMinus, KeyTemp, KeyOther, KeysDrained, Handle, Read
  <1>2. CASE PollPointer
    BY <1>2 DEF PollPointer, PaintAt, MoveCursor, NoPointerEvent
  <1>3. CASE SkipStep \/ Render \/ SkipRender \/ Stall
    BY <1>3 DEF SkipStep, Render, SkipRender, Stall
  <1> QED
    BY <1>1, <1>2, <1>3

\* No swap loses a buffer, the loop never runs without its six pools, and every
\* exit path frees exactly what was allocated.
THEOREM PoolsSafe == Spec => []PoolsOK
  <1>1. Init => PoolsOK
    BY DEF Init, PoolsOK, Buffers, Loop
  <1>2. TypeOK /\ PoolsOK /\ [Next]_vars => PoolsOK'
    <2> SUFFICES ASSUME TypeOK, PoolsOK, [Next]_vars
                 PROVE  PoolsOK'
      OBVIOUS
    <2> USE DEF PoolsOK, proc, heap
    <2>1. CASE RejectGop
      BY <2>1 DEF RejectGop, Exit, Loop
    <2>2. CASE AllocatePools
      BY <2>2 DEF AllocatePools, Buffers, Loop
    <2>3. CASE OutOfMemory
      <3>1. live' = live \ ({p \in {A, B} : p \in live} \cup {p \in Tables : p \in live})
        BY <2>3 DEF OutOfMemory
      <3>2. live' = {}
        BY <3>1 DEF TypeOK, Pools
      <3> QED
        BY <2>3, <3>2 DEF OutOfMemory, Exit, Loop
    <2>4. CASE Setup
      BY <2>4 DEF Setup, Loop
    <2>5. CASE Keyboard \/ PollPointer \/ SkipStep \/ Render \/ SkipRender \/ Stall
      BY <2>5, LoopSteps DEF Loop
    <2>6. CASE Step
      BY <2>6 DEF Step, Loop
    <2>7. CASE Release
      <3>1. live = Pools /\ live' = live \ ({A, B} \cup Tables)
        BY <2>7 DEF Release
      <3>2. live' = {}
        BY <3>1 DEF Pools
      <3> QED
        BY <2>7, <3>2 DEF Release, Exit, Loop
    <2>8. CASE User
      BY <2>8 DEF User, Type
    <2>9. CASE Exited \/ UNCHANGED vars
      BY <2>9 DEF Exited, vars
    <2> QED
      BY <2>1, <2>2, <2>3, <2>4, <2>5, <2>6, <2>7, <2>8, <2>9 DEF Next, Program
  <1> QED
    BY <1>1, <1>2, TypeCorrect, PTL DEF Spec

-----------------------------------------------------------------------------
\* Whenever no redraw is pending the screen shows the current field, palette,
\* label and cursor.
THEOREM ScreenSafe == Spec => []ScreenCurrent
  <1>1. Init => ScreenCurrent
    BY DEF Init, ScreenCurrent, Loop
  <1>2. ScreenCurrent /\ [Next]_vars => ScreenCurrent'
    <2> SUFFICES ASSUME ScreenCurrent, [Next]_vars
                 PROVE  ScreenCurrent'
      OBVIOUS
    <2> USE DEF ScreenCurrent, View, proc, heap, modes, brush, look
    <2>1. CASE RejectGop \/ AllocatePools \/ OutOfMemory
      BY <2>1 DEF RejectGop, AllocatePools, OutOfMemory, Exit, Loop
    <2>2. CASE Setup
      BY <2>2 DEF Setup
    <2>3. CASE KeyEsc
      BY <2>3 DEF KeyEsc, Loop
    <2>4. CASE KeySpace \/ KeyReset \/ KeyClear \/ KeyBoundary
      BY <2>4 DEF KeySpace, KeyReset, KeyClear, KeyBoundary, Handle
    <2>5. CASE KeyPalette
      BY <2>5 DEF KeyPalette, Handle
    <2>6. CASE KeyPlus \/ KeyMinus \/ KeyTemp
      BY <2>6 DEF KeyPlus, KeyMinus, KeyTemp, Handle
    <2>7. CASE KeyOther
      BY <2>7 DEF KeyOther, Read, Loop
    <2>8. CASE KeysDrained
      BY <2>8 DEF KeysDrained, Loop
    <2>9. ASSUME NEW c, PaintAt(c) \/ MoveCursor(c) PROVE ScreenCurrent'
      BY <2>9 DEF PaintAt, MoveCursor
    <2>10. CASE NoPointerEvent
      BY <2>10 DEF NoPointerEvent, Loop
    <2>11. CASE Step
      BY <2>11 DEF Step
    <2>12. CASE SkipStep
      BY <2>12 DEF SkipStep, Loop
    <2>13. CASE Render
      BY <2>13 DEF Render
    <2>14. CASE SkipRender
      BY <2>14 DEF SkipRender, Loop
    <2>15. CASE Stall
      BY <2>15 DEF Stall, Loop
    <2>16. CASE Release
      BY <2>16 DEF Release, Exit, Loop
    <2>17. CASE User
      BY <2>17 DEF User, Type
    <2>18. CASE Exited \/ UNCHANGED vars
      BY <2>18 DEF Exited, vars
    <2> QED
      BY <2>1, <2>2, <2>3, <2>4, <2>5, <2>6, <2>7, <2>8, <2>9, <2>10,
         <2>11, <2>12, <2>13, <2>14, <2>15, <2>16, <2>17, <2>18
         DEF Next, Program, Keyboard, PollPointer
  <1> QED
    BY <1>1, <1>2, PTL DEF Spec

-----------------------------------------------------------------------------
\* HeatField's grid operators, instantiated, are the program's own.
LEMMA SameGrid ==
  /\ HF!Cells = Cells /\ HF!Temps = Temps /\ HF!Cold = Cold
  /\ HF!BC_DIRICHLET_COLD = BC_DIRICHLET_COLD /\ HF!BC_COUNT = BC_COUNT
  /\ \A T, x, y, r, v : HF!StampDisk(T, x, y, r, v) = StampDisk(T, x, y, r, v)
  /\ \A T : HF!StampSources(T) = StampSources(T)
  /\ \A T, U : HF!Diffuse(T, U) = Diffuse(T, U)
  /\ \A T, m : HF!ApplyBoundary(T, m) = ApplyBoundary(T, m)
  <1>1. /\ HF!Cells = Cells /\ HF!Temps = Temps /\ HF!Interior = Interior
        /\ \A v, lo, hi : HF!ClampI32(v, lo, hi) = ClampI32(v, lo, hi)
    BY DEF HF!Cells, Cells, HF!Temps, Temps, HF!Cols, Cols, HF!Rows, Rows, HF!Interior, Interior,
           HF!ClampI32, ClampI32
  <1>2. HF!Cold = Cold
    BY <1>1 DEF HF!Cold, Cold
  <1>3. HF!BC_DIRICHLET_COLD = BC_DIRICHLET_COLD /\ HF!BC_COUNT = BC_COUNT
        /\ HF!BC_NEUMANN_INSULATED = BC_NEUMANN_INSULATED
    BY DEF HF!BC_DIRICHLET_COLD, BC_DIRICHLET_COLD, HF!BC_COUNT, BC_COUNT,
           HF!BC_NEUMANN_INSULATED, BC_NEUMANN_INSULATED
  <1>4. \A T, S, v : HF!RaiseTo(T, S, v) = RaiseTo(T, S, v)
    BY <1>1 DEF HF!RaiseTo, RaiseTo
  <1>5. \A x, y, r : HF!Disk(x, y, r) = Disk(x, y, r)
    BY <1>1 DEF HF!Disk, Disk
  <1>6. \A T, x, y, r, v : HF!StampDisk(T, x, y, r, v) = StampDisk(T, x, y, r, v)
    BY <1>4, <1>5 DEF HF!StampDisk, StampDisk
  <1>7. \A r : HF!RectCells(r) = RectCells(r)
    BY <1>1 DEF HF!RectCells, RectCells
  <1>8. HF!SourceCells = SourceCells
    BY <1>7 DEF HF!SourceCells, SourceCells
  <1>9. \A T : HF!StampSources(T) = StampSources(T)
    BY <1>4, <1>8 DEF HF!StampSources, StampSources
  <1>10. \A c : /\ HF!Right(c) = Right(c) /\ HF!Left(c) = Left(c)
                /\ HF!Down(c) = Down(c) /\ HF!Up(c) = Up(c)
    BY DEF HF!Right, Right, HF!Left, Left, HF!Down, Down, HF!Up, Up
  <1>11. \A a, b : HF!KFaceHarmonic(a, b) = KFaceHarmonic(a, b)
    BY DEF HF!KFaceHarmonic, KFaceHarmonic
  <1>12. HF!K = K
    BY <1>1 DEF HF!K, K
  <1>13. HF!Kx = Kx
    BY <1>1, <1>10, <1>11, <1>12 DEF HF!Kx, Kx
  <1>14. HF!Ky = Ky
    BY <1>1, <1>10, <1>11, <1>12 DEF HF!Ky, Ky
  <1>15. \A T, c : HF!Conducted(T, c) = Conducted(T, c)
    BY <1>10, <1>13, <1>14 DEF HF!Conducted, Conducted, HF!NetFlux, NetFlux
  <1>16. \A T, U : HF!Diffuse(T, U) = Diffuse(T, U)
    BY <1>1, <1>15 DEF HF!Diffuse, Diffuse
  <1>17. \A c : HF!Inward(c) = Inward(c) /\ HF!InwardY(c) = InwardY(c)
    BY <1>1 DEF HF!Inward, Inward, HF!InwardY, InwardY
  <1>18. \A T, m : HF!ApplyBoundary(T, m) = ApplyBoundary(T, m)
    BY <1>1, <1>3, <1>17 DEF HF!ApplyBoundary, ApplyBoundary
  <1> QED
    BY <1>1, <1>2, <1>3, <1>6, <1>9, <1>16, <1>18

\* The parameters Heat2D gives HeatField are the ones HeatField assumes.
LEMMA BrushLegal == HF!BrushAssumption
  <1>1. RadMin .. RadMax \subseteq Nat
    BY AppAssumption
  <1> QED
    BY <1>1, AppAssumption, BrushTempsType, SameGrid DEF HF!BrushAssumption

\* The step computed in the second buffer, over whatever that buffer held, is
\* the step of the field.
LEMMA StaleBufferForgotten ==
  ASSUME NEW T, NEW U, NEW m
  PROVE  ApplyBoundary(Diffuse(StampSources(T), U), m) = HF!Stepped(T, m)
  <1> DEFINE S == StampSources(T)
  <1>1. \A c \in Interior : Diffuse(S, U)[c] = Diffuse(S, S)[c]
    BY InteriorNeighbours DEF Diffuse
  <1>2. ApplyBoundary(Diffuse(S, U), m) = ApplyBoundary(Diffuse(S, S), m)
    BY <1>1, BoundaryForgetsEdges
  <1> QED
    BY <1>2, SameGrid DEF HF!Stepped

\* Until the loop starts, the modes are the initial ones.
Fresh == pc \in {"start", "nomem", "setup"} => bc = BC_DIRICHLET_COLD /\ Paused = FALSE

\* So HeatField's initial modes are the modes the loop starts with, and Setup,
\* which assigns them, changes nothing.
LEMMA FreshInvariant == Spec => []Fresh
  <1>1. Init => Fresh
    BY DEF Init, Fresh
  <1>2. Fresh /\ [Next]_vars => Fresh'
    <2> SUFFICES ASSUME Fresh, [Next]_vars
                 PROVE  Fresh'
      OBVIOUS
    <2> USE DEF Fresh, proc, modes
    <2>1. CASE RejectGop \/ AllocatePools \/ OutOfMemory \/ Setup \/ Release
      BY <2>1 DEF RejectGop, AllocatePools, OutOfMemory, Setup, Release, Exit
    <2>2. CASE Keyboard \/ PollPointer \/ SkipStep \/ Render \/ SkipRender \/ Stall
      BY <2>2, LoopSteps DEF Loop
    <2>3. CASE Step
      BY <2>3 DEF Step
    <2>4. CASE User \/ Exited \/ UNCHANGED vars
      BY <2>4 DEF User, Type, Exited, vars
    <2> QED
      BY <2>1, <2>2, <2>3, <2>4 DEF Next, Program
  <1> QED
    BY <1>1, <1>2, PTL DEF Spec

\* The two-buffer program implements the one-field specification: every step is
\* a paint, a clear, a mode change, an advance or nothing at all to the field.
THEOREM Implements == Spec => Refinement
  <1>1. Init => HF!Init
    BY SameGrid DEF Init, HF!Init, Buffers
  <1>2. TypeOK /\ PoolsOK /\ Fresh /\ [Next]_vars => [HF!Next]_(HF!vars)
    <2> SUFFICES ASSUME TypeOK, PoolsOK, Fresh, [Next]_vars
                 PROVE  HF!Next \/ UNCHANGED HF!vars
      OBVIOUS
    <2> USE DEF HF!vars, proc, heap, modes, brush, look
    <2>0. /\ mem \in [Buffers -> Fields] /\ A \in Buffers /\ B \in Buffers /\ A # B
      BY DEF TypeOK, PoolsOK, Buffers
    <2>1. CASE RejectGop \/ OutOfMemory \/ Release
      BY <2>1 DEF RejectGop, OutOfMemory, Release
    <2>2. CASE AllocatePools
      <3>1. mem'[A'] = Cold
        BY <2>2 DEF AllocatePools, Buffers
      <3>2. HF!Clear
        BY <2>2, <3>1, SameGrid DEF AllocatePools, HF!Clear
      <3> QED
        BY <3>2 DEF HF!Next
    <2>3. CASE Setup
      BY <2>3 DEF Setup, Fresh
    <2>4. CASE KeyEsc \/ KeyOther \/ KeysDrained
      BY <2>4 DEF KeyEsc, KeyOther, KeysDrained
    <2>5. CASE KeySpace
      <3>1. HF!TogglePause
        BY <2>5 DEF KeySpace, HF!TogglePause
      <3> QED
        BY <3>1 DEF HF!Next
    <2>6. CASE KeyReset
      <3>1. mem'[A'] = Cold
        BY <2>0, <2>6 DEF KeyReset
      <3>2. HF!Clear
        BY <2>6, <3>1, SameGrid DEF KeyReset, HF!Clear
      <3> QED
        BY <3>2 DEF HF!Next
    <2>7. CASE KeyClear
      <3>1. mem'[A'] = Cold
        BY <2>0, <2>7 DEF KeyClear
      <3>2. HF!Clear
        BY <2>7, <3>1, SameGrid DEF KeyClear, HF!Clear
      <3> QED
        BY <3>2 DEF HF!Next
    <2>8. CASE KeyPalette \/ KeyPlus \/ KeyMinus \/ KeyTemp
      BY <2>8 DEF KeyPalette, KeyPlus, KeyMinus, KeyTemp
    <2>9. CASE KeyBoundary
      <3>1. HF!CycleBoundary
        BY <2>9, SameGrid DEF KeyBoundary, HF!CycleBoundary
      <3> QED
        BY <3>1 DEF HF!Next
    <2>10. ASSUME NEW c \in CursorCells, PaintAt(c)
           PROVE  HF!Next
      <3>1. mem'[A'] = StampDisk(mem[A], c[1], c[2], brushRad, brushTemp)
        BY <2>0, <2>10 DEF PaintAt
      <3>2. brushRad \in RadMin .. RadMax /\ brushTemp \in {Temp1, Temp2, Hot}
        BY DEF TypeOK
      <3>3. HF!Paint
        BY <2>10, <3>1, <3>2, SameGrid DEF PaintAt, HF!Paint
      <3> QED
        BY <3>3 DEF HF!Next
    <2>11. ASSUME NEW c \in CursorCells, MoveCursor(c)
           PROVE  UNCHANGED HF!vars
      BY <2>11 DEF MoveCursor
    <2>12. CASE NoPointerEvent
      BY <2>12 DEF NoPointerEvent
    <2>13. CASE Step
      <3> DEFINE S == StampSources(mem[A])
                 U == ApplyBoundary(Diffuse(S, mem[B]), bc)
      <3>1. /\ mem' = [mem EXCEPT ![A] = S, ![B] = U]
            /\ A' = B
            /\ ~Paused /\ UNCHANGED <<bc, Paused>>
        BY <2>13 DEF Step
      <3>2. U = HF!Stepped(mem[A], bc)
        BY StaleBufferForgotten
      <3> HIDE DEF S, U
      <3>3. mem'[A'] = U
        BY <2>0, <3>1
      <3>4. HF!Advance
        BY <3>1, <3>2, <3>3 DEF HF!Advance
      <3> QED
        BY <3>4 DEF HF!Next
    <2>14. CASE SkipStep \/ Render \/ SkipRender \/ Stall
      BY <2>14 DEF SkipStep, Render, SkipRender, Stall
    <2>15. CASE User \/ Exited \/ UNCHANGED vars
      BY <2>15 DEF User, Type, Exited, vars
    <2> QED
      BY <2>1, <2>2, <2>3, <2>4, <2>5, <2>6, <2>7, <2>8, <2>9, <2>10, <2>11,
         <2>12, <2>13, <2>14, <2>15
         DEF Next, Program, Keyboard, PollPointer
  <1>3. HF!Init /\ [][HF!Next]_(HF!vars) => HF!Spec
    BY DEF HF!Spec
  <1> QED
    BY <1>1, <1>2, <1>3, TypeCorrect, PoolsSafe, FreshInvariant, PTL DEF Spec, Refinement

=============================================================================
