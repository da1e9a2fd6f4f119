-------------------------- MODULE HeatFieldProofs --------------------------
(***************************************************************************)
(* HeatField for every grid: its type invariant and the maximum principle. *)
(***************************************************************************)
EXTENDS HeatField, HeatGridProofs

\* One step of a field is a field.
LEMMA SteppedType ==
  ASSUME NEW T \in Fields, NEW m
  PROVE  Stepped(T, m) \in Fields
  <1>1. StampSources(T) \in Fields
    BY StampSourcesType
  <1>2. Diffuse(StampSources(T), StampSources(T)) \in Fields
    BY <1>1, DiffuseType
  <1> QED
    BY <1>2, ApplyBoundaryType DEF Stepped

\* Painting, clearing and stepping never leave a temperature outside 0 .. Hot,
\* whatever the conductivities and for every baseR up to a quarter.
THEOREM TypeCorrect == Spec => []TypeOK
  <1>1. Init => TypeOK
    <2>1. BC_DIRICHLET_COLD \in BoundaryModes
      BY DEF BoundaryModes, BC_DIRICHLET_COLD, BC_COUNT
    <2> QED
      BY <2>1, ColdType DEF Init, TypeOK
  <1>2. TypeOK /\ [Next]_vars => TypeOK'
    <2> SUFFICES ASSUME TypeOK, [Next]_vars
                 PROVE  TypeOK'
      OBVIOUS
    <2> USE DEF TypeOK
    <2>1. CASE Paint
      BY <2>1, BrushAssumption, RaiseToType DEF Paint, StampDisk
    <2>2. CASE Clear
      BY <2>2, ColdType DEF Clear
    <2>3. CASE CycleBoundary
      BY <2>3 DEF CycleBoundary, BoundaryModes, BC_COUNT
    <2>4. CASE TogglePause
      BY <2>4 DEF TogglePause
    <2>5. CASE Advance
      BY <2>5, SteppedType DEF Advance
    <2>6. CASE UNCHANGED vars
      BY <2>6 DEF vars
    <2> QED
      BY <2>1, <2>2, <2>3, <2>4, <2>5, <2>6 DEF Next
  <1> QED
    BY <1>1, <1>2, PTL DEF Spec

-----------------------------------------------------------------------------
\* Of a cell and its neighbours one is the coldest and one the hottest.
LEMMA Extremes ==
  ASSUME NEW T \in Fields, NEW c \in Interior
  PROVE  /\ \E d \in Neighbourhood(c) : \A e \in Neighbourhood(c) : T[d] =< T[e]
         /\ \E d \in Neighbourhood(c) : \A e \in Neighbourhood(c) : T[e] =< T[d]
         /\ \A d \in Neighbourhood(c) : T[d] \in Int
  <1>1. /\ T[c] \in Int /\ T[Right(c)] \in Int /\ T[Left(c)] \in Int
        /\ T[Down(c)] \in Int /\ T[Up(c)] \in Int
    BY GridAssumption, InteriorNeighbours DEF Fields, Temps
  <1> QED
    BY <1>1 DEF Neighbourhood

\* Conduction obeys the maximum principle, whatever the comb and the
\* conductivities.
LEMMA SteppedWithin ==
  ASSUME NEW S \in Fields, NEW m
  PROVE  WithinNeighbours(S, ApplyBoundary(Diffuse(S, S), m))
  <1> SUFFICES ASSUME NEW c \in Interior
               PROVE  /\ \E d \in Neighbourhood(c) : S[d] =< Conducted(S, c)
                      /\ \E d \in Neighbourhood(c) : Conducted(S, c) =< S[d]
    BY BoundaryKeepsInterior, InteriorNeighbours DEF WithinNeighbours, Diffuse
  <1>1. PICK low \in Neighbourhood(c) : \A e \in Neighbourhood(c) : S[low] =< S[e]
    BY Extremes
  <1>2. PICK high \in Neighbourhood(c) : \A e \in Neighbourhood(c) : S[e] =< S[high]
    BY Extremes
  <1>3. S[low] \in Int /\ S[high] \in Int
    BY Extremes
  <1>4. Conducted(S, c) \in S[low] .. S[high]
    BY <1>1, <1>2, <1>3, ConductedBetween DEF Neighbourhood
  <1> QED
    BY <1>3, <1>4

\* Applying a boundary condition twice is applying it once.
LEMMA BoundaryIdempotent ==
  ASSUME NEW T \in Fields, NEW m
  PROVE  ApplyBoundary(ApplyBoundary(T, m), m) = ApplyBoundary(T, m)
  <1>1. \A c \in Interior : ApplyBoundary(T, m)[c] = T[c]
    BY BoundaryKeepsInterior
  <1> QED
    BY <1>1, BoundaryForgetsEdges

\* The solver keeps the law in every behaviour, on every grid and for every
\* comb, conductivity and stable ratio.
THEOREM KeepsLaw == Spec => LawSpec
  <1>1. ASSUME TypeOK, Advance
        PROVE  LawfulAdvance
    <2> DEFINE S == StampSources(field)
    <2>1. S \in Fields
      BY <1>1, StampSourcesType DEF TypeOK
    <2>2. field' = ApplyBoundary(Diffuse(S, S), mode)
      BY <1>1 DEF Advance, Stepped
    <2>3. Diffuse(S, S) \in Fields
      BY <2>1, DiffuseType
    <2> HIDE DEF S
    <2>4. WithinNeighbours(S, field')
      BY <2>1, <2>2, SteppedWithin
    <2>5. field' = ApplyBoundary(field', mode)
      BY <2>2, <2>3, BoundaryIdempotent
    <2> QED
      BY <1>1, <2>4, <2>5 DEF Advance, LawfulAdvance, S
  <1>2. TypeOK /\ [Next]_vars => [LawNext]_vars
    BY <1>1 DEF Next, LawNext
  <1> QED
    BY <1>2, TypeCorrect, PTL DEF Spec, LawSpec

-----------------------------------------------------------------------------
(***************************************************************************)
(* The heat balance.                                                       *)
(***************************************************************************)
\* What enters an interior cell through its faces to the edge of the grid.
EdgeFlux(T, c) ==
    (IF Right(c) \in Interior THEN 0 ELSE Kx[c] * (T[Right(c)] - T[c]))
  + (IF Left(c) \in Interior THEN 0 ELSE Kx[Left(c)] * (T[Left(c)] - T[c]))
  + (IF Down(c) \in Interior THEN 0 ELSE Ky[c] * (T[Down(c)] - T[c]))
  + (IF Up(c) \in Interior THEN 0 ELSE Ky[Up(c)] * (T[Up(c)] - T[c]))

\* A face gives one cell what it takes from the other.
LEMMA Antisymmetric ==
  ASSUME NEW k \in Int, NEW a \in Int, NEW b \in Int
  PROVE  k * (a - b) \in Int /\ k * (a - b) = -(k * (b - a))
OBVIOUS

\* Only the faces to the edge count in the total.
LEMMA TotalIsEdge ==
  ASSUME NEW T \in Fields
  PROVE  /\ TotalFlux(T) = SumFunctionOnSet([c \in Interior |-> EdgeFlux(T, c)], Interior)
         /\ TotalFlux(T) \in Int
<1> DEFINE rt == [c \in Interior |-> Kx[c] * (T[Right(c)] - T[c])]
           lt == [c \in Interior |-> Kx[Left(c)] * (T[Left(c)] - T[c])]
           dn == [c \in Interior |-> Ky[c] * (T[Down(c)] - T[c])]
           up == [c \in Interior |-> Ky[Up(c)] * (T[Up(c)] - T[c])]
           net == [c \in Interior |-> NetFlux(T, c)]
           edge == [c \in Interior |-> EdgeFlux(T, c)]
<1>1. ASSUME NEW c \in Interior
      PROVE  /\ rt[c] \in Int /\ lt[c] \in Int /\ dn[c] \in Int /\ up[c] \in Int
             /\ Right(c) \in Interior => lt[Right(c)] = -rt[c]
             /\ Down(c) \in Interior => up[Down(c)] = -dn[c]
             /\ net[c] = rt[c] + lt[c] + dn[c] + up[c]
             /\ edge[c] = (IF Right(c) \in Interior THEN 0 ELSE rt[c])
                       + (IF Left(c) \in Interior THEN 0 ELSE lt[c])
                       + (IF Down(c) \in Interior THEN 0 ELSE dn[c])
                       + (IF Up(c) \in Interior THEN 0 ELSE up[c])
  <2>1. /\ c \in Cells /\ Right(c) \in Cells /\ Left(c) \in Cells
        /\ Down(c) \in Cells /\ Up(c) \in Cells
    BY InteriorNeighbours
  <2>2. /\ T[c] \in Int /\ T[Right(c)] \in Int /\ T[Left(c)] \in Int
        /\ T[Down(c)] \in Int /\ T[Up(c)] \in Int
    BY <2>1, GridAssumption DEF Fields, Temps
  <2>3. Kx[c] \in Int /\ Kx[Left(c)] \in Int /\ Ky[c] \in Int /\ Ky[Up(c)] \in Int
    BY <2>1, FaceType, GridAssumption
  <2>4. rt[c] \in Int /\ lt[c] \in Int /\ dn[c] \in Int /\ up[c] \in Int
    BY <2>2, <2>3, Antisymmetric
  <2>5. Right(c) \in Interior => lt[Right(c)] = -rt[c]
    <3> SUFFICES ASSUME Right(c) \in Interior PROVE lt[Right(c)] = -rt[c]
      OBVIOUS
    <3>1. lt[Right(c)] = Kx[c] * (T[c] - T[Right(c)])
      BY InteriorFinite
    <3> QED
      BY <2>2, <2>3, <3>1, Antisymmetric
  <2>6. Down(c) \in Interior => up[Down(c)] = -dn[c]
    <3> SUFFICES ASSUME Down(c) \in Interior PROVE up[Down(c)] = -dn[c]
      OBVIOUS
    <3>1. up[Down(c)] = Ky[c] * (T[c] - T[Down(c)])
      BY InteriorFinite
    <3> QED
      BY <2>2, <2>3, <3>1, Antisymmetric
  <2>7. net[c] = rt[c] + lt[c] + dn[c] + up[c]
    BY DEF NetFlux
  <2>8. edge[c] = (IF Right(c) \in Interior THEN 0 ELSE rt[c])
                       + (IF Left(c) \in Interior THEN 0 ELSE lt[c])
                       + (IF Down(c) \in Interior THEN 0 ELSE dn[c])
                       + (IF Up(c) \in Interior THEN 0 ELSE up[c])
    BY DEF EdgeFlux
  <2> HIDE DEF rt, lt, dn, up, net, edge
  <2> QED
    BY <2>4, <2>5, <2>6, <2>7, <2>8
<1>2. TotalFlux(T) = SumFunctionOnSet(net, Interior)
  BY DEF TotalFlux, SumFunction
<1> HIDE DEF rt, lt, dn, up, net, edge
<1>3. Faces(rt, lt, dn, up, net, edge)
  BY <1>1 DEF Faces
<1>4. SumFunctionOnSet(net, Interior) = SumFunctionOnSet(edge, Interior)
        /\ SumFunctionOnSet(net, Interior) \in Int
  BY <1>3, InnerFacesCancel
<1> QED
  BY <1>2, <1>4 DEF edge

\* After the boundary condition no heat comes in over the edge, and none leaves
\* when it is insulated.
LEMMA EdgeFluxSign ==
  ASSUME NEW T \in Fields, NEW m, NEW c \in Interior
  PROVE  LET U == ApplyBoundary(T, m)
         IN  /\ EdgeFlux(U, c) \in Int
             /\ EdgeFlux(U, c) =< 0
             /\ m = BC_NEUMANN_INSULATED => EdgeFlux(U, c) = 0
<1> DEFINE U == ApplyBoundary(T, m)
<1>1. U \in Fields
  BY ApplyBoundaryType
<1>2. /\ c \in Cells /\ Right(c) \in Cells /\ Left(c) \in Cells
      /\ Down(c) \in Cells /\ Up(c) \in Cells
  BY InteriorNeighbours
<1>3. \A d \in {Right(c), Left(c), Down(c), Up(c)} : d \notin Interior =>
        U[d] =< U[c] /\ (m = BC_NEUMANN_INSULATED => U[d] = U[c])
  BY EdgeNeverWarmer
<1> HIDE DEF U
<1>4. /\ U[c] \in Int /\ U[Right(c)] \in Int /\ U[Left(c)] \in Int
      /\ U[Down(c)] \in Int /\ U[Up(c)] \in Int
  BY <1>1, <1>2, GridAssumption DEF Fields, Temps
<1>5. /\ Kx[c] \in Int /\ Kx[Left(c)] \in Int /\ Ky[c] \in Int /\ Ky[Up(c)] \in Int
      /\ 0 =< Kx[c] /\ 0 =< Kx[Left(c)] /\ 0 =< Ky[c] /\ 0 =< Ky[Up(c)]
  BY <1>2, FaceType, GridAssumption
<1>6. \A k, a, b \in Int : 0 =< k /\ a =< b =>
         k * (a - b) \in Int /\ k * (a - b) =< 0 /\ (a = b => k * (a - b) = 0)
  OBVIOUS
<1> DEFINE r == IF Right(c) \in Interior THEN 0 ELSE Kx[c] * (U[Right(c)] - U[c])
           l == IF Left(c) \in Interior THEN 0 ELSE Kx[Left(c)] * (U[Left(c)] - U[c])
           d == IF Down(c) \in Interior THEN 0 ELSE Ky[c] * (U[Down(c)] - U[c])
           u == IF Up(c) \in Interior THEN 0 ELSE Ky[Up(c)] * (U[Up(c)] - U[c])
<1>7. r \in Int /\ r =< 0 /\ (m = BC_NEUMANN_INSULATED => r = 0)
  BY <1>3, <1>4, <1>5, <1>6
<1>8. l \in Int /\ l =< 0 /\ (m = BC_NEUMANN_INSULATED => l = 0)
  BY <1>3, <1>4, <1>5, <1>6
<1>9. d \in Int /\ d =< 0 /\ (m = BC_NEUMANN_INSULATED => d = 0)
  BY <1>3, <1>4, <1>5, <1>6
<1>10. u \in Int /\ u =< 0 /\ (m = BC_NEUMANN_INSULATED => u = 0)
  BY <1>3, <1>4, <1>5, <1>6
<1>11. EdgeFlux(U, c) = r + l + d + u
  BY DEF EdgeFlux
<1> HIDE DEF r, l, d, u
<1>12. /\ EdgeFlux(U, c) \in Int
       /\ EdgeFlux(U, c) =< 0
       /\ m = BC_NEUMANN_INSULATED => EdgeFlux(U, c) = 0
  BY <1>7, <1>8, <1>9, <1>10, <1>11
<1> QED
  BY <1>12 DEF U

\* So the fluxes of a field under its boundary condition add up to nothing or to a
\* loss.
LEMMA BalanceUnderBoundary ==
  ASSUME NEW T \in Fields, NEW m
  PROVE  LET U == ApplyBoundary(T, m)
         IN  /\ TotalFlux(U) =< 0
             /\ m = BC_NEUMANN_INSULATED => TotalFlux(U) = 0
<1> DEFINE U == ApplyBoundary(T, m)
           edge == [c \in Interior |-> EdgeFlux(U, c)]
           none == [c \in Interior |-> 0]
<1>1. TotalFlux(U) = SumFunctionOnSet(edge, Interior)
  BY ApplyBoundaryType, TotalIsEdge
<1>2. \A c \in Interior : /\ edge[c] \in Int /\ none[c] = 0 /\ edge[c] =< none[c]
                          /\ m = BC_NEUMANN_INSULATED => edge[c] = 0
  BY EdgeFluxSign
<1> HIDE DEF U, edge, none
<1>3. SumFunctionOnSet(edge, Interior) =< SumFunctionOnSet(none, Interior)
  BY <1>2, InteriorFinite, SumAtMost
<1>4. SumFunctionOnSet(none, Interior) = 0
  BY <1>2, InteriorFinite, SumZero
<1>5. m = BC_NEUMANN_INSULATED => SumFunctionOnSet(edge, Interior) = 0
  BY <1>2, InteriorFinite, SumZero
<1> QED
  BY <1>1, <1>3, <1>4, <1>5 DEF U

\* Every step of every behaviour leaves a field whose fluxes balance: nothing is
\* gained over the edges, and nothing lost when they are insulated, for every
\* grid, comb and conductivity.
THEOREM Balanced == Spec => HeatBalance
<1>1. ASSUME TypeOK, Advance
      PROVE  IF mode = BC_NEUMANN_INSULATED THEN TotalFlux(field') = 0
                                            ELSE TotalFlux(field') =< 0
  <2> DEFINE S == StampSources(field)
             D == Diffuse(S, S)
  <2>1. D \in Fields
    BY <1>1, StampSourcesType, DiffuseType DEF TypeOK
  <2>2. field' = ApplyBoundary(D, mode)
    BY <1>1 DEF Advance, Stepped
  <2> HIDE DEF D
  <2> QED
    BY <2>1, <2>2, BalanceUnderBoundary
<1>2. TypeOK /\ [Next]_vars =>
        [Advance => IF mode = BC_NEUMANN_INSULATED THEN TotalFlux(field') = 0
                                                   ELSE TotalFlux(field') =< 0]_vars
  BY <1>1
<1> QED
  BY <1>2, TypeCorrect, PTL DEF Spec, HeatBalance

-----------------------------------------------------------------------------
(***************************************************************************)
(* The comparison principle.                                               *)
(***************************************************************************)
\* Adding whole multiples of the divisor moves a rounded quotient by as many.
LEMMA DivShift ==
  ASSUME NEW x \in Int, NEW y \in Int, NEW d \in Nat \ {0}, NEW e \in Int,
         x =< y + d * e
  PROVE  x \div d =< e + y \div d
  <1> DEFINE p == y \div d
             n == x \div d
  <1>1. /\ p \in Int /\ n \in Int
        /\ y < d * p + d /\ d * n =< x
    OBVIOUS
  <1> HIDE DEF p, n
  <1>2. d * (p + 1 + e) = d * p + d + d * e /\ d * n \in Int /\ d * p \in Int /\ d * e \in Int
    BY <1>1
  <1>3. d * n < d * (p + 1 + e)
    BY <1>1, <1>2
  <1>4. n < p + 1 + e
    <2> DEFINE z == p + 1 + e
    <2>1. z \in Int /\ d * n < d * z
      BY <1>1, <1>3
    <2> HIDE DEF z
    <2>2. n >= z => d * n >= d * z
      BY <1>1, <2>1
    <2>3. d * n \in Int /\ d * z \in Int
      BY <1>1, <2>1
    <2>4. n < z
      BY <1>1, <2>1, <2>2, <2>3
    <2> QED
      BY <2>4 DEF z
  <1> QED
    BY <1>1, <1>4 DEF p, n

\* The flux through a face falls by no more than copper would carry of what the
\* cell itself gained, when the neighbour has not become colder.
LEMMA FluxFalls ==
  ASSUME NEW m \in Nat, NEW k \in 0 .. m, NEW a \in Int, NEW b \in Int, a =< b,
         NEW t \in Int, NEW u \in Int, t =< u
  PROVE  /\ k * (t - a) \in Int /\ k * (u - b) \in Int
         /\ k * (t - a) =< k * (u - b) + m * (b - a)
  <1> DEFINE e == b - a
             x == t - a
             y == u - b
  <1>1. e \in Nat /\ x \in Int /\ y \in Int /\ x =< y + e
    OBVIOUS
  <1> HIDE DEF e, x, y
  <1>2. k * x =< k * (y + e) /\ k * (y + e) = k * y + k * e
    BY <1>1
  <1>3. k * e =< m * e
    BY <1>1
  <1>4. k * x \in Int /\ k * y \in Int /\ k * e \in Int /\ m * e \in Int
    BY <1>1
  <1>5. k * x =< k * y + m * e
    BY <1>2, <1>3, <1>4
  <1> QED
    BY <1>4, <1>5 DEF e, x, y

\* With 4 * RNum =< RDen a cell that gained loses no more of its gain than it had.
LEMMA StepShift ==
  ASSUME NEW m \in Nat \ {0}, NEW r \in Nat, NEW q \in Nat \ {0}, 4 * r =< q,
         NEW s \in Int, NEW v \in Int, NEW e \in Nat, s =< v + 4 * (m * e)
  PROVE  (r * s) \div (q * m) =< e + (r * v) \div (q * m)
  <1> DEFINE g == m * e
  <1>1. g \in Nat /\ q * m \in Nat \ {0} /\ r * s \in Int /\ r * v \in Int
    OBVIOUS
  <1>2. q * g = (q * m) * e
    OBVIOUS
  <1>3. s =< v + 4 * g
    OBVIOUS
  <1> HIDE DEF g
  <1>4. r * s =< r * (v + 4 * g) /\ r * (v + 4 * g) = r * v + (4 * r) * g
    BY <1>1, <1>3
  <1>5. (4 * r) * g =< q * g /\ (4 * r) * g \in Int /\ q * g \in Int
    BY <1>1
  <1>6. r * s =< r * v + q * g
    BY <1>1, <1>4, <1>5
  <1>7. r * s =< r * v + (q * m) * e
    BY <1>2, <1>6
  <1> QED
    BY <1>1, <1>7, DivShift

\* The comparison principle, for one cell: where no cell is hotter, none is
\* conducted to anything hotter.
THEOREM ConductedInOrder ==
  ASSUME NEW T \in Fields, NEW U \in Fields, NoHotter(T, U), NEW c \in Interior
  PROVE  Conducted(T, c) =< Conducted(U, c)
  <1> DEFINE a == T[c]
             b == U[c]
             e == b - a
             g == KOne * e
  <1>0. /\ KOne \in Nat \ {0} /\ RNum \in Nat /\ RDen \in Nat \ {0} /\ 4 * RNum =< RDen
        /\ Hot \in Nat
    BY GridAssumption
  <1>1. \A d \in {c, Right(c), Left(c), Down(c), Up(c)} :
          T[d] \in Int /\ U[d] \in Int /\ T[d] =< U[d]
    BY <1>0, InteriorNeighbours DEF Fields, Temps, NoHotter
  <1>2. a \in Int /\ b \in Int /\ a =< b /\ e \in Nat
    BY <1>1
  <1>3. /\ Kx[c] \in 0 .. KOne /\ Kx[Left(c)] \in 0 .. KOne
        /\ Ky[c] \in 0 .. KOne /\ Ky[Up(c)] \in 0 .. KOne
    BY FaceType, InteriorNeighbours
  <1> DEFINE r(F) == Kx[c] * (F[Right(c)] - F[c])
             l(F) == Kx[Left(c)] * (F[Left(c)] - F[c])
             d(F) == Ky[c] * (F[Down(c)] - F[c])
             u(F) == Ky[Up(c)] * (F[Up(c)] - F[c])
  <1>4. r(T) \in Int /\ r(U) \in Int /\ r(T) =< r(U) + g
    BY <1>0, <1>1, <1>2, <1>3, FluxFalls
  <1>5. l(T) \in Int /\ l(U) \in Int /\ l(T) =< l(U) + g
    BY <1>0, <1>1, <1>2, <1>3, FluxFalls
  <1>6. d(T) \in Int /\ d(U) \in Int /\ d(T) =< d(U) + g
    BY <1>0, <1>1, <1>2, <1>3, FluxFalls
  <1>7. u(T) \in Int /\ u(U) \in Int /\ u(T) =< u(U) + g
    BY <1>0, <1>1, <1>2, <1>3, FluxFalls
  <1>8. NetFlux(T, c) = r(T) + l(T) + d(T) + u(T) /\ NetFlux(U, c) = r(U) + l(U) + d(U) + u(U)
    BY DEF NetFlux
  <1>9. g \in Int
    BY <1>0, <1>2
  <1>10. /\ Conducted(T, c) = a + (RNum * NetFlux(T, c)) \div (RDen * KOne)
         /\ Conducted(U, c) = b + (RNum * NetFlux(U, c)) \div (RDen * KOne)
    BY DEF Conducted
  <1>11. b = a + e
    BY <1>2
  <1> HIDE DEF r, l, d, u, g, e, a, b
  <1>12. /\ NetFlux(T, c) \in Int /\ NetFlux(U, c) \in Int
         /\ NetFlux(T, c) =< NetFlux(U, c) + 4 * g
    BY <1>4, <1>5, <1>6, <1>7, <1>8, <1>9
  <1> DEFINE x == (RNum * NetFlux(T, c)) \div (RDen * KOne)
             y == (RNum * NetFlux(U, c)) \div (RDen * KOne)
  <1>13. x =< e + y
    BY <1>0, <1>2, <1>12, StepShift DEF g
  <1>14. x \in Int /\ y \in Int
    BY <1>0, <1>12
  <1> HIDE DEF x, y
  <1>15. a + x =< b + y
    BY <1>2, <1>11, <1>13, <1>14
  <1> QED
    BY <1>10, <1>15 DEF x, y

\* A stamp keeps the order of two fields: both are painted alike.
LEMMA RaiseToInOrder ==
  ASSUME NEW T \in Fields, NEW U \in Fields, NoHotter(T, U), NEW S, NEW val \in Temps
  PROVE  NoHotter(RaiseTo(T, S, val), RaiseTo(U, S, val))
  BY GridAssumption DEF NoHotter, RaiseTo, Fields, Temps

\* So does the boundary condition.
LEMMA BoundaryInOrder ==
  ASSUME NEW T \in Fields, NEW U \in Fields, NoHotter(T, U), NEW m
  PROVE  NoHotter(ApplyBoundary(T, m), ApplyBoundary(U, m))
  <1> SUFFICES ASSUME NEW c \in Cells
               PROVE  ApplyBoundary(T, m)[c] =< ApplyBoundary(U, m)[c]
    BY DEF NoHotter
  <1>1. \A d \in Cells : T[d] =< U[d]
    BY DEF NoHotter
  <1>2. \A d \in Interior : d \in Cells
    BY InteriorNeighbours
  <1>3. Inward(c) \in Cells /\ (c[1] \notin {0, NX-1} => InwardY(c) \in Cells)
    BY <1>2, InwardInterior
  <1> QED
    BY <1>1, <1>3 DEF ApplyBoundary, BC_DIRICHLET_COLD, BC_NEUMANN_INSULATED

\* So does conduction.
LEMMA DiffuseInOrder ==
  ASSUME NEW T \in Fields, NEW U \in Fields, NoHotter(T, U)
  PROVE  NoHotter(Diffuse(T, T), Diffuse(U, U))
  BY ConductedInOrder DEF NoHotter, Diffuse

\* The comparison principle: the step of a field that is nowhere hotter is nowhere
\* hotter.
THEOREM StepsInOrder ==
  ASSUME NEW T \in Fields, NEW U \in Fields, NoHotter(T, U), NEW m
  PROVE  NoHotter(Stepped(T, m), Stepped(U, m))
  <1> DEFINE S == StampSources(T)
             V == StampSources(U)
  <1>1. S \in Fields /\ V \in Fields
    BY StampSourcesType
  <1>2. NoHotter(S, V)
    <2>1. Hot \in Temps
      BY GridAssumption DEF Temps
    <2> QED
      BY <2>1, RaiseToInOrder DEF StampSources
  <1> HIDE DEF S, V
  <1>3. Diffuse(S, S) \in Fields /\ Diffuse(V, V) \in Fields
    BY <1>1, DiffuseType
  <1>4. NoHotter(Diffuse(S, S), Diffuse(V, V))
    BY <1>1, <1>2, DiffuseInOrder
  <1>5. NoHotter(ApplyBoundary(Diffuse(S, S), m), ApplyBoundary(Diffuse(V, V), m))
    BY <1>3, <1>4, BoundaryInOrder
  <1> QED
    BY <1>5 DEF Stepped, S, V

\* Once the steps only heat they never cool, and once they only cool they never
\* heat, until the user paints, clears or changes the edges: no stable ratio lets a
\* cell swing, on any grid and for any comb and conductivity.
THEOREM OneWay == Spec => NoSwing
<1>1. ASSUME TypeOK, Advance
      PROVE  (Warming => Warming') /\ (Cooling => Cooling')
  <2>1. field \in Fields /\ field' \in Fields
    BY <1>1, SteppedType DEF TypeOK, Advance
  <2>2. field' = Stepped(field, mode) /\ mode' = mode
    BY <1>1 DEF Advance
  <2>3. Warming => NoHotter(Stepped(field, mode), Stepped(field', mode))
    BY <2>1, <2>2, StepsInOrder DEF Warming
  <2>4. Cooling => NoHotter(Stepped(field', mode), Stepped(field, mode))
    BY <2>1, <2>2, StepsInOrder DEF Cooling
  <2> QED
    BY <2>2, <2>3, <2>4 DEF Warming, Cooling
<1>2. TypeOK /\ [Next]_vars =>
        [Advance => (Warming => Warming') /\ (Cooling => Cooling')]_vars
  BY <1>1
<1> QED
  BY <1>2, TypeCorrect, PTL DEF Spec, NoSwing

=============================================================================
