--------------------------- MODULE HeatGridProofs ---------------------------
(***************************************************************************)
(* Facts about the operators of HeatGrid, for every grid, conductivity and *)
(* baseR that GridAssumption allows.                                       *)
(***************************************************************************)
EXTENDS HeatGrid, SumTheorems

-----------------------------------------------------------------------------
(***************************************************************************)
(* Arithmetic.                                                             *)
(***************************************************************************)
\* Rounding down a quotient keeps it between two integers that bound it.
LEMMA DivBetween ==
  ASSUME NEW x \in Int, NEW d \in Nat \ {0}, NEW lo \in Int, NEW hi \in Int,
         d * lo =< x, x =< d * hi
  PROVE  x \div d \in lo .. hi
  OBVIOUS

\* A conductivity times a temperature difference is at most the largest
\* conductivity times the largest difference, and at least its opposite bound.
LEMMA FluxBetween ==
  ASSUME NEW m \in Nat, NEW k \in 0 .. m, NEW x \in Int,
         NEW lo \in Int, NEW hi \in Int, lo =< 0, 0 =< hi, lo =< x, x =< hi
  PROVE  m * lo =< k * x /\ k * x =< m * hi /\ k * x \in Int
  <1>1. k * lo =< k * x /\ k * x =< k * hi
    OBVIOUS
  <1>2. m * lo =< k * lo /\ k * hi =< m * hi
    OBVIOUS
  <1>3. k * x \in Int /\ k * lo \in Int /\ k * hi \in Int /\ m * lo \in Int /\ m * hi \in Int
    OBVIOUS
  <1> QED
    BY <1>1, <1>2, <1>3

\* The explicit step with 4 * RNum =< RDen moves a temperature by no more than
\* the differences to its neighbours.
LEMMA StepBetween ==
  ASSUME NEW m \in Nat \ {0}, NEW r \in Nat, NEW q \in Nat \ {0}, 4 * r =< q,
         NEW s \in Int, NEW lo \in Int, NEW hi \in Int, lo =< 0, 0 =< hi,
         4 * (m * lo) =< s, s =< 4 * (m * hi)
  PROVE  (r * s) \div (q * m) \in lo .. hi
  <1>1. /\ m * lo \in Int /\ m * lo =< 0
        /\ m * hi \in Int /\ 0 =< m * hi
        /\ r * s \in Int /\ q * m \in Nat \ {0}
    OBVIOUS
  <1>2. r * (4 * (m * lo)) =< r * s /\ r * s =< r * (4 * (m * hi))
    BY <1>1
  <1>3. q * (m * lo) =< r * (4 * (m * lo)) /\ r * (4 * (m * hi)) =< q * (m * hi)
    <2> DEFINE a == m * lo
               b == m * hi
    <2>1. a \in Int /\ a =< 0 /\ b \in Int /\ 0 =< b
      BY <1>1
    <2> HIDE DEF a, b
    <2>2. r * (4 * a) = (4 * r) * a /\ r * (4 * b) = (4 * r) * b
      BY <2>1
    <2>3. q * a =< (4 * r) * a /\ (4 * r) * b =< q * b
      BY <2>1
    <2>4. q * a =< r * (4 * a) /\ r * (4 * b) =< q * b
      BY <2>2, <2>3
    <2> QED
      BY <2>4 DEF a, b
  <1>4. q * (m * lo) = (q * m) * lo /\ q * (m * hi) = (q * m) * hi
    OBVIOUS
  <1>5. (q * m) * lo =< r * s /\ r * s =< (q * m) * hi
    <2> DEFINE a1 == (q * m) * lo
               a2 == r * (4 * (m * lo))
               a3 == r * s
               a4 == r * (4 * (m * hi))
               a5 == (q * m) * hi
    <2>1. a1 \in Int /\ a2 \in Int /\ a3 \in Int /\ a4 \in Int /\ a5 \in Int
      BY <1>1
    <2>2. a1 =< a2 /\ a2 =< a3 /\ a3 =< a4 /\ a4 =< a5
      BY <1>2, <1>3, <1>4
    <2> HIDE DEF a1, a2, a3, a4, a5
    <2>3. a1 =< a3 /\ a3 =< a5
      BY <2>1, <2>2
    <2> QED
      BY <2>3 DEF a1, a3, a5
  <1> QED
    BY <1>1, <1>5, DivBetween

-----------------------------------------------------------------------------
(***************************************************************************)
(* Face conductivities.                                                    *)
(***************************************************************************)
\* The harmonic mean of two conductivities never exceeds copper's.
LEMMA HarmonicBound ==
  ASSUME NEW k0 \in 0 .. KOne, NEW k1 \in 0 .. KOne
  PROVE  KFaceHarmonic(k0, k1) \in 0 .. KOne
  <1>0. KOne \in Nat \ {0}
    BY GridAssumption
  <1>1. CASE k0 + k1 = 0
    BY <1>0, <1>1 DEF KFaceHarmonic
  <1>2. CASE k0 + k1 # 0
    <2>1. k0 + k1 \in Nat \ {0} /\ 2*k0*k1 \in Int
      BY <1>0, <1>2
    <2>2. (k0 + k1) * 0 =< 2*k0*k1 /\ 2*k0*k1 =< (k0 + k1) * KOne
      <3>1. k0*k1 =< k0*KOne /\ k0*k1 =< KOne*k1
        BY <1>0
      <3>2. k0*k1 \in Nat /\ k0*KOne \in Nat /\ KOne*k1 \in Nat
        BY <1>0
      <3>3. 2*k0*k1 = k0*k1 + k0*k1 /\ (k0 + k1) * KOne = k0*KOne + KOne*k1
        BY <1>0
      <3> QED
        BY <3>1, <3>2, <3>3
    <2>3. (2*k0*k1) \div (k0 + k1) \in 0 .. KOne
      BY <1>0, <2>1, <2>2, DivBetween
    <2> QED
      BY <1>2, <2>3 DEF KFaceHarmonic
  <1> QED
    BY <1>1, <1>2

\* Every face of the grid conducts at least nothing and at most like copper.
LEMMA FaceType ==
  /\ Kx \in [Cells -> 0 .. KOne]
  /\ Ky \in [Cells -> 0 .. KOne]
  <1>0. NX \in Nat /\ NY \in Nat /\ KOne \in Nat \ {0} /\ KAir \in 0 .. KOne
    BY GridAssumption
  <1>1. \A c \in Cells : K[c] \in 0 .. KOne
    BY <1>0 DEF K
  <1>2. ASSUME NEW c \in Cells, c[1] < NX-1 PROVE Right(c) \in Cells
    BY <1>0, <1>2 DEF Right, Cells, Cols, Rows
  <1>3. ASSUME NEW c \in Cells, c[2] < NY-1 PROVE Down(c) \in Cells
    BY <1>0, <1>3 DEF Down, Cells, Cols, Rows
  <1>4. ASSUME NEW c \in Cells
        PROVE (IF c[1] < NX-1 THEN KFaceHarmonic(K[c], K[Right(c)]) ELSE 0) \in 0 .. KOne
    <2>1. CASE c[1] < NX-1
      <3>1. K[c] \in 0 .. KOne /\ K[Right(c)] \in 0 .. KOne
        BY <1>1, <1>2, <2>1
      <3>2. KFaceHarmonic(K[c], K[Right(c)]) \in 0 .. KOne
        BY <3>1, HarmonicBound
      <3> QED
        BY <2>1, <3>2
    <2>2. CASE ~(c[1] < NX-1)
      BY <1>0, <2>2
    <2> QED
      BY <2>1, <2>2
  <1>5. ASSUME NEW c \in Cells
        PROVE (IF c[2] < NY-1 THEN KFaceHarmonic(K[c], K[Down(c)]) ELSE 0) \in 0 .. KOne
    <2>1. CASE c[2] < NY-1
      <3>1. K[c] \in 0 .. KOne /\ K[Down(c)] \in 0 .. KOne
        BY <1>1, <1>3, <2>1
      <3>2. KFaceHarmonic(K[c], K[Down(c)]) \in 0 .. KOne
        BY <3>1, HarmonicBound
      <3> QED
        BY <2>1, <3>2
    <2>2. CASE ~(c[2] < NY-1)
      BY <1>0, <2>2
    <2> QED
      BY <2>1, <2>2
  <1> QED
    BY <1>4, <1>5 DEF Kx, Ky

-----------------------------------------------------------------------------
(***************************************************************************)
(* The conduction step.                                                    *)
(***************************************************************************)
\* An interior cell and its four neighbours are cells.
LEMMA InteriorNeighbours ==
  ASSUME NEW c \in Interior
  PROVE  c \in Cells /\ Right(c) \in Cells /\ Left(c) \in Cells
         /\ Down(c) \in Cells /\ Up(c) \in Cells
  BY GridAssumption DEF Interior, Right, Left, Down, Up, Cells, Cols, Rows

\* The maximum principle, for one cell: what it is conducted to lies between
\* any two temperatures that bound the cell and its four neighbours.
THEOREM ConductedBetween ==
  ASSUME NEW T \in Fields, NEW c \in Interior, NEW lo \in Int, NEW hi \in Int,
         \A d \in {c, Right(c), Left(c), Down(c), Up(c)} : lo =< T[d] /\ T[d] =< hi
  PROVE  Conducted(T, c) \in lo .. hi
  <1> DEFINE t == T[c]
             xr == T[Right(c)] - t
             xl == T[Left(c)] - t
             xd == T[Down(c)] - t
             xu == T[Up(c)] - t
             kr == Kx[c]
             kl == Kx[Left(c)]
             kd == Ky[c]
             ku == Ky[Up(c)]
             a == lo - t
             b == hi - t
             m == KOne
  <1>0. /\ KOne \in Nat \ {0} /\ RNum \in Nat /\ RDen \in Nat \ {0} /\ 4 * RNum =< RDen
        /\ Hot \in Nat
    BY GridAssumption
  <1>1. /\ T[c] \in Int /\ T[Right(c)] \in Int /\ T[Left(c)] \in Int
        /\ T[Down(c)] \in Int /\ T[Up(c)] \in Int
    BY <1>0, InteriorNeighbours DEF Fields, Temps
  <1>2. /\ a \in Int /\ b \in Int /\ a =< 0 /\ 0 =< b
        /\ xr \in Int /\ a =< xr /\ xr =< b
        /\ xl \in Int /\ a =< xl /\ xl =< b
        /\ xd \in Int /\ a =< xd /\ xd =< b
        /\ xu \in Int /\ a =< xu /\ xu =< b
    BY <1>1
  <1>3. /\ kr \in 0 .. m /\ kl \in 0 .. m /\ kd \in 0 .. m /\ ku \in 0 .. m
    BY FaceType, InteriorNeighbours
  <1>4. NetFlux(T, c) = kr * xr + kl * xl + kd * xd + ku * xu
    BY DEF NetFlux
  <1>5. Conducted(T, c) = t + (RNum * NetFlux(T, c)) \div (RDen * m)
    BY DEF Conducted
  <1> HIDE DEF xr, xl, xd, xu, kr, kl, kd, ku, a, b, m
  <1>6. m \in Nat \ {0}
    BY <1>0 DEF m
  <1>7. /\ m * a =< kr * xr /\ kr * xr =< m * b /\ kr * xr \in Int
        /\ m * a =< kl * xl /\ kl * xl =< m * b /\ kl * xl \in Int
        /\ m * a =< kd * xd /\ kd * xd =< m * b /\ kd * xd \in Int
        /\ m * a =< ku * xu /\ ku * xu =< m * b /\ ku * xu \in Int
    BY <1>2, <1>3, <1>6, FluxBetween
  <1>8. /\ NetFlux(T, c) \in Int
        /\ 4 * (m * a) =< NetFlux(T, c) /\ NetFlux(T, c) =< 4 * (m * b)
    <2>1. m * a \in Int /\ m * b \in Int
      BY <1>2, <1>6
    <2> QED
      BY <1>4, <1>7, <2>1
  <1>9. (RNum * NetFlux(T, c)) \div (RDen * m) \in a .. b
    BY <1>0, <1>2, <1>6, <1>8, StepBetween
  <1> QED
    BY <1>1, <1>2, <1>5, <1>9 DEF a, b

-----------------------------------------------------------------------------
(***************************************************************************)
(* Fields stay fields.                                                     *)
(***************************************************************************)
LEMMA ColdType ==
  Cold \in Fields
  BY GridAssumption DEF Cold, Fields, Temps

\* A stamp of a legal temperature leaves legal temperatures.
LEMMA RaiseToType ==
  ASSUME NEW T \in Fields, NEW S, NEW val \in Temps
  PROVE  RaiseTo(T, S, val) \in Fields
  BY DEF RaiseTo, Fields

\* Neither does the stamp of the three sources.
LEMMA StampSourcesType ==
  ASSUME NEW T \in Fields
  PROVE  StampSources(T) \in Fields
  <1>1. Hot \in Temps
    BY GridAssumption DEF Temps
  <1> QED
    BY <1>1, RaiseToType DEF StampSources

\* No conduction step leaves a temperature outside 0 .. Hot.
LEMMA DiffuseType ==
  ASSUME NEW T \in Fields, NEW U \in Fields
  PROVE  Diffuse(T, U) \in Fields
  <1>1. ASSUME NEW c \in Interior
        PROVE  Conducted(T, c) \in Temps
    <2>1. 0 \in Int /\ Hot \in Int
      BY GridAssumption
    <2>2. \A d \in {c, Right(c), Left(c), Down(c), Up(c)} : 0 =< T[d] /\ T[d] =< Hot
      BY InteriorNeighbours DEF Fields, Temps
    <2>3. Conducted(T, c) \in 0 .. Hot
      BY <2>1, <2>2, ConductedBetween
    <2> QED
      BY <2>3 DEF Temps
  <1>2. \A c \in Cells : U[c] \in Temps
    BY DEF Fields
  <1> QED
    BY <1>1, <1>2 DEF Diffuse, Fields

-----------------------------------------------------------------------------
(***************************************************************************)
(* Boundary conditions.                                                    *)
(***************************************************************************)
LEMMA InwardInterior ==
  ASSUME NEW c \in Cells
  PROVE  /\ Inward(c) \in Interior
         /\ c[1] \notin {0, NX-1} => InwardY(c) \in Interior
         /\ c \in Interior => c[1] \notin {0, NX-1} /\ Inward(c) = c /\ InwardY(c) = c
  <1>1. NX \in Nat /\ NY \in Nat /\ NX >= 3 /\ NY >= 3
    BY GridAssumption
  <1>2. c = <<c[1], c[2]>> /\ c[1] \in 0 .. NX-1 /\ c[2] \in 0 .. NY-1
    BY DEF Cells, Cols, Rows
  <1>3. /\ ClampI32(c[1], 1, NX-2) \in 1 .. NX-2
        /\ ClampI32(c[2], 1, NY-2) \in 1 .. NY-2
    BY <1>1, <1>2 DEF ClampI32
  <1>4. c \in Interior => c[1] \in 1 .. NX-2 /\ c[2] \in 1 .. NY-2
    BY DEF Interior
  <1>5. c \in Interior => ClampI32(c[1], 1, NX-2) = c[1] /\ ClampI32(c[2], 1, NY-2) = c[2]
    BY <1>1, <1>4 DEF ClampI32
  <1>6. Inward(c) \in Interior
    BY <1>3 DEF Inward, Interior
  <1>7. c[1] \notin {0, NX-1} => InwardY(c) \in Interior
    <2>1. c[1] \notin {0, NX-1} => c[1] \in 1 .. NX-2
      BY <1>1, <1>2
    <2> QED
      BY <1>3, <2>1 DEF InwardY, Interior
  <1>8. c \in Interior => c[1] \notin {0, NX-1} /\ Inward(c) = c /\ InwardY(c) = c
    <2>1. c \in Interior => c[1] \notin {0, NX-1}
      BY <1>1, <1>4
    <2>2. c \in Interior => Inward(c) = <<c[1], c[2]>> /\ InwardY(c) = <<c[1], c[2]>>
      BY <1>5 DEF Inward, InwardY
    <2> QED
      BY <1>2, <2>1, <2>2
  <1> QED
    BY <1>6, <1>7, <1>8

\* The boundary condition overwrites every edge and corner: its result is a
\* function of the interior alone, whatever the buffer's edges held before.
THEOREM BoundaryForgetsEdges ==
  ASSUME NEW T, NEW U, NEW mode, \A c \in Interior : T[c] = U[c]
  PROVE  ApplyBoundary(T, mode) = ApplyBoundary(U, mode)
  <1>1. ASSUME NEW c \in Cells
        PROVE  (CASE mode = BC_DIRICHLET_COLD    -> IF c \in Interior THEN T[c] ELSE 0
                  [] mode = BC_NEUMANN_INSULATED -> T[Inward(c)]
                  [] OTHER -> IF c[1] \in {0, NX-1} THEN 0 ELSE T[InwardY(c)])
             = (CASE mode = BC_DIRICHLET_COLD    -> IF c \in Interior THEN U[c] ELSE 0
                  [] mode = BC_NEUMANN_INSULATED -> U[Inward(c)]
                  [] OTHER -> IF c[1] \in {0, NX-1} THEN 0 ELSE U[InwardY(c)])
    <2>1. Inward(c) \in Interior /\ (c[1] \notin {0, NX-1} => InwardY(c) \in Interior)
      BY InwardInterior
    <2> QED
      BY <2>1 DEF BC_DIRICHLET_COLD, BC_NEUMANN_INSULATED
  <1> QED
    BY <1>1 DEF ApplyBoundary

\* The boundary condition leaves the interior alone.
LEMMA BoundaryKeepsInterior ==
  ASSUME NEW T, NEW mode, NEW c \in Interior
  PROVE  ApplyBoundary(T, mode)[c] = T[c]
  <1>1. c \in Cells
    BY InteriorNeighbours
  <1>2. c[1] \notin {0, NX-1} /\ Inward(c) = c /\ InwardY(c) = c
    BY <1>1, InwardInterior
  <1> QED
    BY <1>1, <1>2 DEF ApplyBoundary, BC_DIRICHLET_COLD, BC_NEUMANN_INSULATED

\* The boundary condition leaves a field, in every mode.
LEMMA ApplyBoundaryType ==
  ASSUME NEW T \in Fields, NEW mode
  PROVE  ApplyBoundary(T, mode) \in Fields
  <1>1. \A c \in Interior : c \in Cells
    BY InteriorNeighbours
  <1>2. 0 \in Temps
    BY GridAssumption DEF Temps
  <1>3. \A c \in Cells : T[c] \in Temps
    BY DEF Fields
  <1>4. ASSUME NEW c \in Cells
        PROVE  (CASE mode = BC_DIRICHLET_COLD    -> IF c \in Interior THEN T[c] ELSE 0
                  [] mode = BC_NEUMANN_INSULATED -> T[Inward(c)]
                  [] OTHER -> IF c[1] \in {0, NX-1} THEN 0 ELSE T[InwardY(c)]) \in Temps
    <2>1. Inward(c) \in Interior /\ (c[1] \notin {0, NX-1} => InwardY(c) \in Interior)
      BY InwardInterior
    <2> QED
      BY <1>1, <1>2, <1>3, <2>1 DEF BC_DIRICHLET_COLD, BC_NEUMANN_INSULATED
  <1> QED
    BY <1>4 DEF ApplyBoundary, Fields

-----------------------------------------------------------------------------
(***************************************************************************)
(* Heat flow.                                                              *)
(***************************************************************************)
LEMMA InteriorFinite ==
  /\ IsFiniteSet(Interior)
  /\ \A c \in Interior : /\ Left(Right(c)) = c /\ Right(Left(c)) = c
                         /\ Up(Down(c)) = c /\ Down(Up(c)) = c
<1>1. IsFiniteSet(1 .. NX-2) /\ IsFiniteSet(1 .. NY-2)
  BY GridAssumption, FS_Interval
<1>2. IsFiniteSet(Interior)
  BY <1>1, FS_Product DEF Interior
<1> QED
  BY <1>2 DEF Interior, Left, Right, Up, Down

\* rt, lt, dn and up are the fluxes into each interior cell through its four
\* faces, net is their sum, and edge the sum of those that come from the edge of
\* the grid.  What comes through a face between two interior cells leaves the
\* other one.
Faces(rt, lt, dn, up, net, edge) ==
  \A c \in Interior :
    /\ rt[c] \in Int /\ lt[c] \in Int /\ dn[c] \in Int /\ up[c] \in Int
    /\ Right(c) \in Interior => lt[Right(c)] = -rt[c]
    /\ Down(c) \in Interior => up[Down(c)] = -dn[c]
    /\ net[c] = rt[c] + lt[c] + dn[c] + up[c]
    /\ edge[c] = (IF Right(c) \in Interior THEN 0 ELSE rt[c])
               + (IF Left(c) \in Interior THEN 0 ELSE lt[c])
               + (IF Down(c) \in Interior THEN 0 ELSE dn[c])
               + (IF Up(c) \in Interior THEN 0 ELSE up[c])

\* Whatever the fluxes are, those between interior cells cancel: summed over the
\* interior, only the outer faces count.
THEOREM InnerFacesCancel ==
  ASSUME NEW rt, NEW lt, NEW dn, NEW up, NEW net, NEW edge,
         Faces(rt, lt, dn, up, net, edge)
  PROVE  /\ SumFunctionOnSet(net, Interior) = SumFunctionOnSet(edge, Interior)
         /\ SumFunctionOnSet(net, Interior) \in Int
<1> USE DEF Faces
<1> DEFINE Sum(f) == SumFunctionOnSet(f, Interior)
           r == [c \in Interior |-> IF Right(c) \in Interior THEN 0 ELSE rt[c]]
           l == [c \in Interior |-> IF Left(c) \in Interior THEN 0 ELSE lt[c]]
           d == [c \in Interior |-> IF Down(c) \in Interior THEN 0 ELSE dn[c]]
           u == [c \in Interior |-> IF Up(c) \in Interior THEN 0 ELSE up[c]]
<1>1. Sum(rt) + Sum(lt) = Sum(r) + Sum(l)
  <2> DEFINE P == {c \in Interior : Right(c) \in Interior}
             M == {c \in Interior : Left(c) \in Interior}
             b == [c \in Interior |-> Right(c)]
  <2>1. Opposite(rt, P, lt, M, b)
    <3>1. \A c \in P : b[c] = Right(c) /\ b[c] \in Interior /\ Left(b[c]) = c
      BY InteriorFinite
    <3>2. \A m \in M : Left(m) \in P /\ b[Left(m)] = m
      BY InteriorFinite
    <3> QED
      BY <3>1, <3>2 DEF Opposite
  <2>2. Without(r, rt, Interior, P) /\ Without(l, lt, Interior, M)
    BY DEF Without
  <2>3. \A c \in Interior : rt[c] \in Int /\ lt[c] \in Int
    OBVIOUS
  <2> HIDE DEF P, M, b, r, l
  <2> QED
    BY ONLY <2>1, <2>2, <2>3, InteriorFinite, SumFaces
<1>2. Sum(dn) + Sum(up) = Sum(d) + Sum(u)
  <2> DEFINE P == {c \in Interior : Down(c) \in Interior}
             M == {c \in Interior : Up(c) \in Interior}
             b == [c \in Interior |-> Down(c)]
  <2>1. Opposite(dn, P, up, M, b)
    <3>1. \A c \in P : b[c] = Down(c) /\ b[c] \in Interior /\ Up(b[c]) = c
      BY InteriorFinite
    <3>2. \A m \in M : Up(m) \in P /\ b[Up(m)] = m
      BY InteriorFinite
    <3> QED
      BY <3>1, <3>2 DEF Opposite
  <2>2. Without(d, dn, Interior, P) /\ Without(u, up, Interior, M)
    BY DEF Without
  <2>3. \A c \in Interior : dn[c] \in Int /\ up[c] \in Int
    OBVIOUS
  <2> HIDE DEF P, M, b, d, u
  <2> QED
    BY ONLY <2>1, <2>2, <2>3, InteriorFinite, SumFaces
<1>3. ASSUME NEW f1, NEW f2, NEW f3, NEW f4, NEW f,
             \A c \in Interior : /\ f1[c] \in Int /\ f2[c] \in Int /\ f3[c] \in Int /\ f4[c] \in Int
                                 /\ f[c] = f1[c] + f2[c] + f3[c] + f4[c]
      PROVE  /\ Sum(f) = (Sum(f1) + Sum(f2)) + (Sum(f3) + Sum(f4))
             /\ Sum(f1) \in Int /\ Sum(f2) \in Int /\ Sum(f3) \in Int /\ Sum(f4) \in Int
  <2> DEFINE x == [c \in Interior |-> f1[c] + f2[c]]
             y == [c \in Interior |-> f3[c] + f4[c]]
  <2>1. \A c \in Interior : /\ x[c] \in Int /\ y[c] \in Int /\ f[c] = x[c] + y[c]
                            /\ x[c] = f1[c] + f2[c] /\ y[c] = f3[c] + f4[c]
    BY <1>3
  <2> HIDE DEF x, y
  <2>2. Sum(f) = Sum(x) + Sum(y) /\ Sum(x) = Sum(f1) + Sum(f2) /\ Sum(y) = Sum(f3) + Sum(f4)
    BY <1>3, <2>1, InteriorFinite, SumPlus
  <2> QED
    BY <1>3, <2>2, InteriorFinite, SumType
<1>4. \A c \in Interior : /\ r[c] \in Int /\ l[c] \in Int /\ d[c] \in Int /\ u[c] \in Int
                          /\ edge[c] = r[c] + l[c] + d[c] + u[c]
  OBVIOUS
<1> HIDE DEF r, l, d, u, Sum
<1>5. Sum(net) = (Sum(rt) + Sum(lt)) + (Sum(dn) + Sum(up)) /\ Sum(rt) \in Int /\ Sum(lt) \in Int
        /\ Sum(dn) \in Int /\ Sum(up) \in Int
  BY <1>3
<1>6. Sum(edge) = (Sum(r) + Sum(l)) + (Sum(d) + Sum(u))
  BY <1>3, <1>4
<1> QED
  BY <1>1, <1>2, <1>5, <1>6 DEF Sum

\* An edge cell beside an interior cell is never warmer than it once the boundary
\* condition is applied, and as warm when the edges are insulated.
LEMMA EdgeNeverWarmer ==
  ASSUME NEW T \in Fields, NEW mode, NEW c \in Interior,
         NEW d \in {Right(c), Left(c), Down(c), Up(c)}, d \notin Interior
  PROVE  /\ ApplyBoundary(T, mode)[d] =< ApplyBoundary(T, mode)[c]
         /\ mode = BC_NEUMANN_INSULATED => ApplyBoundary(T, mode)[d] = ApplyBoundary(T, mode)[c]
<1>1. ApplyBoundary(T, mode)[c] = T[c] /\ T[c] \in Temps
  BY BoundaryKeepsInterior, InteriorNeighbours DEF Fields
<1>2. d \in Cells
  BY InteriorNeighbours
<1>3. Inward(d) = c /\ (d[1] \notin {0, NX-1} => InwardY(d) = c)
  BY GridAssumption DEF Interior, Right, Left, Down, Up, Inward, InwardY, ClampI32
<1>4. T[c] \in Int /\ 0 =< T[c]
  BY <1>1, GridAssumption DEF Temps
<1>5. ApplyBoundary(T, mode)[d] = (CASE mode = BC_DIRICHLET_COLD    -> IF d \in Interior THEN T[d] ELSE 0
         [] mode = BC_NEUMANN_INSULATED -> T[Inward(d)]
         [] OTHER -> IF d[1] \in {0, NX-1} THEN 0 ELSE T[InwardY(d)])
  BY <1>2 DEF ApplyBoundary
<1>6. CASE mode = BC_DIRICHLET_COLD
  BY <1>1, <1>4, <1>5, <1>6 DEF BC_DIRICHLET_COLD, BC_NEUMANN_INSULATED
<1>7. CASE mode = BC_NEUMANN_INSULATED
  BY <1>1, <1>3, <1>4, <1>5, <1>7 DEF BC_DIRICHLET_COLD, BC_NEUMANN_INSULATED
<1>8. CASE mode \notin {BC_DIRICHLET_COLD, BC_NEUMANN_INSULATED}
  BY <1>1, <1>3, <1>4, <1>5, <1>8
<1> QED
  BY <1>6, <1>7, <1>8

=============================================================================
