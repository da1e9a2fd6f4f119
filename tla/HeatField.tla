----------------------------- MODULE HeatField -----------------------------
(***************************************************************************)
(* What the Heat2D solver promises: one temperature field that is painted, *)
(* cleared and advanced in time under a boundary mode.  The second buffer, *)
(* the pointer swap, the keyboard queue and the drawing of uefi/Heat2D.c   *)
(* are absent: Heat2D implements this module.                              *)
(***************************************************************************)
EXTENDS HeatGrid, Functions

CONSTANTS
  BrushCells,  \* the cells the pointer can be over
  BrushRads,   \* the radii the brush can have
  BrushTemps   \* the temperatures the brush can have

ASSUME BrushAssumption ==
  /\ BrushCells \subseteq Cells
  /\ BrushRads \subseteq Nat
  /\ BrushTemps \subseteq Temps

VARIABLES
  field,   \* the temperature of every cell
  mode,    \* the boundary mode
  paused   \* is the simulation paused?

vars == <<field, mode, paused>>

\* Temperatures stay between 0 and Hot: no paint and no step overshoots.
TypeOK ==
  /\ field \in Fields
  /\ mode \in BoundaryModes
  /\ paused \in BOOLEAN

Init ==
  /\ field = Cold
  /\ mode = BC_DIRICHLET_COLD
  /\ paused = FALSE

\* The user paints a disk.
Paint ==
  /\ \E c \in BrushCells, rad \in BrushRads, val \in BrushTemps :
       field' = StampDisk(field, c[1], c[2], rad, val)
  /\ UNCHANGED <<mode, paused>>

\* Keys 'r' and 'c': both leave a cold field.
Clear ==
  /\ field' = Cold
  /\ UNCHANGED <<mode, paused>>

CycleBoundary ==
  /\ mode' = (mode + 1) % BC_COUNT
  /\ UNCHANGED <<field, paused>>

TogglePause ==
  /\ paused' = ~paused
  /\ UNCHANGED <<field, mode>>

\* One time step: the sources are stamped, heat is conducted, and the boundary
\* condition is applied to the result.
Stepped(T, m) == LET S == StampSources(T) IN ApplyBoundary(Diffuse(S, S), m)

Advance ==
  /\ ~paused
  /\ field' = Stepped(field, mode)
  /\ UNCHANGED <<mode, paused>>

Next == Paint \/ Clear \/ CycleBoundary \/ TogglePause \/ Advance

Spec == Init /\ [][Next]_vars

-----------------------------------------------------------------------------
Neighbourhood(c) == {c, Right(c), Left(c), Down(c), Up(c)}

(***************************************************************************)
(* The law every version of the solver keeps, whatever it computes with:   *)
(* the field is painted and cleared in the same way, and a step leaves     *)
(* every interior cell between the coldest and the hottest of the cell and *)
(* its four neighbours and the edges as the boundary mode demands.         *)
(***************************************************************************)
WithinNeighbours(S, U) ==
  \A c \in Interior :
    /\ \E d \in Neighbourhood(c) : S[d] =< U[c]
    /\ \E d \in Neighbourhood(c) : U[c] =< S[d]

LawfulAdvance ==
  /\ ~paused
  /\ WithinNeighbours(StampSources(field), field')
  /\ field' = ApplyBoundary(field', mode)
  /\ UNCHANGED <<mode, paused>>

LawNext == Paint \/ Clear \/ CycleBoundary \/ TogglePause \/ LawfulAdvance

(***************************************************************************)
(* The discrete maximum principle: the explicit scheme cannot oscillate or *)
(* overshoot, which is what the stability comment of Heat2D.c:742 is for;  *)
(* and no cell of the boundary is left to an older field.                  *)
(***************************************************************************)
LawSpec == Init /\ [][LawNext]_vars

(***************************************************************************)
(* Heat balance of the face fluxes: in the field a step leaves behind, the *)
(* fluxes into the interior cells add up to nothing when all edges are     *)
(* insulated, and to a loss (never a gain) when some edge is cold.  It     *)
(* needs both that a face's flux enters one cell and leaves the other      *)
(* (the Kx/Ky indexing of the hot loop) and that ApplyBoundary copies the  *)
(* right neighbour.                                                        *)
(***************************************************************************)
TotalFlux(T) == SumFunction([c \in Interior |-> NetFlux(T, c)])

HeatBalance ==
  [][Advance =>
       IF mode = BC_NEUMANN_INSULATED
         THEN TotalFlux(field') = 0
         ELSE TotalFlux(field') =< 0]_vars

(***************************************************************************)
(* No oscillation in time either: once a step would nowhere cool the field *)
(* (as from a cold start), the steps after it nowhere cool it, and once it *)
(* would nowhere heat it they nowhere heat it, until the user interferes.  *)
(* A step with baseR above the stable 0.25 (Heat2D.c:742) lets a cell      *)
(* swing.                                                                  *)
(***************************************************************************)
NoHotter(T, U) == \A c \in Cells : T[c] =< U[c]

Warming == NoHotter(field, Stepped(field, mode))
Cooling == NoHotter(Stepped(field, mode), field)

NoSwing == [][Advance => (Warming => Warming') /\ (Cooling => Cooling')]_vars

=============================================================================
