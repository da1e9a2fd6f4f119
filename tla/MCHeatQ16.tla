------------------------------ MODULE MCHeatQ16 ------------------------------
(***************************************************************************)
(* Instances of HeatQ16 for TLC: a 4 x 4 grid in fixed point with 3 bits   *)
(* after the point in the place of 16, copper next to copper and to air.   *)
(***************************************************************************)
EXTENDS HeatQ16

MCCopper == {<<1, 1>>, <<1, 2>>, <<2, 2>>}
MCSources == {[x0 |-> 1, y0 |-> 2, w |-> 1, h |-> 1]}
MCCursorCells == {<<3, 1>>}
MCStartCell == <<3, 1>>

=============================================================================
