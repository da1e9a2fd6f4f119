---------------------------- MODULE MCHeatField ----------------------------
(***************************************************************************)
(* Instances of HeatField for TLC: a 4 x 4 grid (four interior cells) with *)
(* a copper column next to air, and one source.                            *)
(***************************************************************************)
EXTENDS HeatField

MCCopper == {<<1, 1>>, <<1, 2>>, <<2, 2>>}
MCSources == {[x0 |-> 1, y0 |-> 2, w |-> 1, h |-> 1]}
MCBrushCells == {<<0, 1>>, <<2, 2>>}

=============================================================================
