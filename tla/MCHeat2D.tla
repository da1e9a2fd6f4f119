------------------------------ MODULE MCHeat2D ------------------------------
(***************************************************************************)
(* Instances of Heat2D for TLC: grids of 3 x 3 (one interior cell) and     *)
(* 4 x 3 (two) with copper next to air and one source.                     *)
(***************************************************************************)
EXTENDS Heat2D

MCCopper == {<<1, 1>>}
MCCopperBar == {<<1, 1>>, <<2, 1>>}
MCSources == {[x0 |-> 1, y0 |-> 1, w |-> 1, h |-> 1]}
MCCorner == {<<0, 0>>}
MCCornerCell == <<0, 0>>
MCCursorCells == {<<0, 0>>, <<2, 1>>}

=============================================================================
