----------------------------- MODULE MCPointer -----------------------------
(***************************************************************************)
(* Instances of Pointer for TLC: a screen of 7 x 3 pixels over a grid of   *)
(* 3 x 2 cells (a margin on both axes, every other row and column skipped, *)
(* an odd number of columns), touches inside, on the edges and outside the *)
(* range the touch screen declares, and mouse moves smaller and larger     *)
(* than a pixel in both directions.                                        *)
(***************************************************************************)
EXTENDS Pointer

MCAbsMin == -1
MCAbsPoints == {<<-1, -1>>, <<5, 2>>, <<9, -4>>}
MCOnePoint == {<<0, 0>>}
MCRelMoves == {<<2, -1>>, <<-2, 2>>}
MCSlowMoves == {<<1, 0>>}

=============================================================================
