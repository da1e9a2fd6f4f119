------------------------------ MODULE MCScreen ------------------------------
(***************************************************************************)
(* Instances of Screen for TLC: a display with a margin on both axes whose *)
(* legend does not fit, with every other row and column skipped; one       *)
(* narrower than the grid, with a margin below it and nothing skipped; and *)
(* one without margins, no larger than the legend.                         *)
(***************************************************************************)
EXTENDS Screen

MCDisplays == {
  [Width |-> 11, Height |-> 14, NX |-> 3, NY |-> 5, big |-> 10,
   hot |-> {<<0, 0>>, <<2, 2>>}, cursors |-> {<<0, 0>>, <<5, 4>>, <<10, 6>>, <<3, 11>>}],
  [Width |-> 4, Height |-> 11, NX |-> 6, NY |-> 5, big |-> 99999,
   hot |-> {<<0, 0>>, <<1, 2>>}, cursors |-> {<<0, 0>>, <<1, 3>>, <<3, 10>>}],
  [Width |-> 6, Height |-> 9, NX |-> 3, NY |-> 3, big |-> 99999,
   hot |-> {<<1, 1>>, <<2, 2>>}, cursors |-> {<<0, 0>>, <<2, 8>>, <<5, 4>>}]}

MCDim == [barW |-> 1, gap |-> 2, labelW |-> 2, edge |-> 1, inset |-> 1, char |-> 1, pad |-> 1,
          low |-> 8, barMin |-> 3]
MCNameLen == [p \in {0, 1} |-> IF p = 0 THEN 4 ELSE 6]

=============================================================================
