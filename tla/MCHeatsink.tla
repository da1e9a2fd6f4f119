----------------------------- MODULE MCHeatsink -----------------------------
(***************************************************************************)
(* Instances of Heatsink for TLC: the code's 260 x 220 and the sizes       *)
(* around the ones the guide suggests, down to the smallest comb.          *)
(***************************************************************************)
EXTENDS Heatsink

MCWidths == {105, 106, 111, 112, 113, 127, 128, 160, 199, 200, 240, 255, 260, 300, 301}
MCHeights == {20, 21, 30, 99, 100, 160, 219, 220, 221, 300}

=============================================================================
