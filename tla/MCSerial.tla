------------------------------ MODULE MCSerial ------------------------------
(* A board with two cores; .bss of four sizes, two of them no multiple of  *)
(* 8; a FIFO of two characters; 5 x 5 matrices with reports of the rows 0, *)
(* 2 and 4, all elements alike or no two neighbours; a counter that        *)
(* reaches two digits before it wraps.                                     *)
EXTENDS Serial

MCCores == {0, 1}
MCBssSizes == {0, 4, 16, 20}
MCMatrices == {[c \in Elements |-> 7], [c \in Elements |-> (31 * c[1] + 17 * c[2] + 5) % 100]}
=============================================================================
