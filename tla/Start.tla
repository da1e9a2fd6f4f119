------------------------------- MODULE Start -------------------------------
(***************************************************************************)
(* The assembly between reset and the first line of C, C++ or Rust, in the *)
(* four programs that run without firmware: hello.world/c ("hello"),       *)
(* hello.world/rust ("rust"), matrix-mul ("matmul") and metal ("ramfb").   *)
(* Each clears .bss with 8-byte stores and calls main.  matrix-mul parks   *)
(* every core but core 0 and counts a size down; the others compare two    *)
(* addresses.  metal first makes floating point usable.  Addresses count   *)
(* from __bss_start.                                                       *)
(***************************************************************************)
EXTENDS Integers

CONSTANTS Cores,     \* the cores that enter _start, by the affinity in MPIDR_EL1
          BssSizes   \* sizes in bytes that .bss may have

ASSUME StartAssumption == Cores \subseteq 0 .. 255 /\ BssSizes \subseteq Nat

VARIABLES program,   \* the image that was loaded
          size,      \* __bss_end - __bss_start
          cpu,       \* per core: where it is, and its two registers
          cleared,   \* the bytes that have been set to zero
          fp         \* CurrentEL, CPTR_EL2.TFP and CPACR_EL1.FPEN

startVars == <<program, size, cpu, cleared, fp>>

Programs == {"hello", "rust", "matmul", "ramfb"}

\* Mutant: Every core is taken for core 0: the cbz is missing.
AnyCore(c) == TRUE

\* Core 0 by the low byte of its affinity: and x0, x0, #0xFF.
IsMaster(c) == c % 256 = 0

\* Only matrix-mul is written for a machine that starts several cores, and
\* its .bss is three arrays of doubles.
CoresOf(p) == IF p = "matmul" THEN Cores ELSE Cores \cap {0}
SizesOf(p) == IF p = "matmul" THEN {s \in BssSizes : s % 8 = 0} ELSE BssSizes

FpUsable == fp.fpen = 3 /\ (fp.el = 2 => fp.tfp = 0)

\* The value at reset matters to the one program that sets these registers;
\* the others run with them as they are.
FpAtReset(p) == IF p = "ramfb" THEN [el : {1, 2}, tfp : {0, 1}, fpen : 0 .. 3]
                               ELSE {[el |-> 1, tfp |-> 0, fpen |-> 0]}

StartInit ==
  /\ program \in Programs
  /\ size \in SizesOf(program)
  /\ cpu = [c \in CoresOf(program) |-> [pc |-> "reset", ptr |-> 0, left |-> size]]
  /\ cleared = {}
  /\ fp \in FpAtReset(program)

\* From _start to the loop: matrix-mul sends the other cores to proc_hang
\* and skips the loop for an empty .bss; metal enables floating point.
Enter(c) ==
  /\ cpu[c].pc = "reset"
  /\ cpu' = [cpu EXCEPT ![c].pc =
               IF program # "matmul" THEN "clear"
               ELSE IF ~IsMaster(c) THEN "parked"
               ELSE IF size = 0 THEN "main" ELSE "clear"]
  /\ fp' = IF program = "ramfb"
           THEN [fp EXCEPT !.tfp = IF fp.el = 2 THEN 0 ELSE @, !.fpen = 3]
           ELSE fp
  /\ UNCHANGED <<program, size, cleared>>

\* str xzr, [x0], #8
ClearWord(c) == cleared' = cleared \cup (cpu[c].ptr .. cpu[c].ptr + 7)

\* loop_bss of matrix-mul: store first, stop when the count is exactly 0.
CountedStore(c) ==
  /\ program = "matmul" /\ cpu[c].pc = "clear"
  /\ ClearWord(c)
  /\ cpu' = [cpu EXCEPT ![c] =
               [pc   |-> IF @.left = 8 THEN "main" ELSE "clear",
                ptr  |-> @.ptr + 8,
                left |-> @.left - 8]]
  /\ UNCHANGED <<program, size, fp>>

\* Mutant: The loop compares with b.gt and stores once more.
StoreOnceMore(c) ==
  /\ program # "matmul" /\ cpu[c].pc = "clear" /\ cpu[c].ptr <= size
  /\ ClearWord(c)
  /\ cpu' = [cpu EXCEPT ![c].ptr = @ + 8]
  /\ UNCHANGED <<program, size, fp>>

\* The loop of the others: compare, then store.  A .bss whose size is no
\* multiple of 8 makes the last store pass its end.
ComparedStore(c) ==
  /\ program # "matmul" /\ cpu[c].pc = "clear" /\ cpu[c].ptr < size
  /\ ClearWord(c)
  /\ cpu' = [cpu EXCEPT ![c].ptr = @ + 8]
  /\ UNCHANGED <<program, size, fp>>

CallMain(c) ==
  /\ program # "matmul" /\ cpu[c].pc = "clear" /\ cpu[c].ptr >= size
  /\ cpu' = [cpu EXCEPT ![c].pc = "main"]
  /\ UNCHANGED <<program, size, cleared, fp>>

Boot(c) == Enter(c) \/ CountedStore(c) \/ ComparedStore(c) \/ CallMain(c)

StartNext == \E c \in DOMAIN cpu : Boot(c)

StartSpec == StartInit /\ [][StartNext]_startVars

-----------------------------------------------------------------------------
(* Properties                                                              *)

\* main is entered with the memory C promises: by core 0 only, with every
\* byte of .bss zero and, in the program whose main computes with floats
\* before anything could report a trap, with floating point usable.  At no
\* time is memory written that lies beyond the last 8-byte word of .bss; in
\* matrix-mul, where the count must hit 0 exactly, none after its end.
MainReady ==
  /\ \A c \in DOMAIN cpu : cpu[c].pc = "main" =>
       /\ c = 0
       /\ 0 .. size - 1 \subseteq cleared
       /\ program = "ramfb" => FpUsable
  /\ cleared \subseteq 0 .. size + 6
  /\ program = "matmul" => cleared \subseteq 0 .. size - 1
=============================================================================
