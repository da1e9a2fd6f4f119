------------------------------- MODULE Serial ------------------------------
(***************************************************************************)
(* The three programs that talk over the PL011 UART, from reset to the     *)
(* text a terminal shows: hello.world/c prints a greeting and idles,       *)
(* hello.world/rust counts for ever, matrix-mul multiplies two matrices    *)
(* and reports its progress.  Every character is polled for room in the    *)
(* FIFO and written to it; the device sends the characters on while it is  *)
(* enabled, loses those written to a full FIFO, and at a wrong rate any of *)
(* them may arrive as something else.  A word of fixed text is one token;  *)
(* decimal numbers are printed digit by digit, as the code does.           *)
(***************************************************************************)
EXTENDS Start, Sequences, SequencesExt

CONSTANTS FifoDepth,    \* characters the transmit FIFO holds when enabled
          N,            \* rows and columns of a matrix (1000 in kernel.c)
          Every,        \* rows between two reports (50 in kernel.c)
          Matrices,     \* what my_rand may fill a matrix with, in tenths
          CounterMod    \* the counter wraps at 2^64, here at this bound

Elements == (0 .. N - 1) \X (0 .. N - 1)

ASSUME SerialAssumption ==
  /\ {FifoDepth, N, Every, CounterMod} \subseteq Nat \ {0}
  /\ Matrices \subseteq [Elements -> Nat]

VARIABLES uart,   \* registers of the PL011 and its transmit FIFO
          out,    \* what the running uart_puts has still to print
          main,   \* where the program stands in main, and its counters
          mat,    \* the matrices A, B and C of matrix-mul
          term    \* the terminal: the line it is in, whether its cursor is
                  \* home, the line completed last, and a row that changes
                  \* (history) whenever a line is completed

serialVars == <<startVars, uart, out, main, mat, term>>

CR == "\r"
LF == "\n"

\* No line looks like this: nothing is completed yet.
NoLine == <<LF>>

Depth == IF uart.fen THEN FifoDepth ELSE 1

-----------------------------------------------------------------------------
(* Strings.  A program's uart_puts either puts a CR before every LF (hello *)
(* and rust) or sends the text as it is (matrix-mul, whose text contains   *)
(* both).                                                                  *)

\* Mutant: uart_puts sends LF alone.
LfAlone(s) == s

CrBeforeLf(s) == FlattenSeq([n \in DOMAIN s |->
                               IF s[n] = LF THEN <<CR, LF>> ELSE <<s[n]>>])

Wire(s) == IF program = "matmul" THEN s ELSE CrBeforeLf(s)

\* The characters from '0' on.
Numerals == <<"0", "1", "2", "3", "4", "5", "6", "7", "8", "9">>

\* buffer[i++] = val % 10 + '0'; val /= 10.
Digits[n \in Nat] ==
  IF n = 0 THEN <<>> ELSE <<Numerals[1 + (n % 10)]>> \o Digits[n \div 10]

\* Mutant: The digits are printed in the order they were found.
PrintNumAsBuilt(n) == IF n = 0 THEN <<"0">> ELSE Digits[n]

\* print_num and uart_print_int: zero apart, the others last digit first
\* into a buffer that is then printed backwards.
PrintNum(n) == IF n = 0 THEN <<"0">> ELSE Reverse(Digits[n])

Greeting   == "Hello, world"
CounterIs  == "counter = "
Banner     == "Bare Metal Matrix Multiplication"
Filling    == "Initializing matrices..."
Starting   == "Starting calculation"
RowDone    == "Row completed: "
OutOf      == " out of "
RowsText   == " rows "
CalculationDone == "Calculation Done!"
ValueAt    == "Value at C[0][0]: "

\* matrix-mul ends its lines with LF CR.
LfCr == <<LF, CR>>

-----------------------------------------------------------------------------
(* The device (external).  A write of LCRH takes the divisors over and     *)
(* sets the FIFO enable bit.                                               *)

Written(u, reg, v) ==
  CASE reg = "CR"   -> [u EXCEPT !.on = v]
    [] reg = "IBRD" -> [u EXCEPT !.ibrd = v]
    [] reg = "FBRD" -> [u EXCEPT !.fbrd = v]
    [] reg = "LCRH" -> [u EXCEPT !.fen = v, !.baud = <<u.ibrd, u.fbrd>>]
    [] OTHER        -> u

\* Mutant: LCRH is written before the divisors it takes over.
LineControlFirst ==
  << <<"CR", FALSE>>, <<"ICR", FALSE>>, <<"LCRH", TRUE>>, <<"IBRD", 13>>, <<"FBRD", 1>>,
     <<"IMSC", FALSE>>, <<"CR", TRUE>> >>

\* uart_init, in its order.  ICR and IMSC concern interrupts, which no
\* program uses.
InitWrites == << <<"CR", FALSE>>, <<"ICR", FALSE>>, <<"IBRD", 13>>, <<"FBRD", 1>>,
                 <<"LCRH", TRUE>>, <<"IMSC", FALSE>>, <<"CR", TRUE>> >>

\* Within 1% of 115200 baud from the 24 MHz clock.
NearRate(b) ==
  LET rate == (4 * 24000000) \div (64 * b[1] + b[2])
  IN  100 * rate \in 100 * 115200 - 115200 .. 100 * 115200 + 115200

\* A write of DR: the character is lost if the FIFO is full.
Taken(ch) ==
  IF Len(uart.fifo) < Depth THEN [uart EXCEPT !.fifo = Append(@, ch)] ELSE uart

Garbled == "garbled"

\* What may arrive at the other end.
Arrivals(ch) == IF NearRate(uart.baud) THEN {ch} ELSE {ch, Garbled}

\* What the terminal makes of a character.
Shown(t, ch) ==
  CASE ch = CR -> [t EXCEPT !.home = TRUE]
    [] ch = LF -> [t EXCEPT !.line = <<>>, !.last = t.line, !.row = 1 - @]
    [] OTHER   -> [t EXCEPT !.line = Append(@, ch), !.home = FALSE]

\* The device sends the oldest character.
Transmit ==
  /\ uart.on /\ uart.fifo # <<>>
  /\ \E ch \in Arrivals(Head(uart.fifo)) : term' = Shown(term, ch)
  /\ uart' = [uart EXCEPT !.fifo = Tail(@)]
  /\ UNCHANGED <<startVars, out, main, mat>>

-----------------------------------------------------------------------------
(* The programs                                                            *)

Zeros == [c \in Elements |-> 0]

\* hello finds the UART as anything left it; the two others rely on one
\* that works.
SerialInit ==
  /\ StartInit
  /\ uart \in [on : BOOLEAN, fen : BOOLEAN, ibrd : {1, 13}, fbrd : {1},
               baud : {<<1, 1>>, <<13, 1>>}, fifo : {<<>>}]
  /\ uart.baud = <<uart.ibrd, uart.fbrd>>
  /\ program # "hello" => uart.on /\ uart.ibrd = 13
  /\ out = <<>>
  /\ main = [pc |-> "begin", n |-> 0, i |-> 0, k |-> 0, j |-> 0]
  /\ mat = [A |-> Zeros, B |-> Zeros, C |-> Zeros]
  /\ term = [line |-> <<>>, home |-> TRUE, last |-> NoLine, row |-> 0]

\* main runs on a core that has been started, and between two characters.
Runs(p, pc) ==
  /\ program = p /\ main.pc = pc /\ out = <<>>
  /\ \E c \in DOMAIN cpu : cpu[c].pc = "main"

\* Mutant: The program waits until more than one character has room.
PutcSpare ==
  /\ out # <<>> /\ Len(uart.fifo) < Depth - 1
  /\ uart' = Taken(Head(out))
  /\ out' = Tail(out)
  /\ UNCHANGED <<startVars, main, mat, term>>

\* Mutant: the flag register is not read.
PutcAtOnce ==
  /\ out # <<>>
  /\ uart' = Taken(Head(out))
  /\ out' = Tail(out)
  /\ UNCHANGED <<startVars, main, mat, term>>

\* uart_putc: wait for room, write DR.
Putc ==
  /\ out # <<>> /\ Len(uart.fifo) < Depth
  /\ uart' = Taken(Head(out))
  /\ out' = Tail(out)
  /\ UNCHANGED <<startVars, main, mat, term>>

Says(s) == out' = Wire(s)

\* hello: the next register write of uart_init.
UartInit ==
  /\ Runs("hello", "begin")
  /\ LET n == main.n + 1 IN
       /\ uart' = Written(uart, InitWrites[n][1], InitWrites[n][2])
       /\ main' = [main EXCEPT !.n = n,
                               !.pc = IF n = Len(InitWrites) THEN "greet" ELSE @]
  /\ UNCHANGED <<startVars, out, mat, term>>

\* hello and rust: the greeting.  hello then waits for events for ever.
Greet ==
  /\ Runs("hello", "greet") \/ Runs("rust", "begin")
  /\ Says(<<Greeting, LF>>)
  /\ main' = [main EXCEPT !.pc = IF program = "hello" THEN "halt" ELSE "count"]
  /\ UNCHANGED <<startVars, uart, mat, term>>

\* rust: one turn of the loop.  The release build wraps the counter.
CountUp ==
  /\ Runs("rust", "count")
  /\ Says(<<CounterIs>> \o PrintNum(main.n) \o <<LF>>)
  /\ main' = [main EXCEPT !.n = (@ + 1) % CounterMod]
  /\ UNCHANGED <<startVars, uart, mat, term>>

\* matrix-mul: the title, then A, B and C are filled and the calculation is
\* announced.  my_rand may give any element.
Title ==
  /\ Runs("matmul", "begin")
  /\ Says(LfCr \o <<Banner>> \o LfCr \o <<Filling>> \o LfCr)
  /\ main' = [main EXCEPT !.pc = "fill"]
  /\ UNCHANGED <<startVars, uart, mat, term>>

FillMatrices ==
  /\ Runs("matmul", "fill")
  /\ \E a, b \in Matrices : mat' = [A |-> a, B |-> b, C |-> Zeros]
  /\ Says(<<Starting>> \o LfCr)
  /\ main' = [main EXCEPT !.pc = "multiply"]
  /\ UNCHANGED <<startVars, uart, term>>

\* Mutant: The report does not wait for the last product of the row.
SumsNotDone(m) == m.k = N - 1 /\ m.j = 0

\* Mutant: The report stands inside the loop over k.
EveryRound(m) == m.j = N - 1

\* C[i][j] += A[i][k] * B[k][j], in hundredths, the loops ordered i, k, j.
\* After a row whose number is a multiple of Every, a report.
LastOfRow(m) == m.k = N - 1 /\ m.j = N - 1

\* Mutant: The last k of every row is left out.
NextCellShort(m) ==
  IF m.j < N - 1 THEN [m EXCEPT !.j = @ + 1]
  ELSE IF m.k < N - 2 THEN [m EXCEPT !.j = 0, !.k = @ + 1]
  ELSE [m EXCEPT !.j = 0, !.k = 0, !.i = @ + 1,
                 !.pc = IF m.i < N - 1 THEN @ ELSE "result"]

NextCell(m) ==
  IF m.j < N - 1 THEN [m EXCEPT !.j = @ + 1]
  ELSE IF m.k < N - 1 THEN [m EXCEPT !.j = 0, !.k = @ + 1]
  ELSE [m EXCEPT !.j = 0, !.k = 0, !.i = @ + 1,
                 !.pc = IF m.i < N - 1 THEN @ ELSE "result"]

Multiply ==
  /\ Runs("matmul", "multiply")
  /\ mat' = [mat EXCEPT !.C[<<main.i, main.j>>] =
               @ + mat.A[<<main.i, main.k>>] * mat.B[<<main.k, main.j>>]]
  /\ main' = NextCell(main)
  /\ IF LastOfRow(main) /\ main.i % Every = 0
     THEN Says(<<RowDone>> \o PrintNum(main.i) \o <<OutOf>> \o PrintNum(N)
               \o <<RowsText>> \o LfCr)
     ELSE UNCHANGED out
  /\ UNCHANGED <<startVars, uart, term>>

\* (long)C[0]: the fraction is cut off.
Result ==
  /\ Runs("matmul", "result")
  /\ Says(<<CalculationDone>> \o LfCr \o <<ValueAt>> \o PrintNum(mat.C[<<0, 0>>] \div 100) \o LfCr)
  /\ main' = [main EXCEPT !.pc = "halt"]
  /\ UNCHANGED <<startVars, uart, mat, term>>

StartCode ==
  /\ StartNext
  /\ UNCHANGED <<uart, out, main, mat, term>>

Program == StartCode \/ Putc \/ UartInit \/ Greet \/ CountUp
             \/ Title \/ FillMatrices \/ Multiply \/ Result

SerialNext == Program \/ Transmit

\* A processor that is not waiting runs on, and an enabled UART sends.
SerialSpec == SerialInit /\ [][SerialNext]_serialVars
                /\ WF_serialVars(Program) /\ WF_serialVars(Transmit)

-----------------------------------------------------------------------------
(* Properties                                                              *)

\* Decimal notation: all digits but the last, then the last.
Numeral[n \in Nat] ==
  IF n < 10 THEN <<Numerals[1 + n]>>
            ELSE Append(Numeral[n \div 10], Numerals[1 + (n % 10)])

Products(i, j) == [k \in 0 .. N - 1 |-> mat.A[<<i, k>>] * mat.B[<<k, j>>]]
Dot(i, j) == SumFunctionOnSet(Products(i, j), 0 .. N - 1)

Counted(n) == <<CounterIs>> \o Numeral[n]
Reported(i) == <<RowDone>> \o Numeral[i] \o <<OutOf>> \o Numeral[N] \o <<RowsText>>
ResultLine == <<ValueAt>> \o Numeral[Dot(0, 0) \div 100]

\* The lines that may follow a line in each program's text.
Following(last) ==
  CASE program = "hello" -> IF last = NoLine THEN {<<Greeting>>} ELSE {}
    [] program = "rust" ->
         IF last = NoLine THEN {<<Greeting>>}
         ELSE IF last = <<Greeting>> THEN {Counted(0)}
         ELSE {Counted((n + 1) % CounterMod) :
                 n \in {m \in 0 .. CounterMod - 1 : last = Counted(m)}}
    [] program = "matmul" ->
         IF last = NoLine THEN {<<>>}
         ELSE IF last = <<>> THEN {<<Banner>>}
         ELSE IF last = <<Banner>> THEN {<<Filling>>}
         ELSE IF last = <<Filling>> THEN {<<Starting>>}
         ELSE IF last = <<Starting>> THEN {Reported(0)}
         ELSE IF last = <<CalculationDone>> THEN {ResultLine}
         ELSE {IF i + Every < N THEN Reported(i + Every) ELSE <<CalculationDone>> :
                 i \in {m \in 0 .. N - 1 : last = Reported(m)}}
    [] OTHER -> {}

\* Every line the terminal completes is the one a reader expects after the
\* line above it: the greeting comes once, the counter goes up by one, no report
\* is missing, repeated, out of order or garbled, numbers are in decimal
\* notation, and the value printed at the end is the dot product of row 0 and
\* column 0 without its fraction.  Between a report and this lie a FIFO that
\* loses what does not fit and a line that garbles at a wrong rate.
LinesRight ==
  [][term'.row # term.row => term'.last \in Following(term.last)]_serialVars

\* No staircase: the first character of a line is shown at the left edge,
\* although LF alone only moves the terminal down.
NoStaircase ==
  [][term.line = <<>> /\ term'.line # <<>> => term.home]_serialVars

\* The divisors of an enabled UART never change, and all that hello sends
\* is sent within 1% of 115200 baud from the 24 MHz clock, whatever rate and
\* FIFO setting it found.
BaudSafe ==
  [][/\ uart.on => uart'.baud = uart.baud
     /\ program = "hello" /\ term' # term => NearRate(uart.baud)]_serialVars

\* The product of the two matrices, although the loops run through a row of C
\* once for every k: a row that i has passed is final, all N are when the
\* loops end, and a row that is not begun is zero.
ProductRight ==
  program = "matmul" /\ main.pc \in {"multiply", "result", "halt"} =>
    /\ main.pc = "multiply" \/ main.i = N
    /\ \A i, j \in 0 .. N - 1 :
         /\ i < main.i => mat.C[<<i, j>>] = Dot(i, j)
         /\ i > main.i => mat.C[<<i, j>>] = 0

\* A row that the terminal reports as completed holds the product already,
\* and once the terminal says the calculation is done every row does.
RowsFinal ==
  program = "matmul" =>
    /\ \A i, j \in 0 .. N - 1 :
         \/ /\ term.last # Reported(i)
            /\ ~(\E n \in 0 .. N - 1 : n > i /\ term.last = Reported(n))
            /\ term.last # <<CalculationDone>>
         \/ mat.C[<<i, j>>] = Dot(i, j)

\* Every program comes to say what it is for: hello greets, rust counts
\* round and round, matrix-mul ends with its value.
ProgramsPrint ==
  /\ program = "hello" => <>(term.last = <<Greeting>>)
  /\ program = "rust" => \A n \in 0 .. CounterMod - 1 : []<>(term.last = Counted(n))
  /\ program = "matmul" => <>(term.last = ResultLine)
=============================================================================
