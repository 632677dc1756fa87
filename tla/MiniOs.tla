------------------------------- MODULE MiniOs -------------------------------
(***************************************************************************)
(* The machine and the assembler of MiniOS, as setup.py installs them: a   *)
(* copy of their own, with nine of the instructions and without labels,    *)
(* stack, screen or keyboard.                                              *)
(***************************************************************************)
EXTENDS SourceLines

CONSTANTS
  Octal,     \* the numerals in base eight: unknown here
  Limit

OPS == [NOP |-> 0, LDIA |-> 1, LDIB |-> 2, ADD |-> 5, SUB |-> 6, INC |-> 7, DEC |-> 8,
        OUT |-> 19, HLT |-> 21]

Size(op) == IF op \in {"LDIA", "LDIB"} THEN 3 ELSE 1

-----------------------------------------------------------------------------
Operand(word) ==
  IF Len(word) = 1 /\ word[1] \in Octal THEN Error ELSE number(word)

Encoded(op, value) ==
  CASE Size(op) = 1 -> <<OPS[op]>>
    [] Size(op) = 3 /\ value = Error -> Error
    [] Size(op) = 3 /\ value # Error -> <<OPS[op]>> \o Bytes16(Wrap(value))

\* What follows the operand is ignored.
Instruction(words) ==
  IF words = <<>> THEN Error
  ELSE LET op == upper(words[1])[1]
       IN IF Len(words[1]) # 1 \/ op \notin DOMAIN OPS THEN Error
          ELSE Encoded(op, IF Len(words) = 1 THEN Error ELSE Operand(words[2]))

\* The bytes of a line.
Emitted(raw) == IF Code(raw) = <<>> THEN <<>> ELSE Instruction(Words(Code(raw)))

assemble(source) == Joined([i \in DOMAIN source |-> Emitted(source[i])])

-----------------------------------------------------------------------------
reset ==
  [A |-> 0, B |-> 0, PC |-> 0, Z |-> 0, CF |-> 0, N |-> 0, rom |-> <<>>, cycles |-> 0,
   running |-> FALSE, raised |-> FALSE, out |-> <<>>]

\* The ROM has 64 KiB.  A longer program would lengthen it; the original refuses
\* such a program, and what cannot be compared is not followed.
load(program) ==
  [reset EXCEPT !.rom = [a \in 0 .. Len(program) - 1 |-> program[a + 1]]]

\* A bug: the sum without its carry, as an earlier copy of the machine has it.
SumWithoutCarry(c) == [c EXCEPT !.A = Wrap(c.A + c.B)]
Sum(c) == [c EXCEPT !.CF = Bit(c.A + c.B >= WordSize), !.A = Wrap(c.A + c.B)]
Difference(c) == [c EXCEPT !.CF = Bit(c.A < c.B), !.A = Wrap(c.A - c.B)]

Perform(c, op, arg) ==
  CASE op = "NOP" -> c
    [] op = "LDIA" -> [c EXCEPT !.A = arg]
    [] op = "LDIB" -> [c EXCEPT !.B = arg]
    [] op = "ADD" -> Sum(c)
    [] op = "SUB" -> Difference(c)
    [] op = "INC" -> [c EXCEPT !.A = Wrap(@ + 1)]
    [] op = "DEC" -> [c EXCEPT !.A = Wrap(@ - 1)]
    [] op = "OUT" -> [c EXCEPT !.out = Append(@, Low(c.A))]
    [] op = "HLT" -> [c EXCEPT !.running = FALSE]

\* Every instruction sets Z and N from A.  The program counter does not wrap:
\* beyond the ROM there is nothing to fetch.
step(c) ==
  LET ops == {op \in DOMAIN OPS : OPS[op] = At(c.rom, c.PC)}
      op == CHOOSE name \in ops : TRUE
      arg == At(c.rom, c.PC + 1) + 256 * At(c.rom, c.PC + 2)
      done == Perform([c EXCEPT !.PC = @ + Size(op)], op, arg)
  IN CASE c.PC >= WordSize -> [c EXCEPT !.raised = TRUE]
       [] c.PC < WordSize /\ (ops = {} \/ c.PC + Size(op) > WordSize) ->
            [c EXCEPT !.PC = @ + 1, !.raised = TRUE]
       [] OTHER -> [done EXCEPT !.Z = Bit(done.A = 0), !.N = Bit(done.A >= WordSize \div 2),
                                !.cycles = @ + 1]

Turn(c) ==
  IF c.cycles >= Limit THEN [c EXCEPT !.running = FALSE, !.raised = TRUE] ELSE step(c)
=============================================================================
