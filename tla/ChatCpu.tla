------------------------------ MODULE ChatCpu ------------------------------
(***************************************************************************)
(* The original machine of cpu.py: MiniCPU with its hardware in one        *)
(* record, its 34 instructions, and its assembler.                         *)
(***************************************************************************)
EXTENDS SourceLines

CONSTANTS
  Limit      \* the cycle limit of a run

ASSUME LimitAssumption == Limit \in Nat \ {0}

SCREEN_W == 32
SCREEN_H == 16
PORT_KEY == 0
PORT_KEY_STATE == 1
PORT_SCREEN == 16
PORT_RANDOM == 32

\* The mnemonics in the order of their opcodes.
Mnemonics ==
  <<"NOP", "LDIA", "LDIB", "LDIC", "LDID", "ADD", "SUB", "INC", "DEC", "STA",
    "LDA", "JMP", "JZ", "JNZ", "CMP", "PUSH", "POP", "CALL", "RET", "OUT", "IN",
    "HLT", "MOVAB", "MOVBA", "ADDC", "ADDD", "SUBC", "SUBD", "XOR", "AND", "OR",
    "NOT", "INP", "OUTP">>

OPS == [name \in {Mnemonics[i] : i \in DOMAIN Mnemonics} |->
          (CHOOSE i \in DOMAIN Mnemonics : Mnemonics[i] = name) - 1]

\* An exception is no mnemonic.
ASSUME ErrorAssumption == Error \notin DOMAIN OPS

ARG8_OPS == {"INP", "OUTP"}
ARG16_OPS == {"LDIA", "LDIB", "LDIC", "LDID", "STA", "LDA", "JMP", "JZ", "JNZ", "CALL"}
Size(op) == CASE op \in ARG8_OPS -> 2 [] op \in ARG16_OPS -> 3 [] OTHER -> 1

-----------------------------------------------------------------------------
(***************************************************************************)
(* The machine.                                                            *)
(***************************************************************************)
\* reset() leaves the keyboard and the screen alone.
reset(c) ==
  [A |-> 0, B |-> 0, C |-> 0, D |-> 0, PC |-> 0, SP |-> WordSize - 1,
   Z |-> 0, CF |-> 0, N |-> 0, rom |-> <<>>, ram |-> <<>>, cycles |-> 0,
   running |-> FALSE, raised |-> FALSE, out |-> <<>>,
   keys |-> c.keys, screen |-> c.screen]

PowerOn == reset([keys |-> <<>>, screen |-> <<>>])

\* A program that is too long is refused after the reset.
load(c, program) ==
  IF Len(program) > WordSize THEN [reset(c) EXCEPT !.raised = TRUE]
  ELSE [reset(c) EXCEPT !.rom = [a \in 0 .. Len(program) - 1 |-> program[a + 1]]]

read16(c, address) ==
  At(c.ram, Wrap(address)) + 256 * At(c.ram, Wrap(address + 1))

write16(c, address, value) ==
  [c EXCEPT !.ram = Put(Put(@, Wrap(address), Low(value)), Wrap(address + 1), High(value))]

\* The low byte lies above the high byte.
push16(c, value) ==
  [c EXCEPT !.ram = Put(Put(@, c.SP, Low(value)), Wrap(c.SP - 1), High(value)),
            !.SP = Wrap(@ - 2)]

pop16(c) == 256 * At(c.ram, Wrap(c.SP + 1)) + At(c.ram, Wrap(c.SP + 2))
Popped(c) == [c EXCEPT !.SP = Wrap(@ + 2)]

flags(c, value) ==
  [c EXCEPT !.Z = Bit(Wrap(value) = 0), !.N = Bit(Wrap(value) >= WordSize \div 2)]

Accumulate(c, value) == flags([c EXCEPT !.A = value], value)

Arithmetic(c, value) == Accumulate([c EXCEPT !.CF = Bit(value \notin Word)], Wrap(value))

read_port(c, port, random) ==
  CASE port = PORT_KEY -> IF c.keys = <<>> THEN 0 ELSE Head(c.keys)
    [] port = PORT_KEY_STATE -> Bit(c.keys # <<>>)
    [] port = PORT_RANDOM -> random
    [] OTHER -> 0

AfterRead(c, port) ==
  IF port = PORT_KEY /\ c.keys # <<>> THEN [c EXCEPT !.keys = Tail(@)] ELSE c

write_port(c, port) ==
  IF port = PORT_SCREEN /\ c.B < SCREEN_W /\ c.C < SCREEN_H
  THEN [c EXCEPT !.screen = With(@, <<c.B, c.C>>, Low(c.A))] ELSE c

Branch(c, taken, address) == IF taken THEN [c EXCEPT !.PC = address] ELSE c

\* What the instructions with a carry add and subtract.
Sums(c) == [ADD |-> c.A + c.B, SUB |-> c.A - c.B]
MoreSums(c) ==
  [ADDC |-> c.A + c.C, ADDD |-> c.A + c.D, SUBC |-> c.A - c.C, SUBD |-> c.A - c.D]

Logic(c) ==
  [XOR |-> SymDiff(Bits(c.A), Bits(c.B)), AND |-> Bits(c.A) \cap Bits(c.B),
   OR |-> Bits(c.A) \cup Bits(c.B), NOT |-> DOMAIN Weight \ Bits(c.A)]

Stack(c, name, arg) ==
  CASE name = "PUSH" -> push16(c, c.A)
    [] name = "POP" -> Accumulate(Popped(c), pop16(c))
    [] name = "CALL" -> [push16(c, c.PC) EXCEPT !.PC = arg]
    [] name = "RET" -> [Popped(c) EXCEPT !.PC = pop16(c)]

Ports(c, name, port, random) ==
  CASE name = "INP" -> Accumulate(AfterRead(c, port), read_port(c, port, random))
    [] name = "OUTP" -> write_port(c, port)

Perform(c, name, arg, random) ==
  CASE name = "NOP" -> c
    [] name = "LDIA" -> Accumulate(c, arg)
    [] name = "LDIB" -> [c EXCEPT !.B = arg]
    [] name = "LDIC" -> [c EXCEPT !.C = arg]
    [] name = "LDID" -> [c EXCEPT !.D = arg]
    [] name \in {"ADD", "SUB"} -> Arithmetic(c, Sums(c)[name])
    [] name \in {"ADDC", "ADDD", "SUBC", "SUBD"} -> Arithmetic(c, MoreSums(c)[name])
    [] name \in {"XOR", "AND", "OR", "NOT"} -> Accumulate(c, OfBits(Logic(c)[name]))
    [] name = "INC" -> Accumulate(c, Wrap(c.A + 1))
    [] name = "DEC" -> Accumulate(c, Wrap(c.A - 1))
    [] name = "CMP" -> flags(c, c.A - c.B)
    [] name = "STA" -> write16(c, arg, c.A)
    [] name = "LDA" -> Accumulate(c, read16(c, arg))
    [] name = "JMP" -> Branch(c, TRUE, arg)
    [] name = "JZ" -> Branch(c, c.Z = 1, arg)
    [] name = "JNZ" -> Branch(c, c.Z = 0, arg)
    [] name \in {"PUSH", "POP", "CALL", "RET"} -> Stack(c, name, arg)
    [] name = "OUT" -> [c EXCEPT !.out = Append(@, Low(c.A))]
    [] name = "IN" -> Accumulate(c, 0)
    [] name = "HLT" -> [c EXCEPT !.running = FALSE]
    [] name = "MOVAB" -> Accumulate(c, c.B)
    [] name = "MOVBA" -> [c EXCEPT !.B = c.A]
    [] name \in {"INP", "OUTP"} -> Ports(c, name, arg, random)

\* Code is fetched from ROM.  An opcode that is none leaves the loop by an
\* exception, with running still set.
step(c, random) ==
  LET opcode == At(c.rom, c.PC)
      byte(i) == At(c.rom, Wrap(c.PC + i))
      name == Mnemonics[opcode + 1]
      arg == CASE Size(name) = 1 -> 0
               [] Size(name) = 2 -> byte(1)
               [] Size(name) = 3 -> byte(1) + 256 * byte(2)
      fetched == [c EXCEPT !.PC = Wrap(@ + Size(name))]
  IN IF opcode >= Len(Mnemonics) THEN [c EXCEPT !.PC = Wrap(@ + 1), !.raised = TRUE]
     ELSE [Perform(fetched, name, arg, random) EXCEPT !.cycles = @ + 1]

\* One turn of the loop of run().
Turn(c, random) ==
  IF c.cycles >= Limit THEN [c EXCEPT !.running = FALSE, !.raised = TRUE] ELSE step(c, random)

-----------------------------------------------------------------------------
(***************************************************************************)
(* The assembler.                                                          *)
(***************************************************************************)
\* What follows the first colon, if there is one.
Unlabelled(line) ==
  IF Places(line, ":") = {} THEN line ELSE Strip(After(line, Min(Places(line, ":"))))

Operation(words) ==
  IF words # <<>> /\ Len(words[1]) = 1 /\ upper(words[1])[1] \in DOMAIN OPS
  THEN upper(words[1])[1] ELSE Error

LabelOf(line) == upper(Strip(Before(line, Min(Places(line, ":")))))

PassOneStep(pass, raw) ==
  LET line == Code(raw)
      labelled == IF Places(line, ":") = {} THEN pass
                  ELSE [pass EXCEPT !.labels = With(@, LabelOf(line), pass.pc)]
      op == Operation(Words(Unlabelled(line)))
  IN CASE pass = Error -> Error
       [] pass # Error /\ Unlabelled(line) = <<>> -> labelled
       [] pass # Error /\ Unlabelled(line) # <<>> /\ op = Error -> Error
       [] OTHER -> [labelled EXCEPT !.pc = @ + Size(op), !.lines = Append(@, Unlabelled(line))]

\* Nothing is read yet.
Unpassed == [labels |-> <<>>, pc |-> 0, lines |-> <<>>]

PassOne(source) ==
  LET pass[i \in 0 .. Len(source)] ==
        IF i = 0 THEN Unpassed ELSE PassOneStep(pass[i - 1], source[i])
  IN pass[Len(source)]

\* What is encoded as the operand: labels go before numbers.
Argument(op, words, labels) ==
  IF Len(words) = 1 THEN Error
  ELSE IF op \in ARG16_OPS /\ upper(words[2]) \in DOMAIN labels THEN labels[upper(words[2])]
  ELSE number(words[2])

Encoded(op, value) ==
  CASE op = Error -> Error
    [] op # Error /\ Size(op) = 1 -> <<OPS[op]>>
    [] op # Error /\ Size(op) > 1 /\ value = Error -> Error
    [] op # Error /\ Size(op) = 2 /\ value # Error -> <<OPS[op], Low(value)>>
    [] op # Error /\ Size(op) = 3 /\ value # Error -> <<OPS[op]>> \o Bytes16(Wrap(value))

Instruction(words, labels) ==
  Encoded(Operation(words), Argument(Operation(words), words, labels))

\* The bytes of a line.  A colon that is left cuts the line once more.
Emitted(line, labels) ==
  IF Unlabelled(line) = <<>> THEN <<>> ELSE Instruction(Words(Unlabelled(line)), labels)

PassTwo(pass) ==
  IF pass = Error THEN Error
  ELSE Joined([i \in DOMAIN pass.lines |-> Emitted(pass.lines[i], pass.labels)])

assemble(source) == PassTwo(PassOne(source))
=============================================================================
