------------------------------- MODULE Compat -------------------------------
(***************************************************************************)
(* "The base ChatCPU ISA is unchanged, so existing ChatCPU programs still  *)
(* assemble and run" (docs/TRAPCPU.md): whenever the original system       *)
(* starts a program, the same source is assembled for TRAPCPU and runs     *)
(* beside it, instruction by instruction.  So does, on a third machine,    *)
(* what MiniOS makes of it: its copy of the machine is to agree with the   *)
(* original on the programs it takes.                                      *)
(***************************************************************************)
EXTENDS ChatOs

CONSTANTS
  utf8, Files,  \* strings and includes of the new assembler: not in these programs
  Octal,        \* the numerals in base eight
  NoTwin        \* nothing runs beside the original

VARIABLES
  twin,   \* a machine of TRAPCPU
  mini    \* a machine of MiniOS

vars == <<kit, disk, cpu, source, task, listed, commands, restarts, twin, mini>>

Trap == INSTANCE Cpu
Mini == INSTANCE MiniOs

\* The same source on a TRAPCPU, before the same keyboard and screen.
Beside(program) ==
  IF program = Error THEN NoTwin
  ELSE [Trap!Load(program)
          EXCEPT !.state = "RUNNING", !.keys = cpu.keys, !.screen = cpu.screen]

\* No trap is ever issued: the random byte is all that comes from outside.
TwinTurn(random) ==
  twin' = IF twin = NoTwin \/ cpu'.raised THEN NoTwin
          ELSE Trap!step(twin, [random |-> random, nonce |-> 1, spent |-> FALSE])

MiniBeside(program) ==
  IF program = Error THEN NoTwin ELSE [Mini!load(program) EXCEPT !.running = TRUE]

MiniTurn ==
  mini' = IF mini = NoTwin \/ mini.raised \/ ~mini.running THEN mini ELSE Mini!Turn(mini)

\* They start with the original and are left alone until it does something else.
Follow ==
  CASE task' = "run" -> twin' = Beside(Trap!assemble(source')) /\ mini' = MiniBeside(Mini!assemble(source'))
    [] task' # "run" /\ cpu' = cpu -> UNCHANGED <<twin, mini>>
    [] OTHER -> twin' = NoTwin /\ mini' = NoTwin

Init == OsInit /\ twin = NoTwin /\ mini = NoTwin

Next ==
  \/ \E random \in Random : RunTurn(random) /\ TwinTurn(random) /\ MiniTurn
  \/ (Boots \/ Commands \/ Restart) /\ Follow

Spec == Init /\ [][Next]_vars

-----------------------------------------------------------------------------
(***************************************************************************)
(* Programs that mean the same to both assemblers.  The original takes     *)
(* labels twice, superfluous and out-of-range operands, commas for blanks, *)
(* and quotes for ordinary characters.                                     *)
(***************************************************************************)
IsPlain(word) == \A i \in DOMAIN word : word[i] \notin {"'", "\"", Backslash, ","}
IsLiteral(word) == Len(word) = 3 /\ word[1] = "'" /\ word[3] = "'" /\ word[2] \notin {"'", Backslash}

PortableLine(line) ==
  LET words == Words(line)
  IN /\ \A i \in DOMAIN words : IsPlain(words[i]) \/ IsLiteral(words[i])
     /\ Places(line, ",") = {} /\ Places(line, ":") = {}
     /\ Len(words) = (IF Size(Operation(words)) = 1 THEN 1 ELSE 2)
     /\ Operation(words) \in ARG8_OPS => number(words[2]) \in Byte

\* A numeral is a label to the original and not to TRAPCPU, malformed ones too;
\* so may be a directive.
IsNumeral(name) == \E numeral \in DOMAIN Numeral : upper(<<numeral>>) = name

PortableName(name) ==
  /\ name # <<>> /\ name[1] # ".INCLUDE" /\ ~IsNumeral(name) /\ IsPlain(name)
  /\ Places(name, "+") \cup Places(name, "-") = {}

Labelled(raw) == Places(Code(raw), ":") # {}

Portable(text) ==
  LET pass == PassOne(text)
  IN /\ \A line \in ToSet(pass.lines) : PortableLine(line)
     /\ \A name \in DOMAIN pass.labels : PortableName(name)
     /\ \A i, j \in DOMAIN text :
          Labelled(text[i]) /\ Labelled(text[j]) /\ LabelOf(Code(text[i])) = LabelOf(Code(text[j]))
          => i = j

SameImage(old, new) ==
  /\ new # Error
  /\ Trap!Stored(new.code) = [a \in 0 .. Len(old) - 1 |-> old[a + 1]] /\ new.data = <<>>

\* A portable program that the original assembles is assembled by TRAPCPU, to
\* the same bytes at the same addresses, whatever labels and literals it has.
OldProgramsAssemble ==
  task # "run" =>
    \A text \in {disk[path] : path \in DOMAIN disk} \cup {DEMO} :
      assemble(text) # Error /\ Portable(text)
      => SameImage(assemble(text), Trap!assemble(text))

\* Such a program does on TRAPCPU what it did: after every instruction, whatever
\* ran before, registers, flags, stack, memory, screen, keyboard, output and
\* count of cycles are the same, and it halts where it halted.  Two things are
\* excepted: the carry, which a CMP sets on TRAPCPU alone and no instruction of
\* the original reads, and what happens once a program has written the port that
\* makes pages executable.
OldProgramsRun ==
  twin # NoTwin /\ Portable(source) =>
    \/ twin.exec_map # {}
    \/ /\ \A field \in {"A", "B", "C", "D", "PC", "SP", "Z", "N", "ram", "screen", "keys", "out",
                        "cycles"} : cpu[field] = twin[field]
       /\ cpu.running <=> twin.state = "RUNNING"
       /\ ~cpu.running <=> twin.state = "HALTED"

\* What MiniOS runs, the original runs alike: the same bytes, and after every
\* instruction the same registers, carry, output and count of cycles, up to the
\* halt or the limit.  Z and N, which MiniOS sets after every instruction and no
\* instruction of it reads, are excepted, and lines with a colon, which is a
\* label to one and nothing to the other.  At the end of the memory they part:
\* the program counter of the original wraps, beyond that of MiniOS is nothing.
MiniProgramsRun ==
  mini # NoTwin /\ (\A i \in DOMAIN source : ~Labelled(source[i])) /\ mini.PC + 3 <= WordSize =>
    \A field \in {"rom", "A", "B", "PC", "CF", "out", "cycles", "running", "raised"} :
      cpu[field] = mini[field]
=============================================================================
