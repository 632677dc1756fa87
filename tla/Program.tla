------------------------------ MODULE Program ------------------------------
(***************************************************************************)
(* From source to execution: a programmer types lines, the assembler makes *)
(* a program of them, load() puts it into a machine, and run() executes    *)
(* it, with replies of the oracle that come at any time and store into its *)
(* memory.                                                                 *)
(***************************************************************************)
EXTENDS Cpu

CONSTANTS
  Kits,       \* by name, what a programmer types: the lines given, the lines to choose from,
              \* how many are chosen, the comments that may end them; whether the
              \* program is run, and the keys that are typed
  MaxCycles,  \* bound on the instructions of a run
  Inputs,     \* the inputs of an instruction
  Replies,    \* the answers the host resumes with
  Aborts      \* the statuses it gives up with

ASSUME InputsAssumption ==
  Inputs \subseteq Input /\ Replies \subseteq Answer /\ Aborts \subseteq Byte \ {OK, DEGRADED}
ASSUME KeysAssumption == \A k \in DOMAIN Kits : Kits[k].keys \in Seq(Byte)

VARIABLES
  kit,
  source,     \* the lines, each a record with the comment that follows it
  program,    \* what assemble() makes of them
  phase,
  m,          \* the machine
  frames,     \* history: the contexts that were entered and not left yet
  stores      \* history: the addresses that instructions and completions stored to meanwhile

vars == <<kit, source, program, phase, m, frames, stores>>

-----------------------------------------------------------------------------
(***************************************************************************)
(* How a line is written.                                                  *)
(***************************************************************************)
Line(label, op, operands) == [label |-> label, op |-> op, operands |-> operands]

\* The tokens of a line, in one of the ways a programmer may write it.
Written(line, comment) ==
  LET label == IF line.label = NoLabel THEN <<" ">> ELSE line.label \o <<":", " ">>
      op == IF line.op = "" THEN <<>> ELSE <<line.op, " ">>
      operand(i) == (IF i = 1 THEN <<" ">> ELSE <<",", " ">>) \o line.operands[i]
  IN label \o op \o FlattenSeq([i \in DOMAIN line.operands |-> operand(i)]) \o comment

Text(typed) == [i \in DOMAIN typed |-> Written(typed[i].line, typed[i].comment)]
Plain(lines) == [i \in DOMAIN lines |-> [line |-> lines[i], comment |-> <<>>]]

Init ==
  /\ kit \in DOMAIN Kits
  /\ source = Plain(Kits[kit].given)
  /\ program = assemble(Text(source))
  /\ phase = "edit"
  /\ m = Reset
  /\ frames = <<>> /\ stores = {}

Type(line, comment) ==
  /\ phase = "edit" /\ Len(source) < Len(Kits[kit].given) + Kits[kit].free
  /\ source' = Append(source, [line |-> line, comment |-> comment])
  /\ program' = assemble(Text(source'))
  /\ UNCHANGED <<kit, phase, m, frames, stores>>

Run ==
  /\ phase = "edit" /\ Kits[kit].run
  /\ program # Error /\ Loadable(program)
  /\ phase' = "run"
  /\ m' = [Load(program) EXCEPT !.state = "RUNNING", !.keys = Kits[kit].keys]
  /\ UNCHANGED <<kit, source, program, frames, stores>>

-----------------------------------------------------------------------------
(***************************************************************************)
(* The loop of run(), and the contexts it enters and leaves.               *)
(***************************************************************************)
Depth(state) == WordSize - 1 - state.SP

\* A context by the instruction that leaves it.  cs: the segments it may be left
\* to; RETX and IRET take the segment off the stack, RET stays where it is.
Frame(kind, state) ==
  [kind |-> kind, pc |-> state.PC, cs |-> {state.cs}, depth |-> Depth(state),
   size |-> IF kind = "RET" THEN 2 ELSE 4]

Far(frame) == frame.kind # "RET"

\* The addresses a frame lies on.
Cells(frame) ==
  WordSize - frame.depth - frame.size .. WordSize - 1 - frame.depth

Stacked(frame, state) == frame.depth + frame.size <= Depth(state)

\* The frames, one on top of the other, that the stack pointer has not passed.
Kept(state) ==
  SubSeq(frames, 1, Max({0} \cup {i \in DOMAIN frames : Stacked(frames[i], state)}))

\* The frames and another one; none, when the stack ran over the end of memory.
Piled(frame) == IF Depth(m') < Depth(m) THEN <<>> ELSE Append(frames, frame)

\* Up to the next far return, the program runs in a segment of its own choice.
Strayed(list) ==
  [i \in DOMAIN list |->
     IF \E j \in i .. Len(list) : Far(list[j]) THEN list[i] ELSE [list[i] EXCEPT !.cs = {0, 1}]]

Running == phase = "run" /\ m.state = "RUNNING" /\ m.cycles < MaxCycles

Deliverable == m.irq_pending /\ m.ien = 1

Interrupt ==
  /\ Running /\ Deliverable
  /\ m' = _deliver_irq(m)
  /\ frames' = IF Stopped(m') THEN <<>> ELSE Piled(Frame("IRET", m))
  /\ UNCHANGED <<kit, source, program, phase, stores>>

\* The instruction that comes next, and the machine at its last byte.
Name == IF Fetched(m) \in Opcode THEN Mnemonic(Fetched(m)) ELSE "???"
After1(state, name) == [state EXCEPT !.PC = Wrap(@ + width(name))]

\* The innermost context is left by its own return, over a frame that the program
\* has not stored to.
Returns ==
  /\ frames # <<>> /\ Name = Last(frames).kind
  /\ Depth(m) = Last(frames).depth + Last(frames).size
  /\ Cells(Last(frames)) \cap stores = {}

\* A far return that is none, or a far context that is left in another way.
Strays ==
  /\ frames # <<>> /\ ~Returns
  /\ Name \in {"RETX", "IRET"} \/ (Far(Last(frames)) /\ ~Stacked(Last(frames), m'))

FramesAfter ==
  CASE Name = "CALL" -> Piled(Frame("RET", After1(m, Name)))
    [] Name = "CALLX" -> Piled(Frame("RETX", After1(m, Name)))
    [] OTHER -> IF Strays THEN Strayed(Kept(m')) ELSE Kept(m')

\* TRAP and TRAPA store the status of a request that is refused.
Stores == {"STA", "STB", "STW", "TRAP", "TRAPA"}

Touched == {a \in DOMAIN m.ram \cup DOMAIN m'.ram : At(m.ram, a) # At(m'.ram, a)}

Execute ==
  /\ Running /\ ~Deliverable
  /\ \E in \in Inputs :
       /\ m' = step(m, in)
       /\ frames' = IF m'.state = "FAULT" THEN <<>> ELSE FramesAfter
  /\ stores' = IF frames' = <<>> THEN {}
               ELSE IF Name \notin Stores THEN stores ELSE stores \cup Touched
  /\ UNCHANGED <<kit, source, program, phase>>

\* The host answers the request that is pending, whatever became of the machine,
\* or gives it up.
Asked == phase = "run" /\ Waiting(m)

Answered ==
  /\ stores' = IF frames = <<>> THEN {} ELSE stores \cup Touched
  /\ UNCHANGED <<kit, source, program, phase, frames>>

Resume ==
  /\ Asked
  /\ \E answer \in Replies, in \in Inputs :
       /\ AnswerTo(m.pending, answer) /\ in.nonce # m.pending.nonce
       /\ m' = resume(m, answer, in.nonce)
  /\ Answered

FailTrap ==
  /\ Asked
  /\ \E status \in Aborts : m' = fail_trap(m, status)
  /\ Answered

Next ==
  \/ \E line \in Kits[kit].lines, comment \in Kits[kit].comments : Type(line, comment)
  \/ Run \/ Interrupt \/ Execute \/ Resume \/ FailTrap

Spec == Init /\ [][Next]_vars

-----------------------------------------------------------------------------
(***************************************************************************)
(* Properties of the assembler.                                            *)
(***************************************************************************)
Assembled == phase = "edit" /\ program # Error

\* Reading a line gives back what was written, whatever quotes, separators and
\* comment marks its strings and its comment contain.
LinesReadBack ==
  phase = "edit" =>
    _parse_source(Text(source)) =
      [i \in DOMAIN source |-> [label |-> upper(source[i].line.label),
                                op |-> upper(<<source[i].line.op>>)[1],
                                operands |-> source[i].line.operands]]

\* The bytes a listing shows at an address: those of the last line that lies
\* there.
Listed(section, address) ==
  LET bytes(i) == Emitted(program.layout[i], program.symbols)
      start(i) == program.layout[i].address
      lying == {i \in DOMAIN program.layout :
                  /\ program.layout[i].section = section
                  /\ address \in start(i) .. start(i) + Len(bytes(i)) - 1}
  IN IF lying = {} THEN 0 ELSE bytes(Max(lying))[address - start(Max(lying)) + 1]

Span(line) ==
  IF line.op = ".RESB" THEN evaluate(line.operands[1], program.symbols)
  ELSE Len(Emitted(line, program.symbols))

\* Pass two emits what pass one counted: each line starts where the one before
\* it in the section ended, unless a directive moved it; and memory holds what
\* the listing shows, where lines overlap the later one.
ImageIsListing ==
  Assembled =>
    /\ \A section \in Section :
         LET memory == Stored(IF section = "CODE" THEN program.code ELSE program.data)
             lines == SelectSeq(program.layout, LAMBDA l : l.section = section)
         IN /\ \A a \in DOMAIN memory : memory[a] = Listed(section, a)
            /\ \A i \in DOMAIN lines : \A a \in lines[i].address .. lines[i].address + Len(Emitted(lines[i], program.symbols)) - 1 : a \in DOMAIN memory
            /\ \A i \in DOMAIN lines \ {1} :
                 (\A k \in DOMAIN source : source[k].line.op \notin {".ORG", ".ALIGN"})
                 => lines[i].address = lines[i - 1].address + Span(lines[i - 1])

IsEqu(typed) == typed.line.op = ".EQU"

\* A directive whose operand has to be known in pass one is not a number.
LaysOutByName ==
  \E i \in DOMAIN source :
    /\ source[i].line.op \in {".RESB", ".ORG", ".ALIGN"}
    /\ source[i].line.operands[1][1] \notin DOMAIN Numeral

\* Where a constant is defined does not matter: moving its line makes the same
\* program, or none when the layout hangs on it and needs it earlier.
ConstantsMove ==
  Assembled =>
    \A i, j \in DOMAIN source :
      IsEqu(source[i]) /\ source[i].line.label = NoLabel =>
        LET moved == assemble(Text(InsertAt(RemoveAt(source, i), j, source[i])))
        IN moved = program \/ (moved = Error /\ LaysOutByName)

\* The disassembler lists the instructions that were assembled.
DisassemblyIsSource ==
  (/\ Assembled /\ program.data = <<>>
   /\ \A i \in DOMAIN source : source[i].line.op \in DOMAIN OPS \cup {".EQU", ""})
  => LET listing == disassemble(Stored(program.code), Size(program.code))
     IN /\ Len(listing) = Len(program.layout)
        /\ \A i \in DOMAIN listing :
             LET line == program.layout[i]
             IN /\ listing[i].at = line.address /\ listing[i].name = line.op
                /\ listing[i].operand =
                     IF line.operands = <<>> THEN 0
                     ELSE Wrap(evaluate(line.operands[1], program.symbols))

-----------------------------------------------------------------------------
(***************************************************************************)
(* Properties of the processor.                                            *)
(***************************************************************************)
\* Contexts nest: however calls, callees in RAM and interrupts pile up, leaving
\* the innermost one by its own return goes back to where it was entered, with
\* segment and stack pointer, unless the program, or the device for it, stored
\* over the frame.
ReturnsAreExact ==
  [][(m'.cycles > m.cycles /\ m'.state = "RUNNING" /\ Returns)
     => /\ m'.PC = Last(frames).pc
        /\ m'.cs \in Last(frames).cs
        /\ Depth(m') = Last(frames).depth]_vars

\* What the program counter runs over, as far as an instruction may reach.
Reach(state) ==
  <<state.PC, Wrap(state.PC + 1), Wrap(Wrap(state.PC + 1) + 1)>>

\* The one byte that W^X does not hold for (wx_nul): the NUL behind a text that
\* ends with its page, in a buffer that goes on in the next one.
Terminator(a) ==
  /\ Waiting(m) /\ m.pending.terminated
  /\ a % 256 = 0 /\ a - 1 \in Buffer(m.pending, m.pending.capacity - 1)
  /\ At(m'.ram, a) = 0

\* Code in RAM is frozen: but for that byte, no step changes a page that is
\* executable before and after it, through whatever instruction, push or
\* completion, and of a completion that faults half-way; and no instruction runs
\* of which a byte lies in RAM outside the executable pages.
CodeIsFrozen ==
  [][phase = "run" =>
       /\ \A a \in DOMAIN m.ram \cup DOMAIN m'.ram :
            Page(a) \in m.exec_map \cap m'.exec_map =>
              At(m.ram, a) = At(m'.ram, a) \/ (m'.cycles = m.cycles /\ Terminator(a))
       /\ (m'.cycles > m.cycles /\ m'.state # "FAULT" /\ m.cs = 1)
          => \A k \in 1 .. width(Name) : Page(Reach(m)[k]) \in m.exec_map]_vars
=============================================================================
