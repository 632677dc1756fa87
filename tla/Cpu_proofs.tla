----------------------------- MODULE Cpu_proofs -----------------------------
(***************************************************************************)
(* Code in RAM is frozen (CodeIsFrozen), and contexts nest                 *)
(* (ReturnsAreExact), for every program, every page that is made           *)
(* executable and every interleaving of replies.                           *)
(*                                                                         *)
(* The first argument goes through the instruction set once: an            *)
(* instruction either leaves memory alone (Quiet) or stores through        *)
(* write8, which checks the page (Careful); the pushes of calls and        *)
(* interrupts, and the fields of a descriptor, are stores like any other.  *)
(* The payload of a completion passes write8 by, but its pages were        *)
(* checked, so that only its terminator can lie on an executable one.      *)
(*                                                                         *)
(* The second goes through it again, for what an instruction does to       *)
(* widths, stack pointer, segment and the bytes above the stack pointer    *)
(* (Calm, Effect).  Its invariant (ProgramInv) says what the stack looks   *)
(* like: the frames of the contexts that were not left lie one above the   *)
(* other, each still holding where it is left to unless it was stored      *)
(* over (Piling), and the segments of near contexts follow from those      *)
(* entered later (Settled).                                                *)
(***************************************************************************)
EXTENDS Program, Lists_proofs, TLAPS

Fields == DOMAIN Reset

\* What an instruction that stores nothing leaves: the memory and the count.
Quiet(s, t) == DOMAIN t = Fields /\ t.cycles = s.cycles /\ t.ram = s.ram

\* ... and one that stores: what is executable.
Careful(s, t) ==
  /\ DOMAIN t = Fields /\ t.cycles = s.cycles /\ t.exec_map = s.exec_map
  /\ \A a : Page(a) \in s.exec_map => At(t.ram, a) = At(s.ram, a)

\* The fields of a machine, written out: provers do not compare records.
LEMMA FieldNames ==
  Fields = {"A", "B", "C", "D", "PC", "SP", "Z", "CF", "N", "cs", "ivec", "ien",
            "irq_pending", "async_pending", "pending", "exec_map", "oracle_ptr", "last_oracle_status",
            "rom", "ram", "keys", "screen", "out", "cycles", "state"}
  BY DEF Fields, Reset

\* A stored byte changes no other address.
LEMMA PutElsewhere ==
  ASSUME NEW mem, NEW a, NEW v, NEW b, a # b
  PROVE  At(Put(mem, a, v), b) = At(mem, b)
  BY DEF At, Put, With

\* A store into an executable page of RAM faults, any other stores one byte.
LEMMA Write8 ==
  ASSUME NEW s, DOMAIN s = Fields, NEW address, NEW v
  PROVE  Careful(s, write8(s, address, v))
<1>1. CASE Stopped(s)
  BY <1>1 DEF Careful, write8
<1>2. CASE ~Stopped(s) /\ Page(Wrap(address)) \in s.exec_map
  BY <1>2, FieldNames DEF Careful, write8, Fault
<1>3. CASE ~Stopped(s) /\ Page(Wrap(address)) \notin s.exec_map
  <2> DEFINE t == [s EXCEPT !.ram = Put(s.ram, Wrap(address), Low(v))]
  <2>1. write8(s, address, v) = t
    BY <1>3 DEF write8
  <2>2. DOMAIN t = Fields /\ t.cycles = s.cycles /\ t.exec_map = s.exec_map
        /\ t.ram = Put(s.ram, Wrap(address), Low(v))
    BY FieldNames
  <2>3. ASSUME NEW a, Page(a) \in s.exec_map
        PROVE  At(t.ram, a) = At(s.ram, a)
    <3>1. a # Wrap(address)
      BY <1>3, <2>3
    <3>2. QED
      BY <2>2, <3>1, PutElsewhere
  <2>4. QED
    BY <2>1, <2>2, <2>3 DEF Careful
<1>4. QED
  BY <1>1, <1>2, <1>3

\* Two careful steps in a row are careful.
LEMMA CarefulTwice ==
  ASSUME NEW s, NEW t, NEW u, Careful(s, t), Careful(t, u)
  PROVE  Careful(s, u)
  BY DEF Careful

\* What computes, branches, pops or writes a port leaves memory and count alone.
LEMMA Local ==
  ASSUME NEW s, DOMAIN s = Fields, NEW v, NEW w
  PROVE  /\ Quiet(s, flags(s, v)) /\ Quiet(s, Accumulate(s, v)) /\ Quiet(s, _arith(s, v))
         /\ Quiet(s, Compare(s, v)) /\ Quiet(s, Divide(s)) /\ Quiet(s, Branch(s, v, w))
         /\ Quiet(s, Popped(s)) /\ Quiet(s, Leave(s))
         /\ Quiet(s, AfterRead(s, v)) /\ Quiet(s, write_port(s, v))
<1>1. Quiet(s, flags(s, v))
  BY FieldNames DEF Quiet, flags, Bit
<1>2. Quiet(s, Accumulate(s, v))
  BY FieldNames DEF Quiet, flags, Bit, Accumulate
<1>3. Quiet(s, _arith(s, v))
  BY FieldNames DEF Quiet, flags, Bit, Accumulate, _arith
<1>4. Quiet(s, Compare(s, v))
  BY FieldNames DEF Quiet, flags, Bit, Compare
<1>5. Quiet(s, Divide(s))
  BY FieldNames DEF Quiet, flags, Bit, Accumulate, Divide
<1>6. Quiet(s, Branch(s, v, w))
  BY FieldNames DEF Quiet, Branch
<1>7. Quiet(s, Popped(s)) /\ Quiet(s, Leave(s))
  BY FieldNames DEF Quiet, Popped, Leave
<1>8. Quiet(s, AfterRead(s, v))
  BY FieldNames DEF Quiet, AfterRead
<1>9. Quiet(s, write_port(s, v))
  BY FieldNames DEF Quiet, write_port
<1>10. QED
  BY <1>1, <1>2, <1>3, <1>4, <1>5, <1>6, <1>7, <1>8, <1>9

\* Pushing a byte or a word is careful.
LEMMA Push ==
  ASSUME NEW s, DOMAIN s = Fields, NEW v
  PROVE  Careful(s, Push8(s, v)) /\ Careful(s, push16(s, v))
<1>1. ASSUME NEW r, DOMAIN r = Fields, NEW w
      PROVE  Careful(r, Push8(r, w))
  <2>1. Careful(r, write8(r, r.SP, w))
    BY <1>1, Write8
  <2>2. QED
    BY <2>1, FieldNames DEF Careful, Push8, Down
<1>2. Careful(s, Push8(s, v))
  BY <1>1
<1>3. Careful(Push8(s, v), Push8(Push8(s, v), High(v)))
  BY <1>1, <1>2 DEF Careful
<1>4. QED
  BY <1>2, <1>3, CarefulTwice DEF push16

\* Storing a word is careful, also when its second byte faults.
LEMMA Write16 ==
  ASSUME NEW s, DOMAIN s = Fields, NEW address, NEW v
  PROVE  Careful(s, write16(s, address, v))
<1>1. Careful(s, write8(s, address, v))
  BY Write8
<1>2. Careful(write8(s, address, v), write16(s, address, v))
  BY <1>1, Write8 DEF Careful, write16
<1>3. QED
  BY <1>1, <1>2, CarefulTwice

\* The descriptor is written back field by field, each like any other store.
LEMMA Writeback ==
  ASSUME NEW s, DOMAIN s = Fields, NEW descriptor, NEW status, NEW length, NEW nonce,
         NEW attempts, NEW corrected, NEW value
  PROVE  Careful(s, _writeback(s, descriptor, status, length, nonce, attempts, corrected, value))
<1> DEFINE m1 == write16(s, descriptor + FIELD.STATUS, status)
           m2 == write16(m1, descriptor + FIELD.LENGTH, length)
           m3 == write16(m2, descriptor + FIELD.NONCE, nonce)
           m4 == write8(m3, descriptor + FIELD.ATTEMPTS, attempts)
           m5 == write8(m4, descriptor + FIELD.CORRECTED, corrected)
           m6 == write16(m5, descriptor + FIELD.VALUE, value)
<1>1. _writeback(s, descriptor, status, length, nonce, attempts, corrected, value) \in {m5, m6}
  BY DEF _writeback
<1>2. \A r : DOMAIN r = Fields =>
        \A address, v : Careful(r, write8(r, address, v)) /\ Careful(r, write16(r, address, v))
  BY Write8, Write16
<1>3. Careful(s, m1)
  BY <1>2
<1>4. Careful(m1, m2)
  BY <1>2, <1>3 DEF Careful
<1>5. Careful(m2, m3)
  BY <1>2, <1>4 DEF Careful
<1>6. Careful(m3, m4)
  BY <1>2, <1>5 DEF Careful
<1>7. Careful(m4, m5)
  BY <1>2, <1>6 DEF Careful
<1>8. Careful(m5, m6)
  BY <1>2, <1>7 DEF Careful
<1> HIDE DEF m1, m2, m3, m4, m5, m6
<1>9. Careful(s, m5)
  BY <1>3, <1>4, <1>5, <1>6, <1>7, CarefulTwice
<1>10. QED
  BY <1>1, <1>8, <1>9, CarefulTwice

\* A completion in the registers leaves memory, count and pages alone.
LEMMA Reporting ==
  ASSUME NEW s, DOMAIN s = Fields, NEW status, NEW length, NEW attempts
  PROVE  Careful(s, Reported(s, status, length, attempts))
  BY FieldNames DEF Careful, Reported, Accumulate, flags, Bit

\* What begins is refused, or published.
LEMMA Requests ==
  ASSUME NEW s, NEW in, NEW t
  PROVE  \/ Begin(s, in, t) = _complete(s, BUSY, FALSE)
         \/ Begin(s, in, t) = _complete(s, NO_REQUEST, FALSE)
         \/ Begin(s, in, t) = _complete(s, BAD_DESCRIPTOR, Writable(s))
         \/ Writable(s) /\ Begin(s, in, t) = _complete(s, BUDGET, TRUE)
         \/ /\ Writable(s) /\ Acceptable(s)
            /\ Begin(s, in, t) = [t EXCEPT !.pending = _read_descriptor(s, in.nonce)]
<1>1. CASE Busy(s)
  BY <1>1 DEF Begin
<1>2. CASE ~Busy(s) /\ s.oracle_ptr = NoRequest
  BY <1>2 DEF Begin, Writable
<1>3. CASE ~Busy(s) /\ s.oracle_ptr # NoRequest /\ ~(Writable(s) /\ Acceptable(s))
  BY <1>3 DEF Begin
<1>4. CASE ~Busy(s) /\ s.oracle_ptr # NoRequest /\ Writable(s) /\ Acceptable(s) /\ in.spent
  BY <1>4 DEF Begin
<1>5. CASE ~Busy(s) /\ s.oracle_ptr # NoRequest /\ Writable(s) /\ Acceptable(s) /\ ~in.spent
  BY <1>5 DEF Begin
<1>6. QED
  BY <1>1, <1>2, <1>3, <1>4, <1>5

\* A request that is refused stores its status with care; one that is published
\* stores nothing.
LEMMA Requesting ==
  ASSUME NEW s, DOMAIN s = Fields, NEW in
  PROVE  Careful(s, _begin_trap(s, in)) /\ Careful(s, _begin_async(s, in))
<1>1. ASSUME NEW status, NEW writable
      PROVE  Careful(s, _complete(s, status, writable))
  <2> DEFINE w == IF writable THEN _writeback(s, s.oracle_ptr, status, 0, 0, 0, 0, NoValue) ELSE s
  <2>1. Careful(s, w)
    BY Writeback DEF Careful
  <2>2. Careful(w, Reported(w, status, 0, 0))
    BY <2>1, Reporting DEF Careful
  <2>3. _complete(s, status, writable) \in {w, Reported(w, status, 0, 0)}
    BY DEF _complete
  <2> HIDE DEF w
  <2>4. QED
    BY <2>1, <2>2, <2>3, CarefulTwice
<1>2. ASSUME NEW t, DOMAIN t = Fields, t.cycles = s.cycles, t.ram = s.ram, t.exec_map = s.exec_map
      PROVE  Careful(s, Begin(s, in, t))
  <2> DEFINE u == [t EXCEPT !.pending = _read_descriptor(s, in.nonce)]
  <2>1. Careful(s, u)
    BY <1>2, FieldNames DEF Careful
  <2>2. \/ Begin(s, in, t) = u
        \/ Begin(s, in, t) = _complete(s, BUSY, FALSE)
        \/ Begin(s, in, t) = _complete(s, NO_REQUEST, FALSE)
        \/ Begin(s, in, t) = _complete(s, BAD_DESCRIPTOR, Writable(s))
        \/ Begin(s, in, t) = _complete(s, BUDGET, TRUE)
    BY Requests
  <2> HIDE DEF u
  <2>3. QED
    BY <1>1, <2>1, <2>2
<1>3. Careful(s, _begin_trap(s, in))
  BY <1>2, FieldNames DEF _begin_trap
<1>4. Careful(s, _begin_async(s, in))
  BY <1>2, FieldNames DEF _begin_async
<1>5. QED
  BY <1>3, <1>4

\* Calls and interrupts push, then move PC, segment and interrupt line.
LEMMA Contexts ==
  ASSUME NEW s, DOMAIN s = Fields, NEW cs, NEW address
  PROVE  /\ Careful(s, Call(s, address))
         /\ Careful(s, Enter(s, cs, address))
         /\ Careful(s, _deliver_irq(s))
         /\ Careful(s, WaitForInterrupt(s))
<1>1. Careful(s, Call(s, address))
  <2>1. Careful(s, push16(s, s.PC))
    BY Push
  <2>2. QED
    BY <2>1, FieldNames DEF Careful, Call, GoTo
<1>2. ASSUME NEW c, NEW a
      PROVE  Careful(s, Enter(s, c, a))
  <2>1. Careful(s, push16(s, s.cs))
    BY Push
  <2>2. Careful(push16(s, s.cs), push16(push16(s, s.cs), s.PC))
    BY <2>1, Push DEF Careful
  <2>3. Careful(s, push16(push16(s, s.cs), s.PC))
    BY <2>1, <2>2, CarefulTwice
  <2>4. QED
    BY <2>3, FieldNames DEF Careful, Enter, GoTo
<1>3. Careful(s, _deliver_irq(s))
  <2>1. Careful(s, Enter(s, 0, s.ivec))
    BY <1>2
  <2>2. QED
    BY <2>1, FieldNames DEF Careful, _deliver_irq, Accept
<1>4. Careful(s, WaitForInterrupt(s))
  BY <1>3, FieldNames DEF Careful, WaitForInterrupt, Fault
<1>5. QED
  BY <1>1, <1>2, <1>3, <1>4

\* Two quiet steps in a row are quiet.
LEMMA QuietTwice ==
  ASSUME NEW s, NEW t, NEW u, Quiet(s, t), Quiet(t, u)
  PROVE  Quiet(s, u)
  BY DEF Quiet

Storing == {"STA", "STB", "STW", "PUSH", "CALL", "CALLX", "WFI", "TRAP", "TRAPA"}
Computing == {"LDIA", "ADD", "ADDC", "ADDD", "SUB", "SUBC", "SUBD", "INC", "DEC", "CMP", "CMPC", "XOR", "AND",
  "OR", "NOT", "MUL", "DIV", "SHL", "SHR", "MOVAB", "MOVAC", "MOVAD", "LDA", "LDB", "LDW", "POP", "IN", "INP"}

\* The instructions that store, push, enter a context or trap are careful.
LEMMA PerformStores ==
  ASSUME NEW s, DOMAIN s = Fields, NEW name \in Storing, NEW arg, NEW in
  PROVE  Careful(s, Perform(s, name, arg, in))
<1>1. CASE name = "STA"
  BY <1>1, Write16 DEF Perform
<1>2. CASE name = "STB"
  BY <1>2, Write8 DEF Perform
<1>3. CASE name = "STW"
  BY <1>3, Write16 DEF Perform
<1>4. CASE name = "PUSH"
  BY <1>4, Push DEF Perform
<1>5. CASE name = "CALL"
  BY <1>5, Contexts DEF Perform
<1>6. CASE name = "CALLX"
  BY <1>6, Contexts DEF Perform
<1>7. CASE name = "WFI"
  BY <1>7, Contexts DEF Perform
<1>8. CASE name \in {"TRAP", "TRAPA"}
  BY <1>8, Requesting DEF Perform
<1>9. QED
  BY <1>1, <1>2, <1>3, <1>4, <1>5, <1>6, <1>7, <1>8 DEF Storing

\* The instructions that end in the accumulator or the flags are quiet.
LEMMA PerformComputes ==
  ASSUME NEW s, DOMAIN s = Fields, NEW name \in Computing, NEW arg, NEW in
  PROVE  Quiet(s, Perform(s, name, arg, in))
<1>1. ASSUME NEW v, NEW r, Quiet(s, r)
      PROVE  Quiet(s, Accumulate(r, v))
  BY <1>1, Local, QuietTwice DEF Quiet
<1>2. CASE name \in {"LDIA", "INC", "DEC", "XOR", "AND", "OR", "NOT", "MOVAB", "MOVAC", "MOVAD", "LDA",
                     "LDB", "LDW", "IN"}
  BY <1>2, Local DEF Perform
<1>3. CASE name \in {"ADD", "ADDC", "ADDD", "SUB", "SUBC", "SUBD", "MUL", "SHL", "CMP", "CMPC", "DIV"}
  BY <1>3, Local DEF Perform
<1>4. CASE name = "SHR"
  BY <1>4, FieldNames DEF Perform, Accumulate, flags, Bit, Quiet
<1>5. CASE name = "POP"
  BY <1>1, <1>5, Local DEF Perform
<1>6. CASE name = "INP"
  BY <1>1, <1>6, Local DEF Perform
<1>7. QED
  BY <1>2, <1>3, <1>4, <1>5, <1>6 DEF Computing

Moving == {"NOP", "LDIB", "LDIC", "LDID", "JMP", "JZ", "JNZ", "RET", "OUT", "HLT", "MOVBA", "OUTP", "INCB",
           "DECB", "INCC", "DECC", "MOVCA", "MOVDA", "JN", "JNN", "JC", "JNC", "OUTS", "CLI", "STI",
           "IRET", "RETX"}

\* The instructions that move, jump or return are quiet.
LEMMA PerformMoves ==
  ASSUME NEW s, DOMAIN s = Fields, NEW name \in Moving, NEW arg, NEW in
  PROVE  Quiet(s, Perform(s, name, arg, in))
<1>1. CASE name \in {"NOP", "LDIB", "LDIC", "LDID", "MOVBA", "INCB", "DECB", "INCC", "DECC", "MOVCA", "MOVDA",
                     "CLI", "STI", "OUT", "OUTS", "HLT"}
  BY <1>1, FieldNames DEF Perform, Quiet
<1>2. CASE name \in {"JMP", "JZ", "JNZ", "JN", "JNN", "JC", "JNC", "OUTP", "RETX"}
  BY <1>2, Local DEF Perform
<1>3. CASE name \in {"RET", "IRET"}
  <2>1. Quiet(s, Popped(s)) /\ Quiet(s, Leave(s))
    BY Local
  <2>2. QED
    BY <1>3, <2>1, FieldNames DEF Perform, Quiet
<1>4. QED
  BY <1>1, <1>2, <1>3 DEF Moving

\* Every opcode names an instruction of one of the three kinds.
LEMMA Names ==
  ASSUME NEW opcode \in Opcode
  PROVE  Mnemonic(opcode) \in Storing \cup Computing \cup Moving
  BY DEF Opcode, Mnemonic, Mnemonics, Storing, Computing, Moving

\* A fetch moves PC and nothing else; in RAM only over executable pages.
LEMMA Fetch ==
  ASSUME NEW s, DOMAIN s = Fields
  PROVE  /\ Quiet(s, fetch8(s)) /\ fetch8(s).exec_map = s.exec_map /\ fetch8(s).cs = s.cs
         /\ Stopped(s) => fetch8(s) = s
         /\ ~Stopped(s) /\ Stopped(fetch8(s)) => fetch8(s).state = "FAULT"
         /\ ~Stopped(fetch8(s)) =>
              /\ fetch8(s).PC = Wrap(s.PC + 1)
              /\ s.cs = 1 => Page(s.PC) \in s.exec_map
  BY FieldNames DEF Quiet, fetch8, Fault, Stopped

\* No instruction changes a page that is executable before and after it.
LEMMA PerformKeeps ==
  ASSUME NEW s, DOMAIN s = Fields, NEW opcode \in Opcode, NEW arg, NEW in
  PROVE  LET t == Perform(s, Mnemonic(opcode), arg, in)
         IN /\ DOMAIN t = Fields /\ t.cycles = s.cycles
            /\ \A a : Page(a) \in s.exec_map \cap t.exec_map => At(t.ram, a) = At(s.ram, a)
  BY Names, PerformStores, PerformComputes, PerformMoves DEF Quiet, Careful

\* The machine after the opcode, and after the operand of an instruction.
Counted(s) == [fetch8(s) EXCEPT !.cycles = @ + 1]
Ready(s, n) ==
  CASE n = 1 -> s [] n = 2 -> fetch8(s) [] n = 3 -> fetch8(fetch8(s))

\* Fetching the operand: quiet, and past executable bytes only.
LEMMA Operand ==
  ASSUME NEW s, DOMAIN s = Fields, NEW n \in {1, 2, 3}
  PROVE  /\ Quiet(s, Ready(s, n)) /\ Ready(s, n).exec_map = s.exec_map
         /\ ~Stopped(s) /\ Stopped(Ready(s, n)) => Ready(s, n).state = "FAULT"
         /\ ~Stopped(Ready(s, n)) /\ s.cs = 1 =>
              /\ n >= 2 => Page(s.PC) \in s.exec_map
              /\ n = 3 => Page(Wrap(s.PC + 1)) \in s.exec_map
<1>1. CASE n = 1
  BY <1>1 DEF Ready, Quiet
<1>2. CASE n = 2
  BY <1>2, Fetch DEF Ready, Quiet
<1>3. CASE n = 3
  <2> DEFINE t == fetch8(s)
             u == fetch8(t)
  <2>1. /\ DOMAIN t = Fields /\ t.cycles = s.cycles /\ t.ram = s.ram /\ t.exec_map = s.exec_map
        /\ t.cs = s.cs
        /\ ~Stopped(s) /\ Stopped(t) => t.state = "FAULT"
        /\ ~Stopped(t) => t.PC = Wrap(s.PC + 1) /\ (s.cs = 1 => Page(s.PC) \in s.exec_map)
    BY Fetch DEF Quiet
  <2>2. /\ DOMAIN u = Fields /\ u.cycles = t.cycles /\ u.ram = t.ram /\ u.exec_map = t.exec_map
        /\ Stopped(t) => u = t
        /\ ~Stopped(t) /\ Stopped(u) => u.state = "FAULT"
        /\ ~Stopped(u) => (t.cs = 1 => Page(t.PC) \in t.exec_map)
    BY <2>1, Fetch DEF Quiet
  <2>3. Ready(s, n) = u
    BY <1>3 DEF Ready
  <2> HIDE DEF t, u
  <2>4. QED
    BY <1>3, <2>1, <2>2, <2>3 DEF Quiet
<1>4. QED
  BY <1>1, <1>2, <1>3

\* An instruction is one, two or three bytes long.
LEMMA Widths ==
  ASSUME NEW name
  PROVE  width(name) \in {1, 2, 3}
  BY DEF width

\* The argument of the instruction that comes next.
Argument(s, n) ==
  CASE n = 1 -> 0
    [] n = 2 -> Fetched(s)
    [] n = 3 -> Fetched(s) + 256 * Fetched(fetch8(s))

\* A step is a fetch that faults, an opcode that is none, an operand that
\* faults, or the instruction itself.
LEMMA StepCases ==
  ASSUME NEW s, NEW in
  PROVE  LET opcode == Fetched(s)
             name == Mnemonic(opcode)
             t == Counted(s)
             ready == Ready(t, width(name))
         IN /\ Stopped(fetch8(s)) => step(s, in) = fetch8(s)
            /\ ~Stopped(fetch8(s)) /\ ~Stopped(t) =>
                 /\ opcode \notin Opcode => step(s, in) = Fault(t)
                 /\ opcode \in Opcode =>
                      step(s, in) = IF Stopped(ready) THEN ready
                                    ELSE Perform(ready, name, Argument(t, width(name)), in)
<1> DEFINE c == Counted(s)
           name == Mnemonic(Fetched(s))
<1>1. CASE Stopped(fetch8(s))
  BY <1>1 DEF step
<1>2. CASE ~Stopped(fetch8(s)) /\ Stopped(c)
  BY <1>2
<1>3. CASE ~Stopped(fetch8(s)) /\ ~Stopped(c)
  <2>1. width(name) \in {1, 2, 3}
    BY Widths
  <2>2. CASE Fetched(s) \notin Opcode
    BY <1>3, <2>2 DEF step, Counted
  <2>3. CASE Fetched(s) \in Opcode
    BY <1>3, <2>1, <2>3 DEF step, Counted, Ready, Argument
  <2>4. QED
    BY <1>3, <2>2, <2>3
<1>4. QED
  BY <1>1, <1>2, <1>3


\* One instruction: memory of executable pages stays, and it counts without
\* a fault only when each of its bytes was executable.
LEMMA StepKeeps ==
  ASSUME NEW s, DOMAIN s = Fields, s.cycles \in Nat, NEW in
  PROVE  LET t == step(s, in)
         IN /\ DOMAIN t = Fields /\ t.cycles \in Nat
            /\ \A a : Page(a) \in s.exec_map \cap t.exec_map => At(t.ram, a) = At(s.ram, a)
            /\ t.cycles > s.cycles /\ t.state # "FAULT" =>
                 /\ Fetched(s) \in Opcode
                 /\ s.cs = 1 =>
                      \A k \in 1 .. width(Mnemonic(Fetched(s))) : Page(Reach(s)[k]) \in s.exec_map
<1> DEFINE f == fetch8(s)
           c == Counted(s)
           opcode == Fetched(s)
           n == width(Mnemonic(opcode))
           r == Ready(c, n)
           p == Perform(r, Mnemonic(opcode), Argument(c, n), in)
           t == step(s, in)
<1>1. /\ DOMAIN f = Fields /\ f.cycles = s.cycles /\ f.ram = s.ram /\ f.exec_map = s.exec_map /\ f.cs = s.cs
      /\ ~Stopped(f) => f.PC = Wrap(s.PC + 1) /\ (s.cs = 1 => Page(s.PC) \in s.exec_map)
  BY Fetch DEF Quiet
<1>2. CASE Stopped(f)
  <2>1. t = f
    BY <1>2, StepCases
  <2>2. QED
    BY <1>1, <2>1
<1>3. CASE ~Stopped(f)
  <2>1. /\ DOMAIN c = Fields /\ c.cycles = s.cycles + 1 /\ c.ram = s.ram /\ c.exec_map = s.exec_map
        /\ c.cs = s.cs /\ ~Stopped(c) /\ c.PC = Wrap(s.PC + 1)
    BY <1>1, <1>3, FieldNames DEF Counted, Stopped
  <2>2. CASE opcode \notin Opcode
    <3>1. t = Fault(c)
      BY <1>3, <2>1, <2>2, StepCases
    <3>2. DOMAIN t = Fields /\ t.cycles = c.cycles /\ t.ram = c.ram /\ t.state = "FAULT"
      BY <2>1, <3>1, FieldNames DEF Fault
    <3>3. QED
      BY <2>1, <3>2
  <2>3. CASE opcode \in Opcode
    <3>1. n \in {1, 2, 3}
      BY Widths
    <3>2. /\ DOMAIN r = Fields /\ r.cycles = c.cycles /\ r.ram = c.ram /\ r.exec_map = c.exec_map
          /\ Stopped(r) => r.state = "FAULT"
          /\ ~Stopped(r) /\ s.cs = 1 =>
               /\ n >= 2 => Page(Wrap(s.PC + 1)) \in s.exec_map
               /\ n = 3 => Page(Wrap(Wrap(s.PC + 1) + 1)) \in s.exec_map
      BY <2>1, <3>1, Operand DEF Quiet
    <3>3. t = IF Stopped(r) THEN r ELSE p
      BY <1>3, <2>1, <2>3, StepCases
    <3>4. /\ DOMAIN p = Fields /\ p.cycles = r.cycles
          /\ \A a : Page(a) \in r.exec_map \cap p.exec_map => At(p.ram, a) = At(r.ram, a)
      BY <2>3, <3>2, PerformKeeps
    <3>5. ~Stopped(r) /\ s.cs = 1 => \A k \in 1 .. n : Page(Reach(s)[k]) \in s.exec_map
      <4> SUFFICES ASSUME ~Stopped(r), s.cs = 1, NEW k \in 1 .. n
                   PROVE  Page(Reach(s)[k]) \in s.exec_map
        OBVIOUS
      <4>1. k \in {1, 2, 3} /\ (k = 2 => n >= 2) /\ (k = 3 => n = 3)
        BY <3>1
      <4>2. Reach(s)[1] = s.PC /\ Reach(s)[2] = Wrap(s.PC + 1) /\ Reach(s)[3] = Wrap(Wrap(s.PC + 1) + 1)
        BY DEF Reach
      <4>3. QED
        BY <1>1, <1>3, <3>2, <4>1, <4>2
    <3> HIDE DEF f, c, opcode, n, r, p, t
    <3>6. QED
      BY <2>1, <2>3, <3>2, <3>3, <3>4, <3>5 DEF opcode, n, t
  <2>4. QED
    BY <2>2, <2>3
<1>4. QED
  BY <1>2, <1>3
-----------------------------------------------------------------------------
(***************************************************************************)
(* Words, bytes and bits.                                                  *)
(***************************************************************************)
\* Words are written out: the provers enumerate an interval of numerals.
LEMMA Words == \A w : w \in Word <=> w \in Nat /\ w < 65536
<1>1. \A w : w \in Word <=> w \in Nat /\ w <= WordSize - 1
  <2>1. WordSize \in Nat
    BY DEF WordSize
  <2> QED
    BY <2>1 DEF Word
<1>2. WordSize = 65536
  BY DEF WordSize
<1> QED
  BY <1>1, <1>2

\* Bytes, written out.
LEMMA Octets == \A b : b \in Byte <=> b \in Nat /\ b < 256
  BY DEF Byte

\* Bytes of a word, words of a byte or two.
LEMMA Arithmetic ==
  /\ \A n \in Int : Wrap(n) \in Word /\ Low(n) \in Byte /\ High(n) \in Byte
  /\ \A w \in Word : 256 * High(w) + Low(w) = w
  /\ \A w \in Word : Wrap(w) = w
  /\ \A a, b \in Byte : a + 256 * b \in Word /\ 256 * a + b \in Word /\ a \in Word
<1>1. WordSize = 65536
  BY DEF WordSize
<1>2. \A n \in Int : Wrap(n) \in Word /\ Low(n) \in Byte /\ High(n) \in Byte
  BY <1>1, Words, Octets DEF Wrap, Low, High
<1>3. \A w \in Word : 256 * High(w) + Low(w) = w
  <2> SUFFICES ASSUME NEW w \in Word PROVE 256 * High(w) + Low(w) = w
    OBVIOUS
  <2>1. w \in Nat /\ w < 65536
    BY Words
  <2>2. w \div 256 \in 0 .. 255
    BY <2>1
  <2>3. High(w) = w \div 256
    BY <2>2 DEF High
  <2> QED
    BY <2>1, <2>3 DEF Low
<1>4. \A w \in Word : Wrap(w) = w
  BY <1>1, Words DEF Wrap
<1>5. \A a, b \in Byte : a + 256 * b \in Word /\ 256 * a + b \in Word /\ a \in Word
  BY Words, Octets
<1> QED
  BY <1>2, <1>3, <1>4, <1>5

\* A word does not wrap, and is a number.
LEMMA WrapWord == \A w \in Word : Wrap(w) = w /\ w \in Int /\ w \in Nat /\ w < 65536
  BY Words, Arithmetic

\* The high byte of a word is a byte, and its own low byte.
LEMMA HighByte == \A w \in Word : High(w) \in Byte /\ High(w) \in Int /\ Low(High(w)) = High(w)
<1> SUFFICES ASSUME NEW w \in Word PROVE High(w) \in Byte /\ High(w) \in Int /\ Low(High(w)) = High(w)
  OBVIOUS
<1>1. High(w) \in Byte
  BY WrapWord, Arithmetic
<1>2. \A b \in Byte : b \in Int /\ Low(b) = b
  BY Octets DEF Low
<1> QED
  BY <1>1, <1>2

\* The sum of the weights of some bits is a word.
LEMMA BitsMakeWords ==
  ASSUME NEW bits
  PROVE  OfBits(bits) \in Word
<1> DEFINE top == Len(Weight)
           worth(k) == IF k \in bits THEN Weight[k] ELSE 0
           Adds(f) == f = [k \in 0 .. top |-> IF k = 0 THEN 0 ELSE f[k - 1] + worth(k)]
           G == [k \in 1 .. top |-> [x \in Nat |-> x + worth(k)]]
           Bound == <<0, 1, 3, 7, 15, 31, 63, 127, 255, 511, 1023, 2047, 4095, 8191, 16383, 32767, 65535>>
<1>1. top = 16
  BY DEF Weight
<1>2. \A k \in 1 .. 16 : Weight[k] \in Nat /\ Bound[k] \in Nat /\ Bound[k + 1] = Bound[k] + Weight[k]
  BY DEF Weight
<1>3. Bound[1] = 0 /\ Bound[17] = 65535
  OBVIOUS
<1>5. \A k \in 1 .. top : worth(k) \in 0 .. Weight[k]
  BY <1>1, <1>2
<1> HIDE DEF top, worth, Bound
<1>6. \E f : Adds(f)
  <2>1. G \in [1 .. top -> [Nat -> Nat]]
    BY <1>1, <1>2, <1>5
  <2>2. \A k \in 1 .. top, x \in Nat : G[k][x] = x + worth(k)
    OBVIOUS
  <2> HIDE DEF G
  <2>3. PICK f : Unrolled(f, top, Nat, 0, G)
    <3>1. top \in Nat /\ 0 \in Nat
      BY <1>1
    <3> QED
      BY <2>1, <3>1, Recursion, Zenon
  <2>4. f \in [0 .. top -> Nat] /\ f[0] = 0 /\ \A k \in 1 .. top : f[k] = G[k][f[k - 1]]
    BY <2>3 DEF Unrolled
  <2>5. ASSUME NEW k \in 1 .. top PROVE f[k] = f[k - 1] + worth(k)
    <3>1. k - 1 \in 0 .. top
      BY <1>1
    <3> QED
      BY <2>2, <2>4, <3>1
  <2>6. ASSUME NEW k \in 0 .. top PROVE f[k] = IF k = 0 THEN 0 ELSE f[k - 1] + worth(k)
    <3>1. CASE k = 0
      BY <2>4, <3>1
    <3>2. CASE k # 0
      <4>1. k \in 1 .. top
        BY <1>1, <3>2
      <4> QED
        BY <2>5, <3>2, <4>1
    <3> QED
      BY <3>1, <3>2
  <2>7. f = [k \in 0 .. top |-> f[k]]
    BY <2>4
  <2> QED
    BY <2>6, <2>7
<1>7. PICK T : Adds(T) /\ OfBits(bits) = T[top]
  <2> DEFINE chosen == CHOOSE f : Adds(f)
  <2>1. OfBits(bits) = chosen[top]
    BY DEF OfBits, Adds, worth, top
  <2>2. Adds(chosen)
    BY <1>6
  <2> QED
    BY <2>1, <2>2
<1> HIDE DEF G
<1>8. \A k \in 0 .. top : T[k] = IF k = 0 THEN 0 ELSE T[k - 1] + worth(k)
  BY <1>7 DEF Adds
<1> DEFINE K == {k \in 0 .. top : T[k] \in Nat /\ T[k] <= Bound[k + 1]}
<1>9. 0 \in K
  BY <1>1, <1>3, <1>8
<1>10. ASSUME NEW k \in 0 .. top - 1, k \in K PROVE k + 1 \in K
  <2>1. k + 1 \in 1 .. 16 /\ k + 1 \in 0 .. top /\ k + 1 # 0 /\ k + 1 - 1 = k
    BY <1>1
  <2>2. T[k + 1] = T[k] + worth(k + 1)
    BY <1>8, <2>1
  <2>3. worth(k + 1) \in 0 .. Weight[k + 1] /\ Bound[k + 1 + 1] = Bound[k + 1] + Weight[k + 1]
        /\ Weight[k + 1] \in Nat /\ Bound[k + 1] \in Nat
    BY <1>1, <1>2, <1>5, <2>1
  <2>4. T[k] \in Nat /\ T[k] <= Bound[k + 1]
    BY <1>10
  <2>5. T[k + 1] \in Nat /\ T[k + 1] <= Bound[k + 1 + 1]
    BY <2>2, <2>3, <2>4
  <2> QED
    BY <2>1, <2>5
<1> HIDE DEF K
<1>11. top \in K
  <2>1. \A k \in 0 .. top : k \in K
    BY <1>1, <1>9, <1>10, Induction
  <2> QED
    BY <1>1, <2>1
<1> HIDE DEF Adds
<1>12. T[top] \in Nat /\ T[top] <= 65535
  <2>1. T[top] \in Nat /\ T[top] <= Bound[top + 1] /\ top + 1 = 17
    BY <1>1, <1>11 DEF K
  <2>2. Bound[top + 1] = 65535
    BY <1>3, <2>1
  <2> QED
    BY <2>1, <2>2
<1> QED
  BY <1>7, <1>12, Words


-----------------------------------------------------------------------------
(***************************************************************************)
(* The machine's values stay in their widths, and most instructions leave  *)
(* stack and segment alone.                                                *)
(***************************************************************************)
Stocked(memory) == \A a \in DOMAIN memory : memory[a] \in Byte

Typed(s) ==
  /\ DOMAIN s = Fields
  /\ s.A \in Word /\ s.B \in Word /\ s.C \in Word /\ s.D \in Word
  /\ s.PC \in Word /\ s.SP \in Word /\ s.ivec \in Word /\ s.cs \in {0, 1}
  /\ s.last_oracle_status \in Byte /\ s.keys \in Seq(Byte)
  /\ s.oracle_ptr \in 0 .. WordSize /\ s.pending \in PendingTrap
  /\ Stocked(s.rom) /\ Stocked(s.ram)

\* What does not touch the stack: neither its bytes, nor its pointer, nor the
\* segment.
Calm(s, t) == Typed(t) /\ t.SP = s.SP /\ t.ram = s.ram /\ t.cs = s.cs

\* What moves neither, but may store.
Still(s, t) == Typed(t) /\ t.SP = s.SP /\ t.cs = s.cs

\* What is read is a byte, and what is stored is one.
LEMMA Memory ==
  ASSUME NEW memory, Stocked(memory)
  PROVE  /\ \A a : At(memory, a) \in Byte
         /\ \A a, v : v \in Byte => Stocked(Put(memory, a, v)) /\ At(Put(memory, a, v), a) = v
<1>1. \A a : At(memory, a) \in Byte
  BY Octets DEF At, Stocked
<1>2. ASSUME NEW a, NEW v \in Byte
      PROVE  Stocked(Put(memory, a, v)) /\ At(Put(memory, a, v), a) = v
  BY DEF Put, With, At, Stocked
<1> QED
  BY <1>1, <1>2

\* Words read from memory and from the stack.
LEMMA Reading ==
  ASSUME NEW s, Typed(s)
  PROVE  /\ \A a : read8(s, a) \in Byte /\ read8(s, a) \in Word /\ read16(s, a) \in Word
         /\ pop16(s) \in Word /\ Fetched(s) \in Byte
<1>1. \A a : At(s.ram, a) \in Byte /\ At(s.rom, a) \in Byte
  BY Memory DEF Typed
<1>2. \A a : read8(s, a) \in Byte
  BY <1>1 DEF read8
<1> QED
  BY <1>1, <1>2, Arithmetic DEF read16, pop16, Fetched

\* Setting flags and accumulator.
LEMMA CalmAccumulate ==
  ASSUME NEW s, Typed(s), NEW v \in Word, NEW n
  PROVE  Calm(s, Accumulate(s, v)) /\ Calm(s, flags(s, n))
<1>1. Calm(s, flags(s, n))
  BY FieldNames DEF Typed, Calm, flags
<1>2. Calm(s, Accumulate(s, v))
  BY FieldNames DEF Typed, Calm, flags, Accumulate
<1> QED
  BY <1>1, <1>2

\* Two calm steps in a row are calm.
LEMMA CalmTwice ==
  ASSUME NEW s, NEW t, NEW u, Calm(s, t), Calm(t, u)
  PROVE  Calm(s, u)
  BY DEF Calm

\* Quotient and remainder of words are words.
LEMMA Quotients ==
  ASSUME NEW a \in Word, NEW b \in Word, b # 0
  PROVE  a \div b \in Word /\ a % b \in Word
<1>1. a \in Nat /\ b \in Nat /\ a < 65536 /\ b < 65536
  BY Words
<1>3. a \div b \in 0 .. a /\ a % b \in 0 .. b - 1
  BY <1>1
<1>4. a \div b \in Nat /\ a \div b < 65536 /\ a % b \in Nat /\ a % b < 65536
  BY <1>1, <1>3
<1> QED
  BY <1>4, Words

\* Sums, products, comparisons, quotients.
LEMMA CalmArithmetic ==
  ASSUME NEW s, Typed(s), NEW n \in Int, NEW k
  PROVE  Calm(s, _arith(s, n)) /\ Calm(s, Compare(s, k)) /\ Calm(s, Divide(s))
<1>1. Calm(s, _arith(s, n))
  <2> DEFINE r == [s EXCEPT !.CF = Bit(n \notin Word)]
  <2>1. Calm(s, r)
    BY FieldNames DEF Typed, Calm
  <2>2. Wrap(n) \in Word
    BY Arithmetic
  <2>3. _arith(s, n) = Accumulate(r, Wrap(n))
    BY DEF _arith
  <2> HIDE DEF r
  <2> QED
    BY <2>1, <2>2, <2>3, CalmAccumulate, CalmTwice DEF Calm
<1>2. Calm(s, Compare(s, k))
  BY FieldNames DEF Typed, Calm, flags, Compare
<1>3. Calm(s, Divide(s))
  <2>1. CASE s.B = 0
    BY <2>1, FieldNames DEF Typed, Calm, Divide
  <2>2. CASE s.B # 0
    <3> DEFINE r == [s EXCEPT !.CF = 0, !.D = s.A % s.B]
    <3>1. s.A % s.B \in Word /\ s.A \div s.B \in Word
      BY <2>2, Quotients DEF Typed
    <3>2. Calm(s, r)
      BY <3>1, FieldNames DEF Typed, Calm
    <3>3. Divide(s) = Accumulate(r, s.A \div s.B)
      BY <2>2 DEF Divide
    <3> HIDE DEF r
    <3> QED
      BY <3>1, <3>2, <3>3, CalmAccumulate, CalmTwice DEF Calm
  <2> QED
    BY <2>1, <2>2
<1> QED
  BY <1>1, <1>2, <1>3

\* Ports.
LEMMA CalmPorts ==
  ASSUME NEW s, Typed(s), NEW port, NEW in \in Input
  PROVE  /\ Calm(s, AfterRead(s, port)) /\ read_port(s, port, in) \in Word
         /\ Calm(s, write_port(s, port))
<1>1. Calm(s, AfterRead(s, port))
  <2>1. CASE port = PORT_KEY /\ s.keys # <<>>
    <3>1. Tail(s.keys) \in Seq(Byte)
      BY <2>1 DEF Typed
    <3> QED
      BY <2>1, <3>1, FieldNames DEF Typed, Calm, AfterRead
  <2>2. CASE ~(port = PORT_KEY /\ s.keys # <<>>)
    BY <2>2 DEF Calm, AfterRead
  <2> QED
    BY <2>1, <2>2
<1>2. read_port(s, port, in) \in Word
  <2>1. s.keys # <<>> => Head(s.keys) \in Byte
    BY DEF Typed
  <2>2. 0 \in Word /\ 1 \in Word /\ 2 \in Word
    BY Words
  <2>3. in.random \in Byte /\ s.last_oracle_status \in Byte
    BY DEF Typed, Input
  <2>4. \A b \in Byte : b \in Word
    BY Arithmetic
  <2> QED
    BY <2>1, <2>2, <2>3, <2>4 DEF read_port, Bit
<1>3. Calm(s, write_port(s, port))
  <2>1. s.A \in 0 .. WordSize
    <3>1. s.A \in Word
      BY DEF Typed
    <3>2. \A w \in Word : w \in 0 .. WordSize
      <4>1. WordSize \in Nat
        BY DEF WordSize
      <4> QED
        BY <4>1 DEF Word
    <3> QED
      BY <3>1, <3>2
  <2> QED
    BY <2>1, FieldNames DEF Typed, Calm, write_port
<1> QED
  BY <1>1, <1>2, <1>3

Calmly == (Computing \ {"POP"}) \cup (Moving \ {"RET", "RETX", "IRET"})

Instructions == Stores \cup {"PUSH", "POP", "RET", "RETX", "IRET", "CALL", "CALLX", "WFI"} \cup Calmly

\* Every instruction but stores, pushes, pops, calls and returns is calm.
LEMMA PerformCalmly ==
  ASSUME NEW s, Typed(s), NEW name \in Calmly, NEW arg \in Word, NEW in \in Input
  PROVE  Calm(s, Perform(s, name, arg, in))
<1>0. 0 \in Word /\ s.A \in Nat /\ s.B \in Nat /\ s.C \in Nat /\ s.D \in Nat
  BY Words DEF Typed
<1>11. \A v \in Word : Calm(s, [s EXCEPT !.B = v]) /\ Calm(s, [s EXCEPT !.C = v])
                        /\ Calm(s, [s EXCEPT !.D = v])
  BY FieldNames DEF Typed, Calm
<1>1. CASE name \in {"LDIA", "INC", "DEC", "XOR", "AND", "OR", "NOT", "MOVAB", "MOVAC", "MOVAD",
                     "LDA", "LDB", "LDW", "IN"}
  <2>1. /\ Wrap(s.A + 1) \in Word /\ Wrap(s.A - 1) \in Word
        /\ WordSize - 1 - s.A \in Word
        /\ read8(s, s.B) \in Word /\ read16(s, arg) \in Word /\ read16(s, s.B) \in Word
    <3>1. s.A + 1 \in Int /\ s.A - 1 \in Int
      BY <1>0
    <3>2. s.A < 65536
      BY Words DEF Typed
    <3>3. 65536 - 1 - s.A \in Nat /\ 65536 - 1 - s.A < 65536
      BY <1>0, <3>2
    <3>4. WordSize = 65536
      BY DEF WordSize
    <3>5. Wrap(s.A + 1) \in Word /\ Wrap(s.A - 1) \in Word
      BY <3>1, Arithmetic
    <3>6. WordSize - 1 - s.A \in Word
      BY <3>3, <3>4, Words
    <3> QED
      BY <3>5, <3>6, Reading
  <2>2. \A v \in Word : Calm(s, Accumulate(s, v))
    BY CalmAccumulate
  <2> QED
    BY <1>0, <1>1, <2>1, <2>2, BitsMakeWords DEF Perform, Typed
<1>2. CASE name \in {"ADD", "ADDC", "ADDD", "SUB", "SUBC", "SUBD", "MUL", "SHL", "CMP", "CMPC", "DIV"}
  <2>1. /\ s.A + s.B \in Int /\ s.A + s.C \in Int /\ s.A + s.D \in Int /\ s.A - s.B \in Int
        /\ s.A - s.C \in Int /\ s.A - s.D \in Int /\ 2 * s.A \in Int
    BY <1>0
  <2>2. s.A * s.B \in Int
    <3>1. \A a, b \in Nat : a * b \in Int
      OBVIOUS
    <3> QED
      BY <1>0, <3>1
  <2>3. \A n \in Int : Calm(s, _arith(s, n))
    BY CalmArithmetic
  <2>4. (\A k : Calm(s, Compare(s, k))) /\ Calm(s, Divide(s))
    BY CalmArithmetic
  <2> QED
    BY <1>2, <2>1, <2>2, <2>3, <2>4 DEF Perform, Other
<1>3. CASE name = "SHR"
  <2> DEFINE r == [s EXCEPT !.CF = s.A % 2]
  <2>1. Calm(s, r)
    BY FieldNames DEF Typed, Calm
  <2>2. s.A \div 2 \in Word
    BY Words DEF Typed
  <2>3. Perform(s, name, arg, in) = Accumulate(r, s.A \div 2)
    BY <1>3 DEF Perform
  <2> HIDE DEF r
  <2> QED
    BY <2>1, <2>2, <2>3, CalmAccumulate, CalmTwice DEF Calm
<1>4. CASE name = "INP"
  <2>1. Perform(s, name, arg, in) = Accumulate(AfterRead(s, arg), read_port(s, arg, in))
    BY <1>4 DEF Perform
  <2> QED
    BY <2>1, CalmPorts, CalmAccumulate, CalmTwice DEF Calm
<1>5. CASE name \in {"NOP", "LDIB", "LDIC", "LDID", "MOVBA", "MOVCA", "MOVDA", "CLI", "STI", "OUT",
                     "OUTS", "HLT"}
  <2>1. CASE name \in {"LDIB", "LDIC", "LDID", "MOVBA", "MOVCA", "MOVDA"}
    <3>1. s.A \in Word
      BY DEF Typed
    <3> QED
      BY <1>11, <2>1, <3>1 DEF Perform
  <2>2. CASE name \in {"CLI", "STI", "HLT"}
    <3>1. \A v : Calm(s, [s EXCEPT !.ien = v]) /\ Calm(s, [s EXCEPT !.state = v])
      BY FieldNames DEF Typed, Calm
    <3> QED
      BY <2>2, <3>1 DEF Perform
  <2>3. CASE name \in {"NOP", "OUT", "OUTS"}
    <3>1. Calm(s, s) /\ \A v : Calm(s, [s EXCEPT !.out = v])
      BY FieldNames DEF Typed, Calm
    <3> QED
      BY <2>3, <3>1 DEF Perform
  <2> QED
    BY <1>5, <2>1, <2>2, <2>3
<1>6. CASE name \in {"INCB", "DECB", "INCC", "DECC"}
  <2>1. s.B + 1 \in Int /\ s.B - 1 \in Int /\ s.C + 1 \in Int /\ s.C - 1 \in Int
    BY <1>0
  <2>2. /\ Wrap(s.B + 1) \in Word /\ Wrap(s.B - 1) \in Word
        /\ Wrap(s.C + 1) \in Word /\ Wrap(s.C - 1) \in Word
    BY <2>1, Arithmetic
  <2> QED
    BY <1>6, <1>11, <2>2 DEF Perform
<1>7. CASE name \in {"JMP", "JZ", "JNZ", "JN", "JNN", "JC", "JNC"}
  <2>1. \A b : Calm(s, Branch(s, b, arg))
    BY FieldNames DEF Typed, Calm, Branch
  <2> QED
    BY <1>7, <2>1 DEF Perform
<1>8. CASE name = "OUTP"
  BY <1>8, CalmPorts DEF Perform
<1> QED
  BY <1>1, <1>2, <1>3, <1>4, <1>5, <1>6, <1>7, <1>8 DEF Calmly, Computing, Moving

-----------------------------------------------------------------------------
(***************************************************************************)
(* What stores do to the machine.                                          *)
(***************************************************************************)
\* A store moves nothing but the byte it stores.
LEMMA StoreByte ==
  ASSUME NEW s, Typed(s), NEW address \in Int, NEW v \in Int
  PROVE  LET t == write8(s, address, v)
         IN /\ Typed(t) /\ t.SP = s.SP /\ t.cs = s.cs /\ t.PC = s.PC /\ (Stopped(s) => Stopped(t))
            /\ \A a : a # Wrap(address) => At(t.ram, a) = At(s.ram, a)
            /\ ~Stopped(t) => At(t.ram, Wrap(address)) = Low(v)
<1>1. CASE Stopped(s)
  BY <1>1 DEF write8
<1>2. CASE ~Stopped(s) /\ Page(Wrap(address)) \in s.exec_map
  BY <1>2, FieldNames DEF write8, Fault, Typed, Stopped
<1>3. CASE ~Stopped(s) /\ Page(Wrap(address)) \notin s.exec_map
  <2> DEFINE ram == Put(s.ram, Wrap(address), Low(v))
             t == [s EXCEPT !.ram = ram]
  <2>1. Low(v) \in Byte
    BY Arithmetic
  <2>2. Stocked(ram) /\ At(ram, Wrap(address)) = Low(v)
    BY <2>1, Memory DEF Typed
  <2>3. \A a : a # Wrap(address) => At(ram, a) = At(s.ram, a)
    BY PutElsewhere
  <2> HIDE DEF ram
  <2>4. Typed(t) /\ t.SP = s.SP /\ t.cs = s.cs /\ t.PC = s.PC /\ t.ram = ram
    BY <2>2, FieldNames DEF Typed
  <2>5. write8(s, address, v) = t
    BY <1>3 DEF write8, ram
  <2> HIDE DEF t
  <2> QED
    BY <1>3, <2>2, <2>3, <2>4, <2>5
<1> QED
  BY <1>1, <1>2, <1>3

\* So does a store of a word, of the two bytes.
LEMMA StoreWord ==
  ASSUME NEW s, Typed(s), NEW address \in Int, NEW v \in Word
  PROVE  Still(s, write16(s, address, v))
<1>1. address + 1 \in Int /\ v \in Int /\ High(v) \in Int
  BY Words, Octets, Arithmetic
<1>2. Typed(write8(s, address, v)) /\ write8(s, address, v).SP = s.SP /\ write8(s, address, v).cs = s.cs
  BY <1>1, StoreByte
<1> QED
  BY <1>1, <1>2, StoreByte DEF write16, Still

-----------------------------------------------------------------------------
(***************************************************************************)
(* What the device does to the machine.                                    *)
(***************************************************************************)
\* Two still steps in a row are still.
LEMMA StillTwice ==
  ASSUME NEW s, NEW t, NEW u, Still(s, t), Still(t, u)
  PROVE  Still(s, u)
  BY DEF Still

\* The writeback stores words and bytes, the offsets being small numbers.
LEMMA StillWriteback ==
  ASSUME NEW s, Typed(s), NEW descriptor \in Int, NEW status \in Word, NEW length \in Word,
         NEW nonce \in Word, NEW attempts \in Int, NEW corrected \in Int,
         NEW value \in Word \cup {NoValue}
  PROVE  Still(s, _writeback(s, descriptor, status, length, nonce, attempts, corrected, value))
<1> DEFINE m1 == write16(s, descriptor + FIELD.STATUS, status)
           m2 == write16(m1, descriptor + FIELD.LENGTH, length)
           m3 == write16(m2, descriptor + FIELD.NONCE, nonce)
           m4 == write8(m3, descriptor + FIELD.ATTEMPTS, attempts)
           m5 == write8(m4, descriptor + FIELD.CORRECTED, corrected)
           m6 == write16(m5, descriptor + FIELD.VALUE, value)
<1>1. _writeback(s, descriptor, status, length, nonce, attempts, corrected, value)
        = IF value = NoValue THEN m5 ELSE m6
  BY DEF _writeback
<1>2. /\ descriptor + FIELD.STATUS \in Int /\ descriptor + FIELD.LENGTH \in Int
      /\ descriptor + FIELD.NONCE \in Int /\ descriptor + FIELD.ATTEMPTS \in Int
      /\ descriptor + FIELD.CORRECTED \in Int /\ descriptor + FIELD.VALUE \in Int
  BY DEF FIELD
<1>3. \A r : Typed(r) => \A address, v \in Int : Still(r, write8(r, address, v))
  BY StoreByte DEF Still
<1>4. \A r : Typed(r) => \A address \in Int, v \in Word : Still(r, write16(r, address, v))
  BY StoreWord
<1>5. Still(s, m1)
  BY <1>2, <1>4
<1>6. Still(m1, m2)
  BY <1>2, <1>4, <1>5 DEF Still
<1>7. Still(m2, m3)
  BY <1>2, <1>4, <1>6 DEF Still
<1>8. Still(m3, m4)
  BY <1>2, <1>3, <1>7 DEF Still
<1>9. Still(m4, m5)
  BY <1>2, <1>3, <1>8 DEF Still
<1>10. value # NoValue => Still(m5, m6)
  BY <1>2, <1>4, <1>9 DEF Still
<1> HIDE DEF m1, m2, m3, m4, m5, m6
<1>11. Still(s, m5)
  BY <1>5, <1>6, <1>7, <1>8, <1>9, StillTwice
<1> QED
  BY <1>1, <1>10, <1>11, StillTwice

\* The registers get words.
LEMMA StillReport ==
  ASSUME NEW s, Typed(s), NEW status \in Byte, NEW length \in Word, NEW attempts \in Word
  PROVE  Still(s, Reported(s, status, length, attempts))
<1> DEFINE r == [s EXCEPT !.B = length, !.C = attempts, !.last_oracle_status = status]
           u == Accumulate(r, status)
<1>1. status \in Word
  BY Words, Octets
<1>2. Calm(s, r)
  BY FieldNames DEF Typed, Calm
<1> HIDE DEF r
<1>3. Calm(s, u)
  BY <1>1, <1>2, CalmAccumulate, CalmTwice DEF Calm
<1>4. Reported(s, status, length, attempts) = [u EXCEPT !.CF = Bit(~is_success(status))]
  BY DEF Reported, r
<1> HIDE DEF u
<1> QED
  BY <1>3, <1>4, FieldNames DEF Typed, Calm, Still

\* Small numbers are words and bytes.
LEMMA Small ==
  /\ 0 \in Word /\ 0 \in Int /\ 1 \in Word
  /\ \A status \in {BUSY, NO_REQUEST, BAD_DESCRIPTOR, BUDGET, WX} : status \in Byte
  /\ \A b \in Byte : b \in Word /\ b \in Int
  /\ \A n \in 1 .. MAX_RETRIES + 1 : n \in Word /\ n \in Int
  /\ NoValue \in Word \cup {NoValue} /\ NoValue \notin Word
<1>1. \A b \in Byte : b \in Word /\ b \in Int
  BY Words, Octets
<1>2. \A n \in 1 .. MAX_RETRIES + 1 : n \in Word /\ n \in Int
  BY Words DEF MAX_RETRIES
<1>3. NoValue \notin Word
  BY Words DEF NoValue, WordSize
<1> QED
  BY <1>1, <1>2, <1>3, Words, Octets DEF BUSY, NO_REQUEST, BAD_DESCRIPTOR, BUDGET, WX

\* What is read from an acceptable descriptor is a request.
LEMMA Described ==
  ASSUME NEW s, Typed(s), Writable(s), Acceptable(s), NEW nonce \in Word
  PROVE  _read_descriptor(s, nonce) \in PendingTrap
<1> DEFINE ptr == s.oracle_ptr
           retries == Field8(s, "RETRIES")
<1>1. ptr \in Word
  <2>1. ptr \in 0 .. WordSize /\ ptr + DESCRIPTOR_SIZE <= WordSize
    BY DEF Typed, Writable
  <2> HIDE DEF ptr
  <2>2. ptr \in Nat /\ ptr < 65536
    BY <2>1 DEF DESCRIPTOR_SIZE, WordSize
  <2> QED
    BY <2>2, Words
<1>2. Field16(s, "RESPONSE") \in Word /\ Field16(s, "CAPACITY") \in Word
  BY Reading DEF Field16
<1>3. retries \in 0 .. MAX_RETRIES
  <2>1. retries \in Byte
    BY Reading DEF Field8
  <2>2. retries <= MAX_RETRIES
    BY DEF Acceptable
  <2> HIDE DEF retries
  <2> QED
    BY <2>1, <2>2, Octets DEF MAX_RETRIES
<1>4. 1 \in 1 .. MAX_RETRIES + 1
  BY DEF MAX_RETRIES
<1>5. Field8(s, "MODE") \in MODE_NAMES
  BY DEF Acceptable
<1> QED
  BY <1>1, <1>2, <1>3, <1>4, <1>5 DEF _read_descriptor, PendingTrap

\* A request, refused or published.
LEMMA StillRequest ==
  ASSUME NEW s, Typed(s), NEW in \in Input
  PROVE  Still(s, _begin_trap(s, in)) /\ Still(s, _begin_async(s, in))
<1>1. ASSUME NEW status \in {BUSY, NO_REQUEST, BAD_DESCRIPTOR, BUDGET},
             NEW writable \in BOOLEAN, writable => Writable(s)
      PROVE  Still(s, _complete(s, status, writable))
  <2> DEFINE w == IF writable THEN _writeback(s, s.oracle_ptr, status, 0, 0, 0, 0, NoValue) ELSE s
  <2>1. status \in Byte /\ status \in Word
    BY Small
  <2>2. Still(s, w)
    <3>1. Writable(s) => s.oracle_ptr \in Int
      BY DEF Typed
    <3> QED
      BY <1>1, <2>1, <3>1, Small, StillWriteback DEF Still
  <2>3. Still(w, Reported(w, status, 0, 0))
    <3>1. Typed(w) /\ 0 \in Word
      BY <2>2, Small DEF Still
    <3> HIDE DEF w
    <3> QED
      BY <2>1, <3>1, StillReport
  <2>4. _complete(s, status, writable) \in {w, Reported(w, status, 0, 0)}
    BY DEF _complete
  <2> HIDE DEF w
  <2> QED
    BY <2>2, <2>3, <2>4, StillTwice
<1>2. ASSUME NEW t, Still(s, t)
      PROVE  Still(s, Begin(s, in, t))
  <2> DEFINE u == [t EXCEPT !.pending = _read_descriptor(s, in.nonce)]
  <2>1. in.nonce \in Word
    BY DEF Input
  <2>2. Writable(s) /\ Acceptable(s) => Still(s, u)
    <3> SUFFICES ASSUME Writable(s), Acceptable(s)
                 PROVE  Still(s, u)
      OBVIOUS
    <3> DEFINE p == _read_descriptor(s, in.nonce)
    <3>1. p \in PendingTrap
      BY <2>1, Described
    <3>2. u = [t EXCEPT !.pending = p]
      OBVIOUS
    <3> HIDE DEF p, u
    <3> QED
      BY <1>2, <3>1, <3>2, FieldNames DEF Still, Typed
  <2>3. \/ Begin(s, in, t) = _complete(s, BUSY, FALSE)
        \/ Begin(s, in, t) = _complete(s, NO_REQUEST, FALSE)
        \/ Begin(s, in, t) = _complete(s, BAD_DESCRIPTOR, Writable(s))
        \/ Writable(s) /\ Begin(s, in, t) = _complete(s, BUDGET, TRUE)
        \/ Writable(s) /\ Acceptable(s) /\ Begin(s, in, t) = u
    BY Requests
  <2>4. Writable(s) \in BOOLEAN
    BY DEF Writable
  <2> HIDE DEF u
  <2> QED
    BY <1>1, <2>2, <2>3, <2>4
<1>3. Still(s, [s EXCEPT !.state = "TRAPPED"]) /\ Still(s, [s EXCEPT !.async_pending = TRUE])
  BY FieldNames DEF Still, Typed
<1> QED
  BY <1>2, <1>3 DEF _begin_trap, _begin_async

\* The answer that is written back: what there is of it fits the request.
LEMMA Given ==
  ASSUME NEW s, Typed(s), NEW answer \in Answer, AnswerTo(s.pending, answer)
  PROVE  LET given == Permitted(s, answer)
             n == Len(given.payload)
         IN /\ given \in Answer /\ n \in Nat /\ n <= s.pending.capacity /\ n \in Word
            /\ \A a \in Buffer(s.pending, n) : Page(a) \notin s.exec_map
<1> DEFINE given == Permitted(s, answer)
           n == Len(given.payload)
<1>1. s.pending.capacity \in Word /\ s.pending.response \in Word
  BY DEF Typed, PendingTrap
<1>2. \A status \in Byte : Failure(status) \in Answer /\ Failure(status).payload = <<>>
  BY Small, Octets DEF Failure, Answer
<1>3. CASE is_success(answer.status) /\ ~_wx_blocked(s, answer)
  <2>1. given = answer /\ answer.payload \in Seq(Byte) /\ Len(answer.payload) <= s.pending.capacity
    BY <1>3 DEF Permitted, AnswerTo, Answer
  <2>2. n \in Nat /\ n <= s.pending.capacity
    BY <2>1
  <2>3. \A a \in Buffer(s.pending, n) : Page(a) \notin s.exec_map
    BY <1>3, <2>1 DEF _wx_blocked
  <2>4. n \in Word
    BY <1>1, <2>2, Words
  <2> QED
    BY <2>1, <2>2, <2>3, <2>4
<1>4. CASE ~(is_success(answer.status) /\ ~_wx_blocked(s, answer))
  <2>1. given = Failure(WX) \/ given = Failure(answer.status)
    BY <1>4 DEF Permitted, AnswerTo, _wx_blocked
  <2>2. given \in Answer /\ given.payload = <<>>
    BY <1>2, <2>1, Small DEF Answer
  <2>3. n = 0
    BY <2>2
  <2>4. Buffer(s.pending, 0) = {}
    BY <1>1, Words DEF Buffer
  <2>5. 0 <= s.pending.capacity
    BY <1>1, Words
  <2> HIDE DEF given
  <2> QED
    BY <2>2, <2>3, <2>4, <2>5, Small DEF given
<1> QED
  BY <1>3, <1>4

\* What the transfer stores: bytes, into the buffer or behind what fills it.
LEMMA Transfer ==
  ASSUME NEW s, Typed(s), NEW payload \in Seq(Byte), Len(payload) <= s.pending.capacity
  PROVE  LET t == Transferred(s, payload)
             n == Len(payload)
             last == s.pending.response + n
         IN /\ Still(s, t) /\ t.exec_map = s.exec_map /\ t.cycles = s.cycles
            /\ \A a : a \notin Buffer(s.pending, n) /\ At(t.ram, a) # At(s.ram, a) =>
                 /\ a = last /\ At(t.ram, a) = 0
                 /\ n > 0 /\ n < s.pending.capacity /\ s.pending.terminated
<1> DEFINE p == s.pending
           n == Len(payload)
           bytes == Terminated(p, payload)
           cells == Buffer(p, Len(bytes))
           stored == [a \in cells |-> bytes[a - p.response + 1]]
           ram == [a \in cells \cup DOMAIN s.ram |-> IF a \in cells THEN stored[a] ELSE s.ram[a]]
           t == [s EXCEPT !.ram = ram]
<1>1. p.response \in Nat /\ p.capacity \in Nat /\ n \in Nat
  BY Words DEF Typed, PendingTrap
<1>2. bytes = payload \/ (bytes = Append(payload, 0) /\ n > 0 /\ n < p.capacity /\ p.terminated)
  <2>1. payload # <<>> => n > 0
    BY <1>1
  <2> QED
    BY <2>1 DEF Terminated
<1>3. bytes \in Seq(Byte)
  BY <1>2, Octets
<1> HIDE DEF bytes, p
<1>4. \A a \in cells : a - p.response + 1 \in 1 .. Len(bytes)
  BY <1>1, <1>3 DEF Buffer
<1>5. \A a \in cells : stored[a] \in Byte
  BY <1>3, <1>4
<1> HIDE DEF cells
<1>6. DOMAIN stored = cells
  OBVIOUS
<1> HIDE DEF stored
<1>7. DOMAIN ram = cells \cup DOMAIN s.ram
      /\ \A a \in DOMAIN ram : ram[a] = IF a \in cells THEN stored[a] ELSE s.ram[a]
  OBVIOUS
<1> HIDE DEF ram
<1>8. Stocked(ram)
  BY <1>5, <1>7 DEF Stocked, Typed
<1>9. Still(s, t) /\ t.exec_map = s.exec_map /\ t.cycles = s.cycles /\ t.ram = ram
  BY <1>8, FieldNames DEF Still, Typed
<1>10. t = Transferred(s, payload)
  BY DEF Transferred, ram, stored, cells, bytes, p
<1>11. ASSUME NEW a, a \notin Buffer(p, n), At(ram, a) # At(s.ram, a)
       PROVE  /\ a = p.response + n /\ At(ram, a) = 0
              /\ n > 0 /\ n < p.capacity /\ p.terminated
  <2>1. a \in cells /\ At(ram, a) = stored[a]
    BY <1>7, <1>11 DEF At
  <2>2. bytes = Append(payload, 0) /\ n > 0 /\ n < p.capacity /\ p.terminated
    BY <1>2, <1>11, <2>1 DEF cells
  <2>3. Len(bytes) = n + 1 /\ bytes[n + 1] = 0
    BY <1>1, <2>2
  <2>4. a = p.response + n
    BY <1>1, <1>11, <2>1, <2>3 DEF cells, Buffer
  <2>5. stored[a] = bytes[a - p.response + 1]
    BY <2>1 DEF stored
  <2>6. a - p.response + 1 = n + 1
    BY <1>1, <2>4
  <2> QED
    BY <2>1, <2>2, <2>3, <2>4, <2>5, <2>6
<1> HIDE DEF t
<1> QED
  BY <1>9, <1>10, <1>11 DEF p

\* A completion, its stores and what it reports.
LEMMA StillCompletion ==
  ASSUME NEW s, Typed(s), NEW answer \in Answer, AnswerTo(s.pending, answer)
  PROVE  LET t == Finish(s, answer)
             given == Permitted(s, answer)
         IN /\ Still(s, t) /\ t.exec_map = s.exec_map /\ t.cycles = s.cycles
            /\ \A a : Page(a) \in s.exec_map => At(t.ram, a) = At(Transferred(s, given.payload).ram, a)
<1> DEFINE p == s.pending
           given == Permitted(s, answer)
           n == Len(given.payload)
           moved == Transferred(s, given.payload)
           r == [moved EXCEPT !.state = "RUNNING"]
           w == _writeback(r, p.descriptor, given.status, n, p.nonce, p.attempt, given.corrected, given.value)
           k == [s EXCEPT !.ram = w.ram]
           t == Finish(s, answer)
<1>1. given \in Answer /\ n \in Word /\ n <= p.capacity
  BY Given
<1>2. /\ given.status \in Byte /\ given.payload \in Seq(Byte) /\ given.corrected \in Byte
      /\ given.value \in Word \cup {NoValue}
  BY <1>1 DEF Answer
<1>3. /\ p.descriptor \in Word /\ p.nonce \in Word /\ p.attempt \in 1 .. MAX_RETRIES + 1
  BY DEF Typed, PendingTrap
<1>4. Still(s, moved) /\ moved.exec_map = s.exec_map /\ moved.cycles = s.cycles
  BY <1>1, <1>2, Transfer
<1>5. w = WrittenBack(s, answer)
  BY DEF WrittenBack
<1> HIDE DEF given, n, p, moved
<1>6. Still(s, r) /\ r.exec_map = s.exec_map /\ r.cycles = s.cycles /\ r.ram = moved.ram
  BY <1>4, FieldNames DEF Still, Typed
<1> HIDE DEF r
<1>7. /\ p.descriptor \in Int /\ given.status \in Word /\ given.corrected \in Int
      /\ p.attempt \in Int /\ p.attempt \in Word
  BY <1>2, <1>3, Small, Words
<1>8. Still(r, w)
  BY <1>1, <1>2, <1>3, <1>6, <1>7, StillWriteback DEF Still
<1>9. Careful(r, w)
  BY <1>6, Writeback DEF Still, Typed
<1> HIDE DEF w
<1>10. Stocked(w.ram)
  BY <1>8 DEF Still, Typed
<1>11. Still(s, k) /\ k.exec_map = s.exec_map /\ k.cycles = s.cycles /\ k.ram = w.ram
       /\ k.D = s.D /\ k.pending = s.pending
  BY <1>10, FieldNames DEF Still, Typed
<1>12. NotPending \in PendingTrap
  BY Words DEF NotPending, PendingTrap, MODE_NAMES, TEXT, MAX_RETRIES
<1>13. Still(k, _finish_async(s, w.ram, given)) /\ _finish_async(s, w.ram, given).ram = w.ram
       /\ _finish_async(s, w.ram, given).exec_map = s.exec_map
       /\ _finish_async(s, w.ram, given).cycles = s.cycles
  BY <1>2, <1>10, <1>12, FieldNames DEF _finish_async, Still, Typed
<1>14. Still(k, _finish_trap(s, w.ram, given)) /\ _finish_trap(s, w.ram, given).ram = w.ram
       /\ _finish_trap(s, w.ram, given).exec_map = s.exec_map
       /\ _finish_trap(s, w.ram, given).cycles = s.cycles
  <2> DEFINE u == Reported(k, given.status, n, p.attempt)
             d == IF given.value = NoValue THEN u.D ELSE given.value
             v == [u EXCEPT !.D = d]
             x == [v EXCEPT !.pending = NotPending]
  <2>1. Still(k, u)
    BY <1>1, <1>2, <1>7, <1>11, StillReport DEF Still
  <2>2. Careful(k, u)
    BY <1>11, Reporting DEF Still, Typed
  <2>3. u.ram = w.ram
    BY <1>11, FieldNames DEF Reported, Accumulate, flags, Still, Typed
  <2>4. _finish_trap(s, w.ram, given) = [x EXCEPT !.state = "RUNNING"]
    BY DEF _finish_trap, p, n
  <2> HIDE DEF u
  <2>5. d \in Word
    BY <1>2, <2>1 DEF Still, Typed
  <2> HIDE DEF d
  <2>6. Still(k, v) /\ v.ram = w.ram /\ v.exec_map = s.exec_map /\ v.cycles = s.cycles
    BY <1>11, <2>1, <2>2, <2>3, <2>5, FieldNames DEF Still, Typed, Careful
  <2> HIDE DEF v
  <2>7. Still(k, x) /\ x.ram = w.ram /\ x.exec_map = s.exec_map /\ x.cycles = s.cycles
    BY <1>12, <2>6, FieldNames DEF Still, Typed
  <2> HIDE DEF x, k
  <2> QED
    BY <2>4, <2>7, FieldNames DEF Still, Typed
<1>15. t \in {k, _finish_async(s, w.ram, given), _finish_trap(s, w.ram, given)}
  BY <1>5 DEF Finish, given
<1>16. t.ram = w.ram /\ Still(s, t) /\ t.exec_map = s.exec_map /\ t.cycles = s.cycles
  <2> HIDE DEF k, t
  <2> QED
    BY <1>11, <1>13, <1>14, <1>15, StillTwice
<1>17. \A a : Page(a) \in s.exec_map => At(w.ram, a) = At(moved.ram, a)
  BY <1>6, <1>9 DEF Careful
<1> HIDE DEF t, k
<1> QED
  BY <1>16, <1>17 DEF t, moved, given

-----------------------------------------------------------------------------
(***************************************************************************)
(* What pushes, pops, calls and returns do to the stack.                   *)
(***************************************************************************)
\* A byte pushed.
LEMMA PushByte ==
  ASSUME NEW s, Typed(s), NEW v \in Int
  PROVE  LET t == Push8(s, v)
         IN /\ Typed(t) /\ t.cs = s.cs /\ t.PC = s.PC /\ (Stopped(s) => Stopped(t))
            /\ \A a : a # s.SP => At(t.ram, a) = At(s.ram, a)
            /\ ~Stopped(t) => At(t.ram, s.SP) = Low(v) /\ t.SP = Wrap(s.SP - 1)
<1> DEFINE w == write8(s, s.SP, v)
<1>1. s.SP \in Int /\ Wrap(s.SP) = s.SP
  BY WrapWord DEF Typed
<1>2. /\ Typed(w) /\ w.SP = s.SP /\ w.cs = s.cs /\ w.PC = s.PC /\ (Stopped(s) => Stopped(w))
      /\ \A a : a # s.SP => At(w.ram, a) = At(s.ram, a)
      /\ ~Stopped(w) => At(w.ram, s.SP) = Low(v)
  <2>1. /\ Typed(w) /\ w.SP = s.SP /\ w.cs = s.cs /\ w.PC = s.PC /\ (Stopped(s) => Stopped(w))
        /\ \A a : a # Wrap(s.SP) => At(w.ram, a) = At(s.ram, a)
        /\ ~Stopped(w) => At(w.ram, Wrap(s.SP)) = Low(v)
    BY <1>1, StoreByte, Zenon
  <2> HIDE DEF w
  <2> QED
    BY <1>1, <2>1
<1>3. Push8(s, v) = Down(w)
  BY DEF Push8
<1> HIDE DEF w
<1>4. CASE Stopped(w)
  BY <1>2, <1>3, <1>4 DEF Down
<1>5. CASE ~Stopped(w)
  <2> DEFINE t == [w EXCEPT !.SP = Wrap(w.SP - 1)]
  <2>1. Push8(s, v) = t
    BY <1>3, <1>5 DEF Down
  <2>2. Wrap(w.SP - 1) \in Word
    BY <1>1, <1>2, Arithmetic
  <2>3. Typed(t) /\ t.cs = w.cs /\ t.PC = w.PC /\ t.ram = w.ram /\ t.SP = Wrap(s.SP - 1)
        /\ t.state = w.state
    BY <1>2, <2>2, FieldNames DEF Typed
  <2> HIDE DEF t
  <2> QED
    BY <1>2, <2>1, <2>3 DEF Stopped
<1> QED
  BY <1>4, <1>5

\* The stack pointer n bytes further down, or round the end of memory.
LEMMA Downward ==
  /\ \A p \in Word : p >= 1 => Wrap(p - 1) = p - 1
  /\ \A p \in Word : p < 1 => Wrap(p - 1) = 65535
<1>1. WordSize = 65536
  BY DEF WordSize
<1>2. ASSUME NEW p \in Word, p >= 1 PROVE Wrap(p - 1) = p - 1
  <2>1. p \in Nat /\ p < 65536
    BY Words
  <2> QED
    BY <1>1, <1>2, <2>1 DEF Wrap
<1>3. ASSUME NEW p \in Word, p < 1 PROVE Wrap(p - 1) = 65535
  <2>1. p \in Nat /\ p = 0
    BY <1>3, Words
  <2>2. ASSUME NEW x \in Int, x < 0, x >= -65536 PROVE x % 65536 = x + 65536
    BY <2>2
  <2>3. p - 1 \in Int /\ p - 1 < 0 /\ p - 1 >= -65536 /\ p - 1 + 65536 = 65535
    BY <2>1
  <2>4. (p - 1) % 65536 = p - 1 + 65536
    BY <2>2, <2>3
  <2> QED
    BY <1>1, <2>3, <2>4 DEF Wrap
<1> QED
  BY <1>2, <1>3

\* A word pushed lies at the old stack pointer, its low byte on top; where the
\* stack does not run over the end of memory nothing above it has changed.
LEMMA PushWord ==
  ASSUME NEW s, Typed(s), NEW v \in Word
  PROVE  LET t == push16(s, v)
         IN /\ Typed(t) /\ t.cs = s.cs /\ t.PC = s.PC /\ (Stopped(s) => Stopped(t))
            /\ s.SP >= 2 =>
                 /\ \A a \in Int : a > s.SP => At(t.ram, a) = At(s.ram, a)
                 /\ ~Stopped(t) =>
                      t.SP = s.SP - 2 /\ 256 * At(t.ram, s.SP - 1) + At(t.ram, s.SP) = v
            /\ s.SP < 2 /\ ~Stopped(t) => t.SP = s.SP + 65534
<1> DEFINE u == Push8(s, v)
           t == Push8(u, High(v))
<1>0. v \in Int /\ High(v) \in Byte /\ High(v) \in Int /\ s.SP \in Word /\ s.SP \in Nat /\ s.SP < 65536
  BY WrapWord, HighByte DEF Typed
<1>1. /\ Typed(u) /\ u.cs = s.cs /\ u.PC = s.PC /\ (Stopped(s) => Stopped(u))
      /\ \A a : a # s.SP => At(u.ram, a) = At(s.ram, a)
      /\ ~Stopped(u) => At(u.ram, s.SP) = Low(v) /\ u.SP = Wrap(s.SP - 1)
  <2>1. v \in Int
    BY <1>0
  <2> QED
    BY <2>1, PushByte, Zenon
<1>2. /\ Typed(t) /\ t.cs = u.cs /\ t.PC = u.PC /\ (Stopped(u) => Stopped(t))
      /\ \A a : a # u.SP => At(t.ram, a) = At(u.ram, a)
      /\ ~Stopped(t) => At(t.ram, u.SP) = Low(High(v)) /\ t.SP = Wrap(u.SP - 1)
  <2>1. Typed(u) /\ High(v) \in Int
    BY <1>0, <1>1
  <2> HIDE DEF u
  <2> QED
    BY <2>1, PushByte, Zenon
<1>3. push16(s, v) = t
  BY DEF push16
<1>4. Low(High(v)) = High(v) /\ 256 * High(v) + Low(v) = v
  BY HighByte, Arithmetic
<1> HIDE DEF u, t
<1>5. /\ Typed(t) /\ t.cs = s.cs /\ t.PC = s.PC /\ (Stopped(s) => Stopped(t)) /\ (Stopped(u) => Stopped(t))
  BY <1>1, <1>2
<1>6. u.SP = s.SP \/ u.SP = Wrap(s.SP - 1)
  BY DEF u, Push8, Down, write8, Fault
<1>7. ASSUME s.SP >= 2, NEW a \in Int, a > s.SP PROVE At(t.ram, a) = At(s.ram, a)
  <2>1. u.SP \in Nat /\ u.SP <= s.SP
    BY <1>0, <1>6, <1>7, Downward
  <2>2. a # s.SP /\ a # u.SP
    BY <1>0, <1>7, <2>1
  <2> QED
    BY <1>1, <1>2, <2>2
<1>8. ASSUME ~Stopped(t) PROVE u.SP = Wrap(s.SP - 1) /\ t.SP = Wrap(u.SP - 1)
                               /\ At(t.ram, u.SP) = High(v)
  BY <1>1, <1>2, <1>4, <1>8
<1>9. ASSUME s.SP >= 2, ~Stopped(t)
      PROVE  t.SP = s.SP - 2 /\ 256 * At(t.ram, s.SP - 1) + At(t.ram, s.SP) = v
  <2>1. u.SP = s.SP - 1
    BY <1>0, <1>8, <1>9, Downward
  <2>2. t.SP = s.SP - 2
    <3>1. u.SP \in Word /\ u.SP >= 1
      BY <1>0, <1>1, <1>9, <2>1 DEF Typed
    <3>2. t.SP = u.SP - 1
      BY <1>8, <1>9, <3>1, Downward
    <3> QED
      BY <1>0, <2>1, <3>2
  <2>3. At(t.ram, s.SP) = Low(v)
    <3>1. s.SP # u.SP
      BY <1>0, <2>1
    <3> QED
      BY <1>1, <1>2, <1>9, <3>1
  <2> QED
    BY <1>4, <1>8, <1>9, <2>1, <2>2, <2>3
<1>10. ASSUME s.SP < 2, ~Stopped(t) PROVE t.SP = s.SP + 65534
  <2>1. CASE s.SP < 1
    <3>1. u.SP = 65535 /\ u.SP \in Word
      BY <1>0, <1>1, <1>8, <1>10, <2>1, Downward DEF Typed
    <3>2. t.SP = u.SP - 1
      BY <1>8, <1>10, <3>1, Downward
    <3> QED
      BY <1>0, <2>1, <3>1, <3>2
  <2>2. CASE s.SP >= 1
    <3>1. u.SP = s.SP - 1 /\ u.SP \in Word
      BY <1>0, <1>1, <1>8, <1>10, <2>2, Downward DEF Typed
    <3>2. t.SP = 65535
      BY <1>0, <1>8, <1>10, <3>1, Downward
    <3> QED
      BY <1>0, <1>10, <2>2, <3>2
  <2> QED
    BY <1>0, <2>1, <2>2
<1> QED
  BY <1>3, <1>5, <1>7, <1>9, <1>10

\* Only a store into an executable page stops a push.
LEMMA PushFaults ==
  ASSUME NEW s, Typed(s), NEW v \in Word
  PROVE  push16(s, v).state \in {s.state, "FAULT"}
<1>1. ASSUME NEW r, Typed(r), NEW w PROVE Push8(r, w).state \in {r.state, "FAULT"}
  BY <1>1, FieldNames DEF Push8, Down, write8, Fault, Typed
<1>2. Typed(Push8(s, v))
  <2>1. v \in Int
    BY WrapWord
  <2> QED
    BY <2>1, PushByte
<1> QED
  BY <1>1, <1>2 DEF push16

\* Two bytes up, or round the end of memory.
LEMMA Upward ==
  /\ \A p \in Word : p < 65534 => Wrap(p + 2) = p + 2 /\ Wrap(p + 1) = p + 1
  /\ \A p \in Word : p >= 65534 => Wrap(p + 2) = p - 65534
<1>1. WordSize = 65536
  BY DEF WordSize
<1>2. ASSUME NEW p \in Word, p < 65534 PROVE Wrap(p + 2) = p + 2 /\ Wrap(p + 1) = p + 1
  <2>1. p \in Nat
    BY Words
  <2> QED
    BY <1>1, <1>2, <2>1 DEF Wrap
<1>3. ASSUME NEW p \in Word, p >= 65534 PROVE Wrap(p + 2) = p - 65534
  <2>1. p \in Nat /\ p < 65536
    BY Words
  <2>2. ASSUME NEW x \in Int, x >= 65536, x < 131072 PROVE Wrap(x) = x - 65536
    BY <1>1, <2>2 DEF Wrap
  <2>3. p + 2 \in Int /\ p + 2 >= 65536 /\ p + 2 < 131072
    BY <1>3, <2>1
  <2>4. Wrap(p + 2) = (p + 2) - 65536
    BY <2>1, <2>2, <2>3
  <2> QED
    BY <2>1, <2>4
<1> QED
  BY <1>2, <1>3

\* Words popped: what they were, where memory does not end above them.
LEMMA PopWord ==
  ASSUME NEW s, Typed(s)
  PROVE  LET t == Popped(s)
         IN /\ Typed(t) /\ t.cs = s.cs /\ t.PC = s.PC /\ t.ram = s.ram /\ t.state = s.state
            /\ s.SP < 65534 => t.SP = s.SP + 2
                               /\ pop16(s) = 256 * At(s.ram, s.SP + 1) + At(s.ram, s.SP + 2)
            /\ s.SP >= 65534 => t.SP = s.SP - 65534
<1>1. s.SP \in Word /\ s.SP \in Nat
  BY Words DEF Typed
<1>2. Wrap(s.SP + 2) \in Word
  <2>1. s.SP + 2 \in Int
    BY <1>1
  <2> QED
    BY <2>1, Arithmetic
<1>3. LET t == Popped(s)
      IN Typed(t) /\ t.cs = s.cs /\ t.PC = s.PC /\ t.ram = s.ram /\ t.state = s.state
         /\ t.SP = Wrap(s.SP + 2)
  BY <1>2, FieldNames DEF Popped, Typed
<1>4. s.SP < 65534 => pop16(s) = 256 * At(s.ram, s.SP + 1) + At(s.ram, s.SP + 2)
  BY <1>1, Upward DEF pop16, read8
<1> QED
  BY <1>1, <1>3, <1>4, Upward

\* A far context left: four bytes of the stack become PC and segment.
LEMMA LeaveFar ==
  ASSUME NEW s, Typed(s)
  PROVE  LET t == Leave(s)
         IN /\ Typed(t) /\ t.ram = s.ram /\ t.state = s.state
            /\ s.SP + 4 < 65536 =>
                 /\ t.SP = s.SP + 4
                 /\ t.PC = 256 * At(s.ram, s.SP + 1) + At(s.ram, s.SP + 2)
                 /\ t.cs = (256 * At(s.ram, s.SP + 3) + At(s.ram, s.SP + 4)) % 2
            /\ s.SP + 4 >= 65536 => t.SP = s.SP - 65532
<1> DEFINE p == Popped(s)
           q == Popped(p)
           t == Leave(s)
<1>1. s.SP \in Word /\ s.SP \in Nat /\ s.SP < 65536
  BY Words DEF Typed
<1>2. /\ Typed(p) /\ p.cs = s.cs /\ p.PC = s.PC /\ p.ram = s.ram /\ p.state = s.state
      /\ s.SP < 65534 => p.SP = s.SP + 2
                         /\ pop16(s) = 256 * At(s.ram, s.SP + 1) + At(s.ram, s.SP + 2)
      /\ s.SP >= 65534 => p.SP = s.SP - 65534
  BY PopWord
<1>3. pop16(s) \in Word /\ pop16(p) \in Word
  <2> HIDE DEF p
  <2> QED
    BY <1>2, Reading
<1>4. /\ Typed(q) /\ q.ram = p.ram /\ q.state = p.state
      /\ p.SP < 65534 => q.SP = p.SP + 2
                         /\ pop16(p) = 256 * At(p.ram, p.SP + 1) + At(p.ram, p.SP + 2)
      /\ p.SP >= 65534 => q.SP = p.SP - 65534
  <2> HIDE DEF p
  <2> QED
    BY <1>2, PopWord
<1>5. t = [q EXCEPT !.PC = pop16(s), !.cs = pop16(p) % 2]
  BY DEF Leave
<1> HIDE DEF p, q, t
<1>6. pop16(p) % 2 \in {0, 1}
  <2>1. pop16(p) \in Nat
    BY <1>3, Words
  <2>2. \A n \in Nat : n % 2 \in {0, 1}
    OBVIOUS
  <2> QED
    BY <2>1, <2>2
<1>7. Typed(t) /\ t.ram = q.ram /\ t.state = q.state /\ t.SP = q.SP /\ t.PC = pop16(s)
      /\ t.cs = pop16(p) % 2
  BY <1>3, <1>4, <1>5, <1>6, FieldNames DEF Typed
<1>8. CASE s.SP < 65532
  <2>1. s.SP < 65534 /\ p.SP = s.SP + 2 /\ p.SP < 65534 /\ s.SP + 4 < 65536
    BY <1>1, <1>2, <1>8
  <2>2. q.SP = p.SP + 2 /\ q.SP = s.SP + 4 /\ p.SP + 1 = s.SP + 3 /\ p.SP + 2 = s.SP + 4
    BY <1>1, <1>4, <2>1
  <2>3. /\ t.SP = s.SP + 4
        /\ t.PC = 256 * At(s.ram, s.SP + 1) + At(s.ram, s.SP + 2)
    BY <1>2, <1>7, <2>1, <2>2
  <2>4. pop16(p) = 256 * At(s.ram, s.SP + 3) + At(s.ram, s.SP + 4)
    BY <1>2, <1>4, <2>1, <2>2
  <2>5. t.cs = (256 * At(s.ram, s.SP + 3) + At(s.ram, s.SP + 4)) % 2
    BY <1>7, <2>4
  <2>6. Typed(t) /\ t.ram = s.ram /\ t.state = s.state
    BY <1>2, <1>4, <1>7
  <2>7. ~(s.SP + 4 >= 65536)
    BY <1>1, <1>8
  <2> QED
    BY <2>3, <2>5, <2>6, <2>7 DEF t
<1>9. CASE s.SP >= 65532
  <2>1. q.SP = s.SP - 65532
    BY <1>1, <1>2, <1>4, <1>9
  <2>2. s.SP + 4 >= 65536
    BY <1>1, <1>9
  <2> QED
    BY <1>1, <1>2, <1>4, <1>7, <2>1, <2>2 DEF t
<1> QED
  BY <1>1, <1>8, <1>9

\* A near context entered: the stack holds the address it is left to.
LEMMA CallNear ==
  ASSUME NEW s, Typed(s), ~Stopped(s), NEW address \in Word
  PROVE  LET t == Call(s, address)
         IN /\ Typed(t) /\ t.cs = s.cs /\ t.state \in {s.state, "FAULT"}
            /\ t.state # "FAULT" /\ s.SP >= 2 =>
                 /\ t.SP = s.SP - 2
                 /\ \A a \in Int : a > s.SP => At(t.ram, a) = At(s.ram, a)
                 /\ 256 * At(t.ram, s.SP - 1) + At(t.ram, s.SP) = s.PC
            /\ t.state # "FAULT" /\ s.SP < 2 => t.SP = s.SP + 65534
<1> DEFINE p == push16(s, s.PC)
           t == Call(s, address)
<1>1. /\ Typed(p) /\ p.cs = s.cs /\ p.state \in {s.state, "FAULT"}
      /\ s.SP >= 2 => /\ \A a \in Int : a > s.SP => At(p.ram, a) = At(s.ram, a)
                      /\ ~Stopped(p) => p.SP = s.SP - 2
                                        /\ 256 * At(p.ram, s.SP - 1) + At(p.ram, s.SP) = s.PC
      /\ s.SP < 2 /\ ~Stopped(p) => p.SP = s.SP + 65534
  <2>1. s.PC \in Word
    BY DEF Typed
  <2> QED
    BY <2>1, PushWord, PushFaults
<1>2. t = GoTo(p, s.cs, address)
  BY DEF Call
<1> HIDE DEF p, t
<1>3. CASE Stopped(p)
  BY <1>1, <1>2, <1>3 DEF GoTo, Stopped, t
<1>4. CASE ~Stopped(p)
  <2>1. t = [p EXCEPT !.cs = s.cs, !.PC = address]
    BY <1>2, <1>4 DEF GoTo
  <2>2. Typed(t) /\ t.cs = s.cs /\ t.state = p.state /\ t.SP = p.SP /\ t.ram = p.ram
    BY <1>1, <2>1, FieldNames DEF Typed
  <2> QED
    BY <1>1, <1>4, <2>2 DEF t
<1> QED
  BY <1>3, <1>4

\* A far context entered: above the address lies the segment.
LEMMA EnterFar ==
  ASSUME NEW s, Typed(s), ~Stopped(s), NEW cs \in {0, 1}, NEW address \in Word
  PROVE  LET t == Enter(s, cs, address)
         IN /\ Typed(t) /\ t.state \in {s.state, "FAULT"}
            /\ t.state # "FAULT" /\ s.SP >= 4 =>
                 /\ t.SP = s.SP - 4
                 /\ \A a \in Int : a > s.SP => At(t.ram, a) = At(s.ram, a)
                 /\ 256 * At(t.ram, s.SP - 3) + At(t.ram, s.SP - 2) = s.PC
                 /\ 256 * At(t.ram, s.SP - 1) + At(t.ram, s.SP) = s.cs
            /\ t.state # "FAULT" /\ s.SP < 4 => t.SP = s.SP + 65532
<1> DEFINE p == push16(s, s.cs)
           q == push16(p, s.PC)
           t == Enter(s, cs, address)
<1>0. s.SP \in Nat /\ s.SP < 65536 /\ s.cs \in Word /\ s.PC \in Word
  BY Words DEF Typed
<1>1. /\ Typed(p) /\ p.cs = s.cs /\ p.state \in {s.state, "FAULT"}
      /\ s.SP >= 2 => /\ \A a \in Int : a > s.SP => At(p.ram, a) = At(s.ram, a)
                      /\ ~Stopped(p) => p.SP = s.SP - 2
                                        /\ 256 * At(p.ram, s.SP - 1) + At(p.ram, s.SP) = s.cs
      /\ s.SP < 2 /\ ~Stopped(p) => p.SP = s.SP + 65534
  BY <1>0, PushWord, PushFaults
<1>2. /\ Typed(q) /\ q.state \in {p.state, "FAULT"} /\ (Stopped(p) => Stopped(q))
      /\ p.SP >= 2 => /\ \A a \in Int : a > p.SP => At(q.ram, a) = At(p.ram, a)
                      /\ ~Stopped(q) => q.SP = p.SP - 2
                                        /\ 256 * At(q.ram, p.SP - 1) + At(q.ram, p.SP) = s.PC
      /\ p.SP < 2 /\ ~Stopped(q) => q.SP = p.SP + 65534
  <2>1. Typed(p) /\ s.PC \in Word
    BY <1>0, <1>1
  <2> HIDE DEF p
  <2> QED
    BY <2>1, PushWord, PushFaults
<1>3. t = GoTo(q, cs, address)
  BY DEF Enter
<1> HIDE DEF p, q, t
<1>4. CASE Stopped(q)
  <2>1. t = q
    BY <1>3, <1>4 DEF GoTo
  <2> QED
    BY <1>1, <1>2, <1>4, <2>1 DEF Stopped, t
<1>5. CASE ~Stopped(q)
  <2>1. t = [q EXCEPT !.cs = cs, !.PC = address]
    BY <1>3, <1>5 DEF GoTo
  <2>2. Typed(t) /\ t.state = q.state /\ t.SP = q.SP /\ t.ram = q.ram
    BY <1>2, <2>1, FieldNames DEF Typed
  <2>3. ~Stopped(p)
    BY <1>2, <1>5
  <2>4. q.state = s.state
    BY <1>1, <1>2, <1>5, <2>3 DEF Stopped
  <2>5. ASSUME s.SP >= 4
        PROVE  /\ q.SP = s.SP - 4
               /\ \A a \in Int : a > s.SP => At(q.ram, a) = At(s.ram, a)
               /\ 256 * At(q.ram, s.SP - 3) + At(q.ram, s.SP - 2) = s.PC
               /\ 256 * At(q.ram, s.SP - 1) + At(q.ram, s.SP) = s.cs
    <3>1. p.SP = s.SP - 2 /\ p.SP >= 2 /\ p.SP - 1 = s.SP - 3
      BY <1>0, <1>1, <2>3, <2>5
    <3>2. s.SP - 1 \in Int /\ s.SP \in Int /\ s.SP - 1 > p.SP /\ s.SP > p.SP
      BY <1>0, <3>1
    <3>3. q.SP = s.SP - 4
      BY <1>0, <1>2, <1>5, <3>1
    <3>4. At(q.ram, s.SP - 1) = At(p.ram, s.SP - 1) /\ At(q.ram, s.SP) = At(p.ram, s.SP)
      BY <1>2, <3>1, <3>2
    <3>5. ASSUME NEW a \in Int, a > s.SP PROVE At(q.ram, a) = At(s.ram, a)
      <4>1. a > p.SP
        BY <1>0, <3>1, <3>5
      <4> QED
        BY <1>0, <1>1, <1>2, <2>5, <3>1, <3>5, <4>1
    <3>6. s.SP >= 2
      BY <1>0, <2>5
    <3> QED
      BY <1>1, <1>2, <1>5, <2>3, <3>1, <3>3, <3>4, <3>5, <3>6
  <2>6. ASSUME s.SP < 4 PROVE q.SP = s.SP + 65532
    <3>1. CASE s.SP < 2
      BY <1>0, <1>1, <1>2, <1>5, <2>3, <3>1
    <3>2. CASE s.SP >= 2
      BY <1>0, <1>1, <1>2, <1>5, <2>3, <2>6, <3>2
    <3> QED
      BY <1>0, <3>1, <3>2
  <2> QED
    BY <2>2, <2>4, <2>5, <2>6 DEF t
<1> QED
  BY <1>4, <1>5

-----------------------------------------------------------------------------
(***************************************************************************)
(* A step, fetch and instruction, and what it does to stack and segment.   *)
(***************************************************************************)
\* Fetching keeps widths, stack, segment and interrupt line, and moves PC.
LEMMA CalmFetch ==
  ASSUME NEW s, Typed(s)
  PROVE  LET t == fetch8(s)
         IN /\ Calm(s, t) /\ t.irq_pending = s.irq_pending /\ t.ien = s.ien
            /\ Stopped(t) => Stopped(s) \/ t.state = "FAULT"
            /\ ~Stopped(t) => t.PC = Wrap(s.PC + 1)
<1>1. Wrap(s.PC + 1) \in Word
  <2>1. s.PC + 1 \in Int
    BY Words DEF Typed
  <2> QED
    BY <2>1, Arithmetic
<1> QED
  BY <1>1, FieldNames DEF fetch8, Fault, Stopped, Typed, Calm

\* So does counting the instruction.
LEMMA CalmCount ==
  ASSUME NEW s, Typed(s)
  PROVE  LET t == Counted(s)
         IN /\ Calm(s, t) /\ t.irq_pending = s.irq_pending /\ t.ien = s.ien
            /\ t.PC = fetch8(s).PC /\ t.state = fetch8(s).state
<1> DEFINE f == fetch8(s)
<1>1. Calm(s, f) /\ f.irq_pending = s.irq_pending /\ f.ien = s.ien
  BY CalmFetch
<1>2. Counted(s) = [f EXCEPT !.cycles = @ + 1]
  BY DEF Counted
<1> HIDE DEF f
<1> QED
  BY <1>1, <1>2, FieldNames DEF Typed, Calm, f

\* Wrapping once or at each byte is the same.
LEMMA WrapTwice ==
  ASSUME NEW p \in Nat
  PROVE  Wrap(Wrap(p) + 1) = Wrap(p + 1)
  BY DEF Wrap, WordSize

\* The operand fetched: a word, and the machine behind the instruction.
LEMMA CalmOperand ==
  ASSUME NEW s, Typed(s), ~Stopped(s), NEW n \in {1, 2, 3}
  PROVE  LET t == Ready(s, n)
         IN /\ Calm(s, t) /\ t.irq_pending = s.irq_pending /\ t.ien = s.ien
            /\ Stopped(t) => t.state = "FAULT"
            /\ ~Stopped(t) => t.PC = Wrap(s.PC + (n - 1))
            /\ Argument(s, n) \in Word
<1> DEFINE f == fetch8(s)
           g == fetch8(f)
<1>0. s.PC \in Nat /\ Wrap(s.PC) = s.PC
  BY WrapWord DEF Typed
<1>1. /\ Calm(s, f) /\ f.irq_pending = s.irq_pending /\ f.ien = s.ien
      /\ Stopped(f) => f.state = "FAULT"
      /\ ~Stopped(f) => f.PC = Wrap(s.PC + 1)
  BY CalmFetch
<1>2. Typed(f)
  BY <1>1 DEF Calm
<1>3. /\ Calm(f, g) /\ g.irq_pending = f.irq_pending /\ g.ien = f.ien
      /\ Stopped(g) => Stopped(f) \/ g.state = "FAULT"
      /\ ~Stopped(g) => g.PC = Wrap(f.PC + 1)
  <2> HIDE DEF f
  <2> QED
    BY <1>2, CalmFetch
<1>4. Stopped(f) => g = f
  BY DEF fetch8
<1>5. Fetched(s) \in Byte /\ Fetched(f) \in Byte
  <2> HIDE DEF f
  <2> QED
    BY <1>2, Reading
<1>6. 0 \in Word /\ Fetched(s) \in Word /\ Fetched(s) + 256 * Fetched(f) \in Word
  <2>1. 0 \in Word
    BY Words
  <2>2. \A a, b \in Byte : a + 256 * b \in Word /\ a \in Word
    BY Arithmetic
  <2> HIDE DEF f
  <2> QED
    BY <1>5, <2>1, <2>2
<1>7. Argument(s, n) \in Word
  BY <1>6 DEF Argument
<1> HIDE DEF f, g
<1>8. CASE n = 1
  <2>1. Ready(s, n) = s /\ s.PC + (n - 1) = s.PC
    BY <1>0, <1>8 DEF Ready
  <2> QED
    BY <1>0, <1>7, <2>1 DEF Calm
<1>9. CASE n = 2
  <2>1. Ready(s, n) = f /\ s.PC + (n - 1) = s.PC + 1
    BY <1>0, <1>9 DEF Ready, f
  <2> QED
    BY <1>1, <1>7, <2>1
<1>10. CASE n = 3
  <2>1. Ready(s, n) = g /\ n - 1 = 2
    BY <1>10 DEF Ready, f, g
  <2>2. Calm(s, g)
    BY <1>1, <1>3, CalmTwice
  <2>3. Stopped(g) => g.state = "FAULT"
    BY <1>1, <1>3, <1>4
  <2>4. ~Stopped(g) => g.PC = Wrap(s.PC + 2)
    <3>1. ~Stopped(g) => ~Stopped(f)
      BY <1>4
    <3>2. s.PC + 1 \in Nat /\ s.PC + 1 + 1 = s.PC + 2
      BY <1>0
    <3>3. Wrap(Wrap(s.PC + 1) + 1) = Wrap(s.PC + 1 + 1)
      BY <3>2, WrapTwice
    <3> QED
      BY <1>1, <1>3, <3>1, <3>2, <3>3
  <2> QED
    BY <1>1, <1>3, <1>7, <2>1, <2>2, <2>3, <2>4
<1> QED
  BY <1>8, <1>9, <1>10

\* A step faults before its instruction, or performs it on the machine behind it.
Performed(s, in, r, arg) ==
  LET name == Mnemonic(Fetched(s))
  IN /\ Calm(s, r) /\ r.state = "RUNNING" /\ r.irq_pending = s.irq_pending /\ r.ien = s.ien
     /\ r.PC = Wrap(s.PC + width(name)) /\ arg \in Word
     /\ Fetched(s) \in Opcode /\ step(s, in) = Perform(r, name, arg, in)

\* These are the steps of a machine that runs (step() of machine.py).
LEMMA StepPerforms ==
  ASSUME NEW s, Typed(s), ~Stopped(s), NEW in \in Input
  PROVE  \/ Typed(step(s, in)) /\ step(s, in).state = "FAULT"
         \/ \E r, arg : Performed(s, in, r, arg)
<1> DEFINE f == fetch8(s)
           c == Counted(s)
           n == width(Mnemonic(Fetched(s)))
           r == Ready(c, n)
           t == step(s, in)
<1>0. s.PC \in Nat /\ Wrap(s.PC) = s.PC
  BY WrapWord DEF Typed
<1>1. /\ Typed(f) /\ (Stopped(f) => f.state = "FAULT") /\ (~Stopped(f) => f.PC = Wrap(s.PC + 1))
  BY CalmFetch DEF Calm
<1>2. Calm(s, c) /\ c.irq_pending = s.irq_pending /\ c.ien = s.ien /\ c.PC = f.PC /\ c.state = f.state
  BY CalmCount
<1>3. CASE Stopped(f)
  BY <1>1, <1>3, StepCases
<1>4. CASE ~Stopped(f) /\ Fetched(s) \notin Opcode
  <2>1. ~Stopped(c)
    BY <1>2, <1>4 DEF Stopped
  <2>2. t = Fault(c)
    BY <1>4, <2>1, StepCases
  <2> HIDE DEF c
  <2>3. Typed(Fault(c)) /\ Fault(c).state = "FAULT"
    BY <1>2, FieldNames DEF Fault, Typed, Calm
  <2> QED
    BY <2>2, <2>3
<1>5. CASE ~Stopped(f) /\ Fetched(s) \in Opcode
  <2>1. ~Stopped(c) /\ Typed(c) /\ n \in {1, 2, 3}
    BY <1>2, <1>5, Widths DEF Stopped, Calm
  <2>2. t = IF Stopped(r) THEN r ELSE Perform(r, Mnemonic(Fetched(s)), Argument(c, n), in)
    BY <1>5, <2>1, StepCases
  <2>3. /\ Calm(c, r) /\ r.irq_pending = c.irq_pending /\ r.ien = c.ien
        /\ Stopped(r) => r.state = "FAULT"
        /\ ~Stopped(r) => r.PC = Wrap(c.PC + (n - 1))
        /\ Argument(c, n) \in Word
    <3> HIDE DEF c, n
    <3> QED
      BY <2>1, CalmOperand
  <2>4. Calm(s, r)
    <3> HIDE DEF c, r
    <3> QED
      BY <1>2, <2>3, CalmTwice
  <2>5. Wrap(c.PC + (n - 1)) = Wrap(s.PC + n)
    <3>1. c.PC = Wrap(s.PC + 1)
      BY <1>1, <1>2, <1>5
    <3>2. c.PC \in Nat /\ Wrap(c.PC) = c.PC
      BY <2>1, WrapWord DEF Typed
    <3> HIDE DEF c, n
    <3>3. CASE n = 1
      <4>1. c.PC + (n - 1) = c.PC
        BY <3>2, <3>3
      <4> QED
        BY <3>1, <3>2, <3>3, <4>1
    <3>4. CASE n = 2
      <4>1. s.PC + 1 \in Nat /\ s.PC + 1 + 1 = s.PC + n /\ c.PC + (n - 1) = c.PC + 1
        BY <1>0, <3>2, <3>4
      <4> QED
        BY <3>1, <4>1, WrapTwice
    <3>5. CASE n = 3
      <4>1. s.PC + 1 \in Nat /\ s.PC + 1 + 1 = s.PC + 2 /\ s.PC + 2 \in Nat /\ s.PC + 2 + 1 = s.PC + n
            /\ c.PC + (n - 1) = c.PC + 1 + 1 /\ c.PC + 1 \in Nat
        BY <1>0, <3>2, <3>5
      <4>2. Wrap(c.PC + 1) = Wrap(s.PC + 2)
        BY <3>1, <4>1, WrapTwice
      <4>3. Wrap(c.PC + 1 + 1) = Wrap(Wrap(c.PC + 1) + 1)
        BY <4>1, WrapTwice
      <4>4. Wrap(Wrap(s.PC + 2) + 1) = Wrap(s.PC + 2 + 1)
        BY <4>1, WrapTwice
      <4> QED
        BY <4>1, <4>2, <4>3, <4>4
    <3> QED
      BY <2>1, <3>3, <3>4, <3>5 DEF n
  <2>6. CASE Stopped(r)
    BY <2>2, <2>3, <2>4, <2>6 DEF Calm
  <2>7. CASE ~Stopped(r)
    <3>1. r.state = "RUNNING"
      BY <2>7 DEF Stopped
    <3>2. r.PC = Wrap(s.PC + n) /\ r.irq_pending = s.irq_pending /\ r.ien = s.ien
      BY <1>2, <2>3, <2>5, <2>7
    <3>3. Performed(s, in, r, Argument(c, n))
      BY <1>5, <2>2, <2>3, <2>4, <2>7, <3>1, <3>2 DEF Performed
    <3> QED
      BY <3>3
  <2> QED
    BY <2>6, <2>7
<1> QED
  BY <1>3, <1>4, <1>5

Above(s, t) == \A a \in Int : a > s.SP => At(t.ram, a) = At(s.ram, a)

\* A word that lies on the stack with its low byte at an address.
Lying(s, a) == 256 * At(s.ram, a - 1) + At(s.ram, a)

\* The words next to the stack pointer.
LEMMA LyingAround ==
  ASSUME NEW s, NEW p \in Nat
  PROVE  /\ Lying(s, p + 2) = 256 * At(s.ram, p + 1) + At(s.ram, p + 2)
         /\ Lying(s, p + 4) = 256 * At(s.ram, p + 3) + At(s.ram, p + 4)
         /\ Lying(s, p - 2) = 256 * At(s.ram, p - 3) + At(s.ram, p - 2)
<1>1. p + 2 - 1 = p + 1 /\ p + 4 - 1 = p + 3 /\ p - 2 - 1 = p - 3
  OBVIOUS
<1> QED
  BY <1>1 DEF Lying

\* What an instruction does to stack pointer, segment and the stack above the
\* pointer, if it does not fault.
Popping(s, t) ==
  /\ t.ram = s.ram
  /\ s.SP < 65534 => t.SP = s.SP + 2
  /\ s.SP >= 65534 => t.SP = s.SP - 65534

Effect(name, s, t) ==
  /\ name \in Stores => t.SP = s.SP /\ t.cs = s.cs
  /\ name = "PUSH" =>
       /\ t.cs = s.cs
       /\ s.SP >= 2 => t.SP = s.SP - 2 /\ Above(s, t)
       /\ s.SP < 2 => t.SP = s.SP + 65534
  /\ name = "POP" => Popping(s, t) /\ t.cs = s.cs
  /\ name = "RET" => Popping(s, t) /\ t.cs = s.cs /\ (s.SP < 65534 => t.PC = Lying(s, s.SP + 2))
  /\ name \in {"RETX", "IRET"} =>
       /\ t.ram = s.ram
       /\ s.SP + 4 < 65536 =>
            t.SP = s.SP + 4 /\ t.PC = Lying(s, s.SP + 2) /\ t.cs = Lying(s, s.SP + 4) % 2
       /\ s.SP + 4 >= 65536 => t.SP = s.SP - 65532
  /\ name = "CALL" =>
       /\ t.cs = s.cs
       /\ s.SP >= 2 => t.SP = s.SP - 2 /\ Above(s, t) /\ Lying(t, s.SP) = Wrap(s.PC + width(name))
       /\ s.SP < 2 => t.SP = s.SP + 65534
  /\ name = "CALLX" =>
       /\ s.SP >= 4 => /\ t.SP = s.SP - 4 /\ Above(s, t)
                       /\ Lying(t, s.SP - 2) = Wrap(s.PC + width(name)) /\ Lying(t, s.SP) = s.cs
       /\ s.SP < 4 => t.SP = s.SP + 65532
  /\ name \in Calmly \cup {"WFI"} => Calm(s, t)

\* An instruction faults, or has its effect, and values keep their widths.
LEMMA InstructionEffects ==
  ASSUME NEW s, Typed(s), ~(s.irq_pending /\ s.ien = 1), NEW in \in Input, NEW r, NEW arg,
         Performed(s, in, r, arg)
  PROVE  LET t == step(s, in)
         IN Typed(t) /\ (t.state = "FAULT" \/ Effect(Mnemonic(Fetched(s)), s, t))
<1> DEFINE name == Mnemonic(Fetched(s))
           t == Perform(r, name, arg, in)
<1>0. s.SP \in Nat /\ s.SP < 65536 /\ arg \in Word /\ arg \in Int /\ s.cs \in {0, 1}
  BY WrapWord DEF Typed, Performed
<1>1. /\ Typed(r) /\ r.SP = s.SP /\ r.ram = s.ram /\ r.cs = s.cs /\ r.state = "RUNNING"
      /\ r.irq_pending = s.irq_pending /\ r.ien = s.ien /\ r.PC = Wrap(s.PC + width(name)) /\ ~Stopped(r)
      /\ step(s, in) = t
  BY DEF Performed, Calm, Stopped
<1>2. CASE name \in Stores
  <2>1. r.A \in Word /\ r.B \in Word /\ r.A \in Int /\ r.B \in Int
    BY <1>1, WrapWord DEF Typed
  <2>2. \/ t = write16(r, arg, r.A) \/ t = write8(r, r.B, r.A) \/ t = write16(r, r.B, r.A)
        \/ t = _begin_trap(r, in) \/ t = _begin_async(r, in)
    BY <1>2 DEF Perform, Stores
  <2>3. Typed(t) /\ t.SP = r.SP /\ t.cs = r.cs
    <3>1. Still(r, write8(r, r.B, r.A))
      BY <1>1, <2>1, StoreByte DEF Still
    <3>2. Still(r, write16(r, arg, r.A)) /\ Still(r, write16(r, r.B, r.A))
      BY <1>0, <1>1, <2>1, StoreWord
    <3>3. Still(r, _begin_trap(r, in)) /\ Still(r, _begin_async(r, in))
      BY <1>1, StillRequest
    <3> HIDE DEF t
    <3>4. Still(r, t)
      BY <2>2, <3>1, <3>2, <3>3
    <3> QED
      BY <3>4 DEF Still
  <2> HIDE DEF t, name
  <2>4. Effect(name, s, t)
    BY <1>1, <1>2, <2>3 DEF Effect, Stores, Calmly, Computing, Moving
  <2> QED
    BY <1>1, <2>3, <2>4 DEF name
<1>3. CASE name = "PUSH"
  <2>1. t = push16(r, r.A) /\ r.A \in Word
    BY <1>1, <1>3 DEF Perform, Typed
  <2>2. /\ Typed(t) /\ t.cs = s.cs /\ t.state \in {"RUNNING", "FAULT"}
        /\ s.SP >= 2 /\ ~Stopped(t) => t.SP = s.SP - 2 /\ Above(s, t)
        /\ s.SP < 2 /\ ~Stopped(t) => t.SP = s.SP + 65534
    <3> HIDE DEF t
    <3> QED
      BY <1>1, <2>1, PushWord, PushFaults DEF Above
  <2> HIDE DEF t, name
  <2>3. t.state = "FAULT" \/ Effect(name, s, t)
    BY <1>3, <2>2 DEF Effect, Stopped, Stores, Calmly, Computing, Moving
  <2> QED
    BY <1>1, <2>2, <2>3 DEF name
<1>4. CASE name = "POP"
  <2> DEFINE p == Popped(r)
  <2>1. t = Accumulate(p, pop16(r))
    BY <1>4 DEF Perform
  <2>2. Typed(p) /\ Popping(s, p) /\ p.cs = s.cs /\ pop16(r) \in Word
    BY <1>1, PopWord, Reading DEF Popping
  <2> HIDE DEF p
  <2>3. Calm(p, t)
    BY <2>1, <2>2, CalmAccumulate
  <2> HIDE DEF t, name
  <2>4. Typed(t) /\ Popping(s, t) /\ t.cs = s.cs
    BY <2>2, <2>3 DEF Calm, Popping
  <2>5. Effect(name, s, t)
    BY <1>4, <2>4 DEF Effect, Stores, Calmly, Computing, Moving
  <2> QED
    BY <1>1, <2>4, <2>5 DEF name
<1>5. CASE name = "RET"
  <2> DEFINE p == Popped(r)
  <2>1. t = [p EXCEPT !.PC = pop16(r)]
    BY <1>5 DEF Perform
  <2>2. Typed(p) /\ Popping(s, p) /\ p.cs = s.cs /\ pop16(r) \in Word
    BY <1>1, PopWord, Reading DEF Popping
  <2>3. s.SP < 65534 => pop16(r) = Lying(s, s.SP + 2)
    <3>1. s.SP < 65534 => pop16(r) = 256 * At(s.ram, s.SP + 1) + At(s.ram, s.SP + 2)
      BY <1>1, PopWord
    <3> QED
      BY <1>0, <3>1, LyingAround
  <2> HIDE DEF p
  <2>4. Typed(t) /\ t.SP = p.SP /\ t.ram = p.ram /\ t.cs = p.cs /\ t.PC = pop16(r)
    BY <2>1, <2>2, FieldNames DEF Typed
  <2> HIDE DEF t, name
  <2>5. Popping(s, t) /\ t.cs = s.cs
    BY <2>2, <2>4 DEF Popping
  <2>6. Effect(name, s, t)
    BY <1>5, <2>3, <2>4, <2>5 DEF Effect, Stores, Calmly, Computing, Moving
  <2> QED
    BY <1>1, <2>4, <2>6 DEF name
<1>6. CASE name \in {"RETX", "IRET"}
  <2> DEFINE p == Leave(r)
  <2>1. t = p \/ t = [p EXCEPT !.ien = 1]
    BY <1>6 DEF Perform
  <2>2. /\ Typed(p) /\ p.ram = s.ram
        /\ s.SP + 4 < 65536 =>
                 /\ p.SP = s.SP + 4
                 /\ p.PC = 256 * At(s.ram, s.SP + 1) + At(s.ram, s.SP + 2)
                 /\ p.cs = (256 * At(s.ram, s.SP + 3) + At(s.ram, s.SP + 4)) % 2
        /\ s.SP + 4 >= 65536 => p.SP = s.SP - 65532
    BY <1>1, LeaveFar
  <2> HIDE DEF p
  <2>3. Typed(t) /\ t.ram = p.ram /\ t.SP = p.SP /\ t.PC = p.PC /\ t.cs = p.cs
    BY <2>1, <2>2, FieldNames DEF Typed
  <2>4. s.SP + 4 < 65536 => t.PC = Lying(s, s.SP + 2) /\ t.cs = Lying(s, s.SP + 4) % 2
    <3> HIDE DEF t
    <3> QED
      BY <1>0, <2>2, <2>3, LyingAround
  <2> HIDE DEF t, name
  <2>5. Effect(name, s, t)
    BY <1>6, <2>2, <2>3, <2>4 DEF Effect, Stores, Calmly, Computing, Moving
  <2> QED
    BY <1>1, <2>3, <2>5 DEF name
<1>7. CASE name = "CALL"
  <2>1. t = Call(r, arg)
    BY <1>7 DEF Perform
  <2>2. /\ Typed(t) /\ t.cs = s.cs /\ t.state \in {"RUNNING", "FAULT"}
        /\ t.state # "FAULT" /\ s.SP >= 2 =>
             t.SP = s.SP - 2 /\ Above(s, t) /\ Lying(t, s.SP) = Wrap(s.PC + width(name))
        /\ t.state # "FAULT" /\ s.SP < 2 => t.SP = s.SP + 65534
    <3> HIDE DEF t, name
    <3> QED
      BY <1>0, <1>1, <2>1, CallNear DEF Above, Lying
  <2> HIDE DEF t, name
  <2>3. t.state = "FAULT" \/ Effect(name, s, t)
    BY <1>7, <2>2 DEF Effect, Stores, Calmly, Computing, Moving
  <2> QED
    BY <1>1, <2>2, <2>3 DEF name
<1>8. CASE name = "CALLX"
  <2>1. t = Enter(r, 1, arg) /\ 1 \in {0, 1}
    BY <1>8 DEF Perform
  <2>2. /\ Typed(t) /\ t.state \in {"RUNNING", "FAULT"}
        /\ t.state # "FAULT" /\ s.SP >= 4 =>
             /\ t.SP = s.SP - 4
             /\ Above(s, t)
             /\ 256 * At(t.ram, s.SP - 3) + At(t.ram, s.SP - 2) = Wrap(s.PC + width(name))
             /\ 256 * At(t.ram, s.SP - 1) + At(t.ram, s.SP) = s.cs
        /\ t.state # "FAULT" /\ s.SP < 4 => t.SP = s.SP + 65532
    <3> HIDE DEF t, name
    <3> QED
      BY <1>0, <1>1, <2>1, EnterFar DEF Above
  <2>3. t.state # "FAULT" /\ s.SP >= 4 =>
          Lying(t, s.SP - 2) = Wrap(s.PC + width(name)) /\ Lying(t, s.SP) = s.cs
    <3>1. Lying(t, s.SP - 2) = 256 * At(t.ram, s.SP - 3) + At(t.ram, s.SP - 2)
      BY <1>0, LyingAround
    <3> HIDE DEF t, name
    <3> QED
      BY <2>2, <3>1 DEF Lying
  <2> HIDE DEF t, name
  <2>4. t.state = "FAULT" \/ Effect(name, s, t)
    BY <1>8, <2>2, <2>3 DEF Effect, Stores, Calmly, Computing, Moving
  <2> QED
    BY <1>1, <2>2, <2>4 DEF name
<1>9. CASE name \in Calmly \cup {"WFI"}
  <2>1. Calm(r, t) \/ (Typed(t) /\ t.state = "FAULT")
    <3>1. CASE name \in Calmly
      BY <1>0, <1>1, <3>1, PerformCalmly
    <3>2. CASE name = "WFI"
      <4>1. t = Fault(r) \/ t = [r EXCEPT !.state = "TRAPPED"]
        BY <1>1, <3>2 DEF Perform, WaitForInterrupt
      <4> HIDE DEF t
      <4> QED
        BY <1>1, <4>1, FieldNames DEF Fault, Calm, Typed
    <3> QED
      BY <1>9, <3>1, <3>2
  <2> HIDE DEF t, name
  <2>2. Calm(r, t) => Calm(s, t)
    BY <1>1 DEF Calm
  <2>3. Calm(s, t) => Effect(name, s, t)
    BY <1>9 DEF Effect, Calm, Stores, Calmly, Computing, Moving
  <2> QED
    BY <1>1, <2>1, <2>2, <2>3 DEF Calm, name
<1>10. name \in Instructions
  <2>1. name \in Storing \cup Computing \cup Moving
    BY Names DEF Performed
  <2> QED
    BY <2>1 DEF Instructions, Storing, Stores, Calmly, Computing, Moving
<1> QED
  BY <1>2, <1>3, <1>4, <1>5, <1>6, <1>7, <1>8, <1>9, <1>10 DEF Instructions

-----------------------------------------------------------------------------
(***************************************************************************)
(* The contexts that were entered lie on the stack, one above the other.   *)
(***************************************************************************)
\* What a frame is, and where it holds what it is left with.
Parts == {"kind", "pc", "cs", "depth", "size"}
Context(f) ==
  /\ DOMAIN f = Parts
  /\ f.kind \in {"RET", "RETX", "IRET"}
  /\ f.cs \subseteq {0, 1} /\ f.depth \in Nat
  /\ f.size = IF Far(f) THEN 4 ELSE 2

Top(f) == WordSize - 1 - f.depth

Held(f, s) ==
  IF Far(f)
  THEN Lying(s, Top(f) - 2) = f.pc /\ Lying(s, Top(f)) % 2 \in f.cs
  ELSE Lying(s, Top(f)) = f.pc

\* The frames lie one above the other under the stack pointer, and each holds
\* where it is left to, unless it was stored over; a near context is entered in
\* the segment in which the next one was.
Piling(list, s, st) ==
  /\ IsSeq(list)
  /\ \A i \in 1 .. Len(list) :
       Context(list[i]) /\ Stacked(list[i], s) /\ (Cells(list[i]) \cap st = {} => Held(list[i], s))
  /\ \A i, j \in 1 .. Len(list) : i < j => list[i].depth + list[i].size <= list[j].depth
  /\ \A i \in 1 .. Len(list) : i + 1 <= Len(list) /\ ~Far(list[i]) => list[i + 1].cs \subseteq list[i].cs

\* The machine is in a segment the innermost one is left to, if that is near.
Settled(list, s) ==
  Len(list) > 0 /\ ~Far(list[Len(list)]) => s.cs \in list[Len(list)].cs

\* Depth and stack pointer.
LEMMA Depths ==
  ASSUME NEW s, Typed(s)
  PROVE  Depth(s) = 65535 - s.SP /\ Depth(s) \in Nat /\ s.SP = 65535 - Depth(s) /\ s.SP \in Nat
<1>1. s.SP \in Nat /\ s.SP < 65536
  BY Words DEF Typed
<1> QED
  BY <1>1 DEF Depth, WordSize

\* Nothing lies on the stack before a frame is pushed.
LEMMA Nothing ==
  ASSUME NEW s, NEW st
  PROVE  Piling(<<>>, s, st) /\ Settled(<<>>, s)
<1>1. IsSeq(<<>>) /\ Len(<<>>) = 0
  BY Empty
<1> QED
  BY <1>1 DEF Piling, Settled

\* Stacked frames lie above the stack pointer.
LEMMA CellsAbove ==
  ASSUME NEW s, Typed(s), NEW f, Context(f), Stacked(f, s)
  PROVE  /\ \A a \in Cells(f) : a \in Int /\ a > s.SP
         /\ Top(f) \in Cells(f) /\ Top(f) - 1 \in Cells(f)
         /\ Far(f) => Top(f) - 2 \in Cells(f) /\ Top(f) - 3 \in Cells(f)
<1>1. Depth(s) = 65535 - s.SP /\ s.SP \in Nat
  BY Depths
<1>2. f.depth \in Nat /\ f.size \in {2, 4} /\ (Far(f) => f.size = 4)
  BY DEF Context
<1>3. f.depth + f.size <= Depth(s)
  BY DEF Stacked
<1> DEFINE low == 65536 - f.depth - f.size
           top == 65535 - f.depth
<1>4. Cells(f) = low .. top /\ Top(f) = top
  BY <1>2 DEF Cells, Top, WordSize
<1>5. /\ low \in Int /\ top \in Int /\ low > s.SP /\ low <= top - 1
      /\ Far(f) => low <= top - 3
  BY <1>1, <1>2, <1>3
<1> HIDE DEF low, top
<1>6. s.SP \in Int
  BY <1>1
<1> QED
  BY <1>4, <1>5, <1>6

\* A frame holds what it held where its bytes did not change.
LEMMA HeldStays ==
  ASSUME NEW s, Typed(s), NEW t, NEW f, Context(f), Stacked(f, s), Held(f, s),
         \A a \in Cells(f) : At(t.ram, a) = At(s.ram, a)
  PROVE  Held(f, t)
<1>1. Top(f) \in Cells(f) /\ Top(f) - 1 \in Cells(f)
  BY CellsAbove
<1>2. Lying(t, Top(f)) = Lying(s, Top(f))
  BY <1>1 DEF Lying
<1>3. Far(f) => Lying(t, Top(f) - 2) = Lying(s, Top(f) - 2)
  <2>1. ASSUME Far(f) PROVE Top(f) - 2 \in Cells(f) /\ Top(f) - 2 - 1 \in Cells(f)
    <3>1. f.depth \in Nat
      BY DEF Context
    <3>2. Top(f) \in Int
      BY <3>1 DEF Top, WordSize
    <3>3. Top(f) - 2 - 1 = Top(f) - 3
      BY <3>2
    <3> QED
      BY <2>1, <3>3, CellsAbove
  <2> QED
    BY <2>1 DEF Lying
<1> QED
  BY <1>2, <1>3 DEF Held

\* What changes nothing above the stack pointer but where it stores, and passes
\* no frame, leaves the frames as they are.
LEMMA Carried ==
  ASSUME NEW list, NEW s, Typed(s), NEW t, NEW st, NEW st2, Piling(list, s, st), st \subseteq st2,
         \A i \in 1 .. Len(list) : Stacked(list[i], t),
         \A a \in Int : a > s.SP /\ a \notin st2 => At(t.ram, a) = At(s.ram, a)
  PROVE  Piling(list, t, st2)
<1>1. ASSUME NEW i \in 1 .. Len(list), Cells(list[i]) \cap st2 = {} PROVE Held(list[i], t)
  <2>1. Context(list[i]) /\ Stacked(list[i], s) /\ Held(list[i], s)
    <3>1. Cells(list[i]) \cap st = {}
      BY <1>1
    <3> QED
      BY <3>1 DEF Piling
  <2>2. \A a \in Cells(list[i]) : a \in Int /\ a > s.SP /\ a \notin st2
    BY <1>1, <2>1, CellsAbove
  <2>3. \A a \in Cells(list[i]) : At(t.ram, a) = At(s.ram, a)
    BY <2>2
  <2> QED
    BY <2>1, <2>3, HeldStays
<1> QED
  BY <1>1 DEF Piling

\* The lower frames of a pile are one.
LEMMA Lower ==
  ASSUME NEW list, NEW s, NEW st, Piling(list, s, st), NEW k \in 0 .. Len(list)
  PROVE  LET part == SubSeq(list, 1, k)
         IN Piling(part, s, st) /\ Len(part) = k /\ (\A i \in 1 .. k : part[i] = list[i])
            /\ (k = Len(list) => part = list)
<1> DEFINE part == SubSeq(list, 1, k)
<1>1. Len(list) \in Nat /\ IsSeq(list)
  BY DEF Piling, IsSeq
<1>2. IsSeq(part) /\ Len(part) = k /\ \A i \in 1 .. k : part[i] = list[i]
  <2>1. 1 \in Int /\ k \in Int /\ (1 <= k => k - 1 + 1 = k) /\ (~(1 <= k) => k = 0) /\ k - 1 + 1 = k
    BY <1>1
  <2>2. IsSeq(part) /\ Len(part) = (IF 1 <= k THEN k - 1 + 1 ELSE 0)
        /\ \A i \in 1 .. k - 1 + 1 : part[i] = list[1 + i - 1]
    BY <2>1, Part
  <2>3. \A i \in 1 .. k : 1 + i - 1 = i
    OBVIOUS
  <2> HIDE DEF part
  <2> QED
    BY <2>1, <2>2, <2>3
<1> HIDE DEF part
<1>3. k = Len(list) => part = list
  BY <1>1, <1>2, SameSeq
<1>4. Piling(part, s, st)
  <2>1. \A i \in 1 .. k : i \in 1 .. Len(list)
    BY <1>1
  <2>2. \A i \in 1 .. k : part[i] = list[i] /\ (i + 1 <= k => i + 1 \in 1 .. k /\ i + 1 <= Len(list))
    BY <1>1, <1>2
  <2> QED
    BY <1>2, <2>1, <2>2 DEF Piling
<1> QED
  BY <1>2, <1>3, <1>4 DEF part

\* A near context whose return is not known may be left to either segment: then
\* the frames are settled, wherever the program runs.
LEMMA Astray ==
  ASSUME NEW list, NEW s, NEW st, Piling(list, s, st)
  PROVE  /\ Piling(Strayed(list), s, st)
         /\ \A t : t.cs \in {0, 1} => Settled(Strayed(list), t)
<1> DEFINE lost(i) == ~\E j \in i .. Len(list) : Far(list[j])
           other == Strayed(list)
<1>1. IsSeq(list) /\ Len(list) \in Nat /\ DOMAIN list = 1 .. Len(list)
  BY SeqOfOwn DEF Piling, IsSeq
<1>2. IsSeq(other) /\ Len(other) = Len(list)
  <2> DEFINE G == [i \in 1 .. Len(list) |-> IF lost(i) THEN [list[i] EXCEPT !.cs = {0, 1}] ELSE list[i]]
  <2>1. other = G
    BY <1>1 DEF Strayed
  <2>2. IsSeq(G) /\ Len(G) = Len(list)
    BY <1>1, FunctionIsSeq
  <2> QED
    BY <2>1, <2>2
<1>3. ASSUME NEW i \in 1 .. Len(list)
      PROVE  /\ Context(other[i]) /\ (Far(other[i]) <=> Far(list[i]))
             /\ other[i].depth = list[i].depth /\ other[i].size = list[i].size /\ other[i].pc = list[i].pc
             /\ lost(i) => other[i].cs = {0, 1}
             /\ ~lost(i) => other[i] = list[i]
  <2>1. other[i] = IF lost(i) THEN [list[i] EXCEPT !.cs = {0, 1}] ELSE list[i]
    BY <1>1 DEF Strayed
  <2>2. Context(list[i])
    BY DEF Piling
  <2> HIDE DEF lost, other
  <2> QED
    BY <2>1, <2>2 DEF Context, Far, Parts
<1> HIDE DEF other
<1>4. ASSUME NEW i \in 1 .. Len(list)
      PROVE  /\ Stacked(other[i], s)
             /\ Cells(other[i]) \cap st = {} => Held(other[i], s)
  <2>1. Stacked(other[i], s) /\ Cells(other[i]) = Cells(list[i]) /\ Top(other[i]) = Top(list[i])
    BY <1>3 DEF Piling, Stacked, Cells, Top
  <2>2. Far(list[i]) => ~lost(i)
    BY <1>1
  <2>3. ASSUME Cells(other[i]) \cap st = {} PROVE Held(other[i], s)
    <3>1. Held(list[i], s)
      BY <2>1, <2>3 DEF Piling
    <3>2. CASE Far(list[i])
      BY <1>3, <2>2, <3>1, <3>2
    <3>3. CASE ~Far(list[i])
      BY <1>3, <2>1, <3>1, <3>3 DEF Held
    <3> QED
      BY <3>2, <3>3
  <2> QED
    BY <2>1, <2>3
<1>5. ASSUME NEW i \in 1 .. Len(list), i + 1 <= Len(list), ~Far(other[i])
      PROVE  other[i + 1].cs \subseteq other[i].cs
  <2>1. i + 1 \in 1 .. Len(list)
    BY <1>1, <1>5
  <2>2. CASE lost(i)
    BY <1>3, <2>1, <2>2 DEF Context
  <2>3. CASE ~lost(i)
    <3>1. PICK j \in i .. Len(list) : Far(list[j])
      BY <2>3
    <3>2. ~Far(list[i])
      BY <1>3, <1>5
    <3>3. j \in i + 1 .. Len(list)
      BY <1>1, <3>1, <3>2
    <3>4. ~lost(i + 1)
      BY <3>1, <3>3
    <3>5. list[i + 1].cs \subseteq list[i].cs
      BY <1>5, <3>2 DEF Piling
    <3> HIDE DEF lost
    <3> QED
      BY <1>3, <2>1, <2>3, <3>4, <3>5
  <2> QED
    BY <2>2, <2>3
<1>6. \A i, j \in 1 .. Len(list) : i < j => other[i].depth + other[i].size <= other[j].depth
  BY <1>3 DEF Piling
<1>7. Piling(other, s, st)
  <2> HIDE DEF lost
  <2> QED
    BY <1>2, <1>3, <1>4, <1>5, <1>6 DEF Piling
<1>8. ASSUME NEW t, t.cs \in {0, 1} PROVE Settled(other, t)
  <2> SUFFICES ASSUME Len(other) > 0, ~Far(other[Len(other)])
               PROVE  t.cs \in other[Len(other)].cs
    BY DEF Settled
  <2>1. Len(list) \in 1 .. Len(list) /\ ~Far(other[Len(list)])
    BY <1>1, <1>2
  <2>2. lost(Len(list))
    BY <1>3, <2>1
  <2> HIDE DEF lost
  <2> QED
    BY <1>2, <1>3, <1>8, <2>1, <2>2
<1> QED
  BY <1>7, <1>8 DEF other

\* A context entered goes on top.
LEMMA OnTop ==
  ASSUME NEW list, NEW s, Typed(s), NEW t, Typed(t), NEW st, Piling(list, s, st), Settled(list, s),
         Above(s, t), NEW f, Context(f), f.depth = Depth(s), Depth(t) = Depth(s) + f.size,
         Held(f, t), f.cs = {s.cs}, ~Far(f) => t.cs = s.cs
  PROVE  Piling(Append(list, f), t, st) /\ Settled(Append(list, f), t)
<1> DEFINE more == Append(list, f)
           n == Len(list)
<1>0. n \in Nat /\ IsSeq(list) /\ Depth(s) \in Nat /\ f.size \in Nat
  BY Depths DEF Piling, IsSeq, Context
<1>1. IsSeq(more) /\ Len(more) = n + 1 /\ (\A i \in 1 .. n : more[i] = list[i]) /\ more[n + 1] = f
  BY <1>0, Appended
<1> HIDE DEF more
<1>2. ASSUME NEW i \in 1 .. n
      PROVE  /\ Context(list[i]) /\ list[i].depth + list[i].size <= Depth(s)
             /\ list[i].depth \in Nat /\ list[i].size \in Nat
  BY DEF Piling, Stacked, Context
<1>3. Piling(list, t, st)
  <2>1. \A i \in 1 .. Len(list) : Stacked(list[i], t)
    BY <1>0, <1>2 DEF Stacked
  <2>2. \A a \in Int : a > s.SP /\ a \notin st => At(t.ram, a) = At(s.ram, a)
    BY DEF Above
  <2>3. st \subseteq st
    OBVIOUS
  <2> QED
    BY <2>1, <2>2, <2>3, Carried
<1>4. Stacked(f, t)
  BY <1>0 DEF Stacked
<1>5. n > 0 /\ ~Far(list[n]) => f.cs \subseteq list[n].cs
  BY DEF Settled
<1> HIDE DEF n
<1>6. ASSUME NEW i \in 1 .. n + 1 PROVE i \in 1 .. n \/ i = n + 1
  BY <1>0
<1>7. ASSUME NEW i \in 1 .. n + 1
      PROVE  Context(more[i]) /\ Stacked(more[i], t) /\ (Cells(more[i]) \cap st = {} => Held(more[i], t))
  BY <1>1, <1>3, <1>4, <1>6 DEF Piling, n
<1>8. ASSUME NEW i \in 1 .. n + 1, NEW j \in 1 .. n + 1, i < j
      PROVE  more[i].depth + more[i].size <= more[j].depth
  <2>1. i \in 1 .. n
    BY <1>0, <1>8
  <2>2. CASE j \in 1 .. n
    BY <1>1, <1>3, <1>8, <2>1, <2>2 DEF Piling, n
  <2>3. CASE j = n + 1
    BY <1>1, <1>2, <2>1, <2>3
  <2> QED
    BY <1>6, <2>2, <2>3
<1>9. ASSUME NEW i \in 1 .. n + 1, i + 1 <= n + 1, ~Far(more[i])
      PROVE  more[i + 1].cs \subseteq more[i].cs
  <2>1. i \in 1 .. n /\ more[i] = list[i]
    BY <1>0, <1>1, <1>9
  <2>2. CASE i + 1 <= n
    <3>1. i + 1 \in 1 .. n
      BY <1>0, <2>1, <2>2
    <3> QED
      BY <1>1, <1>3, <1>9, <2>1, <2>2, <3>1 DEF Piling, n
  <2>3. CASE i = n
    BY <1>0, <1>1, <1>5, <1>9, <2>1, <2>3
  <2> QED
    BY <1>0, <2>1, <2>2, <2>3
<1>10. Piling(more, t, st)
  BY <1>1, <1>7, <1>8, <1>9 DEF Piling
<1>11. Settled(more, t)
  BY <1>1 DEF Settled
<1> QED
  BY <1>10, <1>11 DEF more

\* How many of the frames the stack pointer has not passed.
LEMMA Keeping ==
  ASSUME NEW s, NEW st, Piling(frames, s, st), NEW t
  PROVE  \E k \in 0 .. Len(frames) :
           /\ Kept(t) = SubSeq(frames, 1, k)
           /\ k # 0 => Stacked(frames[k], t)
           /\ \A i \in 1 .. Len(frames) : Stacked(frames[i], t) => i <= k
<1> DEFINE S == {0} \cup {i \in DOMAIN frames : Stacked(frames[i], t)}
           n == Len(frames)
<1>1. n \in Nat /\ DOMAIN frames = 1 .. n
  BY SeqOfOwn DEF Piling, IsSeq
<1>2. S \in SUBSET (0 .. n) /\ S # {}
  BY <1>1
<1>3. Kept(t) = SubSeq(frames, 1, Max(S))
  BY DEF Kept
<1>4. \A i \in 1 .. n : Stacked(frames[i], t) => i \in S
  BY <1>1
<1>5. \A k \in S : k # 0 => Stacked(frames[k], t)
  OBVIOUS
<1> HIDE DEF S, n
<1>6. Max(S) \in S /\ \A k \in S : k <= Max(S)
  BY <1>1, <1>2, Greatest
<1>7. Max(S) \in 0 .. n
  BY <1>2, <1>6
<1> QED
  BY <1>3, <1>4, <1>5, <1>6, <1>7 DEF n

\* A frame of the pile is stacked where the frames above it are.
LEMMA Below ==
  ASSUME NEW list, NEW s, NEW st, Piling(list, s, st), NEW t, Typed(t),
         NEW k \in 1 .. Len(list), Stacked(list[k], t)
  PROVE  \A i \in 1 .. k : Stacked(list[i], t)
<1> SUFFICES ASSUME NEW i \in 1 .. k PROVE Stacked(list[i], t)
  OBVIOUS
<1>1. Len(list) \in Nat /\ i \in 1 .. Len(list)
  BY DEF Piling, IsSeq
<1>2. Context(list[i]) /\ Context(list[k])
  BY <1>1 DEF Piling
<1>3. i = k \/ list[i].depth + list[i].size <= list[k].depth
  <2>1. i = k \/ i < k
    BY <1>1
  <2> QED
    BY <1>1, <2>1 DEF Piling
<1>4. Depth(t) \in Nat
  BY Depths
<1> QED
  BY <1>2, <1>3, <1>4 DEF Stacked, Context

\* The frames kept when nothing is stored are a pile; the innermost of them is
\* near to the one that was above it.
LEMMA KeptPile ==
  ASSUME NEW s, Typed(s), NEW t, Typed(t), t.ram = s.ram, NEW st, Piling(frames, s, st)
  PROVE  \E k \in 0 .. Len(frames) :
           /\ Piling(Kept(t), t, st) /\ Len(Kept(t)) = k
           /\ (\A i \in 1 .. k : Kept(t)[i] = frames[i])
           /\ \A i \in 1 .. Len(frames) : Stacked(frames[i], t) <=> i <= k
<1>1. PICK k \in 0 .. Len(frames) :
           /\ Kept(t) = SubSeq(frames, 1, k)
           /\ k # 0 => Stacked(frames[k], t)
           /\ \A i \in 1 .. Len(frames) : Stacked(frames[i], t) => i <= k
  BY Keeping
<1>2. Piling(Kept(t), s, st) /\ Len(Kept(t)) = k /\ \A i \in 1 .. k : Kept(t)[i] = frames[i]
  BY <1>1, Lower
<1>3. \A i \in 1 .. k : Stacked(frames[i], t)
  <2>1. CASE k = 0
    BY <2>1
  <2>2. CASE k # 0
    <3>1. Len(frames) \in Nat
      BY DEF Piling, IsSeq
    <3>2. k \in 1 .. Len(frames)
      BY <2>2, <3>1
    <3> QED
      BY <1>1, <2>2, <3>2, Below
  <2> QED
    BY <2>1, <2>2
<1>4. Piling(Kept(t), t, st)
  <2>1. \A i \in 1 .. Len(Kept(t)) : Stacked(Kept(t)[i], t)
    BY <1>2, <1>3
  <2> QED
    BY <1>2, <2>1, Carried
<1>5. Len(frames) \in Nat
  BY DEF Piling, IsSeq
<1> QED
  BY <1>1, <1>2, <1>3, <1>4, <1>5

\* A stack pointer that does not rise keeps every frame.
LEMMA AllKept ==
  ASSUME NEW s, Typed(s), NEW t, Typed(t), NEW st, Piling(frames, s, st), t.SP <= s.SP
  PROVE  Kept(t) = frames /\ \A i \in 1 .. Len(frames) : Stacked(frames[i], t)
<1>1. Depth(t) >= Depth(s) /\ Depth(s) \in Nat /\ Depth(t) \in Nat
  BY Depths
<1>2. \A i \in 1 .. Len(frames) : Stacked(frames[i], t)
  <2> SUFFICES ASSUME NEW i \in 1 .. Len(frames) PROVE Stacked(frames[i], t)
    OBVIOUS
  <2>1. Context(frames[i]) /\ Stacked(frames[i], s)
    BY DEF Piling
  <2> QED
    BY <1>1, <2>1 DEF Stacked, Context
<1>3. PICK k \in 0 .. Len(frames) :
           /\ Kept(t) = SubSeq(frames, 1, k)
           /\ \A i \in 1 .. Len(frames) : Stacked(frames[i], t) => i <= k
  BY Keeping
<1>4. k = Len(frames)
  <2>1. Len(frames) \in Nat
    BY DEF Piling, IsSeq
  <2> QED
    BY <1>2, <1>3, <2>1
<1> QED
  BY <1>2, <1>3, <1>4, Lower

\* A stack pointer that is at the end of memory, or two bytes from it at most,
\* has passed every frame.
LEMMA NoneKept ==
  ASSUME NEW s, Typed(s), NEW t, Typed(t), NEW st, Piling(frames, s, st), Depth(t) < 2
  PROVE  Kept(t) = <<>>
<1>1. PICK k \in 0 .. Len(frames) :
           /\ Kept(t) = SubSeq(frames, 1, k)
           /\ k # 0 => Stacked(frames[k], t)
  BY Keeping
<1>2. k = 0
  <2> SUFFICES ASSUME k # 0 PROVE FALSE
    OBVIOUS
  <2>1. Len(frames) \in Nat
    BY DEF Piling, IsSeq
  <2>2. k \in 1 .. Len(frames)
    BY <2>1
  <2>3. Context(frames[k]) /\ Stacked(frames[k], t)
    BY <1>1, <2>2 DEF Piling
  <2>4. Depth(t) \in Nat
    BY Depths
  <2> QED
    BY <2>3, <2>4 DEF Stacked, Context
<1> QED
  BY <1>1, <1>2, SubSeqEmpty

Nested == Piling(frames, m, stores) /\ Settled(frames, m)

\* An instruction that is executed: it faults, or has its effect.
LEMMA Executed ==
  ASSUME Typed(m), Execute
  PROVE  /\ Typed(m')
         /\ m'.state = "FAULT" => frames' = <<>>
         /\ m'.state # "FAULT" =>
              /\ Effect(Name, m, m') /\ frames' = FramesAfter
              /\ Name \in Instructions
         /\ frames' # <<>> /\ Name \notin Stores => stores' = stores
<1>1. PICK in \in Inputs : /\ m' = step(m, in)
                           /\ frames' = IF m'.state = "FAULT" THEN <<>> ELSE FramesAfter
  BY DEF Execute
<1>2. in \in Input
  BY InputsAssumption
<1>3. ~Stopped(m) /\ ~(m.irq_pending /\ m.ien = 1)
  BY DEF Execute, Running, Deliverable, Stopped
<1>4. \/ Typed(m') /\ m'.state = "FAULT"
      \/ \E r, arg : Performed(m, in, r, arg)
  BY <1>1, <1>2, <1>3, StepPerforms
<1>5. ASSUME NEW r, NEW arg, Performed(m, in, r, arg)
      PROVE  /\ Typed(m') /\ (m'.state = "FAULT" \/ Effect(Name, m, m'))
             /\ Name \in Instructions
  <2>1. Fetched(m) \in Opcode /\ Name = Mnemonic(Fetched(m))
    BY <1>5 DEF Performed, Name
  <2>2. Name \in Storing \cup Computing \cup Moving
    BY <2>1, Names
  <2>3. Name \in Instructions
    BY <2>2 DEF Instructions, Storing, Stores, Calmly, Computing, Moving
  <2>4. Typed(m') /\ (m'.state = "FAULT" \/ Effect(Name, m, m'))
    BY <1>1, <1>2, <1>3, <1>5, <2>1, InstructionEffects
  <2> QED
    BY <2>3, <2>4
<1>6. frames' # <<>> /\ Name \notin Stores => stores' = stores
  BY DEF Execute
<1> QED
  BY <1>1, <1>4, <1>5, <1>6

\* What does not lift the stack pointer, store above it or change the segment
\* keeps the frames.
LEMMA StayNests ==
  ASSUME Typed(m), Typed(m'), Nested, m'.SP <= m.SP, m'.cs = m.cs,
         Name \notin {"CALL", "CALLX", "RETX", "IRET"}, frames' = FramesAfter,
         frames = <<>> \/ stores \subseteq stores',
         \A a \in Int : a > m.SP /\ a \notin stores' => At(m'.ram, a) = At(m.ram, a)
  PROVE  Nested'
<1>1. Kept(m') = frames /\ \A i \in 1 .. Len(frames) : Stacked(frames[i], m')
  BY AllKept DEF Nested
<1>2. ~Strays
  <2>1. SUFFICES ASSUME frames # <<>>, Far(Last(frames)), ~Stacked(Last(frames), m') PROVE FALSE
    BY DEF Strays
  <2>2. Len(frames) \in Nat /\ IsSeq(frames)
    BY DEF Nested, Piling, IsSeq
  <2>3. Len(frames) # 0
    BY <2>1, <2>2, Empty, SameSeq
  <2> QED
    BY <1>1, <2>1, <2>2, <2>3 DEF Last
<1>3. frames' = frames
  BY <1>1, <1>2 DEF FramesAfter
<1>4. CASE frames = <<>>
  BY <1>3, <1>4, Nothing DEF Nested
<1>5. CASE stores \subseteq stores'
  <2>1. Piling(frames, m', stores')
    BY <1>1, <1>5, Carried DEF Nested
  <2>2. Settled(frames, m')
    BY DEF Nested, Settled
  <2> QED
    BY <1>3, <2>1, <2>2 DEF Nested
<1> QED
  BY <1>4, <1>5

\* A stray return, or a far context left in another way.
LEMMA StrayNests ==
  ASSUME Typed(m), Typed(m'), Nested, m'.ram = m.ram, Name \notin {"CALL", "CALLX"},
         frames' = FramesAfter, Strays, stores' = stores
  PROVE  Nested'
<1>1. Piling(Kept(m'), m', stores)
  BY KeptPile DEF Nested
<1>2. frames' = Strayed(Kept(m'))
  BY DEF FramesAfter
<1>3. m'.cs \in {0, 1}
  BY DEF Typed
<1> DEFINE kept == Kept(m')
<1> HIDE DEF kept
<1>4. Piling(Strayed(kept), m', stores) /\ Settled(Strayed(kept), m')
  BY <1>1, <1>3, Astray DEF kept
<1> QED
  BY <1>2, <1>4 DEF Nested, kept

\* No frame, no context.
LEMMA NoneNests ==
  ASSUME frames' = <<>>
  PROVE  Nested'
  BY Nothing DEF Nested

\* The innermost frame: it is there, and where its context was entered.
LEMMA Innermost ==
  ASSUME Nested, frames # <<>>
  PROVE  /\ Len(frames) \in Nat /\ Len(frames) # 0 /\ Last(frames) = frames[Len(frames)]
         /\ Context(Last(frames)) /\ Stacked(Last(frames), m)
         /\ Cells(Last(frames)) \cap stores = {} => Held(Last(frames), m)
<1>1. Len(frames) \in Nat /\ IsSeq(frames)
  BY DEF Nested, Piling, IsSeq
<1>2. Len(frames) # 0
  BY <1>1, Empty, SameSeq
<1>3. Last(frames) = frames[Len(frames)] /\ Len(frames) \in 1 .. Len(frames)
  BY <1>1, <1>2 DEF Last
<1> QED
  BY <1>1, <1>2, <1>3 DEF Nested, Piling

\* POP and RET pass the innermost frame at most; a near context is left in the
\* segment it may be left to, so that the frame below is settled.
LEMMA PopNests ==
  ASSUME Typed(m), Typed(m'), Nested, Name \in {"POP", "RET"}, Popping(m, m'), m'.cs = m.cs,
         frames' = FramesAfter, frames' # <<>> => stores' = stores
  PROVE  Nested'
<1>1. CASE frames' = <<>>
  BY <1>1, NoneNests
<1>2. CASE Strays /\ frames' # <<>>
  BY <1>2, StrayNests DEF Popping
<1>3. CASE ~Strays /\ frames' # <<>>
  <2>1. frames' = Kept(m') /\ stores' = stores
    BY <1>3 DEF FramesAfter
  <2>2. PICK k \in 0 .. Len(frames) :
           /\ Piling(Kept(m'), m', stores) /\ Len(Kept(m')) = k
           /\ (\A i \in 1 .. k : Kept(m')[i] = frames[i])
           /\ \A i \in 1 .. Len(frames) : Stacked(frames[i], m') <=> i <= k
    BY KeptPile DEF Nested, Popping
  <2>3. Len(frames) \in Nat
    BY DEF Nested, Piling, IsSeq
  <2> DEFINE n == Len(frames)
             kept == Kept(m')
  <2> HIDE DEF n, kept
  <2>4. SUFFICES ASSUME k > 0, ~Far(kept[k]) PROVE m'.cs \in kept[k].cs
    BY <2>1, <2>2 DEF Nested, Settled, kept
  <2>5. k \in 1 .. n /\ kept[k] = frames[k] /\ ~Far(frames[k])
    BY <2>2, <2>3, <2>4 DEF kept, n
  <2>6. CASE k = n
    BY <2>5, <2>6 DEF Nested, Settled, n
  <2>7. CASE k # n
    <3>1. n \in 1 .. n /\ k + 1 \in 1 .. n /\ frames # <<>>
      BY <2>3, <2>5, <2>7, Empty DEF n
    <3>2. Context(frames[n]) /\ Stacked(frames[n], m) /\ Context(frames[k + 1])
      BY <3>1 DEF Nested, Piling, n
    <3>3. Depth(m) \in Nat /\ Depth(m) >= 2
      BY <3>2, Depths DEF Stacked, Context
    <3>4. Depth(m') = Depth(m) - 2
      <4>1. Depth(m) = 65535 - m.SP /\ Depth(m') = 65535 - m'.SP /\ m.SP \in Nat
        BY Depths
      <4> QED
        BY <3>3, <4>1 DEF Popping
    <3>5. n = k + 1
      <4> SUFFICES ASSUME n # k + 1 PROVE FALSE
        OBVIOUS
      <4>1. k + 1 < n
        BY <2>3, <3>1 DEF n
      <4>2. frames[k + 1].depth + frames[k + 1].size <= frames[n].depth
        BY <3>1, <4>1 DEF Nested, Piling, n
      <4>3. Stacked(frames[k + 1], m')
        BY <3>2, <3>3, <3>4, <4>2 DEF Stacked, Context
      <4> QED
        BY <2>2, <2>5, <3>1, <4>3 DEF n
    <3>6. ~Stacked(frames[n], m')
      BY <2>2, <3>1, <3>5 DEF n
    <3>7. Last(frames) = frames[n]
      BY DEF Last, n
    <3>8. ~Far(frames[n])
      <4>1. Returns => Name = "RET" /\ ~Far(frames[n])
        BY <3>2, <3>7 DEF Returns, Far, Context
      <4>2. ~Returns => ~Far(frames[n])
        BY <1>3, <3>1, <3>6, <3>7 DEF Strays
      <4> QED
        BY <4>1, <4>2
    <3>9. m.cs \in frames[n].cs
      BY <3>1, <3>8 DEF Nested, Settled, n
    <3>10. frames[n].cs \subseteq frames[k].cs
      BY <2>5, <3>1, <3>5 DEF Nested, Piling, n
    <3> QED
      BY <2>5, <3>9, <3>10
  <2> QED
    BY <2>6, <2>7
<1> QED
  BY <1>1, <1>2, <1>3

\* The innermost frame is on top of the stack when its context returns, and
\* holds where it goes.
LEMMA OnReturn ==
  ASSUME Typed(m), Nested, Returns
  PROVE  LET f == Last(frames)
         IN /\ Context(f) /\ Held(f, m) /\ f.kind = Name
            /\ m.SP + f.size < 65536 /\ m.SP + f.size = Top(f) /\ m.SP \in Nat
            /\ Top(f) = 65535 - f.depth
<1> DEFINE f == Last(frames)
<1>1. f.kind = Name /\ Depth(m) = f.depth + f.size /\ frames # <<>> /\ Cells(f) \cap stores = {}
  BY DEF Returns
<1>2. Context(f) /\ Held(f, m)
  BY <1>1, Innermost
<1> HIDE DEF f
<1>3. f.depth \in Nat /\ f.size \in {2, 4} /\ Top(f) = 65535 - f.depth
  BY <1>2 DEF Context, Top, WordSize
<1>4. m.SP = 65535 - Depth(m) /\ m.SP \in Nat
  BY Depths
<1>5. m.SP + f.size < 65536 /\ m.SP + f.size = Top(f)
  BY <1>1, <1>3, <1>4
<1> QED
  BY <1>1, <1>2, <1>3, <1>4, <1>5 DEF f

\* A return that is one goes where its context was entered.
LEMMA ReturnGoesBack ==
  ASSUME Typed(m), Typed(m'), Nested, Returns, Effect(Name, m, m')
  PROVE  /\ m'.PC = Last(frames).pc /\ m'.cs \in Last(frames).cs
         /\ Depth(m') = Last(frames).depth
<1> DEFINE f == Last(frames)
<1>1. /\ Context(f) /\ Held(f, m) /\ f.kind = Name
      /\ m.SP + f.size < 65536 /\ m.SP + f.size = Top(f) /\ m.SP \in Nat
      /\ Top(f) = 65535 - f.depth
  BY OnReturn
<1>2. Depth(m') = 65535 - m'.SP /\ m'.SP \in Nat
  BY Depths
<1>3. ~Far(f) => m.cs \in f.cs
  <2>1. frames # <<>>
    BY DEF Returns
  <2>2. f = frames[Len(frames)] /\ Len(frames) > 0
    BY <2>1, Innermost
  <2> QED
    BY <2>2 DEF Nested, Settled
<1> HIDE DEF f
<1>4. f.depth \in Nat /\ f.kind \in {"RET", "RETX", "IRET"}
  BY <1>1 DEF Context
<1>5. CASE Name = "RET"
  <2>1. f.size = 2 /\ ~Far(f)
    BY <1>1, <1>5 DEF Context, Far
  <2>2. m.SP < 65534
    BY <1>1, <2>1
  <2>3. m'.SP = m.SP + 2 /\ m'.PC = Lying(m, m.SP + 2) /\ m'.cs = m.cs
    BY <1>5, <2>2 DEF Effect, Popping
  <2>4. Lying(m, Top(f)) = f.pc
    BY <1>1, <2>1 DEF Held
  <2>5. Depth(m') = f.depth
    BY <1>1, <1>2, <1>4, <2>1, <2>3
  <2> QED
    BY <1>1, <1>3, <2>1, <2>3, <2>4, <2>5 DEF f
<1>6. CASE Name \in {"RETX", "IRET"}
  <2>1. f.size = 4 /\ Far(f)
    BY <1>1, <1>6 DEF Context, Far
  <2>2. m.SP + 4 < 65536
    BY <1>1, <2>1
  <2>3. m'.SP = m.SP + 4 /\ m'.PC = Lying(m, m.SP + 2) /\ m'.cs = Lying(m, m.SP + 4) % 2
    BY <1>6, <2>2 DEF Effect
  <2>4. Lying(m, Top(f) - 2) = f.pc /\ Lying(m, Top(f)) % 2 \in f.cs
    BY <1>1, <2>1 DEF Held
  <2>5. m.SP + 2 = Top(f) - 2 /\ m.SP + 4 = Top(f)
    BY <1>1, <2>1
  <2>6. Depth(m') = f.depth
    BY <1>1, <1>2, <1>4, <2>1, <2>3
  <2> QED
    BY <2>3, <2>4, <2>5, <2>6 DEF f
<1> QED
  BY <1>1, <1>4, <1>5, <1>6

\* A far return: one that is the innermost context's own, or a stray one.
LEMMA FarNests ==
  ASSUME Typed(m), Typed(m'), Nested, Name \in {"RETX", "IRET"}, Effect(Name, m, m'),
         frames' = FramesAfter, frames' # <<>> => stores' = stores
  PROVE  Nested'
<1>0. m'.ram = m.ram
  BY DEF Effect
<1>1. CASE frames' = <<>>
  BY <1>1, NoneNests
<1>2. CASE Strays /\ frames' # <<>>
  BY <1>0, <1>2, StrayNests
<1>3. CASE ~Strays /\ frames' # <<>>
  <2>1. frames' = Kept(m') /\ stores' = stores
    BY <1>3 DEF FramesAfter
  <2>2. PICK k \in 0 .. Len(frames) :
           /\ Piling(Kept(m'), m', stores) /\ Len(Kept(m')) = k
           /\ (\A i \in 1 .. k : Kept(m')[i] = frames[i])
           /\ \A i \in 1 .. Len(frames) : Stacked(frames[i], m') <=> i <= k
    BY <1>0, KeptPile DEF Nested
  <2> DEFINE n == Len(frames)
             kept == Kept(m')
  <2> HIDE DEF n, kept
  <2>4. SUFFICES ASSUME k > 0, ~Far(kept[k]) PROVE m'.cs \in kept[k].cs
    BY <2>1, <2>2 DEF Nested, Settled, kept
  <2>3. n \in Nat
    BY DEF Nested, Piling, IsSeq, n
  <2>5. k \in 1 .. n /\ kept[k] = frames[k] /\ ~Far(frames[k])
    BY <2>2, <2>3, <2>4 DEF kept, n
  <2>6. frames # <<>> /\ n \in 1 .. n
    BY <2>3, <2>5, Empty DEF n
  <2>7. Returns
    BY <1>3, <2>6 DEF Strays
  <2>8. Last(frames) = frames[n] /\ Context(frames[n]) /\ frames[n].kind = Name
    BY <2>6, <2>7, Innermost DEF Returns, n
  <2>9. m'.cs \in frames[n].cs /\ Depth(m') = frames[n].depth
    BY <2>7, <2>8, ReturnGoesBack
  <2>10. k # n
    BY <2>5, <2>8 DEF Far
  <2>11. k + 1 \in 1 .. n
    BY <2>3, <2>5, <2>10
  <2>12. n = k + 1
    <3> SUFFICES ASSUME k + 1 # n PROVE FALSE
      OBVIOUS
    <3>1. k + 1 < n
      BY <2>3, <2>11
    <3>2. frames[k + 1].depth + frames[k + 1].size <= frames[n].depth
      BY <2>6, <2>11, <3>1 DEF Nested, Piling, n
    <3>3. Stacked(frames[k + 1], m')
      BY <2>9, <3>2 DEF Stacked
    <3> QED
      BY <2>2, <2>5, <2>11, <3>3 DEF n
  <2>13. frames[n].cs \subseteq frames[k].cs
    BY <2>5, <2>11, <2>12 DEF Nested, Piling, n
  <2> QED
    BY <2>5, <2>9, <2>13
<1> QED
  BY <1>1, <1>2, <1>3

\* A push.
LEMMA PushNests ==
  ASSUME Typed(m), Typed(m'), Nested, Name = "PUSH", Effect(Name, m, m'),
         frames' = FramesAfter, frames' # <<>> => stores' = stores
  PROVE  Nested'
<1>1. CASE frames' = <<>>
  BY <1>1, NoneNests
<1>2. CASE frames' # <<>> /\ m.SP >= 2
  <2>1. m'.SP <= m.SP
    <3>1. m'.SP = m.SP - 2 /\ m.SP \in Nat
      BY <1>2, Depths DEF Effect
    <3> QED
      BY <3>1
  <2>2. m'.cs = m.cs /\ Above(m, m')
    BY <1>2 DEF Effect
  <2>3. stores \subseteq stores'
    BY <1>2
  <2>4. \A a \in Int : a > m.SP /\ a \notin stores' => At(m'.ram, a) = At(m.ram, a)
    BY <2>2 DEF Above
  <2> QED
    BY <2>1, <2>2, <2>3, <2>4, StayNests
<1>3. CASE frames' # <<>> /\ m.SP < 2
  <2>1. m'.SP = m.SP + 65534 /\ m.SP \in Nat /\ Depth(m') = 65535 - m'.SP
    BY <1>3, Depths DEF Effect
  <2>2. Depth(m') < 2
    BY <2>1
  <2>3. Kept(m') = <<>>
    BY <2>2, NoneKept DEF Nested
  <2>4. Strayed(<<>>) = <<>>
    BY DEF Strayed
  <2>5. frames' = <<>>
    BY <2>3, <2>4 DEF FramesAfter
  <2> QED
    BY <1>3, <2>5
<1>4. m.SP \in Nat
  BY Depths
<1> QED
  BY <1>1, <1>2, <1>3, <1>4

\* A context entered: its frame goes on top, or the stack has run over the end
\* of memory, and all frames are given up.
LEMMA EnterNests ==
  ASSUME Typed(m), Typed(m'), Nested, NEW frame, Context(frame),
         frame.depth = Depth(m), frame.cs = {m.cs}, frames' = Piled(frame),
         m.SP >= frame.size => /\ m'.SP = m.SP - frame.size /\ Above(m, m') /\ Held(frame, m')
                               /\ ~Far(frame) => m'.cs = m.cs,
         m.SP < frame.size => m'.SP = m.SP + 65536 - frame.size,
         frames' # <<>> => stores' = stores
  PROVE  Nested'
<1>1. /\ m.SP \in Nat /\ m'.SP \in Nat /\ Depth(m) = 65535 - m.SP /\ Depth(m') = 65535 - m'.SP
  BY Depths
<1>2. frame.size \in {2, 4}
  BY DEF Context
<1>3. CASE m.SP >= frame.size
  <2>1. Depth(m') = Depth(m) + frame.size /\ ~(Depth(m') < Depth(m))
    BY <1>1, <1>2, <1>3
  <2>2. frames' = Append(frames, frame)
    BY <2>1 DEF Piled
  <2>3. Piling(Append(frames, frame), m', stores) /\ Settled(Append(frames, frame), m')
    BY <1>3, <2>1, OnTop DEF Nested
  <2>4. CASE frames' = <<>>
    BY <2>4, NoneNests
  <2>5. CASE frames' # <<>>
    BY <2>2, <2>3, <2>5 DEF Nested
  <2> QED
    BY <2>4, <2>5
<1>4. CASE m.SP < frame.size
  <2>1. Depth(m') < Depth(m)
    BY <1>1, <1>2, <1>4
  <2>2. frames' = <<>>
    BY <2>1 DEF Piled
  <2> QED
    BY <2>2, NoneNests
<1> QED
  BY <1>1, <1>2, <1>3, <1>4

\* The frame of a context that the machine enters.
LEMMA EnteredFrame ==
  ASSUME NEW s, Typed(s), NEW kind \in {"RET", "RETX", "IRET"}
  PROVE  LET f == Frame(kind, s)
         IN /\ Context(f) /\ f.depth = Depth(s) /\ f.cs = {s.cs} /\ f.pc = s.PC /\ f.kind = kind
            /\ f.size = (IF kind = "RET" THEN 2 ELSE 4) /\ Top(f) = s.SP
<1>1. Depth(s) \in Nat /\ s.SP = 65535 - Depth(s) /\ s.SP \in Nat /\ s.cs \in {0, 1}
  BY Depths DEF Typed
<1> DEFINE f == Frame(kind, s)
<1>2. /\ DOMAIN f = Parts /\ f.depth = Depth(s) /\ f.cs = {s.cs} /\ f.pc = s.PC /\ f.kind = kind
      /\ f.size = (IF kind = "RET" THEN 2 ELSE 4)
  BY DEF Frame, Parts
<1> HIDE DEF f
<1>3. Context(f)
  BY <1>1, <1>2 DEF Context, Far
<1>4. Top(f) = s.SP
  BY <1>1, <1>2 DEF Top, WordSize
<1> QED
  BY <1>2, <1>3, <1>4 DEF f

\* The machine behind the instruction, where its context is left to.
LEMMA Behind ==
  ASSUME NEW s, Typed(s), NEW name
  PROVE  LET t == After1(s, name)
         IN Typed(t) /\ t.PC = Wrap(s.PC + width(name)) /\ t.cs = s.cs /\ t.SP = s.SP
<1>1. Wrap(s.PC + width(name)) \in Word
  <2>1. s.PC + width(name) \in Int
    BY Words, Widths DEF Typed
  <2> QED
    BY <2>1, Arithmetic
<1> QED
  BY <1>1, FieldNames DEF After1, Typed

\* CALL enters a near context.
LEMMA CallNests ==
  ASSUME Typed(m), Typed(m'), Nested, Name = "CALL", Effect(Name, m, m'),
         frames' = FramesAfter, frames' # <<>> => stores' = stores
  PROVE  Nested'
<1> DEFINE b == After1(m, Name)
           f == Frame("RET", b)
<1>1. Typed(b) /\ b.PC = Wrap(m.PC + width(Name)) /\ b.cs = m.cs /\ b.SP = m.SP
  BY Behind
<1>2. frames' = Piled(f)
  BY DEF FramesAfter
<1> HIDE DEF b
<1>3. Context(f) /\ f.depth = Depth(b) /\ f.cs = {b.cs} /\ f.pc = b.PC /\ f.kind = "RET"
      /\ f.size = 2 /\ Top(f) = b.SP
  BY <1>1, EnteredFrame
<1> HIDE DEF f
<1>4. Depth(b) = Depth(m)
  BY <1>1 DEF Depth
<1>5. m.SP >= 2 => m'.SP = m.SP - 2 /\ Above(m, m') /\ Held(f, m') /\ m'.cs = m.cs
  BY <1>1, <1>3 DEF Effect, Held, Far
<1>6. m.SP < 2 => m'.SP = m.SP + 65536 - 2
  <2>1. m.SP \in Nat
    BY Depths
  <2> QED
    BY <2>1 DEF Effect
<1> QED
  BY <1>1, <1>2, <1>3, <1>4, <1>5, <1>6, EnterNests

\* A far context: its frame is that of CALLX or of an interrupt.
LEMMA FarFrame ==
  ASSUME NEW s, Typed(s), NEW b, Typed(b), b.cs = s.cs, b.SP = s.SP, NEW kind \in {"RETX", "IRET"},
         NEW t, Lying(t, s.SP - 2) = b.PC, Lying(t, s.SP) = s.cs
  PROVE  Held(Frame(kind, b), t)
<1> DEFINE f == Frame(kind, b)
<1>1. f.cs = {b.cs} /\ f.pc = b.PC /\ f.kind = kind /\ Top(f) = b.SP
  BY EnteredFrame
<1> HIDE DEF f
<1>2. Lying(t, s.SP) % 2 = s.cs
  <2>1. s.cs \in {0, 1}
    BY DEF Typed
  <2> QED
    BY <2>1
<1>3. Far(f)
  BY <1>1 DEF Far
<1>4. Held(f, t)
  BY <1>1, <1>2, <1>3 DEF Held
<1> QED
  BY <1>4 DEF f

\* CALLX enters a far one.
LEMMA CallxNests ==
  ASSUME Typed(m), Typed(m'), Nested, Name = "CALLX", Effect(Name, m, m'),
         frames' = FramesAfter, frames' # <<>> => stores' = stores
  PROVE  Nested'
<1> DEFINE b == After1(m, Name)
           f == Frame("RETX", b)
<1>1. Typed(b) /\ b.PC = Wrap(m.PC + width(Name)) /\ b.cs = m.cs /\ b.SP = m.SP
  BY Behind
<1>2. frames' = Piled(f)
  BY DEF FramesAfter
<1>3. m.SP >= 4 => Held(f, m')
  <2> HIDE DEF b
  <2>1. m.SP >= 4 => Lying(m', m.SP - 2) = b.PC /\ Lying(m', m.SP) = m.cs
    BY <1>1 DEF Effect
  <2> QED
    BY <1>1, <2>1, FarFrame
<1> HIDE DEF b
<1>4. Context(f) /\ f.depth = Depth(b) /\ f.cs = {b.cs} /\ f.kind = "RETX" /\ f.size = 4
  BY <1>1, EnteredFrame
<1> HIDE DEF f
<1>5. Depth(b) = Depth(m) /\ Far(f)
  BY <1>1, <1>4 DEF Depth, Far
<1>6. m.SP >= 4 => m'.SP = m.SP - 4 /\ Above(m, m')
  BY DEF Effect
<1>7. m.SP < 4 => m'.SP = m.SP + 65536 - 4
  <2>1. m.SP \in Nat
    BY Depths
  <2> QED
    BY <2>1 DEF Effect
<1> QED
  BY <1>1, <1>2, <1>3, <1>4, <1>5, <1>6, <1>7, EnterNests

\* An interrupt enters a far context between two instructions.
LEMMA InterruptNests ==
  ASSUME Typed(m), Nested, Interrupt
  PROVE  Typed(m') /\ Nested'
<1> DEFINE e == Enter(m, 0, m.ivec)
           f == Frame("IRET", m)
<1>0. ~Stopped(m) /\ m' = _deliver_irq(m) /\ stores' = stores
      /\ frames' = IF Stopped(m') THEN <<>> ELSE Piled(f)
  BY DEF Interrupt, Running, Stopped
<1>1. /\ Typed(e) /\ e.state \in {m.state, "FAULT"}
      /\ e.state # "FAULT" /\ m.SP >= 4 =>
                 /\ e.SP = m.SP - 4 /\ Above(m, e)
                 /\ 256 * At(e.ram, m.SP - 3) + At(e.ram, m.SP - 2) = m.PC
                 /\ 256 * At(e.ram, m.SP - 1) + At(e.ram, m.SP) = m.cs
      /\ e.state # "FAULT" /\ m.SP < 4 => e.SP = m.SP + 65532
  <2>1. 0 \in {0, 1} /\ m.ivec \in Word
    BY DEF Typed
  <2> QED
    BY <1>0, <2>1, EnterFar DEF Above
<1>2. m' = Accept(e)
  BY <1>0 DEF _deliver_irq
<1> HIDE DEF e
<1>3. Typed(m') /\ m'.SP = e.SP /\ m'.ram = e.ram /\ m'.state = e.state
  BY <1>1, <1>2, FieldNames DEF Accept, Typed
<1>4. CASE Stopped(m')
  BY <1>0, <1>3, <1>4, NoneNests
<1>5. CASE ~Stopped(m')
  <2>1. e.state # "FAULT" /\ m.SP \in Nat
    BY <1>3, <1>5, Depths DEF Stopped
  <2>2. m.SP >= 4 => /\ m'.SP = m.SP - 4 /\ Above(m, m')
                     /\ Lying(m', m.SP - 2) = m.PC /\ Lying(m', m.SP) = m.cs
    <3>1. Lying(m', m.SP - 2) = 256 * At(m'.ram, m.SP - 3) + At(m'.ram, m.SP - 2)
      BY <2>1, LyingAround
    <3>2. Above(m, e) => Above(m, m')
      BY <1>3 DEF Above
    <3> QED
      BY <1>1, <1>3, <2>1, <3>1, <3>2 DEF Lying
  <2>3. m.SP >= 4 => Held(f, m')
    <3> HIDE DEF f
    <3> QED
      BY <2>2, FarFrame DEF f
  <2>4. Context(f) /\ f.depth = Depth(m) /\ f.cs = {m.cs} /\ f.kind = "IRET" /\ f.size = 4
    BY EnteredFrame
  <2>5. frames' = Piled(f)
    BY <1>0, <1>5
  <2> HIDE DEF f
  <2>6. Far(f)
    BY <2>4 DEF Far
  <2>7. m.SP < 4 => m'.SP = m.SP + 65536 - 4
    BY <1>1, <1>3, <2>1
  <2> QED
    BY <1>0, <1>3, <2>2, <2>3, <2>4, <2>5, <2>6, <2>7, EnterNests
<1> QED
  BY <1>4, <1>5

\* Every instruction.
LEMMA ExecuteNests ==
  ASSUME Typed(m), Nested, Execute
  PROVE  Typed(m') /\ Nested'
<1>1. /\ Typed(m')
      /\ m'.state = "FAULT" => frames' = <<>>
      /\ m'.state # "FAULT" =>
              /\ Effect(Name, m, m') /\ frames' = FramesAfter
              /\ Name \in Instructions
      /\ frames' # <<>> /\ Name \notin Stores => stores' = stores
  BY Executed
<1>2. CASE m'.state = "FAULT" \/ frames' = <<>>
  BY <1>1, <1>2, NoneNests
<1>3. CASE m'.state # "FAULT" /\ frames' # <<>>
  <2>1. Effect(Name, m, m') /\ frames' = FramesAfter
    BY <1>1, <1>3
  <2>2. CASE Name \in Stores
    <3>1. m'.SP = m.SP /\ m'.cs = m.cs
      BY <2>1, <2>2 DEF Effect
    <3>2. stores' = stores \cup Touched
      BY <1>3, <2>2 DEF Execute
    <3>3. \A a : a \notin stores' => At(m'.ram, a) = At(m.ram, a)
      BY <3>2 DEF Touched, At
    <3>4. m'.SP <= m.SP
      BY <3>1, Depths
    <3>5. Name \notin {"CALL", "CALLX", "RETX", "IRET"}
      BY <2>2 DEF Stores
    <3> QED
      BY <1>1, <2>1, <3>1, <3>2, <3>3, <3>4, <3>5, StayNests
  <2>3. CASE Name \in Calmly \cup {"WFI"}
    <3>1. m'.SP = m.SP /\ m'.cs = m.cs /\ m'.ram = m.ram
      BY <2>1, <2>3 DEF Effect, Calm
    <3>2. Name \notin {"CALL", "CALLX", "RETX", "IRET"} /\ Name \notin Stores
      BY <2>3 DEF Stores, Calmly, Computing, Moving
    <3>3. m'.SP <= m.SP
      BY <3>1, Depths
    <3> QED
      BY <1>1, <1>3, <2>1, <3>1, <3>2, <3>3, StayNests
  <2>4. CASE Name \in {"PUSH", "POP", "RET", "RETX", "IRET", "CALL", "CALLX"}
    <3>1. stores' = stores
      BY <1>1, <1>3, <2>4 DEF Stores
    <3>2. Name \in {"POP", "RET"} => Popping(m, m') /\ m'.cs = m.cs
      BY <2>1 DEF Effect
    <3> QED
      BY <1>1, <2>1, <2>4, <3>1, <3>2, PushNests, PopNests, FarNests, CallNests, CallxNests
  <2> QED
    BY <1>1, <1>3, <2>2, <2>3, <2>4 DEF Instructions
<1> QED
  BY <1>2, <1>3

-----------------------------------------------------------------------------
(***************************************************************************)
(* What the host does to a request.                                        *)
(***************************************************************************)
\* Where the one byte that a completion stores on an executable page lies: the
\* bytes before it were checked, so it is the first of its page.
LEMMA FirstOfPage ==
  ASSUME NEW n \in Nat, n > 0, Page(n) # Page(n - 1)
  PROVE  n % 256 = 0
  BY DEF Page

\* ... and what it is.
LEMMA CompletionFreezes ==
  ASSUME NEW s, Typed(s), NEW answer \in Answer, AnswerTo(s.pending, answer), NEW a,
         Page(a) \in s.exec_map, At(Finish(s, answer).ram, a) # At(s.ram, a)
  PROVE  /\ s.pending.terminated /\ a % 256 = 0
         /\ a - 1 \in Buffer(s.pending, s.pending.capacity - 1)
         /\ At(Finish(s, answer).ram, a) = 0
<1> DEFINE t == Finish(s, answer)
           p == s.pending
           given == Permitted(s, answer)
           n == Len(given.payload)
           moved == Transferred(s, given.payload)
<1>1. /\ given \in Answer /\ n \in Nat /\ n <= p.capacity
      /\ \A b \in Buffer(p, n) : Page(b) \notin s.exec_map
  BY Given
<1>2. At(t.ram, a) = At(moved.ram, a)
  BY StillCompletion
<1>3. given.payload \in Seq(Byte)
  BY <1>1 DEF Answer
<1>4. \A b : b \notin Buffer(p, n) /\ At(moved.ram, b) # At(s.ram, b) =>
           /\ b = p.response + n /\ At(moved.ram, b) = 0
           /\ n > 0 /\ n < p.capacity /\ p.terminated
  <2> HIDE DEF given
  <2> QED
    BY <1>1, <1>3, Transfer
<1> HIDE DEF t, given, n, moved
<1>5. /\ a = p.response + n /\ At(moved.ram, a) = 0
      /\ n > 0 /\ n < p.capacity /\ p.terminated
  BY <1>1, <1>2, <1>4 DEF t
<1>6. p.response \in Nat /\ p.capacity \in Nat
  BY Words DEF Typed, PendingTrap
<1> HIDE DEF p
<1>7. a \in Nat /\ a > 0 /\ a - 1 \in p.response .. p.response + n - 1
      /\ a - 1 \in p.response .. p.response + (p.capacity - 1) - 1
  BY <1>1, <1>5, <1>6
<1>8. Page(a) # Page(a - 1)
  BY <1>1, <1>7 DEF Buffer
<1> QED
  BY <1>2, <1>5, <1>7, <1>8, FirstOfPage DEF Buffer, p, t

\* A retry changes the request only.
LEMMA StillRetry ==
  ASSUME NEW s, Typed(s), s.pending.attempt <= s.pending.retries, NEW nonce \in Word
  PROVE  LET t == Retry(s, nonce)
         IN Still(s, t) /\ t.exec_map = s.exec_map /\ t.cycles = s.cycles /\ t.ram = s.ram
<1> DEFINE q == [s.pending EXCEPT !.attempt = @ + 1, !.nonce = nonce]
<1>1. q \in PendingTrap
  <2>1. s.pending \in PendingTrap
    BY DEF Typed
  <2>2. s.pending.attempt + 1 \in 1 .. MAX_RETRIES + 1
    BY <2>1 DEF PendingTrap, MAX_RETRIES
  <2> QED
    BY <2>1, <2>2 DEF PendingTrap
<1>2. Retry(s, nonce) = [s EXCEPT !.pending = q]
  BY FieldNames DEF Retry, Typed
<1> HIDE DEF q
<1> QED
  BY <1>1, <1>2, FieldNames DEF Still, Typed

\* The host answers or gives up: stack, segment, count and execute map stay, and
\* of the executable pages all bytes but a terminator.
LEMMA Hosted ==
  ASSUME Typed(m), Resume \/ FailTrap
  PROVE  /\ Still(m, m') /\ m'.exec_map = m.exec_map /\ m'.cycles = m.cycles
         /\ \A a : Page(a) \in m.exec_map => At(m'.ram, a) = At(m.ram, a) \/ Terminator(a)
<1>1. ASSUME NEW nonce \in Word, m.pending.attempt <= m.pending.retries, m' = Retry(m, nonce)
      PROVE  /\ Still(m, m') /\ m'.exec_map = m.exec_map /\ m'.cycles = m.cycles
             /\ m'.ram = m.ram
  BY <1>1, StillRetry
<1>2. ASSUME NEW answer \in Answer, AnswerTo(m.pending, answer), m' = Finish(m, answer), Waiting(m)
      PROVE  /\ Still(m, m') /\ m'.exec_map = m.exec_map /\ m'.cycles = m.cycles
             /\ \A a : Page(a) \in m.exec_map => At(m'.ram, a) = At(m.ram, a) \/ Terminator(a)
  <2>1. Still(m, m') /\ m'.exec_map = m.exec_map /\ m'.cycles = m.cycles
    BY <1>2, StillCompletion
  <2>2. ASSUME NEW a, Page(a) \in m.exec_map, At(m'.ram, a) # At(m.ram, a) PROVE Terminator(a)
    BY <1>2, <2>2, CompletionFreezes DEF Terminator
  <2> QED
    BY <2>1, <2>2
<1>3. CASE Resume
  <2>1. PICK answer \in Replies, in \in Inputs :
          AnswerTo(m.pending, answer) /\ m' = resume(m, answer, in.nonce)
    BY <1>3 DEF Resume
  <2>2. answer \in Answer /\ in.nonce \in Word /\ Waiting(m)
    BY <1>3, InputsAssumption DEF Input, Resume, Asked
  <2>3. \/ m.pending.attempt <= m.pending.retries /\ m' = Retry(m, in.nonce)
        \/ m' = Finish(m, answer)
    BY <2>1 DEF resume
  <2> QED
    BY <1>1, <1>2, <2>1, <2>2, <2>3
<1>4. CASE FailTrap
  <2>1. PICK status \in Aborts : m' = Finish(m, Failure(status))
    BY <1>4 DEF FailTrap, fail_trap
  <2>2. status \in Byte /\ ~is_success(status) /\ Waiting(m)
    BY <1>4, InputsAssumption DEF is_success, FailTrap, Asked
  <2>3. Failure(status) \in Answer
    BY <2>2, Octets DEF Failure, Answer
  <2>4. AnswerTo(m.pending, Failure(status))
    BY <2>2 DEF AnswerTo, Failure
  <2> QED
    BY <1>2, <2>1, <2>2, <2>3, <2>4
<1> QED
  BY <1>3, <1>4

\* What the completion stored over is among the stores; the other frames hold.
LEMMA HostedNests ==
  ASSUME Typed(m), Nested, Resume \/ FailTrap
  PROVE  Typed(m') /\ Nested'
<1>1. Typed(m') /\ m'.SP = m.SP /\ m'.cs = m.cs
  BY Hosted DEF Still
<1>2. /\ frames' = frames
      /\ stores' = IF frames = <<>> THEN {} ELSE stores \cup Touched
  BY DEF Resume, FailTrap, Answered
<1>3. CASE frames = <<>>
  BY <1>1, <1>2, <1>3, NoneNests
<1>4. CASE frames # <<>>
  <2>1. \A a : a \notin stores' => At(m'.ram, a) = At(m.ram, a)
    BY <1>2, <1>4 DEF Touched, At
  <2>2. \A i \in 1 .. Len(frames) : Stacked(frames[i], m')
    BY <1>1 DEF Nested, Piling, Stacked, Depth
  <2>3. Piling(frames, m', stores')
    BY <1>2, <1>4, <2>1, <2>2, Carried DEF Nested
  <2>4. Settled(frames, m')
    BY <1>1 DEF Nested, Settled
  <2> QED
    BY <1>1, <1>2, <2>3, <2>4 DEF Nested
<1> QED
  BY <1>3, <1>4

-----------------------------------------------------------------------------
(***************************************************************************)
(* Every program that loads, every input, every reply.                     *)
(***************************************************************************)
\* The inductive invariant of a run.
ProgramInv ==
  /\ phase \in {"edit", "run"}
  /\ phase = "edit" => frames = <<>>
  /\ kit \in DOMAIN Kits
  /\ Typed(m) /\ Nested

\* What load() stores is bytes.
LEMMA StoredBytes ==
  ASSUME NEW segments \in Seq([base : Nat, blob : Seq(Byte)])
  PROVE  Stocked(Stored(segments))
<1> DEFINE lying(a) == {i \in DOMAIN segments : a \in Stretch(segments[i])}
           last(a) == Max(lying(a))
           memory == Stored(segments)
<1>1. memory = [a \in UNION {Stretch(segments[i]) : i \in DOMAIN segments} |->
                  segments[last(a)].blob[a - segments[last(a)].base + 1]]
  BY DEF Stored
<1> SUFFICES ASSUME NEW a, a \in DOMAIN memory PROVE memory[a] \in Byte
  BY DEF Stocked
<1>2. memory[a] = segments[last(a)].blob[a - segments[last(a)].base + 1] /\ lying(a) # {}
  BY <1>1
<1>3. last(a) \in lying(a)
  <2>1. Len(segments) \in Nat /\ lying(a) \in SUBSET (0 .. Len(segments))
    OBVIOUS
  <2> HIDE DEF lying
  <2> QED
    BY <1>2, <2>1, Greatest
<1> DEFINE segment == segments[last(a)]
<1>4. a \in Stretch(segment) /\ segment \in [base : Nat, blob : Seq(Byte)]
  <2>1. last(a) \in DOMAIN segments /\ a \in Stretch(segments[last(a)])
    BY <1>3
  <2>2. \A j \in DOMAIN segments : segments[j] \in [base : Nat, blob : Seq(Byte)]
    <3> DEFINE Segments == [base : Nat, blob : Seq(Byte)]
    <3>1. segments \in Seq(Segments)
      OBVIOUS
    <3> HIDE DEF Segments
    <3>2. \A j \in DOMAIN segments : segments[j] \in Segments
      BY <3>1
    <3> QED
      BY <3>2 DEF Segments
  <2> HIDE DEF last
  <2> QED
    BY <2>1, <2>2
<1> HIDE DEF memory, last, lying
<1>5. memory[a] = segment.blob[a - segment.base + 1]
  BY <1>2
<1> HIDE DEF segment
<1>6. a \in segment.base .. segment.base + Len(segment.blob) - 1 /\ segment.base \in Nat
      /\ segment.blob \in Seq(Byte)
  BY <1>4 DEF Stretch, End
<1>7. a - segment.base + 1 \in 1 .. Len(segment.blob)
  BY <1>6
<1> QED
  BY <1>5, <1>6, <1>7

\* The machine at reset.
LEMMA TypedReset == Typed(Reset)
<1>1. 0 \in Word /\ WordSize - 1 \in Word /\ 0 \in Byte
  BY Words, Octets DEF WordSize
<1>2. <<>> \in Seq(Byte) /\ Stocked(<<>>)
  BY DEF Stocked
<1>3. /\ Reset.A = 0 /\ Reset.B = 0 /\ Reset.C = 0 /\ Reset.D = 0 /\ Reset.PC = 0
      /\ Reset.SP = WordSize - 1 /\ Reset.cs = 0 /\ Reset.ivec = 0 /\ Reset.last_oracle_status = 0
      /\ Reset.rom = <<>> /\ Reset.ram = <<>> /\ Reset.keys = <<>>
  BY DEF Reset
<1>4. Reset.oracle_ptr = WordSize /\ Reset.pending = NotPending
  BY DEF Reset, NoRequest
<1>5. NotPending \in PendingTrap
  BY <1>1 DEF NotPending, PendingTrap, MODE_NAMES, TEXT, MAX_RETRIES
<1> QED
  BY <1>1, <1>2, <1>3, <1>4, <1>5 DEF Typed, Fields, WordSize

\* The machine with a program, at the start of a run.
LEMMA TypedLoad ==
  ASSUME NEW loaded, Loadable(loaded), NEW keys \in Seq(Byte)
  PROVE  Typed([Load(loaded) EXCEPT !.state = "RUNNING", !.keys = keys])
<1>1. Stocked(Stored(loaded.code)) /\ Stocked(Stored(loaded.data))
  BY StoredBytes DEF Loadable
<1> DEFINE t == [Reset EXCEPT !.rom = Stored(loaded.code), !.ram = Stored(loaded.data)]
<1>2. Typed(t)
  BY <1>1, TypedReset, FieldNames DEF Typed
<1>3. Load(loaded) = t
  BY DEF Load
<1> HIDE DEF t
<1> QED
  BY <1>2, <1>3, FieldNames DEF Typed

\* At first nothing has been entered.
LEMMA InvInit == Init => ProgramInv
<1> SUFFICES ASSUME Init PROVE ProgramInv
  OBVIOUS
<1>1. m = Reset /\ frames = <<>> /\ phase = "edit" /\ kit \in DOMAIN Kits
  BY DEF Init
<1>2. Nested
  BY <1>1, Nothing DEF Nested
<1> QED
  BY <1>1, <1>2, TypedReset DEF ProgramInv

\* Every step keeps the frames where they are, or gives them up.
LEMMA InvStep == ProgramInv /\ [Next]_vars => ProgramInv'
<1> SUFFICES ASSUME ProgramInv, [Next]_vars PROVE ProgramInv'
  OBVIOUS
<1>1. ASSUME NEW line, NEW comment, Type(line, comment) PROVE ProgramInv'
  BY <1>1 DEF Type, ProgramInv, Nested
<1>2. CASE Run
  <2>1. /\ phase' = "run" /\ frames' = <<>> /\ kit \in DOMAIN Kits /\ kit' = kit /\ Loadable(program)
        /\ m' = [Load(program) EXCEPT !.state = "RUNNING", !.keys = Kits[kit].keys]
    BY <1>2 DEF Run, ProgramInv
  <2>2. Nested'
    BY <2>1, NoneNests
  <2>3. Typed(m')
    BY <2>1, TypedLoad, KeysAssumption
  <2> QED
    BY <2>1, <2>2, <2>3 DEF ProgramInv
<1>3. CASE Interrupt
  BY <1>3, InterruptNests DEF ProgramInv, Interrupt, Running
<1>4. CASE Execute
  BY <1>4, ExecuteNests DEF ProgramInv, Execute, Running
<1>5. CASE Resume \/ FailTrap
  BY <1>5, HostedNests DEF ProgramInv, Resume, FailTrap, Asked, Answered
<1>6. CASE UNCHANGED vars
  BY <1>6 DEF vars, ProgramInv, Nested
<1> QED
  BY <1>1, <1>2, <1>3, <1>4, <1>5, <1>6 DEF Next

\* The machine keeps its widths, and the stack holds the contexts that were
\* entered, in every run of every program.
THEOREM StackHoldsContexts == Spec => []ProgramInv
<1>1. Init => ProgramInv
  BY InvInit
<1>2. ProgramInv /\ [Next]_vars => ProgramInv'
  BY InvStep
<1> QED
  BY <1>1, <1>2, PTL DEF Spec

-----------------------------------------------------------------------------
(***************************************************************************)
(* The specification.                                                      *)
(***************************************************************************)
\* The machine keeps its fields, and counts.
Whole == DOMAIN m = Fields /\ m.cycles \in Nat

\* What CodeIsFrozen asks of a step.
Frozen ==
  /\ \A a : Page(a) \in m.exec_map \cap m'.exec_map =>
              At(m'.ram, a) = At(m.ram, a) \/ (m'.cycles = m.cycles /\ Terminator(a))
  /\ m'.cycles > m.cycles /\ m'.state # "FAULT" /\ m.cs = 1
     => \A k \in 1 .. width(Name) : Page(Reach(m)[k]) \in m.exec_map

\* The machine is whole at reset: nothing has been counted.
LEMMA WholeInit == Init => Whole
  BY FieldNames DEF Init, Whole, Reset, Fields

\* Delivering an interrupt pushes a context: it counts no instruction, and the
\* pushes respect the executable pages.
LEMMA WholeInterrupt == Whole /\ Interrupt => Whole' /\ Frozen
<1> SUFFICES ASSUME Whole, Interrupt
             PROVE  Whole' /\ Frozen
  OBVIOUS
<1>1. Careful(m, m')
  BY Contexts DEF Whole, Interrupt
<1>2. QED
  BY <1>1 DEF Whole, Frozen, Careful

\* An instruction keeps what StepKeeps says.
LEMMA WholeExecute == Whole /\ Execute => Whole' /\ Frozen
<1> SUFFICES ASSUME Whole, Execute
             PROVE  Whole' /\ Frozen
  OBVIOUS
<1>1. PICK in \in Inputs : m' = step(m, in)
  BY DEF Execute
<1>2. /\ DOMAIN m' = Fields /\ m'.cycles \in Nat
      /\ \A a : Page(a) \in m.exec_map \cap m'.exec_map => At(m'.ram, a) = At(m.ram, a)
      /\ m'.cycles > m.cycles /\ m'.state # "FAULT" =>
           /\ Fetched(m) \in Opcode
           /\ m.cs = 1 =>
                \A k \in 1 .. width(Mnemonic(Fetched(m))) : Page(Reach(m)[k]) \in m.exec_map
  BY <1>1, StepKeeps DEF Whole
<1>3. QED
  BY <1>2 DEF Whole, Frozen, Name

\* The host counts no instruction, and of the executable pages its completion
\* stores to a terminator only.
LEMMA WholeHosted == Typed(m) /\ Whole /\ (Resume \/ FailTrap) => Whole' /\ Frozen
<1> SUFFICES ASSUME Typed(m), Whole, Resume \/ FailTrap
             PROVE  Whole' /\ Frozen
  OBVIOUS
<1>1. /\ Still(m, m') /\ m'.cycles = m.cycles /\ m'.exec_map = m.exec_map
      /\ \A a : Page(a) \in m.exec_map => At(m'.ram, a) = At(m.ram, a) \/ Terminator(a)
  BY Hosted
<1>2. QED
  BY <1>1 DEF Whole, Frozen, Still, Typed

\* Every step keeps the machine whole, and every step of a run what is frozen.
LEMMA WholeStep == ProgramInv /\ Whole /\ [Next]_vars => Whole' /\ (phase = "run" => Frozen)
<1> SUFFICES ASSUME Typed(m), Whole, [Next]_vars
             PROVE  Whole' /\ (phase = "run" => Frozen)
  BY DEF ProgramInv
<1>1. ASSUME NEW line, NEW comment, Type(line, comment)
      PROVE  Whole' /\ phase = "edit"
  BY <1>1 DEF Whole, Type
<1>2. CASE Run
  BY <1>2, FieldNames DEF Whole, Run, Load, Reset, Fields
<1>3. CASE Interrupt
  BY <1>3, WholeInterrupt
<1>4. CASE Execute
  BY <1>4, WholeExecute
<1>5. CASE Resume \/ FailTrap
  BY <1>5, WholeHosted
<1>6. CASE UNCHANGED vars
  BY <1>6 DEF Whole, Frozen, vars
<1>7. QED
  BY <1>1, <1>2, <1>3, <1>4, <1>5, <1>6 DEF Next, Run

\* The machine keeps its fields, and counts, in every run.
LEMMA SpecWhole == Spec => []Whole
<1>1. Spec => []ProgramInv
  BY StackHoldsContexts
<1>2. QED
  BY <1>1, WholeInit, WholeStep, PTL DEF Spec

\* Code in RAM is frozen, for every program, every input and every reply: no
\* store, push or interrupt of machine.py changes an executable page, a
\* completion, one that faults in its writeback included, only the first byte of
\* one, to the NUL behind its text; and no byte of an instruction is fetched from
\* a page of RAM that is not executable.
THEOREM FrozenCode == Spec => CodeIsFrozen
<1> DEFINE Step == phase = "run" =>
                     /\ \A a \in DOMAIN m.ram \cup DOMAIN m'.ram :
                          Page(a) \in m.exec_map \cap m'.exec_map =>
                            At(m.ram, a) = At(m'.ram, a) \/ (m'.cycles = m.cycles /\ Terminator(a))
                     /\ (m'.cycles > m.cycles /\ m'.state # "FAULT" /\ m.cs = 1)
                        => \A k \in 1 .. width(Name) : Page(Reach(m)[k]) \in m.exec_map
<1>1. ProgramInv /\ Whole /\ [Next]_vars => Step
  BY WholeStep DEF Frozen
<1>2. Spec => []ProgramInv /\ []Whole
  BY StackHoldsContexts, SpecWhole
<1>3. Spec => [][Step]_vars
  BY <1>1, <1>2, PTL DEF Spec
<1>4. QED
  BY <1>3 DEF CodeIsFrozen

\* Contexts nest, for every program that loads, every reply and every interrupt:
\* a return that leaves the innermost context goes back to where it was entered.
THEOREM ReturnsGoBack == Spec => ReturnsAreExact
<1> DEFINE Step == m'.cycles > m.cycles /\ m'.state = "RUNNING" /\ Returns
                   => /\ m'.PC = Last(frames).pc
                      /\ m'.cs \in Last(frames).cs
                      /\ Depth(m') = Last(frames).depth
<1>1. ProgramInv /\ Whole /\ [Next]_vars => Step
  <2> SUFFICES ASSUME ProgramInv, Whole, [Next]_vars, m'.cycles > m.cycles, m'.state = "RUNNING", Returns
               PROVE  /\ m'.PC = Last(frames).pc
                      /\ m'.cs \in Last(frames).cs
                      /\ Depth(m') = Last(frames).depth
    OBVIOUS
  <2>1. phase = "run" /\ m.cycles \in Nat
    BY DEF ProgramInv, Returns, Whole
  <2>2. CASE Interrupt
    <3>1. Careful(m, m')
      BY <2>2, Contexts DEF Whole, Interrupt
    <3> QED
      BY <2>1, <3>1 DEF Careful
  <2>3. CASE Resume \/ FailTrap
    <3>1. m'.cycles = m.cycles
      BY <2>3, Hosted DEF ProgramInv
    <3> QED
      BY <2>1, <3>1
  <2>4. CASE Execute
    <3>1. Typed(m') /\ Effect(Name, m, m')
      BY <2>4, Executed DEF ProgramInv
    <3> QED
      BY <3>1, ReturnGoesBack DEF ProgramInv
  <2>5. CASE UNCHANGED vars
    BY <2>1, <2>5 DEF vars
  <2> QED
    BY <2>1, <2>2, <2>3, <2>4, <2>5 DEF Next, Type, Run
<1>2. Spec => []ProgramInv
  BY StackHoldsContexts
<1>3. Spec => []Whole
  BY SpecWhole
<1>4. Spec => [][Step]_vars
  BY <1>1, <1>2, <1>3, PTL DEF Spec
<1> QED
  BY <1>4 DEF ReturnsAreExact
=============================================================================
