-------------------------------- MODULE Cpu --------------------------------
(***************************************************************************)
(* The processor of trapcpu/machine.py: memory, registers, ports and the   *)
(* 64 instructions, over a whole machine held in one record.               *)
(*                                                                         *)
(* The trap device is the one of TrapMachine, seen from the processor: the *)
(* descriptor is read from memory, and a completion stores the payload,    *)
(* its terminator and the descriptor's fields there before it reports in   *)
(* the registers or on the interrupt line.  What an answer is worth is     *)
(* decided by validate() (Exchange); here it is an input.                  *)
(***************************************************************************)
EXTENDS Assembler

SCREEN_W == 32
SCREEN_H == 16
MAX_STRING == 4096

NoRequest == WordSize   \* oracle_ptr is not latched
NoValue == WordSize     \* the value of an answer that is not in mode NUM

OK == 0
DEGRADED == 1
NO_REQUEST == 16
BAD_DESCRIPTOR == 17
BUDGET == 34
BUSY == 36
WX == 37
is_success(status) == status \in {OK, DEGRADED}

TEXT == 0
NUM == 1
BYTES == 2
MODE_NAMES == {TEXT, NUM, BYTES}
MAX_REPLICAS == 9
MAX_RETRIES == 15

DESCRIPTOR_MAGIC == 21071
DESCRIPTOR_SIZE == 24
PROTOCOL_VERSION == 1
FIELD ==
  [MAGIC |-> 0, VERSION |-> 2, MODE |-> 3, PROMPT |-> 4, RESPONSE |-> 6, CAPACITY |-> 8,
   REPLICAS |-> 10, RETRIES |-> 11, STATUS |-> 12, LENGTH |-> 14, NONCE |-> 16,
   ATTEMPTS |-> 18, CORRECTED |-> 19, FLAGS |-> 20, VALUE |-> 22]

\* What is outside the processor decides: the random byte, the nonce that is drawn,
\* and whether the oracle budget is spent.
Input == [random : Byte, nonce : Word \ {0}, spent : BOOLEAN]

\* What validate() makes of a reply, the corrections as the byte that reports them.
Answer ==
  [status : Byte, payload : Seq(Byte), value : Word \cup {NoValue}, corrected : Byte]

Failure(status) == [status |-> status, payload |-> <<>>, value |-> NoValue, corrected |-> 0]

\* A request, as the device remembers it.  terminated: the payload is text that
\* gets a NUL where there is room for it.
PendingTrap ==
  [descriptor : Word, response : Word, capacity : Word, mode : MODE_NAMES,
   terminated : BOOLEAN, retries : 0 .. MAX_RETRIES, attempt : 1 .. MAX_RETRIES + 1,
   nonce : Word]

\* No request: no field of it is ever looked at.
NotPending ==
  [descriptor |-> 0, response |-> 0, capacity |-> 0, mode |-> TEXT, terminated |-> FALSE,
   retries |-> 0, attempt |-> 1, nonce |-> 0]

Reset ==
  [A |-> 0, B |-> 0, C |-> 0, D |-> 0, PC |-> 0, SP |-> WordSize - 1,
   Z |-> 0, CF |-> 0, N |-> 0, cs |-> 0, ivec |-> 0, ien |-> 0,
   irq_pending |-> FALSE, async_pending |-> FALSE, pending |-> NotPending, exec_map |-> {},
   oracle_ptr |-> NoRequest, last_oracle_status |-> 0,
   rom |-> <<>>, ram |-> <<>>, keys |-> <<>>, screen |-> <<>>, out |-> <<>>,
   cycles |-> 0, state |-> "READY"]

\* load() of an assembled program; a MachineError if it does not fit.  What fits
\* into a bytearray is bytes.
Loadable(program) ==
  /\ {program.code, program.data} \subseteq Seq([base : Nat, blob : Seq(Byte)])
  /\ \A segment \in ToSet(program.code) \cup ToSet(program.data) : End(segment) <= WordSize

Load(program) ==
  [Reset EXCEPT !.rom = Stored(program.code), !.ram = Stored(program.data)]

Stopped(m) == m.state # "RUNNING"
Fault(m) == [m EXCEPT !.state = "FAULT"]
Page(address) == address \div 256

-----------------------------------------------------------------------------
(***************************************************************************)
(* Memory, stack and fetch.  After a fault nothing more is done.           *)
(***************************************************************************)
read8(m, address) == At(m.ram, Wrap(address))
read16(m, address) == read8(m, address) + 256 * read8(m, address + 1)

write8(m, address, value) ==
  CASE Stopped(m) -> m
    [] ~Stopped(m) /\ Page(Wrap(address)) \in m.exec_map -> Fault(m)
    [] OTHER -> [m EXCEPT !.ram = Put(@, Wrap(address), Low(value))]

write16(m, address, value) ==
  write8(write8(m, address, value), address + 1, High(value))

Down(m) == IF Stopped(m) THEN m ELSE [m EXCEPT !.SP = Wrap(@ - 1)]
Push8(m, value) == Down(write8(m, m.SP, value))

\* Seeded fault: the stack is stored to without looking at the execute map.
push16Unchecked(m, value) ==
  [m EXCEPT !.ram = Put(Put(@, m.SP, Low(value)), Wrap(m.SP - 1), High(value)),
            !.SP = Wrap(@ - 2)]

\* Seeded fault: the high byte lies above the low byte.
push16HighFirst(m, value) == Push8(Push8(m, High(value)), value)

push16(m, value) == Push8(Push8(m, value), High(value))

pop16(m) == 256 * read8(m, m.SP + 1) + read8(m, m.SP + 2)
Popped(m) == [m EXCEPT !.SP = Wrap(@ + 2)]

read_string(m, address) ==
  LET n == CHOOSE k \in 0 .. MAX_STRING :
             /\ k = MAX_STRING \/ read8(m, address + k) = 0
             /\ \A j \in 0 .. k - 1 : read8(m, address + j) # 0
  IN [k \in 1 .. n |-> read8(m, address + k - 1)]

\* The byte at PC, and the machine that has fetched it.
Fetched(m) == At(IF m.cs = 1 THEN m.ram ELSE m.rom, m.PC)

fetch8(m) ==
  CASE Stopped(m) -> m
    [] ~Stopped(m) /\ m.cs = 1 /\ Page(m.PC) \notin m.exec_map -> Fault(m)
    [] OTHER -> [m EXCEPT !.PC = Wrap(@ + 1)]

-----------------------------------------------------------------------------
(***************************************************************************)
(* Ports.                                                                  *)
(***************************************************************************)
read_port(m, port, in) ==
  CASE port = PORT_KEY -> IF m.keys = <<>> THEN 0 ELSE Head(m.keys)
    [] port = PORT_KEY_STATE -> Bit(m.keys # <<>>)
    [] port = PORT_RANDOM -> in.random
    [] port = PORT_ORACLE_STAT -> m.last_oracle_status
    [] port = PORT_IVEC ->
         IF m.async_pending THEN 1 ELSE IF m.irq_pending THEN 2 ELSE 0
    [] OTHER -> 0

\* Reading the keyboard takes the key out of the queue.
AfterRead(m, port) ==
  IF port = PORT_KEY /\ m.keys # <<>> THEN [m EXCEPT !.keys = Tail(@)] ELSE m

write_port(m, port) ==
  CASE port = PORT_SCREEN /\ m.B < SCREEN_W /\ m.C < SCREEN_H ->
         [m EXCEPT !.screen = With(@, <<m.B, m.C>>, Low(m.A))]
    [] port \in PORT_ORACLE .. PORT_ORACLE_END -> [m EXCEPT !.oracle_ptr = m.A]
    [] port = PORT_IVEC -> [m EXCEPT !.ivec = m.A]
    [] port = PORT_MPROT ->
         [m EXCEPT !.exec_map = IF m.A % 2 = 1 THEN @ \cup {High(m.A)} ELSE @ \ {High(m.A)}]
    [] OTHER -> m

-----------------------------------------------------------------------------
(***************************************************************************)
(* Instructions.                                                           *)
(***************************************************************************)
flags(m, value) ==
  [m EXCEPT !.Z = Bit(Wrap(value) = 0), !.N = Bit(Wrap(value) >= WordSize \div 2)]

\* A gets a value, and the flags describe it.
Accumulate(m, value) == flags([m EXCEPT !.A = value], value)

_arith(m, value) ==
  Accumulate([m EXCEPT !.CF = Bit(value \notin Word)], Wrap(value))

Compare(m, value) == flags([m EXCEPT !.CF = Bit(m.A < value)], m.A - value)

Branch(m, taken, address) == IF taken THEN [m EXCEPT !.PC = address] ELSE m

Divide(m) ==
  IF m.B = 0 THEN [m EXCEPT !.CF = 1]
  ELSE Accumulate([m EXCEPT !.CF = 0, !.D = m.A % m.B], m.A \div m.B)

\* Contexts: CALL pushes the return address, CALLX and an interrupt push the
\* segment below it.
GoTo(m, cs, address) == IF Stopped(m) THEN m ELSE [m EXCEPT !.cs = cs, !.PC = address]

Call(m, address) == GoTo(push16(m, m.PC), m.cs, address)
Enter(m, cs, address) == GoTo(push16(push16(m, m.cs), m.PC), cs, address)

\* Seeded fault: the segment stays the one of the handler or callee.
LeaveInSegment(m) == [Popped(Popped(m)) EXCEPT !.PC = pop16(m)]

\* RETX and IRET pop them again.
Leave(m) ==
  [Popped(Popped(m)) EXCEPT !.PC = pop16(m), !.cs = pop16(Popped(m)) % 2]

Accept(m) == IF Stopped(m) THEN m ELSE [m EXCEPT !.ien = 0, !.irq_pending = FALSE]
_deliver_irq(m) == Accept(Enter(m, 0, m.ivec))

-----------------------------------------------------------------------------
(***************************************************************************)
(* The trap device: requests that are refused inline or published.         *)
(***************************************************************************)
Busy(m) == m.async_pending \/ m.irq_pending

Field8(m, field) == read8(m, m.oracle_ptr + FIELD[field])
Field16(m, field) == read16(m, m.oracle_ptr + FIELD[field])

\* A descriptor that may be written back to: one that lies in memory, with the
\* magic and the version in place.
Writable(m) ==
  /\ m.oracle_ptr # NoRequest /\ m.oracle_ptr + DESCRIPTOR_SIZE <= WordSize
  /\ Field16(m, "MAGIC") = DESCRIPTOR_MAGIC /\ Field8(m, "VERSION") = PROTOCOL_VERSION

\* The fields of one that is published.  Replicas of zero are one.
Acceptable(m) ==
  /\ Field8(m, "MODE") \in MODE_NAMES
  /\ Field8(m, "REPLICAS") <= MAX_REPLICAS /\ Field8(m, "RETRIES") <= MAX_RETRIES
  /\ Field16(m, "CAPACITY") # 0
  /\ Field16(m, "RESPONSE") + Field16(m, "CAPACITY") <= WordSize
  /\ Len(read_string(m, Field16(m, "PROMPT"))) \in 1 .. MAX_STRING - 1

\* Bit 3 of the flags: NO_NUL.
_read_descriptor(m, nonce) ==
  [descriptor |-> m.oracle_ptr, response |-> Field16(m, "RESPONSE"),
   capacity |-> Field16(m, "CAPACITY"), mode |-> Field8(m, "MODE"),
   terminated |-> Field8(m, "MODE") = TEXT /\ (Field16(m, "FLAGS") \div 8) % 2 = 0,
   retries |-> Field8(m, "RETRIES"), attempt |-> 1, nonce |-> nonce]

\* Each field is stored like any other byte of the guest: a fault ends it.
_writeback(m, descriptor, status, length, nonce, attempts, corrected, value) ==
  LET m1 == write16(m, descriptor + FIELD.STATUS, status)
      m2 == write16(m1, descriptor + FIELD.LENGTH, length)
      m3 == write16(m2, descriptor + FIELD.NONCE, nonce)
      m4 == write8(m3, descriptor + FIELD.ATTEMPTS, attempts)
      m5 == write8(m4, descriptor + FIELD.CORRECTED, corrected)
  IN IF value = NoValue THEN m5 ELSE write16(m5, descriptor + FIELD.VALUE, value)

\* A completion in the registers.
Reported(m, status, length, attempts) ==
  [Accumulate([m EXCEPT !.B = length, !.C = attempts, !.last_oracle_status = status], status)
     EXCEPT !.CF = Bit(~is_success(status))]

\* A request that is refused completes inline.
_complete(m, status, writable) ==
  LET written == IF writable THEN _writeback(m, m.oracle_ptr, status, 0, 0, 0, 0, NoValue) ELSE m
  IN IF Stopped(written) THEN written ELSE Reported(written, status, 0, 0)

\* A request, refused or published as the machine given.
Begin(m, in, published) ==
  CASE Busy(m) -> _complete(m, BUSY, FALSE)
    [] ~Busy(m) /\ m.oracle_ptr = NoRequest -> _complete(m, NO_REQUEST, FALSE)
    [] ~Busy(m) /\ m.oracle_ptr # NoRequest /\ ~(Writable(m) /\ Acceptable(m)) ->
         _complete(m, BAD_DESCRIPTOR, Writable(m))
    [] ~Busy(m) /\ Writable(m) /\ Acceptable(m) /\ in.spent -> _complete(m, BUDGET, TRUE)
    [] OTHER -> [published EXCEPT !.pending = _read_descriptor(m, in.nonce)]

_begin_trap(m, in) == Begin(m, in, [m EXCEPT !.state = "TRAPPED"])
_begin_async(m, in) == Begin(m, in, [m EXCEPT !.async_pending = TRUE])

-----------------------------------------------------------------------------
(***************************************************************************)
(* ... and completed by the host.                                          *)
(***************************************************************************)
Waiting(m) == m.async_pending \/ m.state = "TRAPPED"

\* The answers there are to a request: failures carry nothing, a number is the
\* payload too, nothing exceeds the capacity.
AnswerTo(trap, answer) ==
  IF ~is_success(answer.status) THEN answer = Failure(answer.status)
  ELSE /\ Len(answer.payload) <= trap.capacity
       /\ answer.value # NoValue <=> trap.mode = NUM
       /\ trap.mode = NUM =>
            answer.payload = SubSeq(Bytes16(answer.value), 1, Min({2, trap.capacity}))

\* The retry gets a nonce other than the one before.
Retry(m, nonce) == [m EXCEPT !.pending.attempt = @ + 1, !.pending.nonce = nonce]

\* The addresses of n bytes in the response buffer.
Buffer(trap, n) == trap.response .. trap.response + n - 1

_wx_blocked(m, answer) ==
  /\ is_success(answer.status)
  /\ \E a \in Buffer(m.pending, Len(answer.payload)) : Page(a) \in m.exec_map

Permitted(m, answer) == IF _wx_blocked(m, answer) THEN Failure(WX) ELSE answer

\* The payload and its terminator, stored past the check of write8.
Terminated(trap, payload) ==
  IF payload # <<>> /\ trap.terminated /\ Len(payload) < trap.capacity
  THEN Append(payload, 0) ELSE payload

Transferred(m, payload) ==
  LET bytes == Terminated(m.pending, payload)
      cells == Buffer(m.pending, Len(bytes))
  IN [m EXCEPT !.ram = [a \in cells \cup DOMAIN @ |->
                          IF a \in cells THEN bytes[a - m.pending.response + 1] ELSE @[a]]]

\* What a completion stores.  The machine may be parked or stopped meanwhile.
WrittenBack(m, answer) ==
  LET given == Permitted(m, answer)
  IN _writeback([Transferred(m, given.payload) EXCEPT !.state = "RUNNING"], m.pending.descriptor,
                given.status, Len(given.payload), m.pending.nonce, m.pending.attempt,
                given.corrected, given.value)

_finish_trap(m, ram, answer) ==
  [Reported([m EXCEPT !.ram = ram], answer.status, Len(answer.payload), m.pending.attempt)
     EXCEPT !.D = IF answer.value = NoValue THEN @ ELSE answer.value,
            !.pending = NotPending, !.state = "RUNNING"]

\* A machine that is parked runs on; one that has stopped meanwhile does not.
_finish_async(m, ram, answer) ==
  [m EXCEPT !.ram = ram, !.async_pending = FALSE, !.irq_pending = TRUE,
            !.last_oracle_status = answer.status, !.pending = NotPending,
            !.state = IF @ = "TRAPPED" THEN "RUNNING" ELSE @]

\* A fault of the writeback leaves the host's call with some of the stores made
\* and the request still pending.
Finish(m, answer) ==
  LET written == WrittenBack(m, answer)
      given == Permitted(m, answer)
  IN IF written.state = "FAULT" THEN [m EXCEPT !.ram = written.ram]
     ELSE IF m.async_pending THEN _finish_async(m, written.ram, given)
     ELSE _finish_trap(m, written.ram, given)

\* resume(): a failing answer is asked for again as long as there are retries.
resume(m, answer, nonce) ==
  IF ~is_success(answer.status) /\ m.pending.attempt <= m.pending.retries
  THEN Retry(m, nonce) ELSE Finish(m, answer)

fail_trap(m, status) == Finish(m, Failure(status))

-----------------------------------------------------------------------------
(***************************************************************************)
(* The instructions by name.                                               *)
(***************************************************************************)
WaitForInterrupt(m) ==
  CASE m.irq_pending /\ m.ien = 0 -> Fault(m)
    [] m.irq_pending /\ m.ien = 1 -> _deliver_irq(m)
    [] ~m.irq_pending /\ m.async_pending -> [m EXCEPT !.state = "TRAPPED"]
    [] OTHER -> Fault(m)

Other(m, name) ==
  CASE name \in {"ADD", "SUB", "CMP"} -> m.B
    [] name \in {"ADDC", "SUBC", "CMPC"} -> m.C
    [] name \in {"ADDD", "SUBD"} -> m.D

Perform(m, name, arg, in) ==
  CASE name = "NOP" -> m
    [] name = "LDIA" -> Accumulate(m, arg)
    [] name = "LDIB" -> [m EXCEPT !.B = arg]
    [] name = "LDIC" -> [m EXCEPT !.C = arg]
    [] name = "LDID" -> [m EXCEPT !.D = arg]
    [] name \in {"ADD", "ADDC", "ADDD"} -> _arith(m, m.A + Other(m, name))
    [] name \in {"SUB", "SUBC", "SUBD"} -> _arith(m, m.A - Other(m, name))
    [] name = "INC" -> Accumulate(m, Wrap(m.A + 1))
    [] name = "DEC" -> Accumulate(m, Wrap(m.A - 1))
    [] name \in {"CMP", "CMPC"} -> Compare(m, Other(m, name))
    [] name = "XOR" -> Accumulate(m, OfBits(SymDiff(Bits(m.A), Bits(m.B))))
    [] name = "AND" -> Accumulate(m, OfBits(Bits(m.A) \cap Bits(m.B)))
    [] name = "OR" -> Accumulate(m, OfBits(Bits(m.A) \cup Bits(m.B)))
    [] name = "NOT" -> Accumulate(m, WordSize - 1 - m.A)
    [] name = "MUL" -> _arith(m, m.A * m.B)
    [] name = "DIV" -> Divide(m)
    [] name = "SHL" -> _arith(m, 2 * m.A)
    [] name = "SHR" -> Accumulate([m EXCEPT !.CF = m.A % 2], m.A \div 2)
    [] name = "MOVAB" -> Accumulate(m, m.B)
    [] name = "MOVAC" -> Accumulate(m, m.C)
    [] name = "MOVAD" -> Accumulate(m, m.D)
    [] name = "MOVBA" -> [m EXCEPT !.B = m.A]
    [] name = "MOVCA" -> [m EXCEPT !.C = m.A]
    [] name = "MOVDA" -> [m EXCEPT !.D = m.A]
    [] name = "INCB" -> [m EXCEPT !.B = Wrap(@ + 1)]
    [] name = "DECB" -> [m EXCEPT !.B = Wrap(@ - 1)]
    [] name = "INCC" -> [m EXCEPT !.C = Wrap(@ + 1)]
    [] name = "DECC" -> [m EXCEPT !.C = Wrap(@ - 1)]
    [] name = "STA" -> write16(m, arg, m.A)
    [] name = "LDA" -> Accumulate(m, read16(m, arg))
    [] name = "STB" -> write8(m, m.B, m.A)
    [] name = "LDB" -> Accumulate(m, read8(m, m.B))
    [] name = "STW" -> write16(m, m.B, m.A)
    [] name = "LDW" -> Accumulate(m, read16(m, m.B))
    [] name = "PUSH" -> push16(m, m.A)
    [] name = "POP" -> Accumulate(Popped(m), pop16(m))
    [] name = "JMP" -> Branch(m, TRUE, arg)
    [] name = "JZ" -> Branch(m, m.Z = 1, arg)
    [] name = "JNZ" -> Branch(m, m.Z = 0, arg)
    [] name = "JN" -> Branch(m, m.N = 1, arg)
    [] name = "JNN" -> Branch(m, m.N = 0, arg)
    [] name = "JC" -> Branch(m, m.CF = 1, arg)
    [] name = "JNC" -> Branch(m, m.CF = 0, arg)
    [] name = "CALL" -> Call(m, arg)
    [] name = "RET" -> [Popped(m) EXCEPT !.PC = pop16(m)]
    [] name = "CALLX" -> Enter(m, 1, arg)
    [] name = "RETX" -> Leave(m)
    [] name = "IRET" -> [Leave(m) EXCEPT !.ien = 1]
    [] name = "CLI" -> [m EXCEPT !.ien = 0]
    [] name = "STI" -> [m EXCEPT !.ien = 1]
    [] name = "OUT" -> [m EXCEPT !.out = Append(@, Low(m.A))]
    [] name = "OUTS" -> [m EXCEPT !.out = @ \o read_string(m, m.B)]
    [] name = "IN" -> Accumulate(m, 0)
    [] name = "INP" -> Accumulate(AfterRead(m, arg), read_port(m, arg, in))
    [] name = "OUTP" -> write_port(m, arg)
    [] name = "TRAP" -> _begin_trap(m, in)
    [] name = "TRAPA" -> _begin_async(m, in)
    [] name = "WFI" -> WaitForInterrupt(m)
    [] name = "HLT" -> [m EXCEPT !.state = "HALTED"]

\* step(): fetch, count, dispatch.  Every handler fetches its operand first.
step(m, in) ==
  LET opcode == Fetched(m)
      counted == IF Stopped(fetch8(m)) THEN fetch8(m) ELSE [fetch8(m) EXCEPT !.cycles = @ + 1]
      name == Mnemonic(opcode)
      low == Fetched(counted)
      short == fetch8(counted)
      arg == CASE width(name) = 1 -> 0
               [] width(name) = 2 -> low
               [] width(name) = 3 -> low + 256 * Fetched(short)
      ready == CASE width(name) = 1 -> counted
                 [] width(name) = 2 -> short
                 [] width(name) = 3 -> fetch8(short)
  IN IF Stopped(counted) THEN counted
     ELSE IF opcode \notin Opcode THEN Fault(counted)
     ELSE IF Stopped(ready) THEN ready ELSE Perform(ready, name, arg, in)

=============================================================================
