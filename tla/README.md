# TRAPCPU and ChatCPU in TLA+

TRAPCPU is a 16-bit virtual machine whose coprocessor is a language model. A
guest program executes `TRAP` or `TRAPA`; the machine publishes a text frame; an
oracle (a model, a person, a script) writes a reply; the machine checks the
reply and stores it in guest RAM, or retries, or reports a specific failure. A
machine can be written into the conversation and mounted from it again. Its
ancestor is ChatCPU, a smaller machine with a shell and a disk, whose programs
TRAPCPU is to run unchanged.

This directory models all of that, model-checks it with TLC and proves theorems
about it with TLAPS. Line numbers are those of the Python source. `tlc -config
X.cfg M` runs a row of section 3, `tlapm M.tla` checks a row of section 4;
`PROJECT.json` says which configuration belongs to which module, which lines each
definition translates, and how a definition would have to be changed for each
property to fail.

## 1. The system

| Component | State | Operations | Works with |
|---|---|---|---|
| Machine and trap device, `trapcpu/machine.py` | `state`, `pending`, `async_pending`, `irq_pending`, execute map, latched descriptor, budgets, `OracleStats`, nonce generator | `load`, `run`, `resume`, `fail_trap`, `execute` | calls `validate`; called by the CLI and by `mount` |
| Processor, `trapcpu/machine.py`, `isa.py` | registers, flags, RAM, ROM, stack, segment, keyboard, screen | 64 instructions, ports, interrupts, instruction fetch under W^X | runs what the assembler made |
| Wire protocol, `trapcpu/protocol.py` | none | rendering a frame, `find_reply_frames`, `validate` (ladder L0-L6), `vote` | called with every reply |
| Snapshot, `trapcpu/snapshot.py` | the transcript is the disk | `dump`, `find_snapshots`, `select`, `mount`, `simulate_eviction`, `simulate_bitrot` | reads and rebuilds a `Machine` |
| Oracle backends and faults, `trapcpu/oracle.py` | call counters, scripts | `ask` of the manual, callback, scripted, noisy, mux and fault-injecting oracles | asked by `execute` and the CLI |
| `ClaudeOracle`, `trapcpu/llm.py` | call counter | `_call` (HTTP with retries), `ask`, `_ask_independent` | an oracle backend |
| Command line, `trapcpu/cli.py` | a state file | `run`, `frame`, `resume`, `mount`, `asm`, `disasm` | drives `Machine`, `dump`, `mount`, the assembler |
| Assembler, `trapcpu/assembler.py` | symbols, segments | lexing, includes, expressions, two passes | produces the image `load` takes |
| Original ChatCPU, `cpu.py` | registers, memory, keyboard, screen, disk | boot, shell commands, assembler, `run` | ancestor of TRAPCPU |
| MiniOS, `setup.py`, `kernel.py`, `boot.py`, `shell.py`, `runtime.py` | files, a machine of its own | the installer, an assembler, `run` | a copy of part of `cpu.py` |
| Ablation, guest programs, bundler, laboratory, `bootstrap.py` | | section 7 | |

What is hard in it, and what makes each part correct:

* **Two channels and one interrupt line on one device slot.** `TRAP` suspends
  the CPU, `TRAPA` does not; a parked `WFI` holds one request under two names; a
  completion raises an interrupt that may be taken much later, or never.
  Correct: never two requests, one interrupt for each `TRAPA`, no answer
  overwritten before its handler runs.
* **The guest moves while the oracle thinks.** Between a request and its reply
  the guest may bless pages, halt, fault, spin, or ask for more. Correct: no
  device store on an executable page; a late answer does not restart a stopped
  machine; the host hands a reply to the attempt it asked about, and always gets
  control back.
* **Partial failure of a completion.** Payload, counters and descriptor are
  updated one after the other, and the last may raise. Correct: the counters
  still balance.
* **Retries of three kinds**, nested: HTTP tries in a call, calls in an attempt,
  attempts in a request. Correct: their product bounds what a request costs, the
  budget is not drawn on, no answer to one attempt serves for another.
* **Replies mixed with chatter, templates, truncation and tampering; votes over
  what is left of them.** Correct: a fault is reported by the status that names
  it; what is accepted is what the answers elect; a request quoted back is not
  taken for its reply (with the exception of section 6).
* **A disk that forgets.** Lines of a snapshot vanish without a gap or are
  mangled; a machine is dumped in the middle of a request. Correct: nothing is
  invented, losses are named, a clean report means an exact machine, the device
  comes back in a state its protocol allows.
* **An append-only conversation over many processes.** Replies come late, twice,
  or are read again; a process dies and an old copy of a snapshot is mounted.
  Correct: a retry is never completed by a reply to the attempt it replaced, and
  a request only by a reply to itself, as far as nonces tell frames apart.
* **Code in RAM.** Pages become executable and plain again under a running
  callee, under the stack, between the bytes of an instruction. Correct: code
  does not change while it is executable; every return leads back to where its
  context was entered.
* **Layout.** Segments overlap, `.ORG` goes backwards, constants are defined below
  their use and in circles, comment marks stand in strings. Correct: the image is
  what the listing shows, the four scanners of a line agree, and it does not
  matter where a constant is defined.
* **Three machines that claim one instruction set.** Correct: what the original
  assembles and runs, TRAPCPU assembles to the same bytes and runs to the same
  state, instruction by instruction; MiniOS agrees on the part it knows.

## 2. The modules

| Module | Models | Extends or uses |
|---|---|---|
| `OracleDevice` | what the device promises: one request slot | |
| `TrapMachine` | the machine and its trap device under an arbitrary guest, oracle and host; implements `OracleDevice` | instance of `OracleDevice` |
| `HostLoop` | `execute()` and the drive loops of the commands | `TrapMachine` |
| `Session` | one program's conversation over several processes | |
| `Lists` | numbers in order | |
| `Snapshot` | a transcript of dumped machines that loses and mangles lines, and mounts from it | `Lists` |
| `Replicas` | `vote()` | |
| `Wire` | frames, replies and the ladder of `validate()` | `Replicas`, `Lists` |
| `Backends` | the oracles that frame their own answers, and the fault injector | `Wire` |
| `Exchange` | one request's way over the bus, HTTP and replicas included | `Backends` |
| `Basics` | words, sparse memories, lines of source as tokens | |
| `Isa` | opcodes, widths, ports | `Basics` |
| `Assembler` | TRAPCPU's assembler, and the disassembler of `cli.py` | `Isa` |
| `Cpu` | TRAPCPU's processor, all instructions | `Assembler` |
| `Program` | from typed lines to execution with replies | `Cpu` |
| `SourceLines` | how the two old assemblers read a line | `Basics` |
| `ChatCpu` | the original machine and its assembler | `SourceLines` |
| `ChatOs` | its disk, `boot()`, and the shell's commands that change something | `ChatCpu` |
| `MiniOs` | the machine and assembler that `setup.py` installs | `SourceLines` |
| `Compat` | the original, TRAPCPU and MiniOS side by side on one source | `ChatOs`, instances of `Cpu`, `MiniOs` |
| `MCTrapMachine`, `MCHostLoop`, `MCSession`, `MCSnapshot`, `MCExchange`, `MCProgram`, `MCCompat` | small instances for TLC | |
| `Machine_proofs`, `Session_proofs`, `Lists_proofs`, `Snapshot_proofs`, `Wire_proofs`, `Exchange_proofs`, `Cpu_proofs`, `Compat_proofs` | theorems, section 4 | |

Operators marked *seeded fault* state how a plausible mistake would read next to
the definition they belong to. No definition uses them; putting one in the place
of its neighbour must make a property fail.

### TrapMachine

The state is the state of `Machine` that the trap protocol touches, under the
names of the source, plus `control` (whether the loop of `run()` is running or
the host has control) and `fuel` (what is left of the segment's cycles). Memory
is reduced to pages: what matters about a store is the page it lands on and who
did it (`wrote`). A reply is reduced to the verdict of `validate()` and the
extent of the payload. The guest program is arbitrary: at each boundary the CPU
may execute any instruction, and what a descriptor says is whatever the guest
wrote there. This is an over-approximation of every program, so what is shown
holds of every program.

| Code | Actions |
|---|---|
| `step`, `run` (453-527) | `Compute`, `Store`, `SetIen`, `Continue`, `Leave`, `LimitReached` |
| `_deliver_irq` (686) | `DeliverIrq` |
| `Hardware.write_port` (283-307) | `LatchDescriptor`, `Protect` |
| `_begin_trap`, `_begin_async`, `_read_descriptor` (543-684) | `RejectBusy`, `RejectWild`, `RejectField`, `RejectBudget`, `PublishSync`, `PublishAsync` |
| `_op_wfi` (1236) | `WaitForInterrupt` |
| `run` as the host calls it (481) | `Run` |
| `resume`, `_resume_pending` (695-729) | `ResumeRetry`, `ResumeFinish` |
| `_finish_trap`, `_finish_async`, `_wx_blocked`, `_writeback` (745-888) | `Finish`, in the order of the code |
| `fail_trap` (731) | `FailTrap` |
| `load`, `reset` (331) | `Load` |

A `CPUFault` raised inside a completion leaves `resume()` after the counters were
updated and before the request is released: `Finish` has that outcome, and counts
it in `aborted`.

### HostLoop

`HostLoop` adds the host's thread to `TrapMachine`: `command` and `at` say which
command runs and where it is, `result` is the state in the `RunResult` it holds,
`asked` the attempt it showed to an oracle. Each action is a stretch of
`execute()` between two calls of the machine, or such a call; while the machine
is in its loop the host waits (`Loop`). A `MachineError` or a `CPUFault` that
leaves the machine ends the command at `raised`, and so does an oracle that raises
`OracleExhausted` (`cmd_run` turns that into an exit code and writes no snapshot). Between two commands the machine
is parked and mounted again (`Mounted`), which loses the segment's limit.

| Code | Actions |
|---|---|
| `execute` (892-918) | `Execute`, `Ask`, `Exhausted`, `Interim`, `HandReply`, `HostLimit`, `ExecuteReturns` |
| `cmd_run`, `cmd_frame`, `_publish` | `CmdRun`, `CmdFrame`, `PublishFrame` |
| `cmd_resume`, `cmd_mount` | `CmdResume`, `Feed`, `CmdMount`, `Serve` |

### Snapshot

A frame is a sequence of lines, each with a kind and a value; a checksum is the
text it was computed over, so that it detects every change. A prompt is the lines
that `splitlines()` finds in it, and whether newlines alone end them: `dump` copies
and checksums it raw (194, 212), the parser rejoins the lines with newlines (338,
378). So a prompt with a carriage return, a form feed or another separator in it
comes back with newlines (`Asked`), and the checksum does not verify (`Crc` of other
`LineEnds`). `Frame` writes the
lines in the order of `dump`; `ReadLine` is the body of the loop of
`_parse_snapshot`, branch by branch, with the prompt mode, the memory section
and the canonical text that `SNAPCRC` is compared with; `Frames`, `Select`,
`MissingSectors`, `Restore` and `Report` are `find_snapshots`, `select`,
`_missing_sectors` and the two halves of `mount`. `Evict` may lose any line of any
frame, the markers included, which is more than `simulate_eviction` does (sector
lines only); `Rot` mangles a sector as `simulate_bitrot` does. `OneSlot` describes
the machines that can be dumped; it is the invariant `SingleChannel` of
`TrapMachine`, which is proved there.

Registers, counters, name and descriptor latch come and go as one value;
`HISTORY`, `LASTSTATUS` and dumps without ROM are left out.

### Session

`Session` is what `chatcpu frame` and repeated `chatcpu resume` do with one
program: publish, retry, complete, give up, park, mount. The conversation keeps
every frame and every reply; `Complete` may take any reply in it at any time.
`Mount` may take any snapshot ever parked (the state file or a copy of an older
one). `NextNonce` is `_next_nonce`: any nonce but that of the request in flight.
Nothing else is excluded: a nonce may repeat one of an older frame, by chance or
because a process was given the `--seed` of the one before it. So what no draw can
break, `RetrySupersedes`, is stated without a premise, and `OnlyCurrentAnswers`
has the premise that no two frames of the conversation drew the same nonce.

### Wire, Replicas, Backends, Exchange

A conversation is a sequence of lines. A line has a kind (a marker, a header key,
text), a column, and a value; a payload is a sequence of symbols, in which a line
that reads like a marker is one symbol, so that escaping is about something. The
symbol `FF` stands for the separators at which `splitlines()` ends a line and
`split("\n")` does not (carriage return, form feed, NEL, ...): `escape_reserved` cuts
at newlines (`Words` with `NL`), what reads the wire at all of them (`Split`), and
what was read is joined with newlines. A checksum is the payload it vouches for. `Wire` follows `protocol.py` rung by rung:
`escape_reserved`, the template of the request frame, `find_reply_frames` with its
fallback to unclosed frames, the parser of a body, `validate` with addressing,
status, length, checksum, schema and election; `Replicas` is `vote`: a strict
majority on length, then on each byte among those of that length.

`Backends` has the fault injector with each of its faults, as what the fault does
to the lines, and the oracles that answer with a frame of their own. `Exchange`
publishes a request, chooses a backend, an answer and a fault for each call, and
validates and retries as the machine does. Its history variables (`answers`, the
payloads that were meant; `faults`, what befell each reply; `calls`) are read by
properties only. The behaviour of `ClaudeOracle` that deserves a reader's
attention: with one call per replica (`independent`), the payload is taken out of
each sub-reply whatever the sub-reply says about its nonce, length, status or
checksum, and the combined frame is written with correct ones. Rejection by those
rungs does not exist for this backend, and with `STRICT_CRC` it cannot succeed,
because it writes no checksum. When the HTTP tries of a call are exhausted the
request ends with `RETRIES`, attempts left or not. `ManualOracle` stops reading at
the `END` of the padded template when the request is quoted back to it.

### Basics, Isa, Assembler, Cpu, Program

A line of source is a sequence of tokens: the characters a lexer looks at are
tokens of their own, longer runs of ordinary characters are one. Numbers,
escapes, code points and encodings are constants that a configuration gives. All
exceptions of an assembler are the value `Error`.

`Assembler` is the two passes: `_strip_comment`, `_split_label`, `_split_operands`,
`.INCLUDE` with its depth, `evaluate`, the segments that `.ORG` opens and the
merging of segments, constants that are resolved after pass one. `Cpu` holds the
machine in one record and has one definition per instruction or family, with
words of 16 bits, bytes of 8, the flags each instruction sets, ports, the stack at
the top of RAM, the code segment, W^X on fetch and store, and a half-done 16-bit
store where the second byte faults. `_read_descriptor` reads the request out of
memory and refuses it as the code does; a completion stores payload, terminator
and the fields of the descriptor (`WrittenBack`) before it reports in the registers
or raises the interrupt line, and a fault of one of these stores leaves the request
pending and the earlier ones made (`Finish`). What a reply is worth is an input
(`AnswerTo`): the verdicts that `validate` can give to this request, which `Exchange`
is about. `Program` types lines out of a kit, assembles, loads and runs, with
replies and give-ups at any time, also after the machine has stopped; `frames`
(contexts entered and not left) and `stores` (where instructions and completions
stored) are history.

A context ends by the return that belongs to it, or is given up: when the program
pops below where it was stacked, stores over it or has the device store over it,
or lets the stack wrap, and when
it leaves by a return of another kind. A near return does not leave the segment it
runs in, so that the segment a return must lead to is known only if no far context
was given up in between; `cs` of a frame is the set of segments it may lead to.
`ReturnsAreExact` speaks of returns by contexts that still stand. `CodeIsFrozen`
exempts one byte, the terminator that run `wx_nul` is about (`Terminator`: a NUL
behind a text that ends with its page).

### SourceLines, ChatCpu, ChatOs, MiniOs, Compat

`cpu.py` has an interpreter, an assembler, and a shell over a disk that outlives
the Python runtime. `ChatCpu` is the first two, `ChatOs` adds `boot`, the commands
that change something (`write`, `touch`, `rm`, `run`, `reset`, `cls`, `key`, `clear`), and a restart
that loses the machine and keeps the disk. `MiniOs` is the copy that `setup.py`
installs: nine instructions, no labels, no stack, a program counter that does not
wrap. `Compat` follows each program the original starts on all three. `Portable`
is the condition on the source: the original takes duplicate labels, superfluous
operands, byte operands out of range, labels that read like numbers, and treats
quotes as ordinary characters, none of which a new assembler is asked to repeat.

## 3. What is checked

| Run | Instance | Shows |
|---|---|---|
| `channel` | 2 pages, both blessable; descriptors and buffers that share and straddle them; 2 retries, budget 2, 3 traps, segments of 2 cycles | eleven properties: W^X, slot, interrupts, counters, retries, refinement of `OracleDevice` |
| `live` | 1 retry, budget 2, 3 traps, fair host; the descriptor's page stays plain | `CountersAddUp`, `LoopReturns`, `RequestCompletes` |
| `host` | 1 page, 1 retry, budget 2, `--limit` 3, latency 0 or 1, `max_traps` none or 1; every command | `AskedIsAnswered`, `NobodyLeftWaiting`, `LimitIsKept`, `CommandsFinish` |
| `session` | 4 frames, 4 nonces, 3 processes, 1 retry | `TypeOK`, `RetrySupersedes`, `OnlyCurrentAnswers` |
| `snapshot` | 2 sectors, 2 memories, 2 prompts, one with a form feed, 2 dumps, one lost or mangled line | five properties of mounts |
| `exchange` | 6 backends, 16 faults, up to 3 replicas, 2 retries, 1 HTTP retry | `FaultsAreNamed`, `AcceptedIsElected`, `MinorityIsRepaired`, `CallsAreBounded`, `RequestIsNoReply` |
| `program` | 12 kits of lines, runs of 20 instructions | `LinesReadBack`, `ImageIsListing`, `ConstantsMove`, `DisassemblyIsSource`, `ReturnsAreExact`, `CodeIsFrozen` |
| `chatcpu` | 6 kits of sessions, runs of 12 cycles | `OldProgramsAssemble`, `OldProgramsRun`, `MiniProgramsRun` |
| `wx_nul`, `counters`, `snapshot_prompt`, `exchange_quote` | | the disagreements of section 6 |

Bounds and why they are enough:

* `MaxTraps` bounds the trap instructions between two `load`s. Three allow a
  request, its completion and a request after it or an attempt to overtake it; the
  budget is two, so that `RejectBudget` is reached.
* Segments of 1 to 3 cycles let the limit strike at every place of the protocol.
  The host may call `run` again, so executions are not shortened.
* `MaxAborts = 1`: an abort leaves the request in place, so a second one repeats
  the first.
* Two pages have a buffer that straddles them, descriptors on either and on both,
  and pages that become executable between request and reply; so `channel` meets
  the completion whose writeback faults (`aborted`), and its balances hold there
  with `aborted` in them. `live` keeps the descriptor's page plain, which is what
  the balance of the tests needs; `counters` shows that it needs it.
* `host` has two requests per program, so that one is asked for while another
  completes; `max_traps = 1` is reached with a request still in flight; the limit
  of 3 differs from the default of 2 and from the latency of 1, so that a segment
  under the wrong limit shows.
* Two dumps make the choice among frames real, two sectors tell the loss of a
  sector from the loss of its memory. One loss is the promise that can be kept:
  with two, a lost `<<<ROM` and a lost `RAM>>>` (`snapshot.py:343`) make mount put
  verified RAM sectors into ROM (reported as degraded, by `SNAPCRC`).
* Two lines with a form feed between them are a prompt that changes on its way
  through a snapshot, one line is a prompt that does not.
* Four frames allow a retried request followed by another retried one; three
  processes allow to mount an old snapshot after a newer one. Four nonces can be
  all different, and any two alike; they are only compared, so the run takes them
  as symmetric.
* `exchange` enumerates a request of each mode, flag and number of replicas, and
  answers that are empty, padded, of several lines, outside the mode's alphabet,
  with markers and with other separators in them. Prompts have every marker, alone,
  after a newline, after a blank, and some of them next to a form feed. Three replicas are the fewest with a minority, and
  two the case of a tie. The constraint `FewCalls` keeps the two backends whose
  histories multiply small: `independent` with two replicas and one retry, which
  has every way in which sub-replies can disagree or fail, and `manual` with one
  retry, which has a reply left over in the stream for the next frame. The number
  of calls beyond it is covered by the theorem `CallsCorrect`.
* The kits of `program` are each about one thing: what a line may contain
  (`lexing`), where sections lie (`layout`, `overlap`), when constants are known
  (`constants`), what the disassembler sees (`listing`), how calls, callees in RAM
  and interrupts nest (`calls`; `nested` has a handler that is interrupted itself,
  `strays` drops contexts and returns by made-up ones), pages that change under stack and callee (`pages`), and where the device stores:
  a payload over the frame of a callee (`buffer`), the fields of a descriptor over
  it (`value`), a text that ends where code begins and a descriptor whose page
  becomes code (`edge`). Two or three chosen lines follow a given beginning; twenty
  instructions run the beginning and three nested contexts to their ends.
* The kits of `chatcpu`: how a line may be written (`writing`), arithmetic at the
  edges of the word and branches on equal and unequal registers (`wide`, `equal`,
  `less`), what MiniOS knows (`mini`), and what happens in a session (`session`:
  keys, two programs, a restart). Programs of up to five lines end within twelve
  cycles or loop.

The runs check for deadlock except `program` and `chatcpu`: a program may halt,
fault or come to the bound, a session may end.

**Fairness.** In `live`, `WF(LimitReached \/ Guest)`: `run()` is a loop on the
host's own thread, so while it has control it takes steps. `SF(Reply)`:
`Machine.execute` (892-918) asks the oracle for each frame it is shown and feeds
the reply or fails the trap, after at most one further segment of the guest; the
guest cannot disable `Reply` for ever, but it alternates with it, hence strong
fairness. In `host` this assumption is not needed, because the host is there:
`WF(Working)` says that a command, being one thread of one process, takes its next
step until it is done, and an oracle that is asked returns or raises. Nobody has
to type the next command, and no instruction of the guest is assumed to occur.

## 4. What is proved

For every value of the constants that satisfies the named assumptions of the
module.

`Machine_proofs`, about `TrapMachine`:

| Theorem | Statement |
|---|---|
| `TypeCorrect` | `Spec => []TypeOK` |
| `SingleChannelCorrect`, `OneInterruptCorrect` | the slot and the interrupt line |
| `CountersCorrect`, `AttemptsCorrect`, `EffortCorrect` | the balances and the retry bound |
| `WriteXorExecuteCorrect` | no guest store, payload or status on an executable page |
| `DocumentedBalance` | `CountersAddUp`, if no page of a descriptor is blessable |
| `StoppedStays`, `NothingWrittenCorrect`, `AnswerSafe` | the three action properties of the run `channel` |
| `Refinement` | `Spec => ImplementsDevice` |

The invariants of the core hold only together: `CoreInv` is the conjunction of
`SingleChannel`, `OneInterruptPerRequest`, `TrapsBalance`, `AttemptsBalance` and
`RetriesWithinBudget`. That a completion raises one interrupt more and loses
none needs `SingleChannel` (the line was low); that it moves exactly one request
from outstanding to counted needs to know that a parked machine has one request
under two names. `CoreStep` has one lemma per kind of step (local, inline,
publish, retry, finish, deliver, wait). `WriteXorExecuteCorrect` is inductive with
`TypeOK` alone: an action that stores looks at the same map it leaves.
`DocumentedBalance` adds `aborted = 0`. `StoppedStays` and `AnswerSafe` are consequences
of `SingleChannel` for one step: a machine that stopped is not in the loop, and
while the line is raised nothing is outstanding and `Busy` refuses the rest.
`Refinement` maps `CoreInv`-states to the phases of `OracleDevice` and each step to a step of it or a stutter.

The same module, about `HostLoop`: `HostCorrect` (the inductive invariant under every command),
`AskedCorrect`, `NobodyLeftCorrect`, `LimitCorrect`. The invariant `HostInv` is
`CoreInv` with what the host knows: where each command may be (`Places`), that a
command starts with a fresh machine (`StartsFresh`), that the result it holds is
the state of the machine (`ResultIsTrue`), that the request it asked about is
still the one in flight (`RequestStays`), which limit the segment has
(`SegmentLimited`: the command's, or the latency once a slow device was asked), that a guest that runs on after a reply owes nothing
(`RunsIdle`). They hold only together: `execute` decides by the result, the
machine by its state, so each needs `ResultIsTrue`, which needs the others.
Every step of a command is a step of
`TrapMachine`, a stutter or `Mounted`, so the lemmas about `TrapMachine`'s steps
are used as they stand.

`Session_proofs`, for every set of nonces and every number of retries, frames and
processes: `TypeCorrect`, `RetriesSupersede` (`RetrySupersedes`) and
`AnswersAreCurrent` (`OnlyCurrentAnswers`). The inductive invariant `FreshInv` says
that a request, in flight or in any snapshot, carries the nonce of its own frame,
that a frame has another nonce than the frame of the attempt it replaces, and that
the frame whose reply completed a request had the request's nonce. A reply that
completes a retry then has the nonce of the retry's frame, and the replaced frame
has not; and if nonces differ, the frame with that nonce is the request's own.

`Snapshot_proofs`: all five properties of the run `snapshot`, for any number of
sectors, images, dumps and lines of a prompt: `CleanMountsAreExact`,
`IntactTranscriptsMountNewest`, `RestoredSectorsStayTrue`, `LossesAreAlwaysNamed`,
`MountsKeepOneSlot`. The second says what an intact transcript is worth: the newest
machine comes back but for the separators in its prompts, and the report is clean
exactly when there were none but newlines (`EndsTell`, `RestoreExact`). The code thus
never restores another prompt silently; it reports such a machine as degraded.
Their hypothesis `OneLoss` says what the promise depends on,
and the configuration of the run satisfies it: no line of a prompt reads like the
beginning or the end of a frame; and if the conversation loses or mangles
anything, it is one line, and no line of a prompt reads like any line of a frame
(without that last condition the run `snapshot_prompt` is a counterexample; with
two losses see section 3).

* What the properties need to know of the transcript is not in it: lines carry no
  frame number, and a frame that lost its first or last line runs into its
  neighbour. The inductive invariant (`IInv`, proved in `LedgerIsKept`) therefore
  says that a *ledger can be kept*: there is an assignment of each dump to a
  stretch of lines, its generation and the one line of it that is missing or
  mangled, such that the transcript is, line for line, what those dumps wrote less
  that damage (`Ledger`); that as long as nothing is lost, generations do not fall;
  and that the machine is one that can be dumped. A dump appends an entry, a loss
  shifts the stretches behind it, a mangled sector marks one entry.
* From the ledger, `FrameParsed` and `MountsADump` find out which frames
  `find_snapshots` sees, and that each candidate is parsed out of the lines of
  one dump. An intact last frame wins `select`, also among equals.
* What one frame is parsed to comes first. `_parse_snapshot` is a fold over
  the lines, so this is an induction over data, which the theorems of the library
  do not give (they take an operator as a parameter). `Least` and `Induction` of
  `Lists_proofs` state it with sets of numbers for the claims; the claim is `Reading`, what the snapshot
  holds after each line when line r is the damaged one. `RestoreExact`,
  `WholeIsClean`, `DamageIsNoticed` and `SectorsAccounted` follow for every place
  the damage can be at: header, map, sector, brackets of a memory, requests,
  prompts, checksum, markers.

`Lists_proofs` has what the others need of sequences: parts, joins, numbers in
order (`AscendingLists`), functions that are defined from one number to the next
(`Recursion`), and what `FlattenSeq` joins (`Flattened`, `FlattenUnrolls`).

`Wire_proofs` and `Exchange_proofs` follow a reply from the oracle to the verdict:
`FaultsNamed` and `MinorityRepaired`, the properties `FaultsAreNamed` and
`MinorityIsRepaired` for every number of replicas and retries, all payloads of any
length, and every nonce.

* The inductive invariant is `Exchanged` (TLC finds no violation of it on the
  instance of `exchange` either): the request in hand is one that was made, there
  is no verdict before the request is done, and a reply on its way is what the
  injector made of what the wrapped oracle says to this frame (`InTransit`), for
  answers that this oracle can mean (`MeantInside`). The two properties relate
  the verdict to the fault and to the answers, and only the reply in transit
  links the three. What is left is one step, the receipt of a reply, and all of it is
  about the parser.
* *The reply is read as it was said.* `find_reply_frames` begins at the first
  line that opens a reply and `_parse_body` is a scan over the lines up to the one
  that ends it; both are folds, so this is induction over data, with sets of
  numbers for the claims as in `Snapshot_proofs`. `PassesAll` gives the scan once and for
  all; `ReadsBlocks` says that blocks read back as themselves if no line of a
  payload is a marker (`render_reply` does not escape payloads);
  `FindsSaid` that a whole reply does, between whatever text stands around it.
* *Each fault does to the lines what it says.* Four faults rewrite line by line
  (`Becomes`: `no_checksum`, `bad_checksum`, `bad_length`, `unterminated`), three
  change one place (`Readdresses` the nonce, `Inserts` a block more), three rewrite the payloads and leave
  their lengths and checksums (`Copies`), two wrap the text, and three are no reply of
  the wrapped oracle at all.
* *The ladder names it.* `JudgesSaid`: the verdict on a reply is the first of framing,
  block, election and capacity that objects, whatever surrounds the reply. The
  theorem then is a case for each fault (`RewritingIsNamed`, `ExtraBlockIsNamed`
  and their neighbours).
* *The vote repairs.* For `MinorityIsRepaired` the blocks differ from each other;
  each passes the ladder by itself, and `MajorityElected` (below) does the rest.

Two properties had to be stated more exactly before they could be proved. A payload
of blanks only is no usable answer: `validate` strips it, and what it then has to
decode is the empty string, which `NUM` refuses; `Usable` asks for the stripped
payload. And among the faults that nobody can notice without a checksum is not
only `bitflip` but also `wrong_mode`, when a payload holds a line that reads like the end of
its own fence: the wording goes to both sides of the fence and what is left has the
length that was declared. `AcceptedIsElected` exempts both under `DEGRADED`; TLC
has a counterexample without the second.

Of the vote itself, for any number of replicas and any payloads: what a strict
majority returned is elected (`MajorityElected`); a vote that reports nothing
repaired and nobody discarded was unanimous (`NothingHidden`); a pair is elected
only when it agrees (`PairNeverCorrects`). Two strict majorities share a replica,
so the length and each byte of the majority win, in that order.

`QuotedIsNoReply`: in a request frame, with any number of replicas and any prompt
that has no REPLY marker right behind a separator other than a newline
(`Smuggles`), no line begins a reply. `escape_reserved` cuts at newlines, the parser
at every separator, so the proof follows a line of the parser back into a piece
between newlines: it begins where the piece does, and is escaped, or behind
another separator. The lines of the template are padded, and none of the frame's
own is a marker; the parser begins nowhere else. Without the condition the run
`exchange_quote` has the counterexample.

`CallsCorrect`: one request costs at most (retries + 1) *
replicas * (HTTP retries + 1) calls, for every value of the three and without the
constraint of the run. The invariant keeps the account in parts: whole attempts
that are over, sub-calls of this attempt that are over, tries of this call.

`Cpu_proofs`: `FrozenCode`, the property `CodeIsFrozen` for every program, every
input and every reply, with the exception of the terminator that the property
names. Instructions are classified as quiet (they leave RAM and execute map alone)
and careful (what they change in RAM lies on plain pages, or they fault); pushes,
interrupt delivery, the writeback of a refused request and that of a completion are
careful, the last also when it faults half-way. The payload lies on plain pages
because `_wx_blocked` looked at the pages of all its bytes; the terminator behind it
is one byte further, and is on an executable page only if the payload ends with
its page. The only invariant it needs is that the machine keeps its fields, counts
its cycles, and that a request fits into memory (`Whole`).

`ReturnsGoBack`: the property `ReturnsAreExact`, likewise. It needs to know what
lies on the stack, which the property does not say. The inductive invariant
`ProgramInv` (`StackHoldsContexts`; TLC finds no violation of it on the program run
either) says: registers, segment and every byte of memory are in their widths
(`Typed`, for all 64 instructions and every answer of the oracle); the frames of
the contexts that were not left lie one above the other over the stack pointer, and
each one none of whose cells was stored to, by an instruction or a completion, holds the address, and a far one the
segment, it is left to (`Piling`); and the segment in which a near context may be
left contains the one in which the next context was entered, or for the innermost
one the machine's (`Settled`). The second half is what makes `RET` exact, which
takes no segment off the stack, and it is lost by a stray far return: then
`Strayed` gives up the segment of the near contexts that no far one lies above. Per instruction
there is one summary of what it does to stack pointer, segment and the bytes
above the pointer (`Effect`, proved in `InstructionEffects` from fetch to the last
store); per kind of effect one lemma that the invariant survives (`StayNests`,
`PushNests`, `PopNests`, `FarNests`, `EnterNests`). Words that run over the end of
memory are part of it: a push that does wraps the stack pointer (`PushWord`), all
frames are passed (`NoneKept`), and a context entered that way gives them up
(`Piled`). A completion is one more effect: it leaves the stack pointer alone, and every cell
it changes is in `stores`, whether it reported or faulted half-way. The assumptions
are that inputs, replies and the statuses of give-ups are of their types
(`InputsAssumption`) and that keys are bytes (`KeysAssumption`).

`Compat_proofs`: three machines on one source.

* `MiniProgramsRunAlike`, the property `MiniProgramsRun` for every text, session
  and limit of cycles. A text is followed through both assemblers line by line
  (`PassOneRuns`, `ClearGoes`, `MiniAssembles`), so the two machines start with the
  same bytes, and these are instructions of MiniOS one after the other (`Lined`):
  the original then never meets an opcode that MiniOS does not have, and beyond
  the end both read NOP. The inductive invariant `MiniInv` adds to the property that the
  machine is well typed (`Typed`: registers are words and memories bytes, through all 34
  instructions), that the program counter of MiniOS stands at the beginning of an
  instruction (`InStep`), and that a machine that runs beside another was started
  with it (`Begun`).
* `OldProgramsAssembleAlike`, the property `OldProgramsAssemble`. Both assemblers
  are taken apart until they can be compared. In a portable line a quote is only a literal
  of one character, so the scanner of TRAPCPU takes the same for a comment, a label
  and an operand as the original, which does not look at quotes (`CalmScan`,
  `Comments`, `LabelForm`, `LineParts`). Its reader of expressions then has one
  term, with the value the original gives the word (`ReadsLiteral`, `EmittedAlike`).
  The first passes are followed side by side: after every line the labels are
  the symbols, and the lines lie where the counter was (`AlikePass`, `TextsAlike`).
  As no symbol waits for another one, the rounds over the symbols change nothing
  (`ValuesAre`), and the second pass emits the same bytes into one segment that begins
  at 0 (`BytesAlike`, `CodeIsWhole`).
* `OldProgramsRunAlike`: as long as the assemblers agree on the texts on the disk,
  TRAPCPU runs what it made of an old program as the original did, which is the property
  `OldProgramsRun`. `Together` compares the two machines field by field, except the
  carry, which the original never reads and `CMP` of TRAPCPU sets; each of the 34
  instructions preserves it (`BothPerform`) or stores to an executable page and
  faults (`Faulted`), as do the fetch and the count of cycles (`BothStep`), with no
  trap in flight and the segment that of ROM. `OldProgramsStillRun` puts the two
  theorems together.
* Assumed: the limit is positive; numerals are integers and code points naturals;
  no mark of the lexers is a numeral or a capital; texts are sequences of lines and
  ports return bytes. `OldProgramsAssembleAlike` and `OldProgramsStillRun` have one
  hypothesis more, `ErrorIsAlone`: `Error`, which stands for a raised exception, is no
  integer and no function, so that no byte, sequence or record is mistaken for it.
  It is a model value in the runs. It is not an `ASSUME` because TLC cannot
  evaluate it.

Two properties had to be stated more exactly. `MiniProgramsRun` is about programs
that stay below the end of the memory (section 6). And a program is not portable
if a label of it reads like a numeral, be it malformed, or like `.INCLUDE`; and
`SameImage` compares images and not memories, so that it is also about programs that are too
long to load.

Assumed of the exchange, beside the types: a request starts with a nonce between 1
and `MaxNonce` (`_next_nonce` skips 0), there are at least two nonces, and answers
and prompts are sequences.

Only model-checked: liveness, which rests on fairness and `ENABLED`;
`AcceptedIsElected`, which unlike the two above is also about payloads that contain
markers and about what a person types (`manual`), where a reply does not
read back as it was said; and the four properties of the run `program` about the
assembler of TRAPCPU, which are about its whole grammar: quoted strings, includes,
directives and expressions that refer forward, where the portable programs
above have only literals, numerals and labels.

## 5. Hazards

`PROJECT.json` lists each hazard at its line with the properties that guard it.
Four have none, because the code does not have the property one would state; they
are described in section 6 (and the combination of replicas also in section 2).
Three have a property that states exactly how far the promise goes: a limit that a
slow device replaces (`LimitIsKept`), a frame left over at `max_traps`
(`NobodyLeftWaiting`), and nonces under a common seed (`RetrySupersedes`).

## 6. Disagreements found

With a run that exhibits the violation:

| Run | Source | What |
|---|---|---|
| `wx_nul` | `machine.py:784` | the terminator of a TEXT payload is stored past the range `_wx_blocked` looked up, possibly on an executable page |
| `counters` | `machine.py:845` | a completion is counted before its writeback, which can raise; the request stays and is counted again |
| `snapshot_prompt` | `snapshot.py:194` | a prompt with a line `<<<PENDINGPROMPT` comes back cut off, from a clean mount |
| `exchange_quote` | `protocol.py:217` | a prompt with a REPLY marker behind a carriage return or form feed is not escaped, and its request frame reads as a reply frame |

Seen while modelling and read from the code, without a run of their own:

* `WFI` parks with interrupts masked (`machine.py:1244`), where
  `docs/TRAP_PROTOCOL.md:555-557` promises a fault.
* With `--seed`, a resumed process draws the nonces of the one before it again
  (`cli.py:198`, `machine.py:534-541`): attempt 3 may have the nonce of attempt 1
  (`docs/TRAP_PROTOCOL.md:46-50`).
* `select()` takes the highest generation whatever was lost of it
  (`snapshot.py:502`), where `docs/TRAP_PROTOCOL.md:421-423` says that a damaged
  newer snapshot does not destroy an older one.
* Losing the line that closes a prompt loses both memories, with no bad sector
  reported (`snapshot.py:330`, against `docs/TRAP_PROTOCOL.md:514-515`).
* Independent replicas are combined without looking at what the sub-replies say
  of themselves (`llm.py:245`, against `docs/TRAP_PROTOCOL.md:505`).
* `cmd_frame` and `cmd_resume` publish only the frame of a suspended machine: the
  frame of a `TRAPA` is parked in the snapshot and never shown
  (`cli.py:182`, `:223`; `docs/TRAPCPU.md:326`).
* A prompt with a carriage return, form feed or another separator in it comes back
  from an undamaged snapshot with newlines, and the mount reports itself degraded
  (`snapshot.py:194`, `:338`, against `docs/TRAP_PROTOCOL.md:425-428`); what holds is
  `IntactTranscriptMountsNewest`.
* `execute(async_latency=n)` calls `run(n)`, which makes `n` the limit of every
  later segment (`machine.py:910`, against the comment at `machine.py:485-487`).
* The original assembler splits `LDIA ' '` at the blank (`cpu.py:1074`), so the
  program shown at `README.md:313` and `hello.asm` do not assemble there.
* `ls` and `disk` of `cpu.py` never list anything: `BASE` has capitals and the
  addresses it is compared with are lower-cased.
* A label that reads like a malformed numeral (`0xZZ:`, `$:`) is a label to the
  original, which looks for labels first (`cpu.py:1099`); TRAPCPU refuses the operand as a
  bad literal (`assembler.py:243`), and takes `$10` for a number.
* A line `.INCLUDE :` is a label to the original (`cpu.py:1014`); TRAPCPU looks for
  includes before labels and refuses the line for want of a name
  (`assembler.py:424-441`).
* At the end of the memory the original's program counter wraps and the program
  begins anew, up to the limit (`cpu.py:313`); that of MiniOS does not, and the
  fetch ends in an `IndexError` (`setup.py:243`).
* A key code above 255 makes a register of the original wider than its 16 bits;
  TRAPCPU masks it to a byte.

## 7. Not modelled

* The **ablation harness** compares distributions over whole runs with altered
  oracles; a model checker sees no distribution.
* The **guest programs** are data for the assembler and the machine. The idioms
  they use (handlers, callees in RAM, blessed pages) are in the kits.
* The **bundler** and the **laboratory** are build-time text processing and an
  offline experiment; **`bootstrap.py`** is generated from the package.
* Of the command line: arguments and printing. Of the oracles: transcripts and
  terminal colours. Of `ClaudeOracle`: headers, delays and the account of tokens.
* Of snapshots: `HISTORY`, `LASTSTATUS` and dumps without ROM.
* Of MiniOS: the installer's fixed files, the kernel's and the shell's dispatch
  around reading and writing a file; `runtime.py`, an earlier copy with five
  instructions.
* Of the original's shell: the commands that only print.

## 8. What could follow

The four assembler properties of the run `program` as theorems, from the lemmas of
`Compat_proofs` about the scanner and the passes; `AcceptedIsElected`, from the
lemmas of `Wire_proofs` and what a parser makes of a payload with markers in it;
`Session`'s slot as a refinement of `OracleDevice`; the guest programs
`oracle_sort` and `oracle_jit` as kits with a specification of their own.
