---------------------------- MODULE TrapMachine ----------------------------
(***************************************************************************)
(* The trap device of trapcpu/machine.py: one CPU, one oracle, and a host  *)
(* that calls run(), resume(), fail_trap() and load().                     *)
(*                                                                         *)
(* The guest program is arbitrary: at every instruction boundary the CPU   *)
(* executes some instruction, and the contents of guest RAM (hence what    *)
(* _read_descriptor finds at the latched address) are whatever the guest   *)
(* put there.  The oracle is arbitrary too: a reply is known only by the   *)
(* verdict validate() reaches on it.  What is kept exact is the control    *)
(* of the machine: the two channels, the interrupt line, the execute map,  *)
(* the retry and budget counters and the loop of run().                    *)
(***************************************************************************)
EXTENDS Integers, Sequences

CONSTANTS
  Page,          \* the 256-byte pages of RAM
  Blessable,     \* the pages the guest may mark executable
  Descriptor,    \* descriptors, each the pages its OUT fields lie on, in order
  Buffer,        \* response buffers, each the pages it covers, in order
  MAX_RETRIES,   \* protocol limit on the RETRIES field
  oracle_budget, \* published requests allowed per load()
  cycle_limit,   \* default cycle budget of a run segment
  Limits,        \* the cycle budgets the host passes to run()
  MaxTraps,      \* bound on TRAP/TRAPA instructions executed per load()
  MaxAborts,     \* bound on completions a CPUFault throws out of resume()
  None           \* no request, no descriptor

IsPageRun(s) == s \in Seq(Page) /\ s # <<>>

ASSUME PagesAssumption ==
  /\ Blessable \subseteq Page
  /\ \A d \in Descriptor : IsPageRun(d)
  /\ \A b \in Buffer : IsPageRun(b)

ASSUME CountsAssumption ==
  /\ MAX_RETRIES \in Nat
  /\ oracle_budget \in Nat
  /\ MaxTraps \in Nat /\ MaxAborts \in Nat
  /\ cycle_limit \in Limits
  /\ Limits \subseteq Nat

Channel == {"SYNC", "ASYNC"}

\* A PendingTrap.  text: the mode is TEXT and NO_NUL is not set.
Trap == [descriptor : Descriptor, buffer : Buffer, text : BOOLEAN,
         retries : 0 .. MAX_RETRIES, attempt : 1 .. MAX_RETRIES + 1,
         channel : Channel]

ASSUME NoneAssumption == None \notin Trap /\ None \notin Descriptor

VARIABLES
  state,         \* Machine.state
  control,       \* who runs: run()'s loop, or the host between two calls
  fuel,          \* cycles left in this segment (0 once run() has returned)
  segment_limit,
  pending,       \* the request the CPU is suspended on
  async_pending, \* the request in flight on the async channel
  irq_pending,
  ien,
  exec_map,      \* the executable pages
  oracle_ptr,    \* the latched descriptor
  traps_used,
  traps, attempts, ok, degraded, failed, retried,    \* OracleStats
  wrote,         \* history: the pages the last step stored into, by writer
  aborted,       \* history: completions a CPUFault threw out of resume()
  asyncIssued,   \* history: TRAPA requests published
  delivered      \* history: interrupts delivered

loopVars == <<state, control, fuel>>
deviceVars == <<pending, async_pending, irq_pending>>
statVars == <<traps, attempts, ok, degraded, failed, retried>>
historyVars == <<aborted, asyncIssued, delivered>>
vars == <<loopVars, segment_limit, deviceVars, ien, exec_map, oracle_ptr,
          traps_used, statVars, wrote, historyVars>>

-----------------------------------------------------------------------------
(***************************************************************************)
(* Memory.  guest: CPU stores; data: the oracle's payload; nul: the TEXT   *)
(* terminator; status: the descriptor's OUT fields.                        *)
(***************************************************************************)
Writer == {"guest", "data", "nul", "status"}
NoWrite == [w \in Writer |-> {}]
Wrote(w, pages) == [NoWrite EXCEPT ![w] = pages]
DeviceWrote(w) == w["data"] \cup w["nul"] \cup w["status"]

\* write8 raises CPUFault on an executable page: a run of stores reaches the
\* pages before the first executable one.
Blocked(run) == \E i \in DOMAIN run : run[i] \in exec_map
Stored(run) ==
  {run[i] : i \in {j \in DOMAIN run : \A k \in 1 .. j : run[k] \notin exec_map}}

Success == {"OK", "DEGRADED"}
Failure == {"FAIL"}    \* every other status: the machine treats them alike

\* Extents of an accepted payload in buffer b: it covers the first n pages,
\* and a terminator (position 0: none) follows it wherever there is room.
Extent(b, text) ==
  {e \in [n : 0 .. Len(b), nul : 0 .. Len(b)] :
     IF text /\ e.n > 0
     THEN e.nul \in {e.n, e.n + 1} \/ (e.nul = 0 /\ e.n = Len(b))
     ELSE e.nul = 0}

-----------------------------------------------------------------------------
Init ==
  /\ state = "READY" /\ control = "host" /\ fuel = 0
  /\ segment_limit = cycle_limit
  /\ pending = None /\ async_pending = None /\ irq_pending = 0
  /\ ien = 0
  /\ exec_map = {}
  /\ oracle_ptr = None
  /\ traps_used = 0
  /\ traps = 0 /\ attempts = 0 /\ ok = 0 /\ degraded = 0 /\ failed = 0
  /\ retried = 0
  /\ wrote = NoWrite
  /\ aborted = 0 /\ asyncIssued = 0 /\ delivered = 0

-----------------------------------------------------------------------------
(***************************************************************************)
(* The loop of run().  A pending unmasked interrupt is delivered before    *)
(* the next instruction of the same iteration.                             *)
(***************************************************************************)
\* Seeded fault: an instruction that costs nothing.
ContinueFree == UNCHANGED <<state, control, fuel>>

Continue == fuel' = fuel - 1 /\ UNCHANGED <<state, control>>
Leave(s) == state' = s /\ control' = "host" /\ fuel' = 0

LimitReached ==
  /\ control = "loop" /\ fuel = 0
  /\ Leave("LIMIT")
  /\ wrote' = NoWrite
  /\ UNCHANGED <<segment_limit, deviceVars, ien, exec_map, oracle_ptr,
                 traps_used, statVars, historyVars>>

\* The context is pushed through write8: a stack on an executable page faults.
DeliverIrq ==
  /\ control = "loop" /\ fuel > 0 /\ irq_pending = 1 /\ ien = 1
  /\ \E stack \in Page :
       \/ /\ stack \notin exec_map
          /\ wrote' = Wrote("guest", {stack})
          /\ irq_pending' = 0 /\ ien' = 0
          /\ delivered' = delivered + 1
          /\ UNCHANGED loopVars
       \/ /\ stack \in exec_map
          /\ wrote' = NoWrite
          /\ Leave("FAULT")
          /\ UNCHANGED <<irq_pending, ien, delivered>>
  /\ UNCHANGED <<segment_limit, pending, async_pending, exec_map, oracle_ptr,
                 traps_used, statVars, aborted, asyncIssued>>

Fetch == control = "loop" /\ fuel > 0 /\ ~(irq_pending = 1 /\ ien = 1)

\* ALU, moves, branches, console and keyboard ports; or a CPUFault from an
\* invalid opcode or a fetch off a non-executable page; or HLT.
Compute ==
  /\ Fetch
  /\ Continue \/ Leave("FAULT") \/ Leave("HALTED")
  /\ wrote' = NoWrite
  /\ UNCHANGED <<segment_limit, deviceVars, ien, exec_map, oracle_ptr,
                 traps_used, statVars, historyVars>>

Store(p) ==
  /\ Fetch
  /\ wrote' = Wrote("guest", {p} \ exec_map)
  /\ IF p \in exec_map THEN Leave("FAULT") ELSE Continue
  /\ UNCHANGED <<segment_limit, deviceVars, ien, exec_map, oracle_ptr,
                 traps_used, statVars, historyVars>>

\* CLI masks; STI and IRET unmask.
SetIen(b) ==
  /\ Fetch /\ Continue
  /\ ien' = b
  /\ wrote' = NoWrite
  /\ UNCHANGED <<segment_limit, deviceVars, exec_map, oracle_ptr, traps_used,
                 statVars, historyVars>>

\* OUTP to ports 0x30-0x37.
LatchDescriptor(d) ==
  /\ Fetch /\ Continue
  /\ oracle_ptr' = d
  /\ wrote' = NoWrite
  /\ UNCHANGED <<segment_limit, deviceVars, ien, exec_map, traps_used,
                 statVars, historyVars>>

\* OUTP to PORT_MPROT.
Protect(p, executable) ==
  /\ Fetch /\ Continue
  /\ exec_map' = IF executable THEN exec_map \cup {p} ELSE exec_map \ {p}
  /\ wrote' = NoWrite
  /\ UNCHANGED <<segment_limit, deviceVars, ien, oracle_ptr, traps_used,
                 statVars, historyVars>>

-----------------------------------------------------------------------------
(***************************************************************************)
(* TRAP and TRAPA.                                                         *)
(***************************************************************************)
\* Seeded faults: each half of the check forgotten.
BusyInFlight == async_pending # None
BusyRaised == irq_pending = 1

Busy == async_pending # None \/ irq_pending = 1

\* record_attempt() and the outcome counters.  Seeded fault: a DEGRADED answer
\* falls between ok and failed.
TallyPlain(status) ==
  /\ attempts' = attempts + 1
  /\ ok' = IF status = "OK" THEN ok + 1 ELSE ok
  /\ failed' = IF status \in Success THEN failed ELSE failed + 1
  /\ UNCHANGED degraded

Tally(status) ==
  /\ attempts' = attempts + 1
  /\ ok' = IF status = "OK" THEN ok + 1 ELSE ok
  /\ degraded' = IF status = "DEGRADED" THEN degraded + 1 ELSE degraded
  /\ failed' = IF status \in Success THEN failed ELSE failed + 1

Issue == Fetch /\ traps < MaxTraps

\* _complete(): the instruction completes at once, its status going to A and,
\* when d is a descriptor whose magic and version checked out, to d.
CompleteInline(d) ==
  /\ traps' = traps + 1
  /\ Tally("FAIL")
  /\ wrote' = IF d = None THEN NoWrite ELSE Wrote("status", Stored(d))
  /\ IF d # None /\ Blocked(d) THEN Leave("FAULT") ELSE Continue
  /\ UNCHANGED <<segment_limit, deviceVars, ien, exec_map, oracle_ptr,
                 traps_used, retried, historyVars>>

RejectBusy == Issue /\ Busy /\ CompleteInline(None)

\* Nothing latched, or no descriptor at the latched address.
RejectWild == Issue /\ ~Busy /\ CompleteInline(None)

\* A descriptor with a field out of bounds.
RejectField ==
  Issue /\ ~Busy /\ oracle_ptr # None /\ CompleteInline(oracle_ptr)

RejectBudget ==
  /\ Issue /\ ~Busy /\ oracle_ptr # None
  /\ traps_used >= oracle_budget
  /\ CompleteInline(oracle_ptr)

Requests(channel) ==
  {t \in Trap : t.descriptor = oracle_ptr /\ t.attempt = 1
                /\ t.channel = channel}

Publish(t) ==
  /\ Issue /\ ~Busy
  /\ traps_used < oracle_budget
  /\ traps_used' = traps_used + 1
  /\ traps' = traps + 1
  /\ wrote' = NoWrite
  /\ UNCHANGED <<segment_limit, irq_pending, ien, exec_map, oracle_ptr,
                 attempts, ok, degraded, failed, retried, aborted, delivered>>

\* TRAP suspends the CPU.
PublishSync ==
  \E t \in Requests("SYNC") :
    /\ Publish(t)
    /\ pending' = t
    /\ Leave("TRAPPED")
    /\ UNCHANGED <<async_pending, asyncIssued>>

\* TRAPA unwinds the loop so that the host sees the frame; the CPU stays
\* runnable.
PublishAsync ==
  \E t \in Requests("ASYNC") :
    /\ Publish(t)
    /\ async_pending' = t
    /\ Leave("RUNNING")
    /\ asyncIssued' = asyncIssued + 1
    /\ UNCHANGED pending

\* WFI.  Fetch rules out a deliverable interrupt, so _op_wfi's own call of
\* _deliver_irq is never reached.
WaitForInterrupt ==
  /\ Fetch
  /\ IF async_pending # None /\ irq_pending = 0
     THEN Leave("TRAPPED") /\ pending' = async_pending
     ELSE Leave("FAULT") /\ UNCHANGED pending
  /\ wrote' = NoWrite
  /\ UNCHANGED <<segment_limit, async_pending, irq_pending, ien, exec_map,
                 oracle_ptr, traps_used, statVars, historyVars>>

-----------------------------------------------------------------------------
(***************************************************************************)
(* The host.  It has control whenever the loop is not running.             *)
(***************************************************************************)
Run(limit) ==
  /\ control = "host"
  /\ state \notin {"HALTED", "FAULT", "TRAPPED"}
  /\ state' = "RUNNING" /\ control' = "loop" /\ fuel' = limit
  /\ segment_limit' = limit
  /\ wrote' = NoWrite
  /\ UNCHANGED <<deviceVars, ien, exec_map, oracle_ptr, traps_used, statVars,
                 historyVars>>

\* What run(segment_limit) does at the end of a completion: nothing on a
\* machine that has stopped, otherwise a new segment.  Seeded fault: the check
\* that the machine has stopped is missing.
RunOnAlways == state' = "RUNNING" /\ control' = "loop" /\ fuel' = segment_limit

\* Seeded fault: the new segment gets the default budget.
RunOnDefault ==
  IF state \in {"HALTED", "FAULT"}
  THEN UNCHANGED loopVars
  ELSE state' = "RUNNING" /\ control' = "loop" /\ fuel' = cycle_limit

RunOn ==
  IF state \in {"HALTED", "FAULT"}
  THEN UNCHANGED loopVars
  ELSE state' = "RUNNING" /\ control' = "loop" /\ fuel' = segment_limit

\* Who resume() and fail_trap() answer.  Seeded fault: only a suspended CPU.
AwaitingSync == control = "host" /\ state = "TRAPPED" /\ pending # None

Awaiting ==
  control = "host" /\ (async_pending # None \/ (state = "TRAPPED" /\ pending # None))
InFlight == IF async_pending # None THEN async_pending ELSE pending

Release(t) ==
  /\ pending' = IF pending = t THEN None ELSE pending
  /\ IF t.channel = "ASYNC"
     THEN async_pending' = None /\ irq_pending' = 1
     ELSE UNCHANGED <<async_pending, irq_pending>>
  /\ RunOn

\* _wx_blocked.  Seeded fault: only the buffer's first page is looked up.
DeniedFirstPage(t, verdict, e) ==
  verdict \in Success /\ e.n > 0 /\ t.buffer[1] \in exec_map

Denied(t, verdict, e) ==
  verdict \in Success /\ \E i \in 1 .. e.n : t.buffer[i] \in exec_map

\* What is stored of k pages.  Seeded fault: also when the reply failed.
PayloadAlways(status, k) == k

Payload(status, k) == IF status \in Success THEN k ELSE 0

\* _finish_trap and _finish_async: the verdict and the payload extent e reach
\* RAM, the counters and the descriptor, in this order; a descriptor on an
\* executable page throws a CPUFault at the host before the request is
\* released.
Finish(t, verdict, e) ==
  LET status == IF Denied(t, verdict, e) THEN "WX" ELSE verdict
      n == Payload(status, e.n)
      nul == Payload(status, e.nul)
  IN /\ Tally(status)
     /\ wrote' = [w \in Writer |->
                    CASE w = "data" -> {t.buffer[i] : i \in 1 .. n}
                      [] w = "nul" -> IF nul = 0 THEN {} ELSE {t.buffer[nul]}
                      [] w = "status" -> Stored(t.descriptor)
                      [] OTHER -> {}]
     /\ IF Blocked(t.descriptor)
        THEN /\ aborted < MaxAborts
             /\ aborted' = aborted + 1
             /\ UNCHANGED <<loopVars, deviceVars>>
        ELSE Release(t) /\ UNCHANGED aborted
     /\ UNCHANGED <<segment_limit, ien, exec_map, oracle_ptr, traps_used,
                    traps, retried, asyncIssued, delivered>>

\* Seeded fault: one retry too many.
MayRetryOnce(t) == t.attempt <= t.retries + 1

MayRetry(t) == t.attempt <= t.retries

\* resume() with a reply that fails validation while retries are left.  A
\* parked machine holds one request under both names.
ResumeRetry ==
  LET t == InFlight
      again == [t EXCEPT !.attempt = @ + 1]
  IN /\ Awaiting
     /\ MayRetry(t)
     /\ pending' = IF pending = t THEN again ELSE pending
     /\ async_pending' = IF async_pending = t THEN again ELSE async_pending
     /\ attempts' = attempts + 1
     /\ retried' = retried + 1
     /\ wrote' = NoWrite
     /\ UNCHANGED <<loopVars, segment_limit, irq_pending, ien, exec_map,
                    oracle_ptr, traps_used, traps, ok, degraded, failed,
                    historyVars>>

\* resume() with a reply that passes, or that fails with no retry left.
ResumeFinish ==
  LET t == InFlight
  IN /\ Awaiting
     /\ \E verdict \in Success \cup Failure, e \in Extent(t.buffer, t.text) :
          /\ verdict \in Success \/ ~MayRetry(t)
          /\ Finish(t, verdict, e)

FailTrap ==
  LET t == InFlight
  IN Awaiting /\ Finish(t, "FAIL", [n |-> 0, nul |-> 0])

\* load(program): reset() and a new image.
Load ==
  /\ control = "host"
  /\ state' = "READY" /\ control' = "host" /\ fuel' = 0
  /\ segment_limit' = cycle_limit
  /\ pending' = None /\ async_pending' = None /\ irq_pending' = 0
  /\ ien' = 0
  /\ exec_map' = {}
  /\ oracle_ptr' = None
  /\ traps_used' = 0
  /\ traps' = 0 /\ attempts' = 0 /\ ok' = 0 /\ degraded' = 0 /\ failed' = 0
  /\ retried' = 0
  /\ wrote' = NoWrite
  /\ aborted' = 0 /\ asyncIssued' = 0 /\ delivered' = 0

-----------------------------------------------------------------------------
Guest ==
  \/ DeliverIrq \/ Compute \/ WaitForInterrupt
  \/ \E p \in Page : Store(p)
  \/ \E b \in {0, 1} : SetIen(b)
  \/ \E d \in Descriptor : LatchDescriptor(d)
  \/ \E p \in Blessable, b \in BOOLEAN : Protect(p, b)
  \/ RejectBusy \/ RejectWild \/ RejectField \/ RejectBudget
  \/ PublishSync \/ PublishAsync

Reply == ResumeRetry \/ ResumeFinish \/ FailTrap

Next ==
  \/ LimitReached
  \/ Guest
  \/ \E limit \in Limits : Run(limit)
  \/ Reply
  \/ Load

Spec == Init /\ [][Next]_vars

(***************************************************************************)
(* Fairness.  run() is a loop on the host's own thread: while it runs, it  *)
(* takes steps.  Machine.execute() answers every frame it is shown, after  *)
(* at most one more segment of the guest: whenever the host keeps getting  *)
(* control with a request in flight, it keeps answering.                   *)
(***************************************************************************)
Fairness == WF_vars(LimitReached \/ Guest) /\ SF_vars(Reply)
FairSpec == Spec /\ Fairness

-----------------------------------------------------------------------------
(***************************************************************************)
(* Properties.                                                             *)
(***************************************************************************)
One(b) == IF b THEN 1 ELSE 0

\* Requests published and not yet answered (a parked machine holds one under
\* two names).
Outstanding == One(pending # None \/ async_pending # None)

\* Every variable has its type; counters are natural numbers and the budget
\* of calls is respected.
TypeOK ==
  /\ state \in {"READY", "RUNNING", "TRAPPED", "HALTED", "LIMIT", "FAULT"}
  /\ control \in {"host", "loop"}
  /\ fuel \in Nat
  /\ segment_limit \in Limits
  /\ pending \in Trap \cup {None}
  /\ async_pending \in Trap \cup {None}
  /\ irq_pending \in {0, 1}
  /\ ien \in {0, 1}
  /\ exec_map \in SUBSET Page
  /\ oracle_ptr \in Descriptor \cup {None}
  /\ traps_used \in 0 .. oracle_budget
  /\ traps \in Nat /\ attempts \in Nat /\ ok \in Nat /\ degraded \in Nat
  /\ failed \in Nat /\ retried \in Nat
  /\ wrote \in [Writer -> SUBSET Page]
  /\ aborted \in Nat /\ asyncIssued \in Nat /\ delivered \in Nat

\* The device has one channel of depth one: a synchronous request, an
\* asynchronous request in flight and an undelivered completion exclude each
\* other (the BUSY checks of _begin_trap and _begin_async), and a suspended
\* CPU always has the request it waits for, the parked one being the one in
\* flight.
SingleChannel ==
  /\ irq_pending = 1 => async_pending = None /\ pending = None
  /\ (async_pending # None /\ pending # None) => pending = async_pending
  /\ pending # None /\ pending.channel = "ASYNC" => async_pending # None
  /\ async_pending # None => async_pending.channel = "ASYNC"
  /\ state = "TRAPPED" <=> pending # None
  /\ control = "loop" => state = "RUNNING"

\* Every TRAPA that published a request is in flight, or its completion waits
\* on the interrupt line, or it was delivered: no completion is lost to or
\* coalesced with another one, and none interrupts twice.
OneInterruptPerRequest ==
  asyncIssued = delivered + irq_pending + One(async_pending # None)

\* OracleStats balances: every trap ends in exactly one of ok, degraded and
\* failed or is outstanding, up to the completions a CPUFault aborted, which
\* were counted and left their request outstanding.
TrapsBalance == traps + aborted = ok + degraded + failed + Outstanding

\* Every reply, host failure and inline completion is one attempt, and ends a
\* trap or is a retry.
AttemptsBalance == attempts = ok + degraded + failed + retried

\* RETRIES bounds the effort inside a call and the budget bounds the calls: no
\* request has more than RETRIES + 1 attempts, and the retries spent, with
\* those the outstanding request may still claim, never exceed what the
\* published requests were granted together.
RetriesWithinBudget ==
  /\ Outstanding = 1 => InFlight.attempt <= InFlight.retries + 1
  /\ retried + (IF Outstanding = 1 THEN MAX_RETRIES + 1 - InFlight.attempt ELSE 0)
       <= MAX_RETRIES * traps_used

\* W^X: no guest store, oracle payload or descriptor writeback lands on an
\* executable page.  (The TEXT terminator is not covered: NulStaysOffCode.)
WriteXorExecute ==
  \A w \in Writer \ {"nul"} : wrote[w] \cap exec_map = {}

\* The same of the terminator that follows a TEXT payload.
NulStaysOffCode == wrote["nul"] \cap exec_map = {}

\* test_counters_add_up: after any run, traps = ok + degraded + failed, plus
\* the request the machine is still waiting on.
CountersAddUp == traps = ok + degraded + failed + Outstanding

\* From its completion until the handler is entered, an asynchronous answer
\* is safe from the device: neither its buffer nor its descriptor is written.
AnswerSafeUntilHandler ==
  [][irq_pending = 1 /\ irq_pending' = 1 => DeviceWrote(wrote') = {}]_vars

\* A step that counts a failed trap writes nothing to a response buffer.
NothingWrittenUnlessSuccess ==
  [][failed' > failed => wrote'["data"] = {} /\ wrote'["nul"] = {}]_vars

\* A machine that halted or faulted stays so until it is reloaded: a late
\* answer is recorded but never restarts it.
StoppedStaysStopped ==
  [][(state \in {"HALTED", "FAULT"}) => (state' \in {state, "READY"})]_vars

\* run() always comes back to the host, whatever the guest program does.
LoopReturns == control = "loop" ~> control = "host"

\* A published request is eventually answered, or its machine has stopped for
\* good: retries are bounded and no guest can keep the host from replying.
RequestCompletes ==
  Outstanding = 1 ~> Outstanding = 0 \/ state \in {"HALTED", "FAULT"}

-----------------------------------------------------------------------------
(***************************************************************************)
(* The machine implements OracleDevice.                                    *)
(***************************************************************************)
devicePhase ==
  IF async_pending # None THEN "async"
  ELSE IF pending # None THEN "sync"
  ELSE IF irq_pending = 1 THEN "raised" ELSE "idle"

deviceTries == IF devicePhase \in {"async", "sync"} THEN InFlight.attempt ELSE 0

Device ==
  INSTANCE OracleDevice
    WITH MaxRetries <- MAX_RETRIES, Budget <- oracle_budget,
         phase <- devicePhase, tries <- deviceTries, calls <- traps_used

\* Guests see a device with one slot: publish, retry, answer, interrupt, in
\* this order and once each, whatever the host and the guest interleave.
ImplementsDevice == Device!Spec

=============================================================================
