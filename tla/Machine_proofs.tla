--------------------------- MODULE Machine_proofs ---------------------------
(***************************************************************************)
(* Theorems about TrapMachine, the device and its one slot, and about      *)
(* HostLoop, which drives it: for every guest program, every latency,      *)
(* every number of retries and every limit.                                *)
(***************************************************************************)
EXTENDS HostLoop, TLAPS

-----------------------------------------------------------------------------
(***************************************************************************)
(* The machine and its trap device.                                        *)
(***************************************************************************)

\* A run of stores that starts in RAM stays on RAM's pages and off the
\* executable ones (write8).
LEMMA StoredPages ==
  ASSUME NEW run \in Seq(Page)
  PROVE  Stored(run) \in SUBSET Page /\ Stored(run) \cap exec_map = {}
<1>1. ASSUME NEW i \in DOMAIN run, \A k \in 1 .. i : run[k] \notin exec_map
      PROVE  run[i] \in Page /\ run[i] \notin exec_map
  BY <1>1
<1>2. QED
  BY <1>1 DEF Stored

\* What the histories of a step's stores look like.
LEMMA WroteType ==
  ASSUME NEW w \in Writer, NEW pages \in SUBSET Page
  PROVE  /\ NoWrite \in [Writer -> SUBSET Page]
         /\ Wrote(w, pages) \in [Writer -> SUBSET Page]
BY DEF NoWrite, Wrote, Writer

\* Records of constants: what the assumptions give about one request.
LEMMA TrapFields ==
  ASSUME NEW t \in Trap
  PROVE  /\ t # None
         /\ t.descriptor \in Seq(Page) /\ t.descriptor \in Descriptor
         /\ t.buffer \in Seq(Page)
         /\ t.retries \in 0 .. MAX_RETRIES /\ t.retries \in Nat
         /\ t.attempt \in 1 .. MAX_RETRIES + 1 /\ t.attempt \in Nat
         /\ t.channel \in Channel
         /\ MAX_RETRIES \in Nat
BY PagesAssumption, CountsAssumption, NoneAssumption DEF Trap, IsPageRun

\* A retried request is the same request with one more attempt.
LEMMA RetryType ==
  ASSUME NEW t \in Trap, t.attempt <= t.retries
  PROVE  /\ [t EXCEPT !.attempt = @ + 1] \in Trap
         /\ [t EXCEPT !.attempt = @ + 1].attempt = t.attempt + 1
         /\ [t EXCEPT !.attempt = @ + 1].retries = t.retries
         /\ [t EXCEPT !.attempt = @ + 1].channel = t.channel
<1>1. t.attempt + 1 \in 1 .. MAX_RETRIES + 1
  BY TrapFields
<1>2. QED
  BY <1>1 DEF Trap

-----------------------------------------------------------------------------
(***************************************************************************)
(* Types.                                                                  *)
(***************************************************************************)

\* The initial state, and the state load() returns to, is well typed.
LEMMA InitType == Init => TypeOK
BY CountsAssumption, WroteType
DEF Init, TypeOK, Writer, NoWrite

\* The instructions that reach neither channel keep the types.
LEMMA LocalType ==
  TypeOK /\ (\/ LimitReached \/ Compute
             \/ \E p \in Page : Store(p)
             \/ \E b \in {0, 1} : SetIen(b)
             \/ \E d \in Descriptor : LatchDescriptor(d)
             \/ \E p \in Blessable, b \in BOOLEAN : Protect(p, b)
             \/ \E steps \in Limits : Run(steps))
  => TypeOK'
<1> SUFFICES ASSUME TypeOK PROVE
      (\/ LimitReached \/ Compute
       \/ \E p \in Page : Store(p)
       \/ \E b \in {0, 1} : SetIen(b)
       \/ \E d \in Descriptor : LatchDescriptor(d)
       \/ \E p \in Blessable, b \in BOOLEAN : Protect(p, b)
       \/ \E steps \in Limits : Run(steps)) => TypeOK'
  OBVIOUS
<1> USE DEF TypeOK, loopVars, deviceVars, statVars, historyVars
<1>0. NoWrite \in [Writer -> SUBSET Page]
  BY DEF NoWrite
<1>1. CASE LimitReached
  BY <1>1, <1>0 DEF LimitReached, Leave
<1>2. CASE Compute
  BY <1>2, <1>0 DEF Compute, Fetch, Continue, Leave
<1>3. ASSUME NEW p \in Page, Store(p) PROVE TypeOK'
  <2>1. wrote' \in [Writer -> SUBSET Page]
    BY <1>3, WroteType DEF Store, Writer
  <2>2. /\ state' \in {"READY", "RUNNING", "TRAPPED", "HALTED", "LIMIT", "FAULT"}
        /\ control' \in {"host", "loop"} /\ fuel' \in Nat
    BY <1>3 DEF Store, Fetch, Continue, Leave
  <2>3. QED
    BY <1>3, <2>1, <2>2 DEF Store
<1>4. ASSUME NEW b \in {0, 1}, SetIen(b) PROVE TypeOK'
  BY <1>4, <1>0 DEF SetIen, Fetch, Continue
<1>5. ASSUME NEW d \in Descriptor, LatchDescriptor(d) PROVE TypeOK'
  BY <1>5, <1>0 DEF LatchDescriptor, Fetch, Continue
<1>6. ASSUME NEW p \in Blessable, NEW b \in BOOLEAN, Protect(p, b) PROVE TypeOK'
  BY <1>6, <1>0, PagesAssumption DEF Protect, Fetch, Continue
<1>7. ASSUME NEW steps \in Limits, Run(steps) PROVE TypeOK'
  BY <1>7, <1>0, CountsAssumption DEF Run
<1>8. QED
  BY <1>1, <1>2, <1>3, <1>4, <1>5, <1>6, <1>7

\* An inline completion keeps the types.
LEMMA InlineType ==
  ASSUME TypeOK, Fetch, NEW d \in Descriptor \cup {None}, CompleteInline(d)
  PROVE  TypeOK'
<1>1. wrote' \in [Writer -> SUBSET Page]
  <2>1. CASE d = None
    BY <2>1 DEF CompleteInline, Tally, NoWrite
  <2>2. CASE d # None
    <3>1. d \in Seq(Page)
      BY <2>2, PagesAssumption DEF IsPageRun
    <3>2. Stored(d) \in SUBSET Page
      BY <3>1, StoredPages
    <3>3. wrote' = Wrote("status", Stored(d))
      BY <2>2 DEF CompleteInline, Tally
    <3>4. QED
      BY <3>2, <3>3, WroteType DEF Writer
  <2>3. QED
    BY <2>1, <2>2
<1>2. fuel' \in Nat /\ control' \in {"host", "loop"}
      /\ state' \in {"READY", "RUNNING", "TRAPPED", "HALTED", "LIMIT", "FAULT"}
  <2>1. Leave("FAULT") \/ Continue
    BY DEF CompleteInline, Tally
  <2>2. QED
    BY <2>1 DEF Leave, Continue, TypeOK, Fetch
<1>3. QED
  BY <1>1, <1>2 DEF CompleteInline, Tally, TypeOK, deviceVars, historyVars

\* A completion keeps the types.
LEMMA FinishType ==
  ASSUME TypeOK, NEW t \in Trap,
         NEW verdict \in Success \cup Failure,
         NEW e \in [n : 0 .. Len(t.buffer), nul : 0 .. Len(t.buffer)],
         Finish(t, verdict, e)
  PROVE  TypeOK'
<1> DEFINE status == IF Denied(t, verdict, e) THEN "WX" ELSE verdict
           n == Payload(status, e.n)
           nul == Payload(status, e.nul)
<1> t.buffer \in Seq(Page) /\ t.descriptor \in Seq(Page)
  BY TrapFields
<1>1. wrote' = [w \in Writer |->
                    CASE w = "data" -> {t.buffer[i] : i \in 1 .. n}
                      [] w = "nul" -> IF nul = 0 THEN {} ELSE {t.buffer[nul]}
                      [] w = "status" -> Stored(t.descriptor)
                      [] OTHER -> {}]
  BY DEF Finish, Tally
<1>2. n \in 0 .. Len(t.buffer) /\ nul \in 0 .. Len(t.buffer)
  BY DEF Payload
<1>a. /\ ok' = IF status = "OK" THEN ok + 1 ELSE ok
      /\ degraded' = IF status = "DEGRADED" THEN degraded + 1 ELSE degraded
      /\ failed' = IF status \in Success THEN failed ELSE failed + 1
      /\ attempts' = attempts + 1
  BY DEF Finish, Tally
<1> HIDE DEF n, nul, status
<1>3. {t.buffer[i] : i \in 1 .. n} \in SUBSET Page
  BY <1>2
<1>4. (IF nul = 0 THEN {} ELSE {t.buffer[nul]}) \in SUBSET Page
  BY <1>2
<1>5. Stored(t.descriptor) \in SUBSET Page
  BY StoredPages
<1>6. wrote' \in [Writer -> SUBSET Page]
  BY <1>1, <1>3, <1>4, <1>5 DEF Writer
<1>7. /\ attempts' \in Nat /\ ok' \in Nat /\ degraded' \in Nat
      /\ failed' \in Nat
  BY <1>a DEF TypeOK
<1>8. aborted' \in Nat
  <2>1. aborted' = aborted + 1 \/ aborted' = aborted
    BY DEF Finish, Tally
  <2>2. QED
    BY <2>1 DEF TypeOK
<1>9. /\ state' \in {"READY", "RUNNING", "TRAPPED", "HALTED", "LIMIT", "FAULT"}
      /\ control' \in {"host", "loop"} /\ fuel' \in Nat
      /\ pending' \in Trap \cup {None}
      /\ async_pending' \in Trap \cup {None}
      /\ irq_pending' \in {0, 1}
  BY CountsAssumption
  DEF Finish, Tally, Release, RunOn, TypeOK, loopVars, deviceVars
<1>10. QED
  BY <1>6, <1>7, <1>8, <1>9 DEF Finish, Tally, TypeOK

\* Whoever holds a machine that awaits a reply holds a request.
LEMMA InFlightType ==
  ASSUME TypeOK, Awaiting
  PROVE  InFlight \in Trap
BY NoneAssumption DEF TypeOK, Awaiting, InFlight

\* Every step keeps the types.
LEMMA TypeStep == TypeOK /\ [Next]_vars => TypeOK'
<1> SUFFICES ASSUME TypeOK, [Next]_vars PROVE TypeOK'
  OBVIOUS
<1>0. NoWrite \in [Writer -> SUBSET Page]
  BY DEF NoWrite
<1>1. ASSUME \/ LimitReached \/ Compute
             \/ \E p \in Page : Store(p)
             \/ \E b \in {0, 1} : SetIen(b)
             \/ \E d \in Descriptor : LatchDescriptor(d)
             \/ \E p \in Blessable, b \in BOOLEAN : Protect(p, b)
             \/ \E steps \in Limits : Run(steps)
      PROVE  TypeOK'
  BY <1>1, LocalType
<1>2. CASE DeliverIrq
  <2>1. PICK stack \in Page :
          \/ /\ stack \notin exec_map
             /\ wrote' = Wrote("guest", {stack})
             /\ irq_pending' = 0 /\ ien' = 0
             /\ delivered' = delivered + 1
             /\ UNCHANGED loopVars
          \/ /\ stack \in exec_map
             /\ wrote' = NoWrite
             /\ Leave("FAULT")
             /\ UNCHANGED <<irq_pending, ien, delivered>>
    BY <1>2 DEF DeliverIrq
  <2>2. Wrote("guest", {stack}) \in [Writer -> SUBSET Page]
    BY WroteType DEF Writer
  <2>3. /\ wrote' \in [Writer -> SUBSET Page]
        /\ state' \in {"READY", "RUNNING", "TRAPPED", "HALTED", "LIMIT", "FAULT"}
        /\ control' \in {"host", "loop"} /\ fuel' \in Nat
        /\ irq_pending' \in {0, 1} /\ ien' \in {0, 1} /\ delivered' \in Nat
    <3>1. CASE stack \notin exec_map
      <4>1. wrote' \in [Writer -> SUBSET Page]
        BY <2>1, <2>2, <3>1
      <4>2. irq_pending' \in {0, 1} /\ ien' \in {0, 1}
        BY <2>1, <3>1
      <4>3. delivered' \in Nat
        BY <2>1, <3>1 DEF TypeOK
      <4>4. UNCHANGED loopVars
        BY <2>1, <3>1
      <4>5. QED
        BY <4>1, <4>2, <4>3, <4>4 DEF TypeOK, loopVars
    <3>2. CASE stack \in exec_map
      BY <1>0, <2>1, <3>2 DEF TypeOK, Leave
    <3>3. QED
      BY <3>1, <3>2
  <2>4. QED
    BY <1>2, <2>3 DEF DeliverIrq, TypeOK, statVars
<1>3. CASE WaitForInterrupt
  BY <1>0, <1>3
  DEF WaitForInterrupt, Leave, TypeOK, statVars, historyVars
<1>4. CASE RejectBusy \/ RejectWild
  BY <1>4, InlineType DEF RejectBusy, RejectWild, Issue
<1>5. CASE RejectField \/ RejectBudget
  <2>1. oracle_ptr \in Descriptor \cup {None}
    BY DEF TypeOK
  <2>2. QED
    BY <1>5, <2>1, InlineType DEF RejectField, RejectBudget, Issue
<1>6. CASE PublishSync
  <2>1. PICK t \in Requests("SYNC") :
          /\ Publish(t) /\ pending' = t /\ Leave("TRAPPED")
          /\ UNCHANGED <<async_pending, asyncIssued>>
    BY <1>6 DEF PublishSync
  <2>2. t \in Trap
    BY DEF Requests
  <2>3. traps_used' \in 0 .. oracle_budget
    BY <2>1, CountsAssumption DEF Publish, TypeOK
  <2>4. QED
    BY <1>0, <2>1, <2>2, <2>3 DEF Publish, Leave, TypeOK
<1>7. CASE PublishAsync
  <2>1. PICK t \in Requests("ASYNC") :
          /\ Publish(t) /\ async_pending' = t /\ Leave("RUNNING")
          /\ asyncIssued' = asyncIssued + 1 /\ UNCHANGED pending
    BY <1>7 DEF PublishAsync
  <2>2. t \in Trap
    BY DEF Requests
  <2>3. traps_used' \in 0 .. oracle_budget
    BY <2>1, CountsAssumption DEF Publish, TypeOK
  <2>4. QED
    BY <1>0, <2>1, <2>2, <2>3 DEF Publish, Leave, TypeOK
<1>8. CASE ResumeRetry
  <2>1. InFlight \in Trap /\ InFlight.attempt <= InFlight.retries
    BY <1>8, InFlightType DEF ResumeRetry, MayRetry
  <2>2. [InFlight EXCEPT !.attempt = @ + 1] \in Trap
    BY <2>1, RetryType
  <2>3. QED
    BY <1>0, <1>8, <2>2
    DEF ResumeRetry, MayRetry, TypeOK, loopVars, historyVars
<1>9. CASE ResumeFinish
  <2>1. InFlight \in Trap
    BY <1>9, InFlightType DEF ResumeFinish, MayRetry
  <2>2. PICK verdict \in Success \cup Failure,
             e \in Extent(InFlight.buffer, InFlight.text) :
               Finish(InFlight, verdict, e)
    BY <1>9 DEF ResumeFinish, MayRetry
  <2>3. e \in [n : 0 .. Len(InFlight.buffer), nul : 0 .. Len(InFlight.buffer)]
    BY DEF Extent
  <2>4. QED
    BY <2>1, <2>2, <2>3, FinishType
<1>10. CASE FailTrap
  <2>1. InFlight \in Trap
    BY <1>10, InFlightType DEF FailTrap
  <2>2. Len(InFlight.buffer) \in Nat
    BY <2>1, TrapFields
  <2>3. [n |-> 0, nul |-> 0]
          \in [n : 0 .. Len(InFlight.buffer), nul : 0 .. Len(InFlight.buffer)]
    BY <2>2
  <2>4. "FAIL" \in Success \cup Failure
    BY DEF Failure
  <2>5. QED
    BY <1>10, <2>1, <2>3, <2>4, FinishType DEF FailTrap
<1>11. CASE Load
  BY <1>0, <1>11, CountsAssumption DEF Load, TypeOK
<1>12. CASE UNCHANGED vars
  BY <1>12
  DEF vars, TypeOK, loopVars, deviceVars, statVars, historyVars
<1>13. QED
  BY <1>1, <1>2, <1>3, <1>4, <1>5, <1>6, <1>7, <1>8, <1>9, <1>10, <1>11,
     <1>12 DEF Next, Guest, Reply

\* TypeOK is an invariant: in particular the budget is never overdrawn and no
\* request ever has more than MAX_RETRIES + 1 attempts.
THEOREM TypeCorrect == Spec => []TypeOK
<1>1. Init => TypeOK
  BY InitType
<1>2. QED
  BY <1>1, TypeStep, PTL DEF Spec

-----------------------------------------------------------------------------
(***************************************************************************)
(* The channel and the counters.  The invariants are inductive together:   *)
(* that no interrupt is lost, and that a completion finds its request      *)
(* outstanding, needs SingleChannel; the balances need to know that a      *)
(* parked machine holds one request under two names.                       *)
(***************************************************************************)
CoreInv ==
  /\ SingleChannel
  /\ OneInterruptPerRequest
  /\ TrapsBalance
  /\ AttemptsBalance
  /\ RetriesWithinBudget

\* The guest executes only on a machine that is not suspended.
LEMMA FetchRuns ==
  ASSUME CoreInv, control = "loop"
  PROVE  state = "RUNNING" /\ pending = None
BY DEF CoreInv, SingleChannel

\* A step that leaves the channel and the counters alone, and neither suspends
\* nor releases the CPU, keeps the invariant.
LEMMA LocalStep ==
  ASSUME CoreInv,
         UNCHANGED <<deviceVars, statVars, historyVars, traps_used>>,
         state' = "TRAPPED" <=> state = "TRAPPED",
         control' = "loop" => state' = "RUNNING"
  PROVE  CoreInv'
BY DEF CoreInv, SingleChannel, OneInterruptPerRequest, TrapsBalance,
       AttemptsBalance, RetriesWithinBudget, Outstanding, One, InFlight,
       deviceVars, statVars, historyVars

\* So does an inline completion: one trap, one attempt, one failure.
LEMMA InlineStep ==
  ASSUME TypeOK, CoreInv, Fetch, NEW d, CompleteInline(d)
  PROVE  CoreInv'
<1>1. /\ state = "RUNNING" /\ pending = None
      /\ state' # "TRAPPED"
      /\ control' = "loop" => state' = "RUNNING"
  <2>1. Leave("FAULT") \/ Continue
    BY DEF CompleteInline, Tally
  <2>2. state = "RUNNING" /\ pending = None
    BY FetchRuns DEF Fetch
  <2>3. QED
    BY <2>1, <2>2 DEF Leave, Continue
<1>2. /\ traps' = traps + 1 /\ attempts' = attempts + 1 /\ failed' = failed + 1
      /\ UNCHANGED <<pending, async_pending, irq_pending, traps_used, ok,
                     degraded, retried, aborted, asyncIssued, delivered>>
  BY DEF CompleteInline, Tally, Success, deviceVars, historyVars
<1>3. SingleChannel'
  BY <1>1, <1>2 DEF CoreInv, SingleChannel
<1>4. OneInterruptPerRequest'
  BY <1>2 DEF CoreInv, OneInterruptPerRequest, One
<1>5. TrapsBalance' /\ AttemptsBalance'
  BY <1>2 DEF CoreInv, TrapsBalance, AttemptsBalance, Outstanding, One, TypeOK
<1>6. RetriesWithinBudget'
  BY <1>2 DEF CoreInv, RetriesWithinBudget, Outstanding, One, InFlight
<1>7. QED
  BY <1>3, <1>4, <1>5, <1>6 DEF CoreInv

\* Publishing turns a free channel into one outstanding request with its first
\* attempt, and draws once on the budget.
LEMMA PublishStep ==
  ASSUME TypeOK, CoreInv, NEW channel \in Channel, NEW t \in Requests(channel),
         Publish(t),
         \/ /\ channel = "SYNC"
            /\ pending' = t /\ Leave("TRAPPED")
            /\ UNCHANGED <<async_pending, asyncIssued>>
         \/ /\ channel = "ASYNC"
            /\ async_pending' = t /\ Leave("RUNNING")
            /\ asyncIssued' = asyncIssued + 1 /\ UNCHANGED pending
  PROVE  CoreInv'
<1>1. t \in Trap /\ t.attempt = 1 /\ t.channel = channel /\ t # None
      /\ MAX_RETRIES \in Nat /\ t.retries \in Nat
  BY TrapFields DEF Requests
<1>2. /\ control = "loop" /\ state = "RUNNING" /\ pending = None
      /\ async_pending = None /\ irq_pending = 0
  BY FetchRuns DEF Publish, Issue, Fetch, Busy, TypeOK
<1>3. /\ traps' = traps + 1 /\ traps_used' = traps_used + 1
      /\ UNCHANGED <<irq_pending, attempts, ok, degraded, failed, retried,
                     aborted, delivered>>
  BY DEF Publish
<1>4. control' = "host"
  BY DEF Leave
<1>5. SingleChannel'
  BY <1>1, <1>2, <1>3, <1>4 DEF SingleChannel, Leave
<1>6. OneInterruptPerRequest'
  BY <1>1, <1>2, <1>3 DEF CoreInv, OneInterruptPerRequest, One, TypeOK
<1>7. TrapsBalance' /\ AttemptsBalance'
  BY <1>1, <1>2, <1>3
  DEF CoreInv, TrapsBalance, AttemptsBalance, Outstanding, One, TypeOK
<1>8. RetriesWithinBudget'
  <2>1. InFlight' = t /\ Outstanding' = 1
    BY <1>1, <1>2 DEF InFlight, Outstanding, One
  <2>2. retried <= MAX_RETRIES * traps_used
    BY <1>2 DEF CoreInv, RetriesWithinBudget, Outstanding, One, TypeOK
  <2>3. MAX_RETRIES * (traps_used + 1) = MAX_RETRIES * traps_used + MAX_RETRIES
    BY <1>1, CountsAssumption DEF TypeOK
  <2>4. MAX_RETRIES * traps_used \in Int
    BY <1>1, CountsAssumption DEF TypeOK
  <2>5. QED
    BY <1>1, <1>3, <2>1, <2>2, <2>3, <2>4 DEF RetriesWithinBudget, TypeOK
<1>9. QED
  BY <1>5, <1>6, <1>7, <1>8 DEF CoreInv

\* A retry moves the outstanding request, under both names if the machine is
\* parked, to its next attempt, and spends one of its retries.
LEMMA RetryStep ==
  ASSUME TypeOK, CoreInv, ResumeRetry
  PROVE  CoreInv'
<1> DEFINE t == InFlight
           again == [t EXCEPT !.attempt = @ + 1]
<1>1. t \in Trap /\ t.attempt <= t.retries /\ t # None
  BY InFlightType, TrapFields DEF ResumeRetry, MayRetry
<1>2. /\ again \in Trap /\ again # None
      /\ again.attempt = t.attempt + 1 /\ again.retries = t.retries
      /\ again.channel = t.channel
  BY <1>1, RetryType, TrapFields
<1>3. /\ pending' = IF pending = t THEN again ELSE pending
      /\ async_pending' = IF async_pending = t THEN again ELSE async_pending
      /\ attempts' = attempts + 1 /\ retried' = retried + 1
      /\ UNCHANGED <<state, control, irq_pending, traps_used, traps, ok,
                     degraded, failed, aborted, asyncIssued, delivered>>
  BY DEF ResumeRetry, MayRetry, loopVars, historyVars
<1> HIDE DEF again
<1>4. /\ Outstanding = 1 /\ Outstanding' = 1
      /\ InFlight' = again
      /\ pending' = None <=> pending = None
      /\ async_pending' = None <=> async_pending = None
      /\ pending' # None /\ async_pending' # None => pending' = async_pending'
      /\ pending' # None => pending'.channel = pending.channel
      /\ async_pending' # None => async_pending'.channel = async_pending.channel
  BY <1>1, <1>2, <1>3
  DEF CoreInv, SingleChannel, Outstanding, One, InFlight
<1>5. SingleChannel'
  BY <1>3, <1>4 DEF CoreInv, SingleChannel
<1>6. OneInterruptPerRequest'
  BY <1>3, <1>4 DEF CoreInv, OneInterruptPerRequest, One
<1>7. TrapsBalance' /\ AttemptsBalance'
  BY <1>3, <1>4 DEF CoreInv, TrapsBalance, AttemptsBalance, TypeOK
<1>8. RetriesWithinBudget'
  <2>1. t.attempt \in Nat /\ t.retries \in Nat /\ MAX_RETRIES \in Nat
    BY <1>1, TrapFields
  <2>2. MAX_RETRIES * traps_used \in Int
    BY <2>1, CountsAssumption DEF TypeOK
  <2>3. QED
    BY <1>1, <1>2, <1>3, <1>4, <2>1, <2>2
    DEF CoreInv, RetriesWithinBudget, TypeOK
<1>9. QED
  BY <1>5, <1>6, <1>7, <1>8 DEF CoreInv

\* A completion is counted once, and releases its request unless the writeback
\* of its descriptor faults; an asynchronous one raises the interrupt line.
LEMMA FinishStep ==
  ASSUME TypeOK, CoreInv, Awaiting, NEW verdict, NEW e,
         Finish(InFlight, verdict, e)
  PROVE  CoreInv'
<1> DEFINE t == InFlight
           status == IF Denied(t, verdict, e) THEN "WX" ELSE verdict
<1>1. t \in Trap /\ t # None
  BY InFlightType, TrapFields
<1>2. control = "host" /\ Outstanding = 1 /\ irq_pending = 0
      /\ t.attempt \in 1 .. MAX_RETRIES + 1 /\ MAX_RETRIES \in Nat
  BY <1>1, TrapFields
  DEF Awaiting, Outstanding, One, CoreInv, SingleChannel, TypeOK
<1>3. /\ attempts' = attempts + 1
      /\ ok' = IF status = "OK" THEN ok + 1 ELSE ok
      /\ degraded' = IF status = "DEGRADED" THEN degraded + 1 ELSE degraded
      /\ failed' = IF status \in Success THEN failed ELSE failed + 1
      /\ UNCHANGED <<traps_used, traps, retried, asyncIssued, delivered>>
  BY DEF Finish, Tally
<1> HIDE DEF status
<1>4. ok' + degraded' + failed' = ok + degraded + failed + 1
  BY <1>3 DEF Success, TypeOK
<1>5. AttemptsBalance'
  BY <1>3, <1>4 DEF CoreInv, AttemptsBalance, TypeOK, Success
<1>6. CASE Blocked(t.descriptor)
  <2>1. aborted' = aborted + 1
        /\ UNCHANGED <<state, control, pending, async_pending, irq_pending>>
    BY <1>6 DEF Finish, Tally, loopVars, deviceVars
  <2>2. SingleChannel' /\ OneInterruptPerRequest'
    BY <1>3, <2>1 DEF CoreInv, SingleChannel, OneInterruptPerRequest, One
  <2>3. TrapsBalance'
    BY <1>3, <1>4, <2>1
    DEF CoreInv, TrapsBalance, Outstanding, One, TypeOK, Success
  <2>4. RetriesWithinBudget'
    BY <1>3, <2>1 DEF CoreInv, RetriesWithinBudget, Outstanding, One, InFlight
  <2>5. QED
    BY <1>5, <2>2, <2>3, <2>4 DEF CoreInv
<1>7. CASE ~Blocked(t.descriptor)
  <2>1. Release(t) /\ UNCHANGED aborted
    BY <1>7 DEF Finish, Tally
  <2>2. /\ pending' = None /\ async_pending' = None
        /\ irq_pending' = IF async_pending # None THEN 1 ELSE 0
    <3>1. CASE async_pending # None
      <4>1. t = async_pending /\ t.channel = "ASYNC"
        BY <3>1 DEF InFlight, CoreInv, SingleChannel
      <4>2. QED
        BY <2>1, <3>1, <4>1 DEF Release, CoreInv, SingleChannel
    <3>2. CASE async_pending = None
      <4>1. t = pending /\ t # None
        BY <1>1, <3>2 DEF InFlight
      <4>2. t.channel = "SYNC"
        BY <1>1, <3>2, <4>1, TrapFields DEF CoreInv, SingleChannel, Channel
      <4>3. QED
        BY <1>2, <2>1, <3>2, <4>1, <4>2 DEF Release
    <3>3. QED
      BY <3>1, <3>2
  <2>3. /\ state' # "TRAPPED"
        /\ control' = "loop" => state' = "RUNNING"
    <3>1. RunOn
      BY <2>1 DEF Release
    <3>2. QED
      BY <1>2, <3>1 DEF RunOn, loopVars
  <2>4. SingleChannel'
    BY <2>2, <2>3 DEF SingleChannel
  <2>5. OneInterruptPerRequest'
    BY <1>2, <1>3, <2>2 DEF CoreInv, OneInterruptPerRequest, One, TypeOK
  <2>6. TrapsBalance'
    BY <1>2, <1>3, <1>4, <2>1, <2>2
    DEF CoreInv, TrapsBalance, Outstanding, One, TypeOK, Success
  <2>7. RetriesWithinBudget'
    <3>1. Outstanding' = 0
      BY <2>2 DEF Outstanding, One
    <3>2. MAX_RETRIES * traps_used \in Int
      BY <1>2, CountsAssumption DEF TypeOK
    <3>3. retried <= MAX_RETRIES * traps_used
      BY <1>2, <3>2 DEF CoreInv, RetriesWithinBudget, TypeOK
    <3>4. QED
      BY <1>3, <3>1, <3>2, <3>3 DEF RetriesWithinBudget, TypeOK
  <2>8. QED
    BY <1>5, <2>4, <2>5, <2>6, <2>7 DEF CoreInv
<1>8. QED
  BY <1>6, <1>7

\* Delivery lowers the line and counts the interrupt; a fault in pushing the
\* context leaves the line raised.
LEMMA DeliverStep ==
  ASSUME TypeOK, CoreInv, DeliverIrq
  PROVE  CoreInv'
<1>1. /\ control = "loop" /\ irq_pending = 1
      /\ UNCHANGED <<pending, async_pending, traps_used, traps, attempts, ok,
                     degraded, failed, retried, aborted, asyncIssued>>
  BY DEF DeliverIrq, statVars
<1>2. state = "RUNNING" /\ pending = None /\ async_pending = None
  BY <1>1, FetchRuns DEF CoreInv, SingleChannel
<1>3. \/ /\ irq_pending' = 0 /\ delivered' = delivered + 1
         /\ UNCHANGED loopVars
      \/ Leave("FAULT") /\ UNCHANGED <<irq_pending, delivered>>
  BY DEF DeliverIrq
<1>4. SingleChannel'
  BY <1>1, <1>2, <1>3 DEF SingleChannel, Leave, loopVars
<1>5. OneInterruptPerRequest'
  BY <1>1, <1>2, <1>3 DEF CoreInv, OneInterruptPerRequest, One, TypeOK
<1>6. TrapsBalance' /\ AttemptsBalance' /\ RetriesWithinBudget'
  BY <1>1 DEF CoreInv, TrapsBalance, AttemptsBalance, RetriesWithinBudget,
              Outstanding, One, InFlight
<1>7. QED
  BY <1>4, <1>5, <1>6 DEF CoreInv

\* WFI parks the machine on the request in flight, or faults.
LEMMA WfiStep ==
  ASSUME TypeOK, CoreInv, WaitForInterrupt
  PROVE  CoreInv'
<1>1. /\ UNCHANGED <<async_pending, irq_pending, traps_used, traps, attempts,
                     ok, degraded, failed, retried, aborted, asyncIssued,
                     delivered>>
      /\ control = "loop" /\ control' = "host"
  BY DEF WaitForInterrupt, statVars, historyVars, Leave, Fetch
<1>2. state = "RUNNING" /\ pending = None
  BY <1>1, FetchRuns
<1>3. \/ /\ async_pending # None /\ irq_pending = 0
         /\ state' = "TRAPPED" /\ pending' = async_pending
      \/ state' = "FAULT" /\ pending' = None
  BY <1>2 DEF WaitForInterrupt, Leave
<1>4. SingleChannel'
  BY <1>1, <1>2, <1>3 DEF CoreInv, SingleChannel
<1>5. (Outstanding' = Outstanding /\ InFlight' = InFlight) \/ Outstanding' = 0
  BY <1>1, <1>2, <1>3 DEF Outstanding, One, InFlight
<1>6. Outstanding' = Outstanding
  BY <1>1, <1>2, <1>3 DEF Outstanding, One
<1>7. /\ OneInterruptPerRequest' /\ TrapsBalance' /\ AttemptsBalance'
      /\ RetriesWithinBudget'
  BY <1>1, <1>5, <1>6
  DEF CoreInv, OneInterruptPerRequest, TrapsBalance, AttemptsBalance,
      RetriesWithinBudget, One
<1>8. QED
  BY <1>4, <1>7 DEF CoreInv

\* The machine after load().
LEMMA FreshInv ==
  /\ Init => CoreInv
  /\ Load => CoreInv'
<1>1. MAX_RETRIES * 0 = 0
  BY CountsAssumption
<1>2. Init => CoreInv
  BY <1>1 DEF Init, CoreInv, SingleChannel, OneInterruptPerRequest,
     TrapsBalance, AttemptsBalance, RetriesWithinBudget, Outstanding, One
<1>3. Load => CoreInv'
  BY <1>1 DEF Load, CoreInv, SingleChannel, OneInterruptPerRequest,
     TrapsBalance, AttemptsBalance, RetriesWithinBudget, Outstanding, One
<1>4. QED
  BY <1>2, <1>3

\* Every step keeps the invariant.
LEMMA CoreStep == TypeOK /\ CoreInv /\ [Next]_vars => CoreInv'
<1> SUFFICES ASSUME TypeOK, CoreInv, [Next]_vars PROVE CoreInv'
  OBVIOUS
<1>1. CASE LimitReached
  BY <1>1, LocalStep, FetchRuns DEF LimitReached, Leave
<1>2. CASE Compute
  BY <1>2, LocalStep, FetchRuns DEF Compute, Fetch, Continue, Leave
<1>3. ASSUME NEW p \in Page, Store(p) PROVE CoreInv'
  BY <1>3, LocalStep, FetchRuns DEF Store, Fetch, Continue, Leave
<1>4. ASSUME NEW b \in {0, 1}, SetIen(b) PROVE CoreInv'
  BY <1>4, LocalStep, FetchRuns DEF SetIen, Fetch, Continue
<1>5. ASSUME NEW d \in Descriptor, LatchDescriptor(d) PROVE CoreInv'
  BY <1>5, LocalStep, FetchRuns DEF LatchDescriptor, Fetch, Continue
<1>6. ASSUME NEW p \in Blessable, NEW b \in BOOLEAN, Protect(p, b)
      PROVE  CoreInv'
  BY <1>6, LocalStep, FetchRuns DEF Protect, Fetch, Continue
<1>7. ASSUME NEW steps \in Limits, Run(steps) PROVE CoreInv'
  BY <1>7, LocalStep DEF Run
<1>8. CASE DeliverIrq
  BY <1>8, DeliverStep
<1>9. CASE WaitForInterrupt
  BY <1>9, WfiStep
<1>10. CASE RejectBusy \/ RejectWild \/ RejectField \/ RejectBudget
  BY <1>10, InlineStep
  DEF RejectBusy, RejectWild, RejectField, RejectBudget, Issue
<1>11. CASE PublishSync
  <2>1. PICK t \in Requests("SYNC") :
          /\ Publish(t) /\ pending' = t /\ Leave("TRAPPED")
          /\ UNCHANGED <<async_pending, asyncIssued>>
    BY <1>11 DEF PublishSync
  <2>2. QED
    BY <2>1, PublishStep DEF Channel
<1>12. CASE PublishAsync
  <2>1. PICK t \in Requests("ASYNC") :
          /\ Publish(t) /\ async_pending' = t /\ Leave("RUNNING")
          /\ asyncIssued' = asyncIssued + 1 /\ UNCHANGED pending
    BY <1>12 DEF PublishAsync
  <2>2. QED
    BY <2>1, PublishStep DEF Channel
<1>13. CASE ResumeRetry
  BY <1>13, RetryStep
<1>14. CASE ResumeFinish
  BY <1>14, FinishStep DEF ResumeFinish, MayRetry
<1>15. CASE FailTrap
  BY <1>15, FinishStep DEF FailTrap
<1>16. CASE Load
  BY <1>16, FreshInv
<1>17. CASE UNCHANGED vars
  BY <1>17, LocalStep DEF vars, loopVars, CoreInv, SingleChannel
<1>18. QED
  BY <1>1, <1>2, <1>3, <1>4, <1>5, <1>6, <1>7, <1>8, <1>9, <1>10, <1>11, <1>12,
     <1>13, <1>14, <1>15, <1>16, <1>17 DEF Next, Guest, Reply

\* The channel, interrupt and counter invariants hold in every state, for every
\* guest program, oracle and host.
LEMMA CoreCorrect == Spec => [](TypeOK /\ CoreInv)
<1>1. Init => CoreInv
  BY FreshInv
<1>2. QED
  BY <1>1, TypeCorrect, CoreStep, PTL DEF Spec

\* One channel of depth one, and no suspended CPU without its request.
THEOREM SingleChannelCorrect == Spec => []SingleChannel
<1>1. CoreInv => SingleChannel
  BY DEF CoreInv
<1>2. QED
  BY <1>1, CoreCorrect, PTL

\* Each TRAPA request interrupts at most once, and its completion is never
\* lost.
THEOREM OneInterruptCorrect == Spec => []OneInterruptPerRequest
<1>1. CoreInv => OneInterruptPerRequest
  BY DEF CoreInv
<1>2. QED
  BY <1>1, CoreCorrect, PTL

\* The counters of OracleStats balance.
THEOREM CountersCorrect == Spec => [](TrapsBalance /\ AttemptsBalance)
<1>1. CoreInv => TrapsBalance /\ AttemptsBalance
  BY DEF CoreInv
<1>2. QED
  BY <1>1, CoreCorrect, PTL

\* Every attempt at a reply ended a trap or was a retry.
THEOREM AttemptsCorrect == Spec => []AttemptsBalance
<1>1. TrapsBalance /\ AttemptsBalance => AttemptsBalance
  OBVIOUS
<1>2. QED
  BY <1>1, CountersCorrect, PTL

\* The effort spent on retries stays within what the budget grants.
THEOREM EffortCorrect == Spec => []RetriesWithinBudget
<1>1. CoreInv => RetriesWithinBudget
  BY DEF CoreInv
<1>2. QED
  BY <1>1, CoreCorrect, PTL

-----------------------------------------------------------------------------
(***************************************************************************)
(* W^X.                                                                    *)
(***************************************************************************)

\* No guest store, payload or descriptor writeback ever lands on an executable
\* page, whatever the guest blesses between a request and its reply.
THEOREM WriteXorExecuteCorrect == Spec => []WriteXorExecute
<1> DEFINE Clean(w) == \A x \in Writer \ {"nul"} : w[x] \cap exec_map = {}
<1>0. Clean(NoWrite)
  BY DEF NoWrite, Writer
<1>1. Init => WriteXorExecute
  BY <1>0 DEF Init, WriteXorExecute
<1>2. TypeOK /\ WriteXorExecute /\ [Next]_vars => WriteXorExecute'
  <2> SUFFICES ASSUME TypeOK, WriteXorExecute, [Next]_vars
               PROVE  WriteXorExecute'
    OBVIOUS
  <2>1. ASSUME wrote' = NoWrite PROVE WriteXorExecute'
    BY <2>1 DEF WriteXorExecute, NoWrite, Writer
  <2>2. ASSUME NEW x \in Writer, NEW pages, pages \cap exec_map = {},
               wrote' = Wrote(x, pages), exec_map' = exec_map
        PROVE  WriteXorExecute'
    BY <2>2 DEF WriteXorExecute, Wrote, NoWrite, Writer
  <2>3. CASE \/ LimitReached \/ Compute \/ WaitForInterrupt \/ PublishSync
             \/ PublishAsync \/ ResumeRetry \/ Load
             \/ \E b \in {0, 1} : SetIen(b)
             \/ \E d \in Descriptor : LatchDescriptor(d)
             \/ \E p \in Blessable, b \in BOOLEAN : Protect(p, b)
             \/ \E steps \in Limits : Run(steps)
    BY <2>1, <2>3
    DEF LimitReached, Compute, WaitForInterrupt, PublishSync, PublishAsync,
        Publish, ResumeRetry, MayRetry, Load, SetIen, LatchDescriptor, Protect, Run
  <2>4. ASSUME NEW p \in Page, Store(p) PROVE WriteXorExecute'
    BY <2>2, <2>4 DEF Store, Writer
  <2>5. CASE DeliverIrq
    <3>1. PICK stack \in Page :
            \/ stack \notin exec_map /\ wrote' = Wrote("guest", {stack})
            \/ wrote' = NoWrite
      BY <2>5 DEF DeliverIrq
    <3>2. exec_map' = exec_map
      BY <2>5 DEF DeliverIrq
    <3>3. CASE stack \notin exec_map /\ wrote' = Wrote("guest", {stack})
      <4>1. {stack} \cap exec_map = {}
        BY <3>3
      <4>2. "guest" \in Writer
        BY DEF Writer
      <4>3. QED
        BY <2>2, <3>2, <3>3, <4>1, <4>2
    <3>4. QED
      BY <2>1, <3>1, <3>3
  <2>6. ASSUME NEW d \in Descriptor \cup {None}, CompleteInline(d)
        PROVE  WriteXorExecute'
    <3>1. CASE d = None
      BY <2>1, <2>6, <3>1 DEF CompleteInline, Tally
    <3>2. CASE d # None
      <4>1. Stored(d) \cap exec_map = {}
        BY <3>2, StoredPages, PagesAssumption DEF IsPageRun
      <4>2. wrote' = Wrote("status", Stored(d)) /\ exec_map' = exec_map
        BY <2>6, <3>2 DEF CompleteInline, Tally
      <4>3. "status" \in Writer
        BY DEF Writer
      <4>4. QED
        BY <2>2, <4>1, <4>2, <4>3
    <3>3. QED
      BY <3>1, <3>2
  <2>7. CASE RejectBusy \/ RejectWild \/ RejectField \/ RejectBudget
    BY <2>6, <2>7
    DEF RejectBusy, RejectWild, RejectField, RejectBudget, TypeOK
  <2>8. ASSUME Awaiting, NEW verdict, NEW e, Finish(InFlight, verdict, e)
        PROVE  WriteXorExecute'
    <3> DEFINE t == InFlight
               status == IF Denied(t, verdict, e) THEN "WX" ELSE verdict
               n == Payload(status, e.n)
               nul == Payload(status, e.nul)
    <3>1. /\ exec_map' = exec_map
          /\ wrote' = [w \in Writer |->
                    CASE w = "data" -> {t.buffer[i] : i \in 1 .. n}
                      [] w = "nul" -> IF nul = 0 THEN {} ELSE {t.buffer[nul]}
                      [] w = "status" -> Stored(t.descriptor)
                      [] OTHER -> {}]
      BY <2>8 DEF Finish, Tally
    <3>2. {t.buffer[i] : i \in 1 .. n} \cap exec_map = {}
      <4>1. CASE status \in Success
        <5>1. ~Denied(t, verdict, e) /\ status = verdict /\ n = e.n
          BY <4>1 DEF Success, Payload
        <5>2. ~ \E i \in 1 .. e.n : t.buffer[i] \in exec_map
          BY <4>1, <5>1 DEF Success, Denied
        <5>3. QED
          BY <5>1, <5>2
      <4>2. CASE status \notin Success
        <5>1. n = 0
          BY <4>2 DEF Payload
        <5>2. QED
          BY <5>1
      <4>3. QED
        BY <4>1, <4>2
    <3>3. Stored(t.descriptor) \cap exec_map = {}
      BY <2>8, InFlightType, TrapFields, StoredPages
    <3> HIDE DEF n, nul
    <3>4. /\ wrote'["data"] = {t.buffer[i] : i \in 1 .. n}
          /\ wrote'["status"] = Stored(t.descriptor)
          /\ wrote'["guest"] = {}
      BY <3>1 DEF Writer
    <3>5. QED
      BY <3>1, <3>2, <3>3, <3>4 DEF WriteXorExecute, Writer
  <2>9. CASE ResumeFinish \/ FailTrap
    BY <2>8, <2>9 DEF ResumeFinish, MayRetry, FailTrap
  <2>10. CASE UNCHANGED vars
    BY <2>10 DEF vars, WriteXorExecute
  <2>11. QED
    BY <2>3, <2>4, <2>5, <2>7, <2>9, <2>10 DEF Next, Guest, Reply
<1>3. QED
  BY <1>1, <1>2, TypeCorrect, PTL DEF Spec

\* If the guest never blesses a page its descriptors write their results to,
\* no completion is aborted and the documented balance of the counters holds.
THEOREM DocumentedBalance ==
  ASSUME \A d \in Descriptor : \A i \in DOMAIN d : d[i] \notin Blessable
  PROVE  Spec => []CountersAddUp
<1> DEFINE Safe == aborted = 0 /\ exec_map \subseteq Blessable
<1>1. Init => Safe
  BY DEF Init
<1>2. TypeOK /\ Safe /\ [Next]_vars => Safe'
  <2> SUFFICES ASSUME TypeOK, Safe, [Next]_vars PROVE Safe'
    OBVIOUS
  <2>1. CASE UNCHANGED <<aborted, exec_map>>
    BY <2>1
  <2>2. CASE \/ LimitReached \/ Compute \/ WaitForInterrupt \/ PublishSync
             \/ PublishAsync \/ ResumeRetry \/ DeliverIrq
             \/ RejectBusy \/ RejectWild \/ RejectField \/ RejectBudget
             \/ \E p \in Page : Store(p)
             \/ \E b \in {0, 1} : SetIen(b)
             \/ \E d \in Descriptor : LatchDescriptor(d)
             \/ \E steps \in Limits : Run(steps)
    BY <2>1, <2>2
    DEF LimitReached, Compute, WaitForInterrupt, PublishSync, PublishAsync,
        Publish, ResumeRetry, MayRetry, DeliverIrq, RejectBusy, RejectWild, RejectField,
        RejectBudget, CompleteInline, Tally, Store, SetIen, LatchDescriptor, Run,
        historyVars
  <2>3. ASSUME NEW p \in Blessable, NEW b \in BOOLEAN, Protect(p, b)
        PROVE  Safe'
    BY <2>3 DEF Protect, historyVars
  <2>4. ASSUME Awaiting, NEW verdict, NEW e, Finish(InFlight, verdict, e)
        PROVE  Safe'
    <3>1. InFlight.descriptor \in Descriptor
      BY <2>4, InFlightType, TrapFields
    <3>2. ~Blocked(InFlight.descriptor)
      BY <3>1 DEF Blocked
    <3>3. UNCHANGED <<aborted, exec_map>>
      BY <2>4, <3>2 DEF Finish, Tally
    <3>4. QED
      BY <2>1, <3>3
  <2>5. CASE ResumeFinish \/ FailTrap
    BY <2>4, <2>5 DEF ResumeFinish, MayRetry, FailTrap
  <2>6. CASE Load
    BY <2>6 DEF Load
  <2>7. CASE UNCHANGED vars
    BY <2>1, <2>7 DEF vars, historyVars
  <2>8. QED
    BY <2>2, <2>3, <2>5, <2>6, <2>7 DEF Next, Guest, Reply
<1>3. TypeOK /\ CoreInv /\ Safe => CountersAddUp
  BY DEF CoreInv, TrapsBalance, CountersAddUp, TypeOK
<1>4. QED
  BY <1>1, <1>2, <1>3, CoreCorrect, PTL DEF Spec

-----------------------------------------------------------------------------
(***************************************************************************)
(* Refinement.                                                             *)
(***************************************************************************)

\* A step that changes neither the channel nor the budget is a stutter of the
\* device.
LEMMA DeviceStutter ==
  ASSUME UNCHANGED <<pending, async_pending, irq_pending, traps_used>>
  PROVE  UNCHANGED Device!vars
BY DEF Device!vars, devicePhase, deviceTries, InFlight

\* Publication takes the idle device to the phase of its channel.
LEMMA DevicePublish ==
  ASSUME TypeOK, CoreInv, PublishSync \/ PublishAsync
  PROVE  \E channel \in {"sync", "async"} : Device!Publish(channel)
<1>1. ASSUME NEW t \in Trap, t.attempt = 1, Publish(t)
      PROVE  /\ devicePhase = "idle" /\ irq_pending' = 0 /\ t # None
             /\ pending = None /\ async_pending = None
             /\ traps_used < oracle_budget /\ traps_used' = traps_used + 1
  BY <1>1, FetchRuns, TrapFields
  DEF Publish, Issue, Fetch, Busy, devicePhase, TypeOK
<1>2. CASE PublishSync
  <2>1. PICK t \in Requests("SYNC") :
          Publish(t) /\ pending' = t /\ UNCHANGED async_pending
    BY <1>2 DEF PublishSync
  <2>2. t \in Trap /\ t.attempt = 1
    BY DEF Requests
  <2>3. devicePhase' = "sync" /\ deviceTries' = 1
    BY <1>1, <2>1, <2>2 DEF devicePhase, deviceTries, InFlight
  <2>4. Device!Publish("sync")
    BY <1>1, <2>1, <2>2, <2>3 DEF Device!Publish
  <2>5. QED
    BY <2>4
<1>3. CASE PublishAsync
  <2>1. PICK t \in Requests("ASYNC") : Publish(t) /\ async_pending' = t
    BY <1>3 DEF PublishAsync
  <2>2. t \in Trap /\ t.attempt = 1
    BY DEF Requests
  <2>3. devicePhase' = "async" /\ deviceTries' = 1
    BY <1>1, <2>1, <2>2 DEF devicePhase, deviceTries, InFlight
  <2>4. Device!Publish("async")
    BY <1>1, <2>1, <2>2, <2>3 DEF Device!Publish
  <2>5. QED
    BY <2>4
<1>4. QED
  BY <1>2, <1>3

\* A reply that fails with retries left is the device's retry.
LEMMA DeviceRetry ==
  ASSUME TypeOK, CoreInv, ResumeRetry
  PROVE  Device!Retry
<1> DEFINE t == InFlight
           again == [t EXCEPT !.attempt = @ + 1]
<1>1. t \in Trap /\ t.attempt <= t.retries /\ t # None
      /\ t.attempt \in Nat /\ t.retries \in 0 .. MAX_RETRIES
      /\ MAX_RETRIES \in Nat
  BY InFlightType, TrapFields DEF ResumeRetry, MayRetry
<1>2. again # None /\ again.attempt = t.attempt + 1
  BY <1>1, RetryType, TrapFields
<1>3. /\ pending' = IF pending = t THEN again ELSE pending
      /\ async_pending' = IF async_pending = t THEN again ELSE async_pending
      /\ UNCHANGED <<irq_pending, traps_used>>
  BY DEF ResumeRetry, MayRetry
<1> HIDE DEF again
<1>4. /\ InFlight' = again
      /\ pending' = None <=> pending = None
      /\ async_pending' = None <=> async_pending = None
  BY <1>1, <1>2, <1>3 DEF InFlight
<1>5. devicePhase \in {"async", "sync"} /\ devicePhase' = devicePhase
  BY <1>1, <1>3, <1>4 DEF devicePhase, InFlight
<1>6. deviceTries = t.attempt /\ deviceTries' = t.attempt + 1
  BY <1>2, <1>4, <1>5 DEF deviceTries
<1>7. t.attempt <= MAX_RETRIES
  BY <1>1
<1>8. QED
  BY <1>3, <1>5, <1>6, <1>7 DEF Device!Retry

\* A completion is the device's answer, or no step of the device when the
\* writeback of the descriptor faults.
LEMMA DeviceAnswer ==
  ASSUME TypeOK, CoreInv, Awaiting, NEW verdict, NEW e,
         Finish(InFlight, verdict, e)
  PROVE  Device!Answer \/ UNCHANGED Device!vars
<1> DEFINE t == InFlight
<1>1. t \in Trap /\ t # None /\ irq_pending = 0
  BY InFlightType, TrapFields DEF CoreInv, SingleChannel, TypeOK, Awaiting
<1>2. UNCHANGED traps_used
  BY DEF Finish, Tally
<1>3. CASE Blocked(t.descriptor)
  BY <1>2, <1>3, DeviceStutter DEF Finish, Tally, deviceVars
<1>4. CASE ~Blocked(t.descriptor)
  <2>1. Release(t)
    BY <1>4 DEF Finish, Tally
  <2>2. CASE async_pending # None
    <3>1. t = async_pending /\ t.channel = "ASYNC"
      BY <2>2 DEF InFlight, CoreInv, SingleChannel
    <3>2. pending' = None /\ async_pending' = None /\ irq_pending' = 1
      BY <2>1, <2>2, <3>1 DEF Release, CoreInv, SingleChannel
    <3>3. devicePhase = "async" /\ devicePhase' = "raised" /\ deviceTries' = 0
      BY <2>2, <3>2 DEF devicePhase, deviceTries
    <3>4. QED
      BY <1>2, <3>3 DEF Device!Answer
  <2>3. CASE async_pending = None
    <3>1. t = pending /\ pending # None
      BY <1>1, <2>3 DEF InFlight
    <3>2. t.channel # "ASYNC"
      BY <2>3, <3>1 DEF CoreInv, SingleChannel
    <3>3. pending' = None /\ async_pending' = None /\ irq_pending' = 0
      BY <1>1, <2>1, <2>3, <3>1, <3>2 DEF Release
    <3>4. devicePhase = "sync" /\ devicePhase' = "idle" /\ deviceTries' = 0
      BY <2>3, <3>1, <3>3 DEF devicePhase, deviceTries
    <3>5. QED
      BY <1>2, <3>4 DEF Device!Answer
  <2>4. QED
    BY <2>2, <2>3
<1>5. QED
  BY <1>3, <1>4

\* Delivery is the device's delivery; a fault on the stack is no step of it.
LEMMA DeviceDeliver ==
  ASSUME TypeOK, CoreInv, DeliverIrq
  PROVE  Device!Deliver \/ UNCHANGED Device!vars
<1>1. /\ irq_pending = 1 /\ pending = None /\ async_pending = None
      /\ UNCHANGED <<pending, async_pending, traps_used>>
  BY DEF DeliverIrq, CoreInv, SingleChannel
<1>2. irq_pending' = 0 \/ irq_pending' = irq_pending
  BY DEF DeliverIrq
<1>3. CASE irq_pending' = 0
  <2>1. devicePhase = "raised" /\ devicePhase' = "idle"
        /\ deviceTries = 0 /\ deviceTries' = 0
    BY <1>1, <1>3 DEF devicePhase, deviceTries
  <2>2. QED
    BY <1>1, <2>1 DEF Device!Deliver
<1>4. CASE irq_pending' = irq_pending
  BY <1>1, <1>4, DeviceStutter
<1>5. QED
  BY <1>2, <1>3, <1>4

\* The machine implements the one-slot device: every step of the CPU and of the
\* host is a publication, a retry, an answer, a delivery, a reset or nothing.
THEOREM Refinement == Spec => ImplementsDevice
<1>1. Init => Device!Init
  BY DEF Init, Device!Init, devicePhase, deviceTries
<1>2. TypeOK /\ CoreInv /\ [Next]_vars => [Device!Next]_(Device!vars)
  <2> SUFFICES ASSUME TypeOK, CoreInv, [Next]_vars
               PROVE  Device!Next \/ UNCHANGED Device!vars
    OBVIOUS
  <2>1. CASE \/ LimitReached \/ Compute
             \/ RejectBusy \/ RejectWild \/ RejectField \/ RejectBudget
             \/ \E p \in Page : Store(p)
             \/ \E b \in {0, 1} : SetIen(b)
             \/ \E d \in Descriptor : LatchDescriptor(d)
             \/ \E p \in Blessable, b \in BOOLEAN : Protect(p, b)
             \/ \E steps \in Limits : Run(steps)
    BY <2>1, DeviceStutter
    DEF LimitReached, Compute, RejectBusy, RejectWild, RejectField,
        RejectBudget, CompleteInline, Tally, Store, SetIen, LatchDescriptor, Protect,
        Run, deviceVars
  <2>2. CASE WaitForInterrupt
    <3>1. pending = None
      BY <2>2, FetchRuns DEF WaitForInterrupt, Fetch
    <3>2. /\ UNCHANGED <<async_pending, irq_pending, traps_used>>
          /\ (async_pending # None /\ pending' = async_pending) \/ UNCHANGED pending
      BY <2>2 DEF WaitForInterrupt
    <3>3. UNCHANGED Device!vars
      BY <3>1, <3>2 DEF Device!vars, devicePhase, deviceTries, InFlight
    <3>4. QED
      BY <3>3
  <2>3. CASE PublishSync \/ PublishAsync
    BY <2>3, DevicePublish DEF Device!Next
  <2>4. CASE ResumeRetry
    BY <2>4, DeviceRetry DEF Device!Next
  <2>5. CASE ResumeFinish \/ FailTrap
    BY <2>5, DeviceAnswer DEF ResumeFinish, MayRetry, FailTrap, Device!Next
  <2>6. CASE DeliverIrq
    BY <2>6, DeviceDeliver DEF Device!Next
  <2>7. CASE Load
    <3>1. devicePhase' = "idle" /\ deviceTries' = 0 /\ traps_used' = 0
      BY <2>7 DEF Load, devicePhase, deviceTries
    <3>2. QED
      BY <3>1 DEF Device!Reset, Device!Next
  <2>8. CASE UNCHANGED vars
    BY <2>8, DeviceStutter DEF vars, deviceVars
  <2>9. QED
    BY <2>1, <2>2, <2>3, <2>4, <2>5, <2>6, <2>7, <2>8 DEF Next, Guest, Reply
<1>3. QED
  BY <1>1, <1>2, CoreCorrect, PTL DEF Spec, ImplementsDevice, Device!Spec

-----------------------------------------------------------------------------
(***************************************************************************)
(* What a step may never do.                                               *)
(***************************************************************************)

\* The loop of run() only runs on a machine that is running, so only the host
\* moves a stopped one, and a completion leaves it as it is (_finish_async ends
\* in run(), which returns at once).
LEMMA StoppedStep ==
  TypeOK /\ CoreInv /\ [Next]_vars
    => [(state \in {"HALTED", "FAULT"}) => (state' \in {state, "READY"})]_vars
<1> SUFFICES ASSUME TypeOK, CoreInv, Next, state \in {"HALTED", "FAULT"}
             PROVE  state' \in {state, "READY"}
  OBVIOUS
<1>0. control # "loop"
  BY DEF CoreInv, SingleChannel
<1>1. ~LimitReached /\ ~Fetch /\ ~DeliverIrq
  BY <1>0 DEF LimitReached, Fetch, DeliverIrq
<1>2. ~Guest
  BY <1>1 DEF Guest, Compute, Store, SetIen, LatchDescriptor, Protect, Issue,
              RejectBusy, RejectWild, RejectField, RejectBudget, PublishSync,
              PublishAsync, Publish, WaitForInterrupt
<1>3. ASSUME NEW steps \in Limits, Run(steps) PROVE FALSE
  BY <1>3 DEF Run
<1>4. CASE ResumeRetry
  BY <1>4 DEF ResumeRetry, loopVars
<1>5. ASSUME NEW verdict, NEW e, Finish(InFlight, verdict, e)
      PROVE  state' \in {state, "READY"}
  BY <1>5 DEF Finish, Release, RunOn, loopVars
<1>6. CASE ResumeFinish \/ FailTrap
  BY <1>5, <1>6 DEF ResumeFinish, FailTrap
<1>7. CASE Load
  BY <1>7 DEF Load
<1> QED
  BY <1>1, <1>2, <1>3, <1>4, <1>6, <1>7 DEF Next, Reply

\* A machine that halted or faulted is never restarted by a late answer.
THEOREM StoppedStays == Spec => StoppedStaysStopped
<1> QED
  BY CoreCorrect, StoppedStep, PTL DEF Spec, StoppedStaysStopped

\* An instruction that completes inline stores its status at most.
LEMMA InlineWrites ==
  ASSUME NEW d, CompleteInline(d)
  PROVE  /\ wrote'["data"] = {} /\ wrote'["nul"] = {}
         /\ d = None => DeviceWrote(wrote') = {}
<1>1. wrote' = NoWrite \/ wrote' = Wrote("status", Stored(d))
  BY DEF CompleteInline
<1>2. d = None => wrote' = NoWrite
  BY DEF CompleteInline
<1>3. wrote'["data"] = {} /\ wrote'["nul"] = {}
  BY <1>1 DEF NoWrite, Wrote, Writer
<1>4. d = None => DeviceWrote(wrote') = {}
  BY <1>2 DEF NoWrite, DeviceWrote, Writer
<1> QED
  BY <1>3, <1>4

\* A completion that is counted as failed stores no payload.
LEMMA FailedWritesNothing ==
  ASSUME TypeOK, NEW t, NEW verdict, NEW e, Finish(t, verdict, e),
         failed' > failed
  PROVE  wrote'["data"] = {} /\ wrote'["nul"] = {}
<1> DEFINE status == IF Denied(t, verdict, e) THEN "WX" ELSE verdict
           n == Payload(status, e.n)
           nul == Payload(status, e.nul)
<1>1. /\ Tally(status)
      /\ wrote' = [w \in Writer |->
                    CASE w = "data" -> {t.buffer[i] : i \in 1 .. n}
                      [] w = "nul" -> IF nul = 0 THEN {} ELSE {t.buffer[nul]}
                      [] w = "status" -> Stored(t.descriptor)
                      [] OTHER -> {}]
  BY DEF Finish
<1> HIDE DEF status
<1>2. status \notin Success
  BY <1>1 DEF Tally, TypeOK
<1>3. n = 0 /\ nul = 0
  BY <1>2 DEF Payload
<1> HIDE DEF n, nul
<1>4. /\ wrote'["data"] = {t.buffer[i] : i \in 1 .. n}
      /\ wrote'["nul"] = IF nul = 0 THEN {} ELSE {t.buffer[nul]}
  BY <1>1 DEF Writer
<1> QED
  BY <1>3, <1>4

LEMMA FailureStep ==
  TypeOK /\ [Next]_vars
    => [failed' > failed => wrote'["data"] = {} /\ wrote'["nul"] = {}]_vars
<1> SUFFICES ASSUME TypeOK, Next, failed' > failed
             PROVE  wrote'["data"] = {} /\ wrote'["nul"] = {}
  OBVIOUS
<1>0. failed' # failed
  BY DEF TypeOK
<1>1. CASE \/ LimitReached \/ DeliverIrq \/ Compute \/ WaitForInterrupt
           \/ \E p \in Page : Store(p)
           \/ \E b \in {0, 1} : SetIen(b)
           \/ \E d \in Descriptor : LatchDescriptor(d)
           \/ \E p \in Blessable, b \in BOOLEAN : Protect(p, b)
           \/ PublishSync \/ PublishAsync \/ ResumeRetry
           \/ \E steps \in Limits : Run(steps)
  BY <1>0, <1>1
  DEF LimitReached, DeliverIrq, Compute, WaitForInterrupt, Store, SetIen,
      LatchDescriptor, Protect, PublishSync, PublishAsync, Publish, ResumeRetry,
      Run, statVars
<1>2. CASE RejectBusy \/ RejectWild \/ RejectField \/ RejectBudget
  BY <1>2, InlineWrites DEF RejectBusy, RejectWild, RejectField, RejectBudget
<1>3. CASE ResumeFinish \/ FailTrap
  BY <1>3, FailedWritesNothing DEF ResumeFinish, FailTrap
<1>4. CASE Load
  BY <1>4 DEF Load, TypeOK
<1> QED
  BY <1>1, <1>2, <1>3, <1>4 DEF Next, Guest, Reply

\* Nothing is written to a response buffer unless the trap succeeded.
THEOREM NothingWrittenCorrect == Spec => NothingWrittenUnlessSuccess
<1> QED
  BY TypeCorrect, FailureStep, PTL DEF Spec, NothingWrittenUnlessSuccess

\* While the interrupt line is raised the device has no request (SingleChannel)
\* and takes none (Busy), so nothing of it reaches RAM.
LEMMA AnswerStep ==
  TypeOK /\ CoreInv /\ [Next]_vars
    => [irq_pending = 1 /\ irq_pending' = 1 => DeviceWrote(wrote') = {}]_vars
<1> SUFFICES ASSUME TypeOK, CoreInv, Next, irq_pending = 1, irq_pending' = 1
             PROVE  DeviceWrote(wrote') = {}
  OBVIOUS
<1>0. Busy /\ ~Awaiting
  BY DEF CoreInv, SingleChannel, Busy, Awaiting
<1>1. ASSUME wrote' = NoWrite PROVE DeviceWrote(wrote') = {}
  BY <1>1 DEF NoWrite, DeviceWrote, Writer
<1>2. ASSUME NEW pages, wrote' = Wrote("guest", pages)
      PROVE  DeviceWrote(wrote') = {}
  BY <1>2 DEF Wrote, NoWrite, DeviceWrote, Writer
<1>3. CASE \/ LimitReached \/ Compute \/ WaitForInterrupt
           \/ \E b \in {0, 1} : SetIen(b)
           \/ \E d \in Descriptor : LatchDescriptor(d)
           \/ \E p \in Blessable, b \in BOOLEAN : Protect(p, b)
           \/ \E steps \in Limits : Run(steps)
           \/ Load
  BY <1>1, <1>3
  DEF LimitReached, Compute, WaitForInterrupt, SetIen, LatchDescriptor, Protect,
      Run, Load
<1>4. CASE DeliverIrq \/ \E p \in Page : Store(p)
  BY <1>1, <1>2, <1>4 DEF DeliverIrq, Store
<1>5. CASE RejectBusy
  BY <1>5, InlineWrites DEF RejectBusy
<1>6. ~ (RejectWild \/ RejectField \/ RejectBudget \/ PublishSync \/ PublishAsync)
  BY <1>0 DEF RejectWild, RejectField, RejectBudget, PublishSync, PublishAsync,
              Publish
<1>7. ~Reply
  BY <1>0 DEF Reply, ResumeRetry, ResumeFinish, FailTrap
<1> QED
  BY <1>3, <1>4, <1>5, <1>6, <1>7 DEF Next, Guest

\* An asynchronous answer is safe from the device until its handler runs.
THEOREM AnswerSafe == Spec => AnswerSafeUntilHandler
<1> QED
  BY CoreCorrect, AnswerStep, PTL DEF Spec, AnswerSafeUntilHandler

-----------------------------------------------------------------------------
(***************************************************************************)
(* The drive loop: execute() answers the attempt it asked about, keeps the *)
(* limit it was given and leaves nobody waiting.                           *)
(***************************************************************************)

Idle == pending = None /\ async_pending = None
Stopped == {"HALTED", "FAULT", "LIMIT"}

\* Where a command can be.
Places ==
  /\ command \in Command
  /\ latency \in latencies \cup {0} /\ served \in Nat
  /\ command = "none" => at = "done"
  /\ command = "frame" => at \in {"publish", "done", "raised"}
  /\ command = "run" => at \notin {"publish", "feed", "serve"}
  /\ control = "loop" => at \in {"result", "last", "interim", "publish", "serve"}

\* run and frame start on the machine as it was loaded.
StartsFresh ==
  (command = "none" \/ (command = "run" /\ at = "execute"))
  => state = "READY" /\ control = "host" /\ Idle

\* A result that calls for a reply is about a request that is still there.
ResultIsTrue ==
  at = "result" /\ control = "host"
  => /\ result = "TRAPPED" => state = "TRAPPED"
     /\ result = "ASYNC" => async_pending # None

\* While a slow device thinks, the request it was asked about stays.
RequestStays ==
  at = "interim" => async_pending # None /\ async_pending = asked /\ latency > 0

\* The segments of a command run on the limit it was given, or on the latency
\* once a slow device was asked.
SegmentLimited ==
  (command = "run" /\ at \in {"result", "interim", "reply", "last"})
  => segment_limit = limit \/ (latency > 0 /\ served > 0 /\ segment_limit = latency)

\* A guest that runs after a reply owes nothing; one that stopped neither.
RunsIdle ==
  command = "run"
  => /\ at \in {"result", "last"} /\ control = "loop" => Idle
     /\ at = "result" /\ control = "host" /\ ~ToServe
        => result = state /\ state \in Stopped /\ Idle
     /\ at = "last" => LimitServed

HostInv ==
  /\ Places /\ StartsFresh /\ ResultIsTrue /\ RequestStays
  /\ AskedIsAnswered /\ (at = "reply" => Awaiting)
  /\ SegmentLimited /\ RunsIdle /\ NobodyLeftWaiting

-----------------------------------------------------------------------------
(***************************************************************************)
(* The machine below the commands.                                         *)
(***************************************************************************)
\* A mounted machine differs only in the limit of its segment.
LEMMA MountedStep ==
  ASSUME TypeOK, CoreInv, NEW name, Mounted(name)
  PROVE  TypeOK' /\ CoreInv'
<1>1. NoWrite \in [Writer -> SUBSET Page]
  BY DEF NoWrite
<1>2. TypeOK'
  BY <1>1, CountsAssumption
  DEF Mounted, TypeOK, loopVars, deviceVars, statVars, historyVars
<1>3. CoreInv'
  BY LocalStep DEF Mounted, loopVars, CoreInv, SingleChannel
<1>4. QED
  BY <1>2, <1>3

\* Every other step of a command is a step of the machine or leaves it alone.
LEMMA MachineStep ==
  ASSUME [HostNext]_allVars, latency \in latencies \cup {0}
  PROVE  [Next]_vars \/ \E name \in Command : Mounted(name)
<1>1. CASE Loop \/ LoadProgram
  BY <1>1 DEF Loop, LoadProgram, Next
<1>2. ASSUME NEW n \in Limits, NEW next, CallRun(n, next)
      PROVE  [Next]_vars
  BY <1>2 DEF CallRun, Raise, Next
<1>3. ASSUME NEW next, Resume(next) \/ Fail(next) PROVE [Next]_vars
  BY <1>3 DEF Resume, Fail, Next, Reply
<1>4. CASE Execute \/ CmdFrame
  BY <1>4, <1>2, HostAssumption DEF Execute, CmdFrame
<1>11. CASE Exhausted
  BY <1>11 DEF Exhausted, Raise
<1>5. CASE Ask
  <2>1. CASE UNCHANGED vars
    BY <2>1
  <2>2. CASE latency > 0 /\ Run(latency)
    BY <2>2, HostAssumption, CountsAssumption DEF Next
  <2>3. QED
    BY <1>5, <2>1, <2>2 DEF Ask
<1>6. CASE HandReply \/ HostLimit \/ Feed
  BY <1>6, <1>3 DEF HandReply, HostLimit, Feed
<1>7. CASE Serve
  BY <1>7, <1>3 DEF Serve
<1>8. CASE CmdResume \/ CmdMount
  BY <1>8 DEF CmdResume, CmdMount, Command
<1>9. CASE \/ ExecuteReturns \/ Interim \/ CmdRun \/ PublishFrame
           \/ UNCHANGED allVars
  BY <1>9 DEF ExecuteReturns, Interim, CmdRun, PublishFrame, allVars
<1>10. QED
  BY <1>1, <1>4, <1>5, <1>6, <1>7, <1>8, <1>9, <1>11 DEF HostNext

\* What an iteration of run() does to the requests: it keeps them, or returns
\* because of one.
LEMMA IterationStep ==
  ASSUME LimitReached \/ Guest
  PROVE  /\ segment_limit' = segment_limit
         /\ \/ /\ UNCHANGED <<pending, async_pending>>
               /\ control' = "host" => state' \in Stopped
            \/ /\ control' = "host" /\ state' = "TRAPPED"
               /\ async_pending' = async_pending
            \/ /\ control' = "host" /\ state' = "RUNNING"
               /\ async_pending = None /\ async_pending' # None
<1>1. CASE LimitReached \/ Compute \/ \E p \in Page : Store(p)
  BY <1>1 DEF LimitReached, Compute, Store, Fetch, Continue, Leave, Stopped,
     deviceVars
<1>2. CASE \/ \E b \in {0, 1} : SetIen(b)
           \/ \E d \in Descriptor : LatchDescriptor(d)
           \/ \E p \in Blessable, b \in BOOLEAN : Protect(p, b)
  BY <1>2 DEF SetIen, LatchDescriptor, Protect, Fetch, Continue, deviceVars
<1>3. CASE DeliverIrq
  BY <1>3 DEF DeliverIrq, Leave, loopVars, Stopped
<1>4. CASE WaitForInterrupt
  BY <1>4 DEF WaitForInterrupt, Leave, Stopped
<1>5. ASSUME NEW d, Issue, CompleteInline(d)
      PROVE  /\ segment_limit' = segment_limit
             /\ UNCHANGED <<pending, async_pending>>
             /\ control' = "host" => state' \in Stopped
  BY <1>5 DEF CompleteInline, Issue, Fetch, Continue, Leave, Stopped, deviceVars
<1>6. CASE RejectBusy \/ RejectWild \/ RejectField \/ RejectBudget
  BY <1>6, <1>5 DEF RejectBusy, RejectWild, RejectField, RejectBudget
<1>7. CASE PublishSync
  BY <1>7 DEF PublishSync, Publish, Leave
<1>8. CASE PublishAsync
  BY <1>8, NoneAssumption DEF PublishAsync, Publish, Leave, Requests, Busy
<1>9. QED
  BY <1>1, <1>2, <1>3, <1>4, <1>6, <1>7, <1>8 DEF Guest

\* What a retry does to the request it is about.
LEMMA RetryKeeps ==
  ASSUME TypeOK, ResumeRetry
  PROVE  /\ UNCHANGED <<loopVars, segment_limit>> /\ control = "host"
         /\ state = "TRAPPED" \/ async_pending' # None
<1>1. InFlight \in Trap /\ InFlight.attempt <= InFlight.retries
  BY InFlightType DEF ResumeRetry, MayRetry
<1>2. [InFlight EXCEPT !.attempt = @ + 1] # None
  BY <1>1, RetryType, NoneAssumption
<1>3. QED
  BY <1>2 DEF ResumeRetry, MayRetry, Awaiting

\* What an answer does: the request is gone and the guest runs on, unless a
\* CPUFault left everything as it was.
LEMMA AnswerReleases ==
  ASSUME TypeOK, CoreInv, ResumeFinish \/ FailTrap
  PROVE  /\ segment_limit' = segment_limit /\ control = "host"
         /\ \/ aborted' > aborted /\ UNCHANGED <<loopVars, deviceVars>>
            \/ aborted' = aborted /\ Idle' /\ RunOn
<1>1. Awaiting /\ InFlight \in Trap
  BY InFlightType DEF ResumeFinish, FailTrap, MayRetry
<1>2. PICK verdict, e : Finish(InFlight, verdict, e)
  BY DEF ResumeFinish, FailTrap, MayRetry
<1>3. segment_limit' = segment_limit /\ control = "host"
  BY <1>1, <1>2 DEF Finish, Awaiting
<1>4. CASE Blocked(InFlight.descriptor)
  BY <1>2, <1>3, <1>4 DEF Finish, TypeOK
<1>5. CASE ~Blocked(InFlight.descriptor)
  <2>1. Release(InFlight) /\ aborted' = aborted
    BY <1>2, <1>5 DEF Finish
  <2>2. Idle'
    BY <1>1, <2>1
    DEF Release, InFlight, Awaiting, Idle, CoreInv, SingleChannel, TypeOK, Trap,
      Channel
  <2>3. QED
    BY <1>3, <2>1, <2>2 DEF Release
<1>6. QED
  BY <1>4, <1>5

-----------------------------------------------------------------------------
(***************************************************************************)
(* The invariant of the commands, call by call.                            *)
(***************************************************************************)
\* While run() goes on.
LEMMA LoopKeeps ==
  ASSUME TypeOK', CoreInv', HostInv, Loop
  PROVE  HostInv'
<1>1. /\ control = "loop"
      /\ UNCHANGED <<command, at, latency, max_traps, served, asked>>
      /\ result' = IF control' = "host" THEN ResultOf(state') ELSE result
  BY DEF Loop, Returns
<1>2. /\ at \in {"result", "last", "interim", "publish", "serve"}
      /\ command # "none"
  BY <1>1 DEF HostInv, Places
<1>3. /\ segment_limit' = segment_limit
      /\ \/ /\ UNCHANGED <<pending, async_pending>>
            /\ control' = "host" => state' \in Stopped
         \/ /\ control' = "host" /\ state' = "TRAPPED"
            /\ async_pending' = async_pending
         \/ /\ control' = "host" /\ state' = "RUNNING"
            /\ async_pending = None /\ async_pending' # None
  BY IterationStep DEF Loop
<1>4. Places' /\ StartsFresh'
  BY <1>1, <1>2 DEF HostInv, Places, StartsFresh
<1>5. ResultIsTrue'
  BY <1>1, <1>2, <1>3 DEF ResultIsTrue, ResultOf, Stopped
<1>6. RequestStays' /\ SegmentLimited'
  BY <1>1, <1>3 DEF HostInv, RequestStays, SegmentLimited
<1>7. RunsIdle'
  BY <1>1, <1>2, <1>3
  DEF HostInv, RunsIdle, LimitServed, ToServe, ResultOf, Stopped, Idle
<1>8. AskedIsAnswered' /\ (at = "reply" => Awaiting)' /\ NobodyLeftWaiting'
  BY <1>1, <1>2 DEF AskedIsAnswered, NobodyLeftWaiting
<1>9. QED
  BY <1>4, <1>5, <1>6, <1>7, <1>8 DEF HostInv

\* execute() calls run().
LEMMA ExecuteKeeps ==
  ASSUME TypeOK, CoreInv, HostInv, Execute
  PROVE  HostInv'
<1>1. /\ at = "execute" /\ CallRun(limit, "result") /\ served' = 0
      /\ UNCHANGED <<command, latency, max_traps, asked>>
  BY DEF Execute
<1>2. command # "none" /\ command # "frame" /\ control = "host"
  BY <1>1 DEF HostInv, Places, TypeOK
<1>3. command = "run" => state = "READY" /\ Idle
  BY <1>1 DEF HostInv, StartsFresh
<1>4. CASE Run(limit) /\ at' = "result" /\ UNCHANGED <<result>>
  BY <1>1, <1>2, <1>3, <1>4
  DEF Run, HostInv, Places, StartsFresh, ResultIsTrue, RequestStays,
      SegmentLimited, RunsIdle, LimitServed,
      AskedIsAnswered, NobodyLeftWaiting, Idle,
      deviceVars
<1>5. CASE /\ state \in {"HALTED", "FAULT"}
           /\ at' = "result" /\ result' = state /\ UNCHANGED vars
  BY <1>1, <1>2, <1>3, <1>5
  DEF HostInv, Places, StartsFresh, ResultIsTrue, RequestStays,
      SegmentLimited, RunsIdle, LimitServed,
      AskedIsAnswered, NobodyLeftWaiting, vars,
      loopVars
<1>6. CASE state = "TRAPPED" /\ Raise
  BY <1>1, <1>2, <1>3, <1>6
  DEF Raise, HostInv, Places, StartsFresh, ResultIsTrue, RequestStays,
      SegmentLimited, RunsIdle, LimitServed,
      AskedIsAnswered, NobodyLeftWaiting, vars,
      loopVars
<1>7. QED
  BY <1>1, <1>4, <1>5, <1>6 DEF CallRun

\* execute() returns.
LEMMA ReturnKeeps ==
  ASSUME HostInv, ExecuteReturns
  PROVE  HostInv'
<1>1. /\ control = "host" /\ at' = "done"
      /\ at = "last" \/ (at = "result" /\ ~ToServe)
      /\ UNCHANGED <<vars, command, result, latency, max_traps, served, asked>>
  BY DEF ExecuteReturns, Returned
<1>2. command \notin {"none", "frame"}
  BY <1>1 DEF HostInv, Places
<1>3. NobodyLeftWaiting'
  BY <1>1
  DEF HostInv, RunsIdle, LimitServed, NobodyLeftWaiting, Stopped, Idle, Outstanding, One,
      vars, loopVars, deviceVars
<1>4. QED
  BY <1>1, <1>2, <1>3
  DEF HostInv, Places, StartsFresh, ResultIsTrue, RequestStays,
      SegmentLimited, RunsIdle, LimitServed, AskedIsAnswered, vars, loopVars

\* execute() asks the oracle, and lets the guest run on.
LEMMA AskKeeps ==
  ASSUME TypeOK, CoreInv, HostInv, Ask
  PROVE  HostInv'
<1>1. /\ at = "result" /\ control = "host" /\ ToServe /\ asked' = InFlight
      /\ served \in Nat /\ served' \in Nat /\ served' > 0
      /\ UNCHANGED <<command, result, latency, max_traps>>
  BY DEF Ask, Returned, HostInv, Places
<1>2. command \notin {"none", "frame"}
  BY <1>1 DEF HostInv, Places
<1>3. Awaiting /\ (result = "ASYNC" => async_pending # None)
  BY <1>1 DEF HostInv, ResultIsTrue, ToServe, Awaiting, CoreInv, SingleChannel
<1>4. CASE result = "ASYNC" /\ latency > 0 /\ Run(latency) /\ at' = "interim"
  BY <1>1, <1>2, <1>3, <1>4
  DEF Run, HostInv, Places, StartsFresh, ResultIsTrue, RequestStays,
      SegmentLimited, RunsIdle, LimitServed,
      AskedIsAnswered, NobodyLeftWaiting, InFlight,
      deviceVars
<1>5. CASE UNCHANGED vars /\ at' = "reply"
  BY <1>1, <1>2, <1>3, <1>5
  DEF HostInv, Places, StartsFresh, ResultIsTrue, RequestStays,
      SegmentLimited, RunsIdle, LimitServed,
      AskedIsAnswered, NobodyLeftWaiting, InFlight,
      Awaiting, vars, loopVars, deviceVars
<1>6. QED
  BY <1>4, <1>5 DEF Ask

\* The oracle is exhausted.
LEMMA ExhaustedKeeps ==
  ASSUME HostInv, Exhausted
  PROVE  HostInv'
<1>1. /\ at \in {"result", "serve"} /\ at' = "raised" /\ control = "host"
      /\ UNCHANGED <<vars, command, result, latency, max_traps, served, asked>>
  BY DEF Exhausted, Raise, Returned
<1>2. command \notin {"none", "frame"}
  BY <1>1 DEF HostInv, Places
<1>3. QED
  BY <1>1, <1>2
  DEF HostInv, Places, StartsFresh, ResultIsTrue, RequestStays,
      SegmentLimited, RunsIdle, LimitServed,
      AskedIsAnswered, NobodyLeftWaiting, vars, loopVars

\* The guest ran on; the reply is in.
LEMMA InterimKeeps ==
  ASSUME HostInv, Interim
  PROVE  HostInv'
<1>1. /\ at = "interim" /\ control = "host"
      /\ at' = IF state \in {"HALTED", "FAULT"} THEN "done" ELSE "reply"
      /\ UNCHANGED <<vars, command, result, latency, max_traps, served, asked>>
  BY DEF Interim, Returned
<1>2. command \notin {"none", "frame"} /\ latency > 0
  BY <1>1 DEF HostInv, Places, RequestStays
<1>3. async_pending # None /\ async_pending = asked
  BY <1>1 DEF HostInv, RequestStays
<1>4. QED
  BY <1>1, <1>2, <1>3
  DEF HostInv, Places, StartsFresh, ResultIsTrue, RequestStays,
      SegmentLimited, RunsIdle, LimitServed,
      AskedIsAnswered, NobodyLeftWaiting, InFlight,
      Awaiting, vars, loopVars, deviceVars

\* What resume() returns to a command that goes on at next.
LEMMA ResumeReturns ==
  ASSUME TypeOK, CoreInv, NEW next, Resume(next)
  PROVE  /\ segment_limit' = segment_limit /\ control = "host"
         /\ \/ /\ at' = next /\ UNCHANGED loopVars
               /\ \/ result' = "TRAPPED" /\ state = "TRAPPED"
                  \/ result' = "ASYNC" /\ async_pending' # None
            \/ /\ at' = next /\ Idle' /\ RunOn
               /\ result' = IF control' = "host" THEN ResultOf(state') ELSE result
            \/ at' = "raised" /\ UNCHANGED <<loopVars, deviceVars>>
<1>1. CASE ResumeRetry /\ at' = next
           /\ result' = IF state = "TRAPPED" THEN "TRAPPED" ELSE "ASYNC"
  BY <1>1, RetryKeeps
<1>2. CASE /\ ResumeFinish /\ Returns
           /\ at' = IF aborted' > aborted THEN "raised" ELSE next
  <2>1. aborted \in Nat
    BY DEF TypeOK
  <2>2. QED
    BY <1>2, <2>1, AnswerReleases DEF Returns
<1>3. QED
  BY <1>1, <1>2 DEF Resume

\* What fail_trap() returns to it.
LEMMA FailReturns ==
  ASSUME TypeOK, CoreInv, NEW next, Fail(next)
  PROVE  /\ segment_limit' = segment_limit /\ control = "host"
         /\ \/ /\ at' = next /\ Idle' /\ RunOn
               /\ result' = IF control' = "host" THEN ResultOf(state') ELSE result
            \/ at' = "raised" /\ UNCHANGED <<loopVars, deviceVars>>
<1>1. aborted \in Nat
  BY DEF TypeOK
<1>2. QED
  BY <1>1, AnswerReleases DEF Fail, Returns

\* The reply reaches the machine, or the machine gives up on it.
LEMMA ReplyKeeps ==
  ASSUME TypeOK, CoreInv, HostInv, HandReply
  PROVE  HostInv'
<1>1. /\ at = "reply" /\ control = "host"
      /\ UNCHANGED <<command, latency, max_traps, served, asked>>
  BY DEF HandReply, Returned
<1>2. command \notin {"none", "frame"}
  BY <1>1 DEF HostInv, Places
<1>3. /\ segment_limit' = segment_limit
      /\ \/ /\ at' = "result" /\ UNCHANGED loopVars
            /\ \/ result' = "TRAPPED" /\ state = "TRAPPED"
               \/ result' = "ASYNC" /\ async_pending' # None
         \/ /\ at' = "result" /\ Idle' /\ RunOn
            /\ result' = IF control' = "host" THEN ResultOf(state') ELSE result
         \/ at' = "raised" /\ UNCHANGED <<loopVars, deviceVars>>
  BY ResumeReturns, FailReturns DEF HandReply
<1>4. Places' /\ StartsFresh' /\ RequestStays' /\ AskedIsAnswered'
      /\ (at = "reply" => Awaiting)' /\ NobodyLeftWaiting'
  BY <1>1, <1>2, <1>3
  DEF HostInv, Places, StartsFresh, RequestStays, AskedIsAnswered,
      NobodyLeftWaiting, loopVars
<1>5. SegmentLimited'
  BY <1>1, <1>3 DEF HostInv, SegmentLimited
<1>6. ResultIsTrue' /\ RunsIdle'
  BY <1>1, <1>3
  DEF ResultIsTrue, RunsIdle, LimitServed, ToServe, RunOn, ResultOf, Stopped, loopVars
<1>7. QED
  BY <1>4, <1>5, <1>6 DEF HostInv

\* max_traps is reached: the request is failed and the guest runs once more.
LEMMA HostLimitKeeps ==
  ASSUME TypeOK, CoreInv, HostInv, HostLimit
  PROVE  HostInv'
<1>1. /\ at = "result" /\ control = "host" /\ LimitServed
      /\ UNCHANGED <<command, latency, max_traps, served, asked>>
  BY DEF HostLimit, Returned
<1>2. command \notin {"none", "frame"}
  BY <1>1 DEF HostInv, Places
<1>3. /\ segment_limit' = segment_limit
      /\ \/ /\ at' = "last" /\ Idle' /\ RunOn
         \/ at' = "raised" /\ UNCHANGED <<loopVars, deviceVars>>
  BY FailReturns DEF HostLimit
<1>4. QED
  BY <1>1, <1>2, <1>3
  DEF HostInv, Places, StartsFresh, ResultIsTrue, RequestStays,
      SegmentLimited, RunsIdle, LimitServed,
      AskedIsAnswered, NobodyLeftWaiting, Idle,
      loopVars, deviceVars

\* A program is loaded.
LEMMA LoadKeeps ==
  ASSUME LoadProgram
  PROVE  HostInv'
BY DEF LoadProgram, Load, Command, Idle, HostInv, Places, StartsFresh,
       ResultIsTrue, RequestStays, SegmentLimited, RunsIdle, LimitServed,
       AskedIsAnswered,
       NobodyLeftWaiting

\* run starts.
LEMMA RunKeeps ==
  ASSUME HostInv, CmdRun
  PROVE  HostInv'
<1>1. /\ at = "done" /\ command = "none"
      /\ command' = "run" /\ at' = "execute" /\ latency' \in latencies
      /\ UNCHANGED <<vars, result, served, asked>>
  BY DEF CmdRun
<1>2. state = "READY" /\ control = "host" /\ Idle
  BY <1>1 DEF HostInv, StartsFresh
<1>3. QED
  BY <1>1, <1>2
  DEF Command, Idle, HostInv, Places, StartsFresh, ResultIsTrue, RequestStays,
      SegmentLimited, RunsIdle, LimitServed,
      AskedIsAnswered, NobodyLeftWaiting, vars,
      loopVars, deviceVars

\* frame starts.
LEMMA FrameKeeps ==
  ASSUME HostInv, CmdFrame
  PROVE  HostInv'
<1>1. /\ at = "done" /\ command = "none" /\ command' = "frame"
      /\ UNCHANGED <<latency, max_traps, served, asked>>
      /\ at' \in {"publish", "raised"}
      /\ control' = "loop" => at' = "publish"
  BY DEF CmdFrame, CallRun, Raise, Returned, Run, vars, loopVars
<1>2. QED
  BY <1>1
  DEF Command, HostInv, Places, StartsFresh, ResultIsTrue, RequestStays,
      SegmentLimited, RunsIdle, LimitServed, AskedIsAnswered, NobodyLeftWaiting

\* frame and resume publish what they have.
LEMMA PublishKeeps ==
  ASSUME TypeOK, HostInv, PublishFrame
  PROVE  HostInv'
<1>1. /\ at = "publish" /\ at' = "done" /\ control = "host"
      /\ UNCHANGED <<vars, command, result, latency, max_traps, served, asked>>
  BY DEF PublishFrame, Returned
<1>2. command \notin {"none", "run"}
  BY <1>1 DEF HostInv, Places
<1>3. QED
  BY <1>1, <1>2
  DEF HostInv, Places, StartsFresh, ResultIsTrue, RequestStays,
      SegmentLimited, RunsIdle, LimitServed,
      AskedIsAnswered, NobodyLeftWaiting, vars,
      loopVars

\* A new process mounts the machine.
LEMMA MountKeeps ==
  ASSUME HostInv, CmdResume \/ CmdMount
  PROVE  HostInv'
<1>1. /\ control' = "host" /\ latency' = 0 /\ served' \in Nat
      /\ command' \in {"resume", "mount"}
      /\ at' \in {"feed", "raised", "serve", "execute"}
  BY DEF CmdResume, CmdMount, Mounted, Returned, loopVars, HostInv, Places
<1>2. QED
  BY <1>1
  DEF Command, HostInv, Places, StartsFresh, ResultIsTrue, RequestStays,
      SegmentLimited, RunsIdle, LimitServed, AskedIsAnswered, NobodyLeftWaiting

\* resume, and mount --run, hand replies to a suspended machine.
LEMMA FeedKeeps ==
  ASSUME TypeOK, CoreInv, HostInv, Feed \/ Serve
  PROVE  HostInv'
<1>1. /\ at \in {"feed", "serve"}
      /\ UNCHANGED <<command, latency, max_traps, served, asked>>
  BY DEF Feed, Serve
<1>2. command \notin {"none", "frame", "run"}
  BY <1>1 DEF HostInv, Places
<1>3. /\ at' \in {"publish", "serve", "raised", "done"}
      /\ control' = "loop" => at' \in {"publish", "serve"}
  <2>1. CASE Feed
    BY <2>1, ResumeReturns DEF Feed, loopVars
  <2>2. CASE Serve /\ result = "TRAPPED"
    BY <2>2, ResumeReturns DEF Serve, loopVars
  <2>3. CASE Serve /\ result # "TRAPPED"
    BY <2>3 DEF Serve, Returned, vars, loopVars
  <2>4. QED
    BY <2>1, <2>2, <2>3
<1>4. QED
  BY <1>1, <1>2, <1>3
  DEF HostInv, Places, StartsFresh, ResultIsTrue, RequestStays,
      SegmentLimited, RunsIdle, LimitServed, AskedIsAnswered, NobodyLeftWaiting

\* Every step of every command keeps the invariant.
LEMMA HostStep ==
  TypeOK /\ CoreInv /\ HostInv /\ [HostNext]_allVars
  => TypeOK' /\ CoreInv' /\ HostInv'
<1> SUFFICES ASSUME TypeOK, CoreInv, HostInv, [HostNext]_allVars
             PROVE  TypeOK' /\ CoreInv' /\ HostInv'
  OBVIOUS
<1>1. TypeOK' /\ CoreInv'
  <2>1. latency \in latencies \cup {0}
    BY DEF HostInv, Places
  <2>2. QED
    BY <2>1, MachineStep, MountedStep, TypeStep, CoreStep
<1>2. CASE Loop
  BY <1>1, <1>2, LoopKeeps
<1>3. CASE Execute \/ ExecuteReturns \/ Ask \/ Exhausted \/ Interim
  BY <1>1, <1>3, ExecuteKeeps, ReturnKeeps, AskKeeps, ExhaustedKeeps, InterimKeeps
<1>4. CASE HandReply \/ HostLimit
  BY <1>1, <1>4, ReplyKeeps, HostLimitKeeps
<1>5. CASE LoadProgram \/ CmdRun \/ CmdFrame
  BY <1>1, <1>5, LoadKeeps, RunKeeps, FrameKeeps
<1>6. CASE PublishFrame \/ CmdResume \/ CmdMount \/ Feed \/ Serve
  BY <1>1, <1>6, PublishKeeps, MountKeeps, FeedKeeps
<1>7. CASE UNCHANGED allVars
  BY <1>1, <1>7
  DEF allVars, hostVars, vars, loopVars, deviceVars, Awaiting, InFlight, Idle,
      Outstanding, ToServe, HostInv, Places, StartsFresh, ResultIsTrue,
      RequestStays, SegmentLimited, RunsIdle, LimitServed, AskedIsAnswered,
      NobodyLeftWaiting
<1>8. QED
  BY <1>1, <1>2, <1>3, <1>4, <1>5, <1>6, <1>7 DEF HostNext

\* The machine starts loaded, with no command.
LEMMA HostStarts == HostInit => TypeOK /\ CoreInv /\ HostInv
<1>1. HostInit => Init
  BY DEF HostInit
<1>2. HostInit => HostInv
  BY DEF HostInit, Init, Command, Idle, HostInv, Places, StartsFresh,
         ResultIsTrue, RequestStays, SegmentLimited, RunsIdle, LimitServed,
         AskedIsAnswered,
         NobodyLeftWaiting
<1>3. QED
  BY <1>1, <1>2, InitType, FreshInv

-----------------------------------------------------------------------------
(***************************************************************************)
(* Theorems.                                                               *)
(***************************************************************************)
\* The channel, the interrupts and the counters are right under the commands
\* too, and so is what the commands believe about the machine.
THEOREM HostCorrect == HostSpec => [](TypeOK /\ CoreInv /\ HostInv)
BY HostStarts, HostStep, PTL DEF HostSpec

\* execute() hands a reply to the attempt it asked about (machine.py:892-918):
\* whatever the guest does while a slow device thinks, the request stays in its
\* slot, and no other one can be issued.
THEOREM AskedCorrect == HostSpec => []AskedIsAnswered
<1>1. HostInv => AskedIsAnswered
  BY DEF HostInv
<1>2. QED
  BY <1>1, HostCorrect, PTL

\* execute() returns a stopped machine that owes no answer (its docstring), a
\* slow device and the host's limit on traps apart.
THEOREM NobodyLeftCorrect == HostSpec => []NobodyLeftWaiting
<1>1. HostInv => NobodyLeftWaiting
  BY DEF HostInv
<1>2. QED
  BY <1>1, HostCorrect, PTL

\* Each segment that run or frame start gets the limit they were given.
LEMMA LimitStep ==
  ASSUME TypeOK, CoreInv, HostInv, [HostNext]_allVars,
         control = "host", control' = "loop", command' \in {"run", "frame"}
  PROVE  fuel' = limit \/ (latency' > 0 /\ served' > 0 /\ fuel' = latency')
<1>1. CASE Loop \/ LoadProgram \/ UNCHANGED allVars
  BY <1>1 DEF Loop, LoadProgram, Load, allVars, vars, loopVars
<1>2. CASE Execute \/ CmdFrame
  BY <1>2
  DEF Execute, CmdFrame, CallRun, Raise, Run, vars, loopVars
<1>3. CASE Ask
  BY <1>3 DEF Ask, Run, HostInv, Places, vars, loopVars
<1>4. CASE HandReply
  <2>1. command = "run" /\ at = "reply" /\ UNCHANGED <<latency, served>>
    BY <1>4 DEF HandReply, HostInv, Places
  <2>2. segment_limit = limit \/ (latency > 0 /\ served > 0 /\ segment_limit = latency)
    BY <2>1 DEF HostInv, SegmentLimited
  <2>3. RunOn \/ UNCHANGED loopVars
    BY <1>4, ResumeReturns, FailReturns DEF HandReply
  <2>4. QED
    BY <2>1, <2>2, <2>3 DEF RunOn, loopVars
<1>5. CASE HostLimit
  <2>1. command = "run" /\ at = "result" /\ UNCHANGED <<latency, served>>
    BY <1>5 DEF HostLimit, HostInv, Places
  <2>2. segment_limit = limit \/ (latency > 0 /\ served > 0 /\ segment_limit = latency)
    BY <2>1 DEF HostInv, SegmentLimited
  <2>3. RunOn \/ UNCHANGED loopVars
    BY <1>5, FailReturns DEF HostLimit
  <2>4. QED
    BY <2>1, <2>2, <2>3 DEF RunOn, loopVars
<1>6. CASE Feed \/ Serve
  BY <1>6 DEF Feed, Serve, HostInv, Places
<1>7. CASE ExecuteReturns \/ Exhausted \/ Interim \/ CmdRun \/ PublishFrame
  BY <1>7
  DEF ExecuteReturns, Exhausted, Raise, Interim, CmdRun, PublishFrame, vars, loopVars
<1>8. CASE CmdResume \/ CmdMount
  BY <1>8 DEF CmdResume, CmdMount, Mounted, loopVars
<1>9. QED
  BY <1>1, <1>2, <1>3, <1>4, <1>5, <1>6, <1>7, <1>8 DEF HostNext

\* A resumed guest continues under the limit of the command (run()'s docstring),
\* or under the latency once a slow device was asked, also after retries,
\* failures and interrupts.
THEOREM LimitCorrect == HostSpec => LimitIsKept
<1>1. TypeOK /\ CoreInv /\ HostInv /\ [HostNext]_allVars
      => [(control = "host" /\ control' = "loop" /\ command' \in {"run", "frame"})
          => fuel' = limit \/ (latency' > 0 /\ served' > 0 /\ fuel' = latency')]_allVars
  BY LimitStep
<1>2. QED
  BY <1>1, HostCorrect, PTL DEF HostSpec, LimitIsKept

=============================================================================
