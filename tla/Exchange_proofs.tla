-------------------------- MODULE Exchange_proofs ---------------------------
(***************************************************************************)
(* The election among replicas; that a request quoted is no reply; what a  *)
(* request may cost, for any number of retries, replicas and HTTP retries: *)
(* three nested loops, none of which restarts an outer one; and that a     *)
(* status names the fault that befell a reply, and a minority of bad       *)
(* samples is repaired, whatever the answers are.                          *)
(***************************************************************************)
EXTENDS Exchange, Wire_proofs

\* Finite domains: the counts are natural numbers within the population.
LEMMA TallyBounds ==
  ASSUME NEW f, IsFiniteSet(DOMAIN f), NEW v
  PROVE  /\ Tally(f, v) \in Nat
         /\ Cardinality(DOMAIN f) \in Nat
         /\ Tally(f, v) <= Cardinality(DOMAIN f)
<1>1. {i \in DOMAIN f : f[i] = v} \subseteq DOMAIN f
  OBVIOUS
<1>2. QED
  BY <1>1, FS_Subset, FS_CardinalityType DEF Tally

\* Two different values cannot be counted twice in the same population.
LEMMA TalliesDisjoint ==
  ASSUME NEW f, IsFiniteSet(DOMAIN f), NEW v, NEW w, v # w
  PROVE  Tally(f, v) + Tally(f, w) <= Cardinality(DOMAIN f)
<1> DEFINE V == {i \in DOMAIN f : f[i] = v}
           U == {i \in DOMAIN f : f[i] = w}
<1>1. IsFiniteSet(V) /\ IsFiniteSet(U)
  BY FS_Subset
<1>2. V \cap U = {}
  OBVIOUS
<1>3. IsFiniteSet(V \cup U) /\ Cardinality(V \cup U) = Cardinality(V) + Cardinality(U)
  <2>1. /\ IsFiniteSet(V \cup U)
        /\ Cardinality(V \cup U) = Cardinality(V) + Cardinality(U) - Cardinality(V \cap U)
    BY <1>1, FS_Union
  <2>2. Cardinality(V \cap U) = 0
    BY <1>2, FS_EmptySet
  <2>3. Cardinality(V) \in Nat /\ Cardinality(U) \in Nat
    BY <1>1, FS_CardinalityType
  <2>4. QED
    BY <2>1, <2>2, <2>3
<1>4. V \cup U \subseteq DOMAIN f
  OBVIOUS
<1>5. Cardinality(V \cup U) <= Cardinality(DOMAIN f)
  BY <1>4, FS_Subset
<1>6. QED
  BY <1>3, <1>5 DEF Tally

\* A value that a strict majority holds leads, and nothing else does.
LEMMA MajorityLeads ==
  ASSUME NEW f, IsFiniteSet(DOMAIN f), NEW v,
         2 * Tally(f, v) > Cardinality(DOMAIN f)
  PROVE  Leader(f) = v /\ HasLeader(f)
<1> DEFINE Values == {f[i] : i \in DOMAIN f}
           Leads(w) == \A i \in DOMAIN f : Tally(f, f[i]) <= Tally(f, w)
<1>1. v \in Values
  <2>1. CASE \E i \in DOMAIN f : f[i] = v
    BY <2>1
  <2>2. CASE ~ \E i \in DOMAIN f : f[i] = v
    <3>1. {i \in DOMAIN f : f[i] = v} = {}
      BY <2>2
    <3>2. Tally(f, v) = 0
      BY <3>1, FS_EmptySet DEF Tally
    <3>3. QED
      BY <3>2, TallyBounds
  <2>3. QED
    BY <2>1, <2>2
<1>2. ASSUME NEW w, w # v
      PROVE  Tally(f, w) < Tally(f, v)
  BY <1>2, TalliesDisjoint, TallyBounds
<1>3. Leads(v)
  <2> SUFFICES ASSUME NEW i \in DOMAIN f
               PROVE  Tally(f, f[i]) <= Tally(f, v)
    OBVIOUS
  <2>1. CASE f[i] = v
    BY <2>1, TallyBounds
  <2>2. CASE f[i] # v
    BY <2>2, <1>2, TallyBounds
  <2>3. QED
    BY <2>1, <2>2
<1>4. ASSUME NEW w \in Values, Leads(w)
      PROVE  w = v
  <2>1. PICK i \in DOMAIN f : f[i] = v
    BY <1>1
  <2>2. Tally(f, v) <= Tally(f, w)
    BY <2>1, <1>4
  <2>3. QED
    BY <2>2, <1>2, TallyBounds
<1>5. Leader(f) = CHOOSE w \in Values : Leads(w)
  BY DEF Leader
<1>6. Leader(f) = v
  <2>1. Leader(f) \in Values /\ Leads(Leader(f))
    BY <1>1, <1>3, <1>5
  <2>2. QED
    BY <2>1, <1>4
<1>7. QED
  BY <1>6 DEF HasLeader

-----------------------------------------------------------------------------
\* The whole population and any part of it, for sequences of payloads.
LEMMA Populations ==
  ASSUME NEW Byte, NEW payloads \in Seq(Seq(Byte))
  PROVE  /\ IsFiniteSet(DOMAIN payloads)
         /\ Cardinality(DOMAIN payloads) = Len(payloads)
         /\ DOMAIN Lengths(payloads) = DOMAIN payloads
         /\ IsFiniteSet(Survivors(payloads))
         /\ Survivors(payloads) \subseteq DOMAIN payloads
         /\ \A p : DOMAIN Column(payloads, p) = Survivors(payloads)
<1>1. DOMAIN payloads = 1 .. Len(payloads) /\ Len(payloads) \in Nat
  OBVIOUS
<1>2. /\ IsFiniteSet(1 .. Len(payloads))
      /\ Cardinality(1 .. Len(payloads)) = Len(payloads)
  BY <1>1, FS_Interval, SMTT(20)
<1>3. Survivors(payloads) \subseteq DOMAIN payloads
  BY DEF Survivors
<1>4. QED
  BY <1>1, <1>2, <1>3, FS_Subset DEF Lengths, Column

\* vote(): a payload that a strict majority of all the replicas returned is
\* elected, whatever the others returned.
THEOREM MajorityElected ==
  ASSUME NEW Byte, NEW payloads \in Seq(Seq(Byte)), NEW truth \in Seq(Byte),
         2 * Tally(payloads, truth) > Len(payloads)
  PROVE  Elects(payloads) /\ Elected(payloads) = truth
<1> DEFINE Holders == {r \in DOMAIN payloads : payloads[r] = truth}
<1>1. /\ IsFiniteSet(Holders) /\ Cardinality(Holders) \in Nat
      /\ 2 * Cardinality(Holders) > Len(payloads)
  BY Populations, FS_Subset, FS_CardinalityType DEF Tally
<1>2. HasLeader(Lengths(payloads)) /\ Leader(Lengths(payloads)) = Len(truth)
  <2> DEFINE SameLength == {r \in DOMAIN payloads : Lengths(payloads)[r] = Len(truth)}
  <2>1. Holders \subseteq SameLength /\ SameLength \subseteq DOMAIN payloads
    BY DEF Lengths
  <2>2. IsFiniteSet(SameLength) /\ Cardinality(SameLength) \in Nat
    BY <2>1, Populations, FS_Subset, FS_CardinalityType
  <2>3. Cardinality(Holders) <= Cardinality(SameLength)
    BY <2>1, <2>2, FS_Subset
  <2>4. Tally(Lengths(payloads), Len(truth)) = Cardinality(SameLength)
    BY Populations DEF Tally
  <2>5. 2 * Tally(Lengths(payloads), Len(truth)) > Cardinality(DOMAIN Lengths(payloads))
    BY <1>1, <2>2, <2>3, <2>4, Populations
  <2>6. QED
    BY <2>5, MajorityLeads, Populations
<1>3. Holders \subseteq Survivors(payloads)
  BY <1>2 DEF Survivors
<1>4. ASSUME NEW p \in Positions(payloads)
      PROVE  HasLeader(Column(payloads, p)) /\ Leader(Column(payloads, p)) = truth[p]
  <2> DEFINE C == Column(payloads, p)
             Agree == {r \in Survivors(payloads) : C[r] = truth[p]}
  <2>1. Holders \subseteq Agree /\ Agree \subseteq Survivors(payloads)
    BY <1>3 DEF Column
  <2>2. IsFiniteSet(Agree) /\ Cardinality(Agree) \in Nat
    BY <2>1, Populations, FS_Subset, FS_CardinalityType
  <2>3. Cardinality(Holders) <= Cardinality(Agree)
    BY <2>1, <2>2, FS_Subset
  <2>4. /\ Cardinality(Survivors(payloads)) <= Len(payloads)
        /\ Cardinality(Survivors(payloads)) \in Nat
    BY Populations, FS_Subset, FS_CardinalityType
  <2>5. Tally(C, truth[p]) = Cardinality(Agree)
    BY Populations DEF Tally
  <2>6. Len(payloads) \in Nat
    OBVIOUS
  <2>7. 2 * Tally(C, truth[p]) > Cardinality(DOMAIN C)
    BY <1>1, <2>2, <2>3, <2>4, <2>5, <2>6, Populations
  <2>8. IsFiniteSet(DOMAIN C)
    BY Populations
  <2>9. QED
    BY <2>7, <2>8, MajorityLeads
<1>5. payloads # <<>>
  <2>1. CASE payloads = <<>>
    <3>1. Holders = {}
      BY <2>1
    <3>2. Cardinality(Holders) = 0
      BY <3>1, FS_EmptySet
    <3>3. QED
      BY <1>1, <2>1, <3>2
  <2>2. QED
    BY <2>1
<1>6. Elects(payloads)
  BY <1>2, <1>4, <1>5 DEF Elects
<1>7. Positions(payloads) = 1 .. Len(truth)
  BY <1>2 DEF Positions
<1>8. Elected(payloads) = [p \in 1 .. Len(truth) |-> truth[p]]
  BY <1>4, <1>7 DEF Elected
<1>9. truth = [p \in 1 .. Len(truth) |-> truth[p]]
  OBVIOUS
<1>10. QED
  BY <1>6, <1>8, <1>9

-----------------------------------------------------------------------------
\* A count that reaches the population is unanimous.
LEMMA Unanimous ==
  ASSUME NEW f, IsFiniteSet(DOMAIN f), NEW v,
         Tally(f, v) = Cardinality(DOMAIN f)
  PROVE  \A i \in DOMAIN f : f[i] = v
<1> DEFINE V == {i \in DOMAIN f : f[i] = v}
<1>1. V \subseteq DOMAIN f
  OBVIOUS
<1>2. V = DOMAIN f
  BY <1>1, FS_Subset DEF Tally
<1>3. QED
  BY <1>2

\* VoteResult.unanimous: when vote() reports nothing repaired and nobody
\* discarded, every replica returned the elected payload.
THEOREM NothingHidden ==
  ASSUME NEW Byte, NEW payloads \in Seq(Seq(Byte)), Elects(payloads),
         Corrected(payloads) = {}, Discarded(payloads) = {}
  PROVE  \A r \in DOMAIN payloads : payloads[r] = Elected(payloads)
<1> SUFFICES ASSUME NEW r \in DOMAIN payloads
             PROVE  payloads[r] = Elected(payloads)
  OBVIOUS
<1>1. r \in Survivors(payloads)
  BY DEF Discarded
<1>2. Len(payloads[r]) = Leader(Lengths(payloads))
  BY <1>1 DEF Survivors
<1>3. ASSUME NEW p \in Positions(payloads)
      PROVE  payloads[r][p] = Leader(Column(payloads, p))
  <2>1. Tally(Column(payloads, p), Leader(Column(payloads, p)))
          = Cardinality(DOMAIN Column(payloads, p))
    BY Populations DEF Corrected
  <2>2. Column(payloads, p)[r] = Leader(Column(payloads, p))
    BY <1>1, <2>1, Populations, Unanimous
  <2>3. QED
    BY <1>1, <2>2 DEF Column
<1>4. payloads[r] \in Seq(Byte)
  OBVIOUS
<1>5. payloads[r] = [p \in 1 .. Len(payloads[r]) |-> payloads[r][p]]
  BY <1>4
<1>6. QED
  BY <1>2, <1>3, <1>5 DEF Elected, Positions

\* vote()'s docstring: a pair detects a disagreement and never corrects it.
THEOREM PairNeverCorrects ==
  ASSUME NEW Byte, NEW payloads \in Seq(Seq(Byte)), Len(payloads) = 2,
         Elects(payloads)
  PROVE  payloads[1] = payloads[2]
<1>1. Cardinality(DOMAIN payloads) = 2 /\ IsFiniteSet(DOMAIN payloads)
  BY Populations
<1>2. ASSUME NEW f, DOMAIN f = DOMAIN payloads, HasLeader(f)
      PROVE  \A i \in DOMAIN f : f[i] = Leader(f)
  <2>1. Tally(f, Leader(f)) \in Nat /\ Tally(f, Leader(f)) <= 2
    BY <1>1, <1>2, TallyBounds
  <2>2. Tally(f, Leader(f)) = Cardinality(DOMAIN f)
    BY <1>1, <1>2, <2>1 DEF HasLeader
  <2>3. QED
    BY <1>1, <1>2, <2>2, Unanimous
<1>3. \A r \in DOMAIN payloads : Lengths(payloads)[r] = Leader(Lengths(payloads))
  BY <1>2, Populations DEF Elects
<1>4. Survivors(payloads) = DOMAIN payloads
  BY <1>3 DEF Survivors, Lengths
<1>5. \A p \in Positions(payloads) : \A r \in DOMAIN payloads :
        Column(payloads, p)[r] = Leader(Column(payloads, p))
  BY <1>2, <1>4, Populations DEF Elects
<1>6. Corrected(payloads) = {}
  <2> SUFFICES ASSUME NEW p \in Positions(payloads)
               PROVE  Tally(Column(payloads, p), Leader(Column(payloads, p)))
                        = Cardinality(Survivors(payloads))
    BY DEF Corrected
  <2>1. {i \in DOMAIN Column(payloads, p) :
           Column(payloads, p)[i] = Leader(Column(payloads, p))} = Survivors(payloads)
    BY <1>4, <1>5, Populations
  <2>2. QED
    BY <2>1 DEF Tally
<1>7. Discarded(payloads) = {}
  BY <1>4 DEF Discarded
<1>8. QED
  BY <1>6, <1>7, NothingHidden, SMTT(20)

-----------------------------------------------------------------------------
(***************************************************************************)
(* The cost of a request.                                                  *)
(***************************************************************************)
\* What one call, one attempt and the whole request may cost.
Tries == MaxHttpRetries + 1
PerAttempt == frame.replicas * Tries

\* The calls made so far: whole attempts, the sub-calls of this one that gave a
\* payload, the tries of this call.
Spent ==
  CASE phase = "ask" -> (frame.attempt - 1) * PerAttempt + Len(gathered) * Tries + http
    [] OTHER -> frame.attempt * PerAttempt

\* gathered is a sequence, of whatever payloads are made of.
Gathering ==
  /\ \E S : gathered \in Seq(S)
  /\ gathered # <<>> => Independent /\ Len(gathered) < frame.replicas

\* The calls so far are within what the attempts so far may cost.
Budget ==
  /\ phase \in {"ask", "reply", "done", "raised"}
  /\ frame \in Frame /\ frame.attempt <= frame.retries + 1
  /\ http \in 0 .. MaxHttpRetries
  /\ Gathering
  /\ (gathered # <<>> \/ http # 0) => IsClaude
  /\ phase \in {"reply", "done"} => gathered = <<>> /\ http = 0
  /\ calls \in Nat /\ calls <= Spent

-----------------------------------------------------------------------------
(***************************************************************************)
(* Arithmetic: one step further inside a product, or over its edge.        *)
(***************************************************************************)
\* A try more fits into the call, a call more into the attempt, an attempt more
\* into the request.
LEMMA Nested ==
  ASSUME NEW a \in Nat, NEW r \in Nat, NEW t \in Nat, NEW g \in Nat, a > 0, g < r
  PROVE  /\ a * (r * t) \in Nat /\ (a - 1) * (r * t) \in Nat /\ g * t \in Nat
         /\ (a - 1) * (r * t) + g * t + t <= a * (r * t)
         /\ (g + 1) * t = g * t + t
         /\ (a - 1) * (r * t) <= a * (r * t)
<1>1. a * (r * t) = (a - 1) * (r * t) + r * t
  OBVIOUS
<1>2. (g + 1) * t = g * t + t
  OBVIOUS
<1>3. (g + 1) * t <= r * t
  <2>1. PICK k \in Nat : r = g + 1 + k
    <3>1. r - (g + 1) \in Nat /\ r = g + 1 + (r - (g + 1))
      OBVIOUS
    <3>2. QED
      BY <3>1
  <2>2. r * t = (g + 1) * t + k * t
    BY <2>1
  <2>3. k * t \in Nat /\ (g + 1) * t \in Nat
    OBVIOUS
  <2>4. QED
    BY <2>2, <2>3
<1>4. r * t \in Nat /\ g * t \in Nat /\ a * (r * t) \in Nat
      /\ (a - 1) * (r * t) \in Nat
  OBVIOUS
<1>5. QED
  BY <1>1, <1>2, <1>3, <1>4

\* The attempts of a request fit into what its retries allow.
LEMMA Attempts ==
  ASSUME NEW a \in Nat, NEW n \in Nat, NEW p \in Nat, a <= n + 1
  PROVE  a * p <= (n + 1) * p
<1>1. PICK k \in Nat : n + 1 = a + k
  <2>1. n + 1 - a \in Nat /\ n + 1 = a + (n + 1 - a)
    OBVIOUS
  <2>2. QED
    BY <2>1
<1>2. (n + 1) * p = a * p + k * p
  BY <1>1
<1>3. a * p \in Nat /\ k * p \in Nat
  OBVIOUS
<1>4. QED
  BY <1>2, <1>3

\* While a backend is asked, one more try is paid for in every account.
LEMMA Room ==
  ASSUME Budget, phase = "ask"
  PROVE  /\ calls \in Nat /\ Len(gathered) \in Nat /\ Tries \in Nat
         /\ Len(gathered) < frame.replicas
         /\ frame.attempt \in Nat /\ frame.attempt > 0
         /\ (frame.attempt - 1) * PerAttempt \in Nat
         /\ frame.attempt * PerAttempt \in Nat
         /\ calls <= (frame.attempt - 1) * PerAttempt + Len(gathered) * Tries + http
         /\ calls + 1 <= (frame.attempt - 1) * PerAttempt + (Len(gathered) + 1) * Tries
         /\ calls + 1 <= frame.attempt * PerAttempt
<1>1. /\ frame.attempt \in Nat /\ frame.attempt > 0
      /\ frame.replicas \in Nat /\ frame.replicas > 0
  BY DEF Budget, Frame
<1>2. Tries \in Nat /\ http \in Nat /\ http + 1 <= Tries
  BY ExchangeAssumption DEF Budget, Tries
<1>3. Len(gathered) \in Nat /\ Len(gathered) < frame.replicas
  <2>1. PICK S : gathered \in Seq(S)
    BY DEF Budget, Gathering
  <2>2. QED
    BY <1>1, <2>1 DEF Budget, Gathering
<1>4. /\ calls \in Nat
      /\ calls <= (frame.attempt - 1) * PerAttempt + Len(gathered) * Tries + http
  BY DEF Budget, Spent
<1>5. /\ frame.attempt * PerAttempt \in Nat
      /\ (frame.attempt - 1) * PerAttempt \in Nat /\ Len(gathered) * Tries \in Nat
      /\ (frame.attempt - 1) * PerAttempt + Len(gathered) * Tries + Tries
           <= frame.attempt * PerAttempt
      /\ (Len(gathered) + 1) * Tries = Len(gathered) * Tries + Tries
  <2> DEFINE a == frame.attempt
             r == frame.replicas
             t == Tries
             g == Len(gathered)
  <2>1. a \in Nat /\ r \in Nat /\ t \in Nat /\ g \in Nat /\ a > 0 /\ g < r
    BY <1>1, <1>2, <1>3
  <2>2. PerAttempt = r * t
    BY DEF PerAttempt
  <2> HIDE DEF a, r, t, g
  <2>3. /\ a * (r * t) \in Nat /\ (a - 1) * (r * t) \in Nat /\ g * t \in Nat
        /\ (a - 1) * (r * t) + g * t + t <= a * (r * t)
        /\ (g + 1) * t = g * t + t
    BY <2>1, Nested
  <2>4. QED
    BY <2>2, <2>3 DEF a, r, t, g
<1>6. QED
  BY <1>1, <1>2, <1>3, <1>4, <1>5

\* Once the machine has a reply, or the process is gone, the attempt is paid.
LEMMA Handed ==
  ASSUME Budget, phase = "ask", frame' = frame, backend' = backend,
         phase' \in {"reply", "raised"}, calls' \in {calls, calls + 1},
         \/ gathered' = <<>> /\ http' = 0
         \/ phase' = "raised" /\ UNCHANGED <<gathered, http>>
  PROVE  Budget'
<1>1. calls' \in Nat /\ calls' <= frame.attempt * PerAttempt
  BY Room
<1>2. Spent' = frame.attempt * PerAttempt
  BY DEF Spent, PerAttempt, Tries
<1>3. Gathering'
  <2>1. CASE gathered' = <<>>
    <3>1. gathered' \in Seq({})
      BY <2>1
    <3>2. QED
      BY <2>1, <3>1 DEF Gathering
  <2>2. CASE gathered' = gathered
    BY <2>2 DEF Budget, Gathering, Independent
  <2>3. QED
    BY <2>1, <2>2
<1>4. QED
  BY <1>1, <1>2, <1>3, ExchangeAssumption DEF Budget, IsClaude

\* The sub-call gave one payload more.
LEMMA GatherOne ==
  ASSUME NEW S, NEW list \in Seq(S), NEW x
  PROVE  /\ list \o SetToSeq({x}) \in Seq(S \cup {x})
         /\ Len(list \o SetToSeq({x})) = Len(list) + 1
         /\ list \o SetToSeq({x}) # <<>>
<1>1. Cardinality({x}) = 1
  BY FS_Singleton
<1>2. SetToSeq({x}) \in [1 .. 1 -> {x}]
  <2>1. [i \in 1 .. 1 |-> x] \in [1 .. 1 -> {x}] /\ IsInjective([i \in 1 .. 1 |-> x])
    BY DEF IsInjective
  <2>2. QED
    BY <1>1, <2>1 DEF SetToSeq
<1>3. PICK one \in [1 .. 1 -> {x}] : one = SetToSeq({x})
  BY <1>2
<1>4. one = [i \in 1 .. 1 |-> one[i]] /\ one[1] = x
  OBVIOUS
<1>5. one \in Seq({x}) /\ Len(one) = 1
  BY <1>4
<1>6. list \in Seq(S \cup {x}) /\ one \in Seq(S \cup {x})
  BY <1>5, SeqMonotonic
<1>7. list \o one \in Seq(S \cup {x}) /\ Len(list \o one) = Len(list) + 1
  BY <1>5, <1>6, ConcatProperties, ZenonT(30)
<1>8. list \o one # <<>>
  BY <1>5, <1>6, ConcatEqualIffEmpty, EmptySeq
<1>9. QED
  BY <1>3, <1>7, <1>8

-----------------------------------------------------------------------------
(***************************************************************************)
(* The steps.                                                              *)
(***************************************************************************)
\* A backend in the machine's process calls nobody.
LEMMA InProcessKeeps ==
  ASSUME Budget,
         AskCallback \/ AskDeclined \/ AskEcho \/ AskNoisy \/ AskManual
  PROVE  Budget'
<1>1. /\ phase = "ask" /\ ~IsClaude /\ phase' = "reply"
      /\ UNCHANGED <<backend, frame, http, gathered, calls>>
  BY DEF AskCallback, AskDeclined, AskEcho, AskNoisy, AskManual, InProcess, Hand,
     IsClaude
<1>2. gathered = <<>> /\ http = 0
  BY <1>1 DEF Budget
<1>3. QED
  BY <1>1, <1>2, Handed

\* A failed try is tried again, or the whole request is given up.
LEMMA HttpKeeps ==
  ASSUME Budget, HttpRetryable \/ HttpFatal \/ AskClaude
  PROVE  Budget'
<1>1. phase = "ask" /\ IsClaude /\ calls' = calls + 1 /\ UNCHANGED <<backend, frame>>
  BY DEF HttpRetryable, HttpFatal, AskClaude
<1>2. CASE HttpRetryable /\ MayTryAgain
  <2>1. /\ http' = http + 1 /\ http' \in 0 .. MaxHttpRetries
        /\ UNCHANGED <<phase, gathered>>
    BY <1>2, ExchangeAssumption DEF HttpRetryable, MayTryAgain, Budget
  <2>2. Spent' = (frame.attempt - 1) * PerAttempt + Len(gathered) * Tries + (http + 1)
    BY <1>1, <2>1 DEF Spent, PerAttempt, Tries
  <2>3. /\ calls \in Nat /\ http \in Nat
        /\ (frame.attempt - 1) * PerAttempt \in Nat /\ Len(gathered) * Tries \in Nat
        /\ calls <= (frame.attempt - 1) * PerAttempt + Len(gathered) * Tries + http
    BY <1>1, Room DEF Budget
  <2>4. calls' \in Nat /\ calls' <= Spent'
    BY <1>1, <2>2, <2>3
  <2>5. QED
    BY <1>1, <2>1, <2>4 DEF Budget, Gathering, Independent, IsClaude
<1>3. CASE HttpRetryable /\ ~MayTryAgain
  BY <1>1, <1>3, Handed DEF HttpRetryable, Hand
<1>4. CASE HttpFatal
  BY <1>1, <1>4, Handed DEF HttpFatal
<1>5. CASE AskClaude
  <2>1. gathered = <<>>
    BY <1>5 DEF AskClaude, Budget, Gathering
  <2>2. QED
    BY <1>1, <1>5, <2>1, Handed DEF AskClaude, Hand
<1>6. QED
  BY <1>2, <1>3, <1>4, <1>5

\* A sub-call answers for one replica, and the last of them for the attempt.
LEMMA IndependentKeeps ==
  ASSUME Budget, AskIndependent
  PROVE  Budget'
<1>1. /\ phase = "ask" /\ Independent /\ calls' = calls + 1 /\ http' = 0
      /\ UNCHANGED <<backend, frame>>
  BY DEF AskIndependent
<1>2. CASE phase' = "reply" /\ gathered' = <<>>
  BY <1>1, <1>2, Handed
<1>3. ASSUME NEW text, TakenBlock(text) # {},
             Len(gathered \o SetToSeq(TakenBlock(text))) # frame.replicas,
             gathered' = gathered \o SetToSeq(TakenBlock(text)), phase' = phase
      PROVE  Budget'
  <2>1. PICK x : TakenBlock(text) = {x}
    BY <1>3 DEF TakenBlock
  <2>2. PICK S : gathered \in Seq(S)
    BY DEF Budget, Gathering
  <2>3. /\ gathered' \in Seq(S \cup {x}) /\ gathered' # <<>>
        /\ Len(gathered') = Len(gathered) + 1
    BY <1>3, <2>1, <2>2, GatherOne
  <2>4. Len(gathered') < frame.replicas
    BY <1>1, <1>3, <2>3, Room, SMTT(20) DEF Budget, Frame
  <2>5. Gathering'
    BY <1>1, <2>3, <2>4 DEF Gathering, Independent
  <2>6. calls' \in Nat /\ calls' <= Spent'
    BY <1>1, <1>3, <2>3, Room DEF Spent, PerAttempt, Tries
  <2>7. QED
    BY <1>1, <1>3, <2>5, <2>6, ExchangeAssumption
    DEF Budget, Independent, IsClaude
<1>4. QED
  BY <1>2, <1>3 DEF AskIndependent, Hand

\* The machine takes the reply and may ask again.
LEMMA ReceiveKeeps ==
  ASSUME Budget, ReceiveNothing \/ Receive
  PROVE  Budget'
<1>1. /\ phase = "reply" /\ gathered = <<>> /\ http = 0
      /\ UNCHANGED <<backend, http, gathered, calls>>
  BY DEF ReceiveNothing, Receive, Budget
<1>2. CASE phase' = "done" /\ UNCHANGED frame
  BY <1>1, <1>2
  DEF Budget, Spent, PerAttempt, Tries, Gathering, Independent, IsClaude
<1>3. CASE /\ phase' = "ask" /\ MayAskAgain
           /\ frame' = [frame EXCEPT !.attempt = @ + 1, !.nonce = NextNonce(@)]
  <2>1. frame \in Frame
    BY DEF Budget
  <2>2. NextNonce(frame.nonce) \in Nat
    BY <2>1 DEF NextNonce, Frame
  <2> DEFINE n == NextNonce(frame.nonce)
             a == frame.attempt + 1
  <2>3. frame' = [frame EXCEPT !.attempt = a, !.nonce = n]
    BY <1>3
  <2>4. a \in Nat \ {0} /\ n \in Nat
    BY <2>1, <2>2 DEF Frame
  <2>5. /\ frame' \in Frame /\ frame'.attempt = frame.attempt + 1
        /\ frame'.retries = frame.retries /\ frame'.replicas = frame.replicas
    BY <2>1, <2>3, <2>4 DEF Frame
  <2>6. frame.attempt \in Nat /\ frame.retries \in Nat
    BY <2>1 DEF Frame
  <2>7. frame'.attempt <= frame'.retries + 1
    BY <1>3, <2>5, <2>6 DEF MayAskAgain
  <2>8. Spent' = frame.attempt * PerAttempt + 0 * Tries + 0
    BY <1>1, <1>3, <2>5, <2>6 DEF Spent, PerAttempt, Tries
  <2>9. Tries \in Nat /\ PerAttempt \in Nat
    BY <2>1, ExchangeAssumption DEF Tries, PerAttempt, Frame
  <2>10. calls' \in Nat /\ calls' <= Spent'
    BY <1>1, <2>6, <2>8, <2>9 DEF Budget, Spent
  <2>11. Gathering'
    BY <1>1 DEF Budget, Gathering
  <2>12. QED
    BY <1>1, <1>3, <2>5, <2>7, <2>10, <2>11 DEF Budget, IsClaude
<1>4. QED
  BY <1>1, <1>2, <1>3 DEF ReceiveNothing, Receive

\* A request that was just made has cost nothing.
LEMMA FreshBudget ==
  ASSUME NEW r \in Requests
  PROVE  r \in Frame /\ r.attempt = 1 /\ r.attempt <= r.retries + 1
         /\ (r.attempt - 1) * (r.replicas * Tries) + 0 * Tries + 0 = 0
<1>1. r \in Frame /\ r.attempt = 1 /\ r.retries \in Nat /\ r.replicas \in Nat
  BY RequestsAssumption DEF Frame
<1>2. Tries \in Nat
  BY ExchangeAssumption DEF Tries
<1>3. QED
  BY <1>1, <1>2

\* Every step stays within what was paid for.
LEMMA BudgetStep == Budget /\ [Next]_vars => Budget'
<1> SUFFICES ASSUME Budget, [Next]_vars PROVE Budget'
  OBVIOUS
<1>1. CASE AskCallback \/ AskDeclined \/ AskEcho \/ AskNoisy \/ AskManual
  BY <1>1, InProcessKeeps
<1>2. CASE HttpRetryable \/ HttpFatal \/ AskClaude
  BY <1>2, HttpKeeps
<1>3. CASE AskIndependent
  BY <1>3, IndependentKeeps
<1>4. CASE ReceiveNothing \/ Receive
  BY <1>4, ReceiveKeeps
<1>5. CASE NextRequest
  <2>1. /\ frame' \in Requests /\ phase' = "ask" /\ http' = 0
        /\ gathered' = <<>> /\ calls' = 0
    BY <1>5 DEF NextRequest
  <2>2. Spent' = 0
    BY <2>1, FreshBudget DEF Spent, PerAttempt, Tries
  <2>3. gathered' \in Seq({})
    BY <2>1
  <2>4. QED
    BY <2>1, <2>2, <2>3, FreshBudget, ExchangeAssumption DEF Budget, Gathering
<1>6. CASE UNCHANGED vars
  BY <1>6
  DEF vars, Budget, Spent, PerAttempt, Tries, Gathering, Independent, IsClaude
<1>7. QED
  BY <1>1, <1>2, <1>3, <1>4, <1>5, <1>6 DEF Next

\* It starts within it.
LEMMA BudgetInit == Init => Budget
<1> SUFFICES ASSUME Init PROVE Budget
  OBVIOUS
<1>1. Spent = 0
  BY FreshBudget DEF Init, Spent, PerAttempt
<1>2. gathered \in Seq({})
  BY DEF Init
<1>3. QED
  BY <1>1, <1>2, FreshBudget, ExchangeAssumption DEF Init, Budget, Gathering

\* What is paid for is what retries, replicas and HTTP retries allow together.
LEMMA BudgetBounds == Budget => CallsAreBounded
<1> SUFFICES ASSUME Budget PROVE CallsAreBounded
  OBVIOUS
<1>1. /\ frame.attempt \in Nat /\ frame.retries \in Nat /\ frame.replicas \in Nat
      /\ frame.attempt <= frame.retries + 1 /\ calls \in Nat
  BY DEF Budget, Frame
<1>2. Tries \in Nat /\ PerAttempt \in Nat
  BY <1>1, ExchangeAssumption DEF Tries, PerAttempt
<1>3. calls <= frame.attempt * PerAttempt
  <2>1. CASE phase = "ask"
    BY <2>1, Room
  <2>2. CASE phase # "ask"
    BY <2>2 DEF Budget, Spent
  <2>3. QED
    BY <2>1, <2>2
<1>4. frame.attempt * PerAttempt <= (frame.retries + 1) * PerAttempt
  BY <1>1, <1>2, Attempts
<1>5. (frame.retries + 1) * PerAttempt
        = (frame.retries + 1) * frame.replicas * (MaxHttpRetries + 1)
  BY <1>1, <1>2, ExchangeAssumption DEF PerAttempt, Tries
<1>6. frame.attempt * PerAttempt \in Nat /\ (frame.retries + 1) * PerAttempt \in Nat
  BY <1>1, <1>2
<1>7. QED
  BY <1>1, <1>3, <1>4, <1>5, <1>6 DEF CallsAreBounded

-----------------------------------------------------------------------------
\* However the transport fails and whatever models answer, one request costs at
\* most (retries + 1) * replicas * (HTTP retries + 1) calls (ClaudeOracle._call,
\* _ask_independent, Machine.resume), for every value of the three.
THEOREM CallsCorrect == Spec => []CallsAreBounded
BY BudgetInit, BudgetStep, BudgetBounds, PTL DEF Spec

-----------------------------------------------------------------------------
(***************************************************************************)
(* That a request quoted is no reply: none of its lines is a REPLY line at *)
(* column zero, and the parser looks for no other.                         *)
(***************************************************************************)
\* The places where a text is cut, and what lies between them.
CutAt(s, separators, n, c) ==
  /\ c \in [1 .. n + 1 -> 0 .. Len(s) + 1] /\ c[1] = 0
  /\ \A k \in 1 .. n : c[k] < c[k + 1]
  /\ \A k \in 1 .. n + 1 : c[k] \in 1 .. Len(s) => s[c[k]] \in separators
  /\ \A k \in 1 .. n : \A i \in c[k] + 1 .. c[k + 1] - 1 : s[i] \notin separators
  /\ Words(s, separators) = [k \in 1 .. n |-> SubSeq(s, c[k] + 1, c[k + 1] - 1)]

\* Any text is cut that way.
LEMMA WordsAreCut ==
  ASSUME NEW S, NEW s \in Seq(S), NEW separators
  PROVE  \E n \in Nat : \E c : CutAt(s, separators, n, c)
<1> DEFINE C == {0, Len(s) + 1} \cup {i \in DOMAIN s : s[i] \in separators}
           c == Ascending(C)
           m == Cardinality(C)
           n == m - 1
<1>1. Len(s) \in Nat /\ DOMAIN s = 1 .. Len(s)
  OBVIOUS
<1>2. /\ C \in SUBSET (0 .. Len(s) + 1) /\ 0 \in C
      /\ \A i \in 1 .. Len(s) : s[i] \in separators <=> i \in C
  BY <1>1
<1>3. Words(s, separators) = [k \in 1 .. Len(c) - 1 |-> SubSeq(s, c[k] + 1, c[k + 1] - 1)]
  BY Zenon DEF Words
<1> HIDE DEF C
<1>4. C \in SUBSET Nat /\ IsFiniteSet(C)
  <2>1. 0 \in Int /\ Len(s) + 1 \in Int
    BY <1>1
  <2>2. IsFiniteSet(0 .. Len(s) + 1)
    BY <2>1, FS_Interval
  <2>3. IsFiniteSet(C)
    BY <1>2, <2>2, FS_Subset
  <2>4. C \in SUBSET Nat
    BY <1>1, <1>2
  <2> QED
    BY <2>3, <2>4
<1> HIDE DEF c, m
<1>5. /\ m \in Nat /\ c \in [1 .. m -> C] /\ IsAscending(c)
      /\ \A a \in C : \E i \in 1 .. m : c[i] = a
  BY <1>4, AscendingLists DEF c, m
<1>6. \A i, j \in 1 .. m : i < j => c[i] < c[j]
  BY <1>5 DEF IsAscending
<1>7. Len(c) = m
  BY <1>5
<1>8. PICK z \in 1 .. m : c[z] = 0
  BY <1>2, <1>5
<1>9. c[1] = 0
  <2>0. 1 \in 1 .. m
    BY <1>5, <1>8
  <2>1. z # 1 => c[1] < c[z]
    BY <1>5, <1>6, <1>8, <2>0
  <2>2. c[1] \in 0 .. Len(s) + 1
    BY <1>2, <1>5, <2>0
  <2> QED
    BY <1>1, <1>8, <2>1, <2>2
<1>10. n \in Nat /\ n + 1 = m
  BY <1>5, <1>8
<1>11. \A k \in 1 .. m : c[k] \in C /\ c[k] \in 0 .. Len(s) + 1
  BY <1>2, <1>5
<1>12. ASSUME NEW k \in 1 .. n, NEW i \in c[k] + 1 .. c[k + 1] - 1
       PROVE  s[i] \notin separators
  <2>1. k \in 1 .. m /\ k + 1 \in 1 .. m
    BY <1>5, <1>10
  <2>2. c[k] \in 0 .. Len(s) + 1 /\ c[k + 1] \in 0 .. Len(s) + 1
    BY <1>11, <2>1
  <2>3. i \in 1 .. Len(s) /\ c[k] < i /\ i < c[k + 1]
    BY <1>1, <2>2
  <2> SUFFICES ASSUME s[i] \in separators PROVE FALSE
    OBVIOUS
  <2>4. PICK j \in 1 .. m : c[j] = i
    BY <1>2, <1>5, <2>3
  <2>5. CASE j <= k
    <3>1. j = k \/ c[j] < c[k]
      BY <1>6, <2>1, <2>5
    <3> QED
      BY <2>2, <2>3, <2>4, <3>1
  <2>6. CASE j > k
    <3>1. j = k + 1 \/ c[k + 1] < c[j]
      BY <1>6, <2>1, <2>6
    <3> QED
      BY <2>2, <2>3, <2>4, <3>1
  <2> QED
    BY <1>5, <2>1, <2>5, <2>6
<1> HIDE DEF n
<1>13. CutAt(s, separators, n, c)
  <2>1. Words(s, separators) = [k \in 1 .. n |-> SubSeq(s, c[k] + 1, c[k + 1] - 1)]
    BY <1>3, <1>7, <1>10 DEF n
  <2>2. c \in [1 .. n + 1 -> 0 .. Len(s) + 1]
    BY <1>2, <1>5, <1>10
  <2>3. \A k \in 1 .. n : c[k] < c[k + 1]
    BY <1>5, <1>6, <1>10
  <2>4. \A k \in 1 .. n + 1 : c[k] \in 1 .. Len(s) => s[c[k]] \in separators
    BY <1>2, <1>10, <1>11
  <2> QED
    BY <1>9, <1>12, <2>1, <2>2, <2>3, <2>4 DEF CutAt
<1> QED
  BY <1>10, <1>13

\* A REPLY marker that stands neither at the start of a text nor behind a newline,
\* and behind another separator only if harm says so.
Guarded(t, harm) ==
  \A i \in 1 .. Len(t) :
    t[i] = "begin" => i > 1 /\ t[i - 1] # NL /\ (t[i - 1] = FF => harm)

\* Such texts can be strung together.
LEMMA GuardedOn ==
  ASSUME NEW S, NEW s \in Seq(S), NEW t \in Seq(S), NEW harm, Guarded(s, harm), Guarded(t, harm)
  PROVE  Guarded(s \o t, harm)
<1> DEFINE u == s \o t
<1>1. /\ Len(s) \in Nat /\ Len(t) \in Nat /\ Len(u) = Len(s) + Len(t)
      /\ \A i \in 1 .. Len(s) : u[i] = s[i]
      /\ \A i \in 1 .. Len(t) : u[Len(s) + i] = t[i]
  OBVIOUS
<1> HIDE DEF u
<1> SUFFICES ASSUME NEW i \in 1 .. Len(u), u[i] = "begin"
             PROVE  i > 1 /\ u[i - 1] # NL /\ (u[i - 1] = FF => harm)
  BY DEF Guarded, u
<1>2. CASE i <= Len(s)
  <2>1. i \in 1 .. Len(s) /\ s[i] = "begin"
    BY <1>1, <1>2
  <2>2. i > 1 /\ s[i - 1] # NL /\ (s[i - 1] = FF => harm)
    BY <2>1 DEF Guarded
  <2>3. i - 1 \in 1 .. Len(s) /\ u[i - 1] = s[i - 1]
    BY <1>1, <2>1, <2>2
  <2> QED
    BY <2>2, <2>3
<1>3. CASE i > Len(s)
  <2> DEFINE j == i - Len(s)
  <2>1. j \in 1 .. Len(t) /\ Len(s) + j = i
    BY <1>1, <1>3
  <2> HIDE DEF j
  <2>2. t[j] = "begin"
    BY <1>1, <2>1
  <2>3. j > 1 /\ t[j - 1] # NL /\ (t[j - 1] = FF => harm)
    BY <2>1, <2>2 DEF Guarded
  <2>4. j - 1 \in 1 .. Len(t) /\ Len(s) + (j - 1) = i - 1
    BY <1>1, <2>1, <2>3
  <2>5. u[i - 1] = t[j - 1]
    BY <1>1, <2>4
  <2> QED
    BY <1>1, <1>3, <2>3, <2>4, <2>5
<1> QED
  BY <1>1, <1>2, <1>3

\* What escape_reserved makes of one line.
Padded(w) == IF Reserved(w) THEN <<SP>> \o w ELSE w

\* A line is guarded when it is padded, and with the newline before it.
LEMMA PaddedIsGuarded ==
  ASSUME NEW S, NEW w \in Seq(S), NEW harm, \A i \in 1 .. Len(w) : w[i] # NL,
         \A i \in 2 .. Len(w) : w[i] = "begin" /\ w[i - 1] = FF => harm
  PROVE  /\ Padded(w) \in Seq(S \cup {SP, NL})
         /\ Guarded(Padded(w), harm) /\ Guarded(<<NL>> \o Padded(w), harm)
<1> DEFINE T == S \cup {SP, NL}
           p == Padded(w)
           b == <<SP>>
           l == <<NL>>
<1>0. b \in Seq(T) /\ Len(b) = 1 /\ b[1] = SP /\ l \in Seq(T) /\ Len(l) = 1 /\ l[1] = NL
  OBVIOUS
<1>00. SP # "begin" /\ SP # NL /\ SP # FF /\ NL # "begin"
  BY Zenon DEF SP, NL, FF
<1>1. Len(w) \in Nat /\ w \in Seq(T)
  OBVIOUS
<1>2. ASSUME NEW i \in 2 .. Len(w), w[i] = "begin"
      PROVE  w[i - 1] # NL /\ (w[i - 1] = FF => harm)
  BY <1>1, <1>2
<1> HIDE DEF b, l, T
<1>3. ASSUME Reserved(w) PROVE p \in Seq(T) /\ Guarded(p, harm)
  <2>1. p = b \o w
    BY <1>3 DEF Padded, b
  <2> HIDE DEF p
  <2>2. /\ p \in Seq(T) /\ Len(p) = Len(w) + 1
        /\ p[1] = SP /\ \A i \in 2 .. Len(p) : p[i] = w[i - 1]
    <3>1. p \in Seq(T) /\ Len(p) = Len(b) + Len(w)
      BY <1>0, <1>1, <2>1, ConcatProperties
    <3>2. p[1] = SP
      <4>1. 1 \in 1 .. Len(b) + Len(w) /\ 1 <= Len(b)
        BY <1>0, <1>1
      <4>2. (b \o w)[1] = b[1]
        BY <1>0, <1>1, <4>1, ConcatProperties
      <4> QED
        BY <1>0, <2>1, <4>2
    <3>3. ASSUME NEW i \in 2 .. Len(p) PROVE p[i] = w[i - 1]
      BY <1>0, <1>1, <2>1, <3>1
    <3> QED
      BY <1>0, <1>1, <3>1, <3>2, <3>3
  <2>3. ASSUME NEW i \in 1 .. Len(p), p[i] = "begin"
        PROVE  i > 1 /\ p[i - 1] # NL /\ (p[i - 1] = FF => harm)
    <3>1. i > 1 /\ i - 1 \in 1 .. Len(w) /\ w[i - 1] = "begin"
      BY <1>00, <1>1, <2>2, <2>3
    <3>2. CASE i = 2
      BY <1>00, <2>2, <3>2
    <3>3. CASE i > 2
      <4>1. i - 1 \in 2 .. Len(w) /\ i - 1 \in 2 .. Len(p) /\ p[i - 1] = w[(i - 1) - 1]
        BY <1>1, <2>2, <3>1, <3>3
      <4> QED
        BY <1>2, <3>1, <4>1
    <3> QED
      BY <3>1, <3>2, <3>3
  <2> QED
    BY <2>2, <2>3 DEF Guarded
<1>4. ASSUME ~Reserved(w) PROVE p \in Seq(T) /\ Guarded(p, harm)
  <2>1. p = w
    BY <1>4 DEF Padded
  <2>2. w # <<>> => w[1] # "begin"
    BY <1>4 DEF Reserved, Marker
  <2>3. ASSUME NEW i \in 1 .. Len(w), w[i] = "begin"
        PROVE  i > 1 /\ w[i - 1] # NL /\ (w[i - 1] = FF => harm)
    <3>1. i # 1
      BY <1>1, <2>2, <2>3
    <3> QED
      BY <1>1, <1>2, <2>3, <3>1
  <2> QED
    BY <1>1, <2>1, <2>3 DEF Guarded
<1>5. Guarded(l, harm)
  BY <1>0, <1>00 DEF Guarded
<1> HIDE DEF p
<1>6. p \in Seq(T) /\ Guarded(p, harm)
  BY <1>3, <1>4
<1> QED
  BY <1>0, <1>5, <1>6, GuardedOn DEF p, l, T

\* No line of an escaped prompt opens a reply, as the parser reads it, unless the
\* prompt smuggles one in.
LEMMA PromptIsEscaped ==
  ASSUME NEW S, NEW prompt \in Seq(S)
  PROVE  \E T : /\ escape_reserved(prompt) \in Seq(T)
                /\ Guarded(escape_reserved(prompt), Smuggles(prompt))
<1> DEFINE harm == Smuggles(prompt)
           T == S \cup {SP, NL}
<1>1. PICK n \in Nat : \E d : CutAt(prompt, {NL}, n, d)
  BY WordsAreCut
<1>2. PICK c : CutAt(prompt, {NL}, n, c)
  BY <1>1
<1> DEFINE w(k) == SubSeq(prompt, c[k] + 1, c[k + 1] - 1)
           ww == [k \in 1 .. n |-> w(k)]
           pp == [k \in 1 .. n |-> Padded(w(k))]
           qq == [k \in 1 .. n |-> IF k = 1 THEN Padded(w(k)) ELSE <<NL>> \o Padded(w(k))]
           R == {x \in Seq(T) \X Seq(T) : Guarded(x[1], harm)}
<1>3. escape_reserved(prompt) = FlattenSeq(qq)
  <2>1. Words(prompt, {NL}) = ww
    BY <1>2 DEF CutAt
  <2>2. escape_reserved(prompt) = Glue([k \in DOMAIN ww |-> Padded(ww[k])])
    BY <2>1, Zenon DEF escape_reserved, Padded
  <2>3. [k \in DOMAIN ww |-> Padded(ww[k])] = pp
    BY Zenon
  <2>4. Glue(pp) = FlattenSeq([k \in DOMAIN pp |-> IF k = 1 THEN pp[k] ELSE <<NL>> \o pp[k]])
    BY Zenon DEF Glue
  <2>5. [k \in DOMAIN pp |-> IF k = 1 THEN pp[k] ELSE <<NL>> \o pp[k]] = qq
    <3>1. DOMAIN pp = 1 .. n /\ \A k \in 1 .. n : pp[k] = Padded(w(k))
      BY Zenon
    <3> HIDE DEF pp
    <3> QED
      BY <3>1, Zenon
  <2> QED
    BY <2>2, <2>3, <2>4, <2>5, Zenon
<1>4. ASSUME NEW k \in 1 .. n
      PROVE  /\ w(k) \in Seq(S) /\ \A i \in 1 .. Len(w(k)) : w(k)[i] # NL
             /\ \A i \in 2 .. Len(w(k)) : w(k)[i] = "begin" /\ w(k)[i - 1] = FF => harm
  <2> DEFINE a == c[k]
             b == c[k + 1]
             u == SubSeq(prompt, a + 1, b - 1)
  <2>1. /\ a \in 0 .. Len(prompt) + 1 /\ b \in 0 .. Len(prompt) + 1 /\ a < b
        /\ \A i \in a + 1 .. b - 1 : prompt[i] # NL
    BY <1>2 DEF CutAt
  <2> HIDE DEF a, b
  <2>2. Len(prompt) \in Nat /\ DOMAIN prompt = 1 .. Len(prompt)
    OBVIOUS
  <2>3. /\ u \in Seq(S) /\ Len(u) = b - a - 1
        /\ \A i \in 1 .. b - a - 1 : u[i] = prompt[a + i] /\ a + i \in 1 .. Len(prompt)
    BY <2>1, <2>2
  <2> HIDE DEF u
  <2>4. \A i \in 1 .. Len(u) : u[i] # NL
    BY <2>1, <2>2, <2>3
  <2>5. ASSUME NEW i \in 2 .. Len(u), u[i] = "begin", u[i - 1] = FF PROVE harm
    <3>1. /\ i \in 1 .. b - a - 1 /\ i - 1 \in 1 .. b - a - 1 /\ a + (i - 1) = (a + i) - 1
          /\ a + i # 1
      BY <2>1, <2>2, <2>3
    <3>2. prompt[a + i] = "begin" /\ prompt[(a + i) - 1] = FF /\ a + i \in DOMAIN prompt \ {1}
      BY <2>2, <2>3, <2>5, <3>1
    <3> QED
      BY <3>2 DEF Smuggles
  <2> QED
    BY <2>3, <2>4, <2>5 DEF u, a, b
<1> HIDE DEF w, harm
<1>5. \A k \in 1 .. n : /\ Padded(w(k)) \in Seq(T)
                        /\ Guarded(Padded(w(k)), harm) /\ Guarded(<<NL>> \o Padded(w(k)), harm)
  BY <1>4, PaddedIsGuarded
<1>6. \A k \in 1 .. n : qq[k] \in Seq(T) /\ Guarded(qq[k], harm)
  <2> SUFFICES ASSUME NEW k \in 1 .. n PROVE qq[k] \in Seq(T) /\ Guarded(qq[k], harm)
    OBVIOUS
  <2> DEFINE p == Padded(w(k))
  <2>1. p \in Seq(T) /\ Guarded(p, harm) /\ Guarded(<<NL>> \o p, harm)
    BY <1>5
  <2>2. qq[k] = IF k = 1 THEN p ELSE <<NL>> \o p
    BY Zenon
  <2> HIDE DEF p, qq
  <2>3. <<NL>> \o p \in Seq(T)
    BY <2>1
  <2> QED
    BY <2>1, <2>2, <2>3
<1>7. qq \in Seq(Seq(T)) /\ Len(qq) = n
  <2>1. qq \in [1 .. n -> Seq(T)]
    <3>1. qq = [k \in 1 .. n |-> qq[k]]
      OBVIOUS
    <3> HIDE DEF qq
    <3> QED
      BY <1>6, <3>1
  <2> HIDE DEF qq
  <2> QED
    BY <2>1
<1> HIDE DEF qq, T
<1>8. \A s, u \in Seq(T), t, v \in Seq(T) :
        <<s, t>> \in R /\ <<u, v>> \in R => <<s \o u, t \o v>> \in R
  <2> SUFFICES ASSUME NEW s \in Seq(T), NEW u \in Seq(T), NEW t \in Seq(T), NEW v \in Seq(T),
                      Guarded(s, harm), Guarded(u, harm)
               PROVE  <<s \o u, t \o v>> \in R
    BY Zenon
  <2>1. s \o u \in Seq(T) /\ t \o v \in Seq(T)
    OBVIOUS
  <2>2. Guarded(s \o u, harm)
    BY GuardedOn
  <2> QED
    BY <2>1, <2>2
<1>9. << <<>>, <<>> >> \in R
  <2>1. <<>> \in Seq(T) /\ Len(<<>>) = 0
    OBVIOUS
  <2>2. Guarded(<<>>, harm)
    BY <2>1 DEF Guarded
  <2> QED
    BY <2>1, <2>2
<1>10. \A k \in 1 .. Len(qq) : <<qq[k], qq[k]>> \in R
  BY <1>6, <1>7
<1> HIDE DEF R
<1>11. <<FlattenSeq(qq), FlattenSeq(qq)>> \in R
  BY <1>7, <1>8, <1>9, <1>10, FlattenAlike
<1> QED
  BY <1>3, <1>11 DEF R, harm

\* The lines that the parser reads of a guarded text.
LEMMA GuardedBeginsNothing ==
  ASSUME NEW S, NEW text \in Seq(S), Guarded(text, FALSE)
  PROVE  IsSeq(Split(text)) /\ \A k \in 1 .. Len(Split(text)) : ~IsBegin(Split(text)[k])
<1>1. PICK n \in Nat : \E d : CutAt(text, Breaks, n, d)
  BY WordsAreCut
<1>2. PICK c : CutAt(text, Breaks, n, c)
  BY <1>1
<1> DEFINE w(k) == SubSeq(text, c[k] + 1, c[k + 1] - 1)
           ww == [k \in 1 .. n |-> w(k)]
           lines == [k \in 1 .. n |-> LineOf(w(k))]
<1>3. Split(text) = lines
  <2>1. Words(text, Breaks) = ww
    BY <1>2 DEF CutAt
  <2>2. Split(text) = [k \in DOMAIN ww |-> LineOf(ww[k])]
    BY <2>1, Zenon DEF Split
  <2> QED
    BY <2>2, Zenon
<1>4. IsSeq(lines) /\ Len(lines) = n
  <2>1. lines = [k \in 1 .. n |-> lines[k]]
    OBVIOUS
  <2> HIDE DEF lines
  <2> QED
    BY <2>1, FunctionIsSeq
<1>5. ASSUME NEW k \in 1 .. n PROVE ~IsBegin(LineOf(w(k)))
  <2> DEFINE a == c[k]
             b == c[k + 1]
             u == SubSeq(text, a + 1, b - 1)
  <2>1. /\ a \in 0 .. Len(text) + 1 /\ b \in 0 .. Len(text) + 1 /\ a < b
        /\ a \in 1 .. Len(text) => text[a] \in Breaks
    BY <1>2 DEF CutAt
  <2> HIDE DEF a, b
  <2>2. Len(text) \in Nat
    OBVIOUS
  <2>3. /\ u \in Seq(S) /\ Len(u) = b - a - 1
        /\ \A i \in 1 .. b - a - 1 : u[i] = text[a + i] /\ a + i \in 1 .. Len(text)
    BY <2>1, <2>2
  <2> HIDE DEF u
  <2> SUFFICES ASSUME IsBegin(LineOf(u)) PROVE FALSE
    BY DEF u, a, b
  <2>4. Len(Trim(u)) = 1 /\ u[1] = "begin"
    <3> DEFINE marker == Trim(u)
    <3>1. CASE Len(marker) = 1 /\ marker[1] \in Marker
      <4>1. LineOf(u) = [is |-> marker[1], at |-> u[1] = marker[1], val |-> PROTOCOL_VERSION]
        BY <3>1 DEF LineOf
      <4> DEFINE line == [is |-> marker[1], at |-> u[1] = marker[1], val |-> PROTOCOL_VERSION]
      <4> HIDE DEF marker
      <4>2. line.is = marker[1] /\ (line.at <=> u[1] = marker[1])
        BY Zenon
      <4>3. line.is = "begin" /\ line.at
        BY <4>1, Zenon DEF IsBegin
      <4> QED
        BY <3>1, <4>2, <4>3, Zenon DEF marker
    <3>2. CASE ~(Len(marker) = 1 /\ marker[1] \in Marker)
      <4>1. LineOf(u) = Line("text", u)
        BY <3>2 DEF LineOf
      <4> QED
        BY <4>1 DEF Line, IsBegin
    <3> QED
      BY <3>1, <3>2
  <2>5. 1 \in 1 .. Len(u)
    <3>1. 1 \in 1 .. Len(Trim(u))
      BY <2>4
    <3>2. \E j \in 1 .. Len(u) : Trim(u)[1] = u[j]
      BY <2>3, <3>1, Trims
    <3> QED
      BY <2>3, <3>2
  <2>6. text[a + 1] = "begin" /\ a + 1 \in 1 .. Len(text)
    BY <2>3, <2>4, <2>5
  <2>7. a + 1 > 1 /\ text[(a + 1) - 1] # NL /\ text[(a + 1) - 1] # FF
    BY <2>6 DEF Guarded
  <2>8. (a + 1) - 1 = a /\ a \in 1 .. Len(text)
    BY <2>1, <2>2, <2>6, <2>7
  <2> QED
    BY <2>1, <2>7, <2>8 DEF Breaks
<1>6. \A k \in 1 .. n : lines[k] = LineOf(w(k))
  BY Zenon
<1> HIDE DEF lines, w
<1> QED
  BY <1>3, <1>4, <1>5, <1>6

\* The reply template is a sequence of lines.
LEMMA TemplateIsSeq ==
  ASSUME NEW r \in Frame
  PROVE  IsSeq(Template(r)) /\ \A k \in 1 .. Len(Template(r)) : "at" \in DOMAIN Template(r)[k]
<1> DEFINE n == r.replicas
           block(k) == <<Line("REPLICA", k), Line("text", <<"A">>), Line("open", 1),
                         Line("text", <<"A">>), Line("close", 1)>>
           blocks == [k \in 1 .. n |-> block(k)]
           H == {Line("begin", PROTOCOL_VERSION), Line("NONCE", r.nonce), Line("STATUS", "OK"),
                 Line("end", 1), Line("text", <<"A">>), Line("open", 1), Line("close", 1)}
                  \cup {Line("REPLICA", k) : k \in 1 .. n}
           head == <<Line("begin", PROTOCOL_VERSION), Line("NONCE", r.nonce), Line("STATUS", "OK")>>
           tail == <<Line("end", 1)>>
<1>1. n \in Nat
  BY DEF Frame
<1>2. Template(r) = head \o FlattenSeq(blocks) \o tail
  BY DEF Template
<1>3. blocks \in Seq(Seq(H))
  <2>1. ASSUME NEW k \in 1 .. n PROVE block(k) \in Seq(H)
    OBVIOUS
  <2> HIDE DEF block, H
  <2>2. blocks \in [1 .. n -> Seq(H)]
    BY <2>1
  <2> QED
    BY <1>1, <2>2
<1>4. head \in Seq(H) /\ tail \in Seq(H)
  OBVIOUS
<1>7. \A l \in H : "at" \in DOMAIN l
  BY DEF Line
<1> HIDE DEF head, tail, blocks, H
<1>5. FlattenSeq(blocks) \in Seq(H)
  BY <1>3, Flattened
<1>6. Template(r) \in Seq(H)
  BY <1>2, <1>4, <1>5
<1> QED
  BY <1>6, <1>7, SeqIsSeq

\* A text in which no line begins a reply holds no reply.
LEMMA NothingFound ==
  ASSUME NEW S, NEW text \in Seq(S), \A l \in S : ~IsBegin(l)
  PROVE  find_reply_frames(text) = <<>>
<1>1. {i \in DOMAIN text : IsBegin(text[i])} = {}
  OBVIOUS
<1>2. Ascending({}) = <<>>
  <2>1. Cardinality({}) = 0
    BY FS_EmptySet
  <2> QED
    BY <2>1 DEF Ascending
<1> DEFINE begins == {i \in DOMAIN text : IsBegin(text[i])}
           stop(i) == Min({j \in i + 1 .. Len(text) : IsBegin(text[j]) \/ IsEnd(text[j])}
                            \cup {Len(text) + 1})
           frameAt(i) ==
             [version |-> text[i].val,
              terminated |-> stop(i) <= Len(text) /\ IsEnd(text[stop(i)]),
              body |-> _parse_body(SubSeq(text, i + 1, stop(i) - 1))]
<1>3. find_reply_frames(text) = [k \in DOMAIN Ascending(begins) |-> frameAt(Ascending(begins)[k])]
  BY DEF find_reply_frames
<1> HIDE DEF begins, frameAt
<1>4. DOMAIN Ascending(begins) = {} /\ DOMAIN <<>> = {}
  <2>1. begins = {}
    BY <1>1 DEF begins
  <2>2. Ascending(begins) = <<>>
    BY <1>2, <2>1
  <2>3. DOMAIN <<>> = {}
    OBVIOUS
  <2> QED
    BY <2>2, <2>3
<1>5. find_reply_frames(text) = [k \in {} |-> frameAt(Ascending(begins)[k])]
  BY <1>3, <1>4
<1> QED
  BY <1>5

\* The whole request, line by line.
LEMMA RequestBeginsNothing ==
  ASSUME NEW r \in Frame, NEW S, NEW prompt \in Seq(S), ~Smuggles(prompt)
  PROVE  find_reply_frames(render(r, prompt)) = <<>>
<1> DEFINE head == <<Line("request", PROTOCOL_VERSION), Line("NONCE", r.nonce)>>
           said == Split(escape_reserved(prompt))
           shown == [k \in DOMAIN Template(r) |-> Indented(Template(r)[k])]
           tail == <<Line("end", 1)>>
           quiet(s) == {s[i] : i \in DOMAIN s}
           first == {Line("request", PROTOCOL_VERSION), Line("NONCE", r.nonce)}
           last == {Line("end", 1)}
           T == first \cup quiet(said) \cup quiet(shown) \cup last
<1>1. render(r, prompt) = head \o said \o shown \o tail
  BY DEF render
<1>2. head \in Seq(first) /\ \A l \in first : ~IsBegin(l)
  BY DEF IsBegin, Line
<1>3. tail \in Seq(last) /\ \A l \in last : ~IsBegin(l)
  BY DEF IsBegin, Line
<1>4. said \in Seq(quiet(said)) /\ \A l \in quiet(said) : ~IsBegin(l)
  <2>1. PICK E : /\ escape_reserved(prompt) \in Seq(E)
                 /\ Guarded(escape_reserved(prompt), Smuggles(prompt))
    BY PromptIsEscaped
  <2>2. Guarded(escape_reserved(prompt), FALSE)
    BY <2>1 DEF Guarded
  <2>3. IsSeq(said) /\ \A k \in 1 .. Len(said) : ~IsBegin(said[k])
    BY <2>1, <2>2, GuardedBeginsNothing
  <2> QED
    BY <2>3, SeqOfOwn
<1>5. shown \in Seq(quiet(shown)) /\ \A l \in quiet(shown) : ~IsBegin(l)
  <2>1. IsSeq(Template(r)) /\ \A k \in 1 .. Len(Template(r)) : "at" \in DOMAIN Template(r)[k]
    BY TemplateIsSeq
  <2> DEFINE n == Len(Template(r))
  <2>2. n \in Nat /\ DOMAIN Template(r) = 1 .. n
    BY <2>1 DEF IsSeq
  <2> HIDE DEF n
  <2>3. shown = [k \in 1 .. n |-> shown[k]] /\ DOMAIN shown = 1 .. n
    BY <2>2
  <2>4. IsSeq(shown) /\ Len(shown) = n
    <3> HIDE DEF shown
    <3> QED
      BY <2>2, <2>3, FunctionIsSeq
  <2>5. ASSUME NEW k \in 1 .. n PROVE ~IsBegin(shown[k])
    BY <2>1, <2>2 DEF IsBegin, Indented, n
  <2> HIDE DEF shown
  <2>6. shown \in Seq(quiet(shown))
    BY <2>3, <2>4, SeqOfOwn
  <2> QED
    BY <2>3, <2>5, <2>6
<1> HIDE DEF head, said, shown, tail, first, last, quiet
<1>6. /\ head \in Seq(T) /\ said \in Seq(T) /\ shown \in Seq(T) /\ tail \in Seq(T)
      /\ \A l \in T : ~IsBegin(l)
  BY <1>2, <1>3, <1>4, <1>5
<1> HIDE DEF T
<1>7. render(r, prompt) \in Seq(T)
  BY <1>1, <1>6
<1> QED
  BY <1>6, <1>7, NothingFound

\* protocol.py:208-218: whatever prompt a request quotes, and however many replicas
\* it asks for, its own frame holds no reply frame for the parser, so that a
\* request that comes back is not taken for an answer; unless the prompt has a
\* REPLY marker right behind a separator that is no newline.
THEOREM QuotedIsNoReply == Spec => []RequestIsNoReply
<1>1. Budget => RequestIsNoReply
  <2> SUFFICES ASSUME Budget, NEW prompt \in Prompts, ~Smuggles(prompt)
               PROVE  find_reply_frames(render(frame, prompt)) = <<>>
    BY DEF RequestIsNoReply
  <2>1. frame \in Frame
    BY DEF Budget
  <2>2. prompt \in Seq(ToSet(prompt))
    BY PromptsAssumption
  <2> QED
    BY <2>1, <2>2, RequestBeginsNothing
<1> QED
  BY <1>1, BudgetInit, BudgetStep, PTL DEF Spec

-----------------------------------------------------------------------------
(***************************************************************************)
(* What befalls a reply of one answer, repeated, and the status it gets.   *)
(***************************************************************************)

\* A reply of n blocks that are alike.
Same(n, x) == [b \in 1 .. n |-> x]
Spoken(v, n, l, c, x) == Said(v, "OK", n, Same(n, l), Same(n, c), Same(n, x))

\* A stripped text over S without markers; S has what faults add to it.
Letters == {"?", "A", "X", "Y", "Q", ".", "T", "h", "e", "a", "n", "s", "w", "r"}
Told(t, S) == t \in Seq(S) /\ t # <<>> /\ Stripped(t) /\ Plain(t) /\ Letters \subseteq S

\* What blocks can hold.
Held(l, c, x, S) ==
  /\ x \in Seq(S) /\ Plain(x) /\ l \in Carried(S)
  /\ c = {} \/ \E y \in Carried(S) : c = {y}

\* A reply of n times the same block is well formed.
LEMMA SameFits ==
  ASSUME NEW S, NEW n \in Nat, NEW l, NEW c, NEW x, Held(l, c, x, S)
  PROVE  Fit(n, Same(n, l), Same(n, c), Same(n, x), S, Carried(S))
<1> DEFINE V == Carried(S)
<1>1. Seq(S) \subseteq V /\ 1 \in V
  BY Carries
<1>2. x \in Seq(S) /\ Plain(x) /\ l \in V /\ (c = {} \/ \E y \in V : c = {y})
  BY DEF Held
<1> HIDE DEF V
<1>3. \A b \in 1 .. n : Same(n, l)[b] = l /\ Same(n, c)[b] = c /\ Same(n, x)[b] = x
  BY DEF Same
<1>4. BlocksOver(n, Same(n, l), Same(n, c), Same(n, x), S, V)
  BY <1>2, <1>3, Zenon DEF BlocksOver
<1> QED
  BY <1>1, <1>4 DEF Fit, V

\* A payload with its length fits in a block, with or without its checksum.
LEMMA ToldIsHeld ==
  ASSUME NEW S, NEW t, Told(t, S)
  PROVE  Held(Len(t), {Checksum(t)}, t, S) /\ Held(Len(t), {}, t, S)
<1>1. Len(t) \in Carried(S) /\ Checksum(t) \in Carried(S)
  BY Carries DEF Told
<1> QED
  BY <1>1 DEF Held, Told

\* What render_reply makes of one answer, repeated.
LEMMA Speaks ==
  ASSUME NEW S, NEW p, Told(Trim(p), S), NEW n \in Nat, NEW v \in Nat
  PROVE  render_reply(v, Same(n, p), "OK", "CRC")
           = Spoken(v, n, Len(Trim(p)), {Checksum(Trim(p))}, Trim(p))
<1> DEFINE t == Trim(p)
           payloads == Same(n, p)
           status == "OK"
           checksum == "CRC"
<1>1. Canonical(payloads) = Same(n, t)
  BY Zenon DEF Canonical, Same
<1>2. Sizes(Same(n, t)) = Same(n, Len(t))
  BY Zenon DEF Sizes, Same
<1>3. Sums(Same(n, t), checksum) = Same(n, {Checksum(t)})
  <2>1. (IF "CRC" = "none" THEN {} ELSE {Checksum(t)}) = {Checksum(t)}
    OBVIOUS
  <2> QED
    BY <2>1, Zenon DEF Sums, Same
<1>4. Texted(n, Canonical(payloads), S)
  <2>1. DOMAIN Same(n, t) = 1 .. n /\ \A b \in 1 .. n : Same(n, t)[b] = t
    BY DEF Same
  <2> QED
    BY <1>1, <2>1 DEF Texted, Told
<1>5. v \in Carried(S) /\ status \in Carried(S) /\ checksum \in {"none", "CRC"}
  BY Carries
<1> HIDE DEF payloads, status, checksum
<1>6. render_reply(v, payloads, status, checksum)
        = Said(v, status, n, Sizes(Canonical(payloads)), Sums(Canonical(payloads), checksum),
               Canonical(payloads))
  <2>1. Rendered(v, status, checksum, payloads, n, S)
    BY <1>4, <1>5, Renders
  <2> QED
    BY <2>1, Zenon DEF Rendered
<1> QED
  BY <1>1, <1>2, <1>3, <1>6, Zenon DEF Spoken, payloads, status, checksum

\* Nothing around a text.
LEMMA Alone ==
  ASSUME NEW L, NEW s \in Seq(L)
  PROVE  <<>> \o s \o <<>> = s
OBVIOUS

\* Such a reply is a text of lines.
LEMMA SpokenIsLines ==
  ASSUME NEW S, NEW n \in Nat, NEW l, NEW c, NEW x, Held(l, c, x, S), NEW v \in Carried(S)
  PROVE  Spoken(v, n, l, c, x) \in Seq(AllLines(Carried(S)))
<1> DEFINE V == Carried(S)
           st == "OK"
           mid == FlattenSeq(Fences(n, Same(n, l), Same(n, c), Same(n, x)))
<1>1. Fit(n, Same(n, l), Same(n, c), Same(n, x), S, V)
  BY SameFits
<1>2. mid \in Seq(Lines(V))
  BY <1>1, FitsLines
<1>3. st \in V
  BY Carries
<1>4. Spoken(v, n, l, c, x) = Reply(v, st, mid)
  BY DEF Spoken, Said
<1> HIDE DEF mid, st
<1>5. ReplyAre(Reply(v, st, mid), v, st, mid, V)
  BY <1>2, <1>3, ReplyIs DEF V
<1> QED
  BY <1>4, <1>5 DEF ReplyAre, V

\* So is the sentence that chatty wraps around it.
LEMMA ProseIsLine ==
  ASSUME NEW S, Letters \subseteq S
  PROVE  <<Prose>> \in Seq(Lines(Carried(S))) /\ <<>> \in Seq(Lines(Carried(S)))
<1>1. "A" \in S
  BY DEF Letters
<1>2. <<"A">> \in Seq(S)
  BY <1>1
<1>3. <<"A">> \in Carried(S)
  BY <1>2, Carries
<1>4. Prose \in Lines(Carried(S))
  BY <1>3 DEF Prose, Lines, Kinds
<1> QED
  BY <1>4

\* The verdict on a reply of blocks that are alike, as it is or with prose around it.
JudgedAlike(v, n, l, c, x, r, status) ==
  /\ Verdict(Spoken(v, n, l, c, x), r, status,
             Same(n, IF r.no_trim THEN x ELSE Trim(x)), c = {})
  /\ Verdict(<<Prose>> \o Spoken(v, n, l, c, x) \o <<Prose>>, r, status,
             Same(n, IF r.no_trim THEN x ELSE Trim(x)), c = {})

\* Its verdict is that of its block.
LEMMA JudgesSpoken ==
  ASSUME NEW S, Letters \subseteq S, NEW r \in Frame, NEW l, NEW c, NEW x, Held(l, c, x, S),
         NEW status, BlockStatus(Entry(l, c, x), r) = status
  PROVE  JudgedAlike(r.nonce, r.replicas, l, c, x, r, status)
<1> DEFINE V == Carried(S)
           n == r.replicas
           v == r.nonce
           ls == Same(n, l)
           cs == Same(n, c)
           xs == Same(n, x)
<1>1. n \in Nat /\ n > 0 /\ v \in Nat /\ "OK" \in V /\ v \in V
  BY Carries DEF Frame
<1>2. Fit(n, ls, cs, xs, S, V)
  BY <1>1, SameFits
<1>3. Alike(n, ls, cs, xs, r, status)
  <2>1. \A b \in 1 .. n : ls[b] = l /\ cs[b] = c /\ xs[b] = x
    BY DEF Same
  <2> QED
    BY <2>1 DEF Alike
<1>4. Read(n, xs, r) = Same(n, IF r.no_trim THEN x ELSE Trim(x))
  BY Zenon DEF Read, Same
<1>5. Unsummed(n, cs) = (c = {})
  <2>1. \A b \in 1 .. n : cs[b] = c
    BY DEF Same
  <2>2. 1 \in 1 .. n
    BY <1>1
  <2> QED
    BY <2>1, <2>2 DEF Unsummed
<1>6. Spoken(v, n, l, c, x) = Said(v, "OK", n, ls, cs, xs)
  BY DEF Spoken
<1> HIDE DEF n, ls, cs, xs
<1>7. ASSUME NEW pre \in Seq(Lines(V)), NEW post \in Seq(Lines(V))
      PROVE  Verdict(pre \o Said(v, "OK", n, ls, cs, xs) \o post, r, status,
                     Read(n, xs, r), Unsummed(n, cs))
  BY <1>1, <1>2, <1>3, JudgesSaid DEF n
<1>8. Verdict(<<Prose>> \o Said(v, "OK", n, ls, cs, xs) \o <<Prose>>, r, status,
              Read(n, xs, r), Unsummed(n, cs))
  BY <1>7, ProseIsLine
<1>9. Verdict(Said(v, "OK", n, ls, cs, xs), r, status, Read(n, xs, r), Unsummed(n, cs))
  <2>1. Verdict(<<>> \o Said(v, "OK", n, ls, cs, xs) \o <<>>, r, status,
              Read(n, xs, r), Unsummed(n, cs))
    BY <1>7, ProseIsLine
  <2>2. Said(v, "OK", n, ls, cs, xs) \in Seq(AllLines(V))
    BY <1>1, <1>6, SpokenIsLines
  <2>3. <<>> \o Said(v, "OK", n, ls, cs, xs) \o <<>> = Said(v, "OK", n, ls, cs, xs)
    BY <2>2, Alone
  <2> QED
    BY <2>1, <2>3
<1> QED
  BY <1>4, <1>5, <1>6, <1>8, <1>9 DEF JudgedAlike, n

\* The status the ladder ends with.
StatusOf(text, r) == validate(text, r).status

\* A reply of blocks that all fail is rejected for what they fail.
LEMMA Rejects ==
  ASSUME NEW S, Letters \subseteq S, NEW r \in Frame, NEW l, NEW c, NEW x, Held(l, c, x, S),
         NEW status, BlockStatus(Entry(l, c, x), r) = status, status # "OK"
  PROVE  StatusOf(Spoken(r.nonce, r.replicas, l, c, x), r) = status
<1>1. JudgedAlike(r.nonce, r.replicas, l, c, x, r, status)
  BY JudgesSpoken
<1>2. validate(Spoken(r.nonce, r.replicas, l, c, x), r) = Failed(status)
  BY <1>1 DEF JudgedAlike, Verdict
<1> QED
  BY <1>2 DEF Failed, StatusOf

\* What L5 admits.
Fits(t, r) == \E k \in Encoded(t, r.mode) : k > r.capacity => r.allow_truncate

\* Equal replicas elect what they say.
LEMMA SameElects ==
  ASSUME NEW S, NEW n \in Nat, n > 0, NEW t \in Seq(S)
  PROVE  Elects(Same(n, t)) /\ Elected(Same(n, t)) = t
<1> DEFINE f == Same(n, t)
<1>1. f \in Seq(Seq(S)) /\ Len(f) = n /\ DOMAIN f = 1 .. n /\ \A b \in 1 .. n : f[b] = t
  BY DEF Same
<1> HIDE DEF f
<1>2. {b \in DOMAIN f : f[b] = t} = 1 .. n
  BY <1>1
<1>3. Cardinality(1 .. n) = n
  BY FS_Interval
<1>4. Tally(f, t) = n
  BY <1>2, <1>3, Zenon DEF Tally
<1>5. 2 * Tally(f, t) > Len(f)
  BY <1>1, <1>4
<1> QED
  BY <1>1, <1>5, MajorityElected DEF f

\* A reply of blocks that all pass is accepted.
Passable(c, t, r) == c = {Checksum(t)} \/ (c = {} /\ ~r.strict)
SpokenAccepted(c, t, r) ==
  LET s == Spoken(r.nonce, r.replicas, Len(t), c, t)
      status == IF c = {} THEN "DEGRADED" ELSE "OK"
  IN StatusOf(s, r) = status /\ StatusOf(<<Prose>> \o s \o <<Prose>>, r) = status

\* A reply with a fitting payload is accepted, and what is accepted is that payload.
LEMMA AcceptsSpoken ==
  ASSUME NEW S, NEW r \in Frame, NEW t, Told(t, S), Fits(t, r), NEW c,
         Passable(c, t, r)
  PROVE  SpokenAccepted(c, t, r)
<1> DEFINE n == r.replicas
           s == Spoken(r.nonce, n, Len(t), c, t)
           s2 == <<Prose>> \o s \o <<Prose>>
           texts == Same(n, t)
           status == IF c = {} THEN "DEGRADED" ELSE "OK"
<1>1. Letters \subseteq S /\ t \in Seq(S) /\ Stripped(t)
  BY DEF Told
<1>2. Held(Len(t), c, t, S)
  BY ToldIsHeld DEF Passable
<1>3. BlockStatus(Entry(Len(t), c, t), r) = "OK"
  <2>1. BlockStatus(Entry(Len(t), c, t), r) = BlockVerdict(Len(t), c, t, r)
    BY <1>1, SumJudged
  <2>2. BlockVerdict(Len(t), c, t, r) = "OK"
    BY Vouching DEF Passable
  <2> QED
    BY <2>1, <2>2
<1>4. JudgedAlike(r.nonce, n, Len(t), c, t, r, "OK")
  BY <1>1, <1>2, <1>3, JudgesSpoken
<1>5. (IF r.no_trim THEN t ELSE Trim(t)) = t
  BY <1>1, Trims
<1>6. Verdict(s, r, "OK", texts, c = {}) /\ Verdict(s2, r, "OK", texts, c = {})
  BY <1>4, <1>5, Zenon DEF JudgedAlike
<1>7. Elects(texts) /\ Elected(texts) = t
  BY <1>1, SameElects DEF Frame
<1> HIDE DEF s, s2, texts, n
<1>8. validate(s, r) = Accepted(texts, r, c = {}) /\ validate(s2, r) = Accepted(texts, r, c = {})
  BY <1>6, <1>7 DEF Verdict
<1>9. Accepted(texts, r, c = {}).status = status
  <2>1. PICK k \in Encoded(Elected(texts), r.mode) : k > r.capacity => r.allow_truncate
    BY <1>7 DEF Fits
  <2>2. r.mode \in {"TEXT", "NUM", "BYTES"}
    BY DEF Frame
  <2>3. r.allow_truncate \/ ~(k > r.capacity)
    BY <2>1
  <2> DEFINE u == c = {}
  <2>4. status = IF u THEN "DEGRADED" ELSE "OK"
    OBVIOUS
  <2> HIDE DEF u, status
  <2>5. Accepted(texts, r, u).status = IF u THEN "DEGRADED" ELSE "OK"
    BY <2>1, <2>2, <2>3, Accepts
  <2> QED
    BY <2>4, <2>5, Zenon DEF u
<1>10. StatusOf(s, r) = status /\ StatusOf(s2, r) = status
  BY <1>8, <1>9 DEF StatusOf
<1> QED
  BY <1>10, Zenon DEF SpokenAccepted, s, s2, n, status

\* How such a reply is found.
FoundAlike(v, st, n, l, c, x) ==
  LET es == Entries(n, Same(n, l), Same(n, c), Same(n, x))
      mid == FlattenSeq(Fences(n, Same(n, l), Same(n, c), Same(n, x)))
  IN /\ FoundAs(Said(v, st, n, Same(n, l), Same(n, c), Same(n, x)), TRUE, es, v, st)
     /\ FoundAs(<<Opening>> \o (Heading(v, st) \o mid), FALSE, es, v, st)
     /\ Shown(es, n)

\* It is found whatever its nonce and status.
LEMMA FindsSpoken ==
  ASSUME NEW S, NEW n \in Nat, NEW l, NEW c, NEW x, Held(l, c, x, S), NEW v \in Nat, NEW st,
         st \in {"OK", "REFUSED"}
  PROVE  FoundAlike(v, st, n, l, c, x)
<1> DEFINE V == Carried(S)
           ls == Same(n, l)
           cs == Same(n, c)
           xs == Same(n, x)
           es == Entries(n, ls, cs, xs)
           s == Said(v, st, n, ls, cs, xs)
           mid == FlattenSeq(Fences(n, ls, cs, xs))
<1>1. Fit(n, ls, cs, xs, S, V)
  BY SameFits
<1>2. v \in V /\ st \in V
  BY Carries
<1>3. <<>> \in Seq(Lines(V))
  OBVIOUS
<1>4. mid \in Seq(Lines(V))
  BY <1>1, FitsLines
<1> HIDE DEF V, ls, cs, xs, es
<1>5. FoundSaid(<<>>, v, st, n, ls, cs, xs, <<>>) /\ FoundCut(v, st, n, ls, cs, xs) /\ Shown(es, n)
  BY <1>1, <1>2, <1>3, FindsSaid DEF es
<1>6. s \in Seq(AllLines(V))
  <2>1. s = Reply(v, st, mid)
    BY DEF Said
  <2> HIDE DEF s, mid
  <2>2. ReplyAre(Reply(v, st, mid), v, st, mid, V)
    BY <1>2, <1>4, ReplyIs
  <2> QED
    BY <2>1, <2>2 DEF ReplyAre
<1> HIDE DEF s, mid
<1>7. <<>> \o s \o <<>> = s
  BY <1>6, Alone
<1>8. FoundAs(s, TRUE, es, v, st)
  BY <1>5, <1>7, Zenon DEF FoundAs, FoundSaid, s, es
<1>9. FoundAs(<<Opening>> \o (Heading(v, st) \o mid), FALSE, es, v, st)
  BY <1>5, Zenon DEF FoundAs, FoundCut, mid, es
<1> QED
  BY <1>5, <1>8, <1>9, Zenon DEF FoundAlike, es, s, mid, ls, cs, xs

\* The reply of a backend that repeats one answer.
Sent(r, t) == Spoken(r.nonce, r.replicas, Len(t), {Checksum(t)}, t)

\* Another nonce.
LEMMA ReaddressedIsNamed ==
  ASSUME NEW S, NEW r \in Frame, NEW t, Told(t, S), NEW w \in Nat, w # r.nonce
  PROVE  StatusOf(_replace_header(Sent(r, t), "NONCE", w), r) = "BAD_NONCE"
<1> DEFINE V == Carried(S)
           n == r.replicas
           ls == Same(n, Len(t))
           cs == Same(n, {Checksum(t)})
           xs == Same(n, t)
           mid == FlattenSeq(Fences(n, ls, cs, xs))
           es == Entries(n, ls, cs, xs)
           v == r.nonce
           st == "OK"
<1>1. n \in Nat /\ v \in Nat
  BY DEF Frame
<1>2. Held(Len(t), {Checksum(t)}, t, S)
  BY ToldIsHeld
<1>3. Fit(n, ls, cs, xs, S, V)
  BY <1>1, <1>2, SameFits
<1>4. v \in V /\ st \in V /\ w \in V
  BY <1>1, Carries
<1>5. mid \in Seq(Lines(V))
  BY <1>3, FitsLines
<1>6. FoundAs(Said(w, st, n, ls, cs, xs), TRUE, es, w, st) /\ Shown(es, n)
  <2>1. FoundAlike(w, st, n, Len(t), {Checksum(t)}, t)
    BY <1>1, <1>2, FindsSpoken
  <2> QED
    BY <2>1, Zenon DEF FoundAlike
<1>7. Sent(r, t) = Reply(v, st, mid) /\ Said(w, st, n, ls, cs, xs) = Reply(w, st, mid)
  BY DEF Sent, Spoken, Said
<1> HIDE DEF V, ls, cs, xs, mid, es, st
<1>8. _replace_header(Reply(v, st, mid), "NONCE", w) = Reply(w, st, mid)
  BY <1>4, <1>5, Readdresses
<1> DEFINE text == Reply(w, st, mid)
<1>9. FoundAs(text, TRUE, es, w, st)
  BY <1>6, <1>7
<1> HIDE DEF text
<1>10. validate(text, r).status = "BAD_NONCE"
  <2>1. FrameVerdict(text, r, es, n, w, st)
    BY <1>6, JudgesFrame
  <2> QED
    BY <1>9, <2>1 DEF FrameVerdict
<1> QED
  BY <1>7, <1>8, <1>10 DEF StatusOf, text

\* A wrong LEN.
LEMMA MiscountIsNamed ==
  ASSUME NEW S, NEW r \in Frame, NEW t, Told(t, S)
  PROVE  StatusOf(Miscount(Sent(r, t)), r) = "BAD_LENGTH"
<1> DEFINE V == Carried(S)
           n == r.replicas
           c == {Checksum(t)}
           v == r.nonce
           st == "OK"
<1>1. n \in Nat /\ v \in Nat
  BY DEF Frame
<1>2. Held(Len(t), c, t, S) /\ Len(t) \in Nat
  BY ToldIsHeld DEF Told
<1>3. Fit(n, Same(n, Len(t)), Same(n, c), Same(n, t), S, V)
  BY <1>1, <1>2, SameFits
<1>4. v \in V /\ st \in V
  BY <1>1, Carries
<1> HIDE DEF V, c, st
<1>5. Miscount(Said(v, st, n, Same(n, Len(t)), Same(n, c), Same(n, t)))
        = Said(v, st, n, [b \in 1 .. n |-> Same(n, Len(t))[b] + 3], Same(n, c), Same(n, t))
  BY <1>3, <1>4, Miscounts
<1>6. [b \in 1 .. n |-> Same(n, Len(t))[b] + 3] = Same(n, Len(t) + 3)
  <2>1. \A b \in 1 .. n : Same(n, Len(t))[b] = Len(t)
    BY DEF Same
  <2> QED
    BY <2>1, Zenon DEF Same
<1>7. Miscount(Sent(r, t)) = Spoken(v, n, Len(t) + 3, c, t)
  BY <1>5, <1>6, Zenon DEF Sent, Spoken, c, st
<1>8. Held(Len(t) + 3, c, t, S)
  <2>1. Len(t) + 3 \in Carried(S)
    BY <1>2, Carries
  <2> QED
    BY <1>2, <2>1 DEF Held
<1>9. BlockStatus(Entry(Len(t) + 3, c, t), r) = "BAD_LENGTH"
  <2>1. Len(t) + 3 # Len(t) /\ Stripped(t) /\ t \in Seq(S)
    BY <1>2 DEF Told
  <2> QED
    BY <2>1, LengthJudged
<1>10. StatusOf(Spoken(v, n, Len(t) + 3, c, t), r) = "BAD_LENGTH"
  BY <1>8, <1>9, Rejects DEF Told
<1> QED
  BY <1>7, <1>10

\* A tampered checksum.
LEMMA TamperingIsNamed ==
  ASSUME NEW S, NEW r \in Frame, NEW t, Told(t, S)
  PROVE  StatusOf(Tamper(Sent(r, t)), r) = "BAD_CHECKSUM"
<1> DEFINE V == Carried(S)
           n == r.replicas
           c == {Checksum(t)}
           d == {Tampering(t)}
           v == r.nonce
           st == "OK"
<1>1. n \in Nat /\ n > 0 /\ v \in Nat
  BY DEF Frame
<1>2. Held(Len(t), c, t, S) /\ Len(t) \in Nat
  BY ToldIsHeld DEF Told
<1>3. Fit(n, Same(n, Len(t)), Same(n, c), Same(n, t), S, V)
  BY <1>1, <1>2, SameFits
<1>4. v \in V /\ st \in V
  BY <1>1, Carries
<1>5. \A b \in 1 .. n : Same(n, c)[b] = {Checksum(Same(n, t)[b])}
  BY DEF Same
<1>6. Tampered(c) = d
  <2>1. Checksum(t).of = t
    BY DEF Checksum
  <2> QED
    BY <2>1 DEF Tampered, Tampering
<1>7. \A b \in 1 .. n : Same(n, c)[b] = c
  BY DEF Same
<1> HIDE DEF V, c, d, st
<1>8. Tamper(Said(v, st, n, Same(n, Len(t)), Same(n, c), Same(n, t)))
        = Said(v, st, n, Same(n, Len(t)), [b \in 1 .. n |-> Tampered(Same(n, c)[b])], Same(n, t))
  BY <1>1, <1>3, <1>4, <1>5, Tampers
<1>9. [b \in 1 .. n |-> Tampered(Same(n, c)[b])] = Same(n, d)
  BY <1>6, <1>7, Zenon DEF Same
<1>10. Tamper(Sent(r, t)) = Spoken(v, n, Len(t), d, t)
  BY <1>8, <1>9, Zenon DEF Sent, Spoken, c, st
<1>11. Held(Len(t), d, t, S)
  <2>1. Tampering(t) \in Carried(S)
    BY Carries DEF Told
  <2> QED
    BY <1>2, <2>1 DEF Held, d
<1>12. BlockStatus(Entry(Len(t), d, t), r) = "BAD_CHECKSUM"
  <2>1. BlockStatus(Entry(Len(t), d, t), r) = BlockVerdict(Len(t), d, t, r)
    BY SumJudged DEF Told
  <2>2. BlockVerdict(Len(t), d, t, r) = "BAD_CHECKSUM"
    BY Forging DEF d
  <2> QED
    BY <2>1, <2>2
<1>13. StatusOf(Spoken(v, n, Len(t), d, t), r) = "BAD_CHECKSUM"
  BY <1>11, <1>12, Rejects DEF Told
<1> QED
  BY <1>10, <1>13

\* No checksum.
LEMMA UnvouchedIsNamed ==
  ASSUME NEW S, NEW r \in Frame, NEW t, Told(t, S), Fits(t, r)
  PROVE  StatusOf(Without(Sent(r, t), {"CRC", "SUM"}), r)
           = IF r.strict THEN "BAD_CHECKSUM" ELSE "DEGRADED"
<1> DEFINE V == Carried(S)
           n == r.replicas
           c == {Checksum(t)}
           v == r.nonce
           st == "OK"
           s == Spoken(v, n, Len(t), {}, t)
<1>1. n \in Nat /\ v \in Nat
  BY DEF Frame
<1>2. Held(Len(t), c, t, S) /\ Held(Len(t), {}, t, S)
  BY ToldIsHeld
<1>3. Fit(n, Same(n, Len(t)), Same(n, c), Same(n, t), S, V)
  BY <1>1, <1>2, SameFits
<1>4. v \in V /\ st \in V
  BY <1>1, Carries
<1> HIDE DEF V, c, st
<1>5. Without(Said(v, st, n, Same(n, Len(t)), Same(n, c), Same(n, t)), {"CRC", "SUM"})
        = Said(v, st, n, Same(n, Len(t)), [b \in 1 .. n |-> {}], Same(n, t))
  BY <1>3, <1>4, Unvouches
<1>6. Without(Sent(r, t), {"CRC", "SUM"}) = s
  BY <1>5, Zenon DEF Sent, Spoken, Same, c, st
<1> HIDE DEF s
<1>7. CASE r.strict
  <2>1. BlockStatus(Entry(Len(t), {}, t), r) = BlockVerdict(Len(t), {}, t, r)
    BY SumJudged DEF Told
  <2>2. BlockStatus(Entry(Len(t), {}, t), r) = "BAD_CHECKSUM"
    BY <1>7, <2>1, Vouching
  <2>3. StatusOf(s, r) = "BAD_CHECKSUM"
    BY <1>2, <2>2, Rejects DEF Told, s
  <2> QED
    BY <1>6, <1>7, <2>3
<1>8. CASE ~r.strict
  <2> DEFINE e == {}
  <2>1. e = {}
    OBVIOUS
  <2> HIDE DEF e
  <2>2. StatusOf(Spoken(v, n, Len(t), e, t), r) = IF e = {} THEN "DEGRADED" ELSE "OK"
    <3>1. SpokenAccepted(e, t, r)
      BY <1>8, <2>1, AcceptsSpoken DEF Passable
    <3> QED
      BY <3>1, Zenon DEF SpokenAccepted
  <2> QED
    BY <1>6, <1>8, <2>1, <2>2 DEF s
<1> QED
  BY <1>7, <1>8

\* The elements of a sequence.
LEMMA Elements == ASSUME NEW A, NEW s \in Seq(A) PROVE \A i \in 1 .. Len(s) : s[i] \in A
  OBVIOUS

\* Where the elements of three sequences in a row stand.
LEMMA Wrapped ==
  ASSUME NEW S, NEW w \in Seq(S), NEW t \in Seq(S), NEW d \in Seq(S), NEW u, u = w \o t \o d
  PROVE  /\ u \in Seq(S) /\ Len(u) = Len(w) + Len(t) + Len(d)
         /\ \A i \in 1 .. Len(w) : u[i] = w[i]
         /\ \A i \in 1 .. Len(t) : u[Len(w) + i] = t[i]
         /\ \A i \in 1 .. Len(d) : u[Len(w) + Len(t) + i] = d[i]
  OBVIOUS

\* What a fault makes of a text, over the same symbols.
LEMMA RewritesTold ==
  ASSUME NEW S, NEW t, Told(t, S)
  PROVE  /\ Cut(t) \in Seq(S) /\ Plain(Cut(t)) /\ Len(t) \notin 0 .. Len(Cut(t))
         /\ Flip(t) \in Seq(S) /\ Plain(Flip(t)) /\ Stripped(Flip(t))
         /\ Len(Flip(t)) = Len(t) /\ Flip(t) # t
         /\ Wording \o t \o <<".">> \in Seq(S) /\ Plain(Wording \o t \o <<".">>)
         /\ Stripped(Wording \o t \o <<".">>) /\ Len(Wording \o t \o <<".">>) # Len(t)
<1>1. t \in Seq(S) /\ Len(t) \in Nat /\ Len(t) > 0
  BY DEF Told
<1>2. \A i \in 1 .. Len(t) : t[i] \in S /\ t[i] \notin Special
  BY <1>1 DEF Told, Plain
<1>3. t[1] \notin Blank /\ t[Len(t)] \notin Blank
  BY DEF Told, Stripped
<1>4. Letters \subseteq S /\ Letters \cap Blank = {} /\ Letters \cap Special = {}
  BY DEF Told, Letters, Blank, Breaks, SP, NL, FF, Special, Marker
<1>5. Cut(t) \in Seq(S) /\ Plain(Cut(t)) /\ Len(t) \notin 0 .. Len(Cut(t))
  <2> DEFINE u == Cut(t)
  <2>1. /\ Len(u) = IF 1 <= Len(t) - 2 THEN Len(t) - 2 ELSE 0
        /\ u \in Seq(S) /\ \A i \in 1 .. Len(u) : u[i] = t[i] /\ i \in 1 .. Len(t)
    BY <1>1, <1>2 DEF Cut
  <2> HIDE DEF u
  <2> QED
    BY <1>1, <1>2, <2>1 DEF Plain, u
<1>6. /\ Flip(t) \in Seq(S) /\ Plain(Flip(t)) /\ Stripped(Flip(t))
      /\ Len(Flip(t)) = Len(t) /\ Flip(t) # t
  <2> DEFINE k == Len(t) \div 2 + 1
             y == IF t[k] # "X" THEN "X" ELSE "Y"
             u == Flip(t)
  <2>1. k \in 1 .. Len(t)
    BY <1>1
  <2>2. y \in Letters /\ y # t[k]
    BY DEF Letters
  <2>3. u = [t EXCEPT ![k] = y]
    BY <1>1 DEF Flip
  <2> HIDE DEF k, y, u
  <2>4. y \in S /\ y \notin Blank /\ y \notin Special
    BY <1>4, <2>2
  <2>5. u \in Seq(S) /\ Len(u) = Len(t) /\ \A i \in 1 .. Len(u) : u[i] = IF i = k THEN y ELSE t[i]
    BY <1>1, <2>1, <2>3, <2>4
  <2>6. Plain(u)
    BY <1>2, <2>4, <2>5 DEF Plain
  <2>7. Stripped(u)
    BY <1>1, <1>3, <2>4, <2>5 DEF Stripped
  <2>8. u # t
    BY <2>1, <2>2, <2>5
  <2> QED
    BY <2>5, <2>6, <2>7, <2>8 DEF u
<1>7. LET u == Wording \o t \o <<".">>
      IN u \in Seq(S) /\ Plain(u) /\ Stripped(u) /\ Len(u) # Len(t)
  <2> DEFINE w == Wording
             d == <<".">>
             u == w \o t \o d
  <2>1. w \in Seq(Letters)
    BY DEF Wording, Letters
  <2>2. Len(w) = 9
    BY DEF Wording
  <2>3. d \in Seq(Letters)
    BY DEF Letters
  <2>4. Len(d) = 1
    OBVIOUS
  <2> HIDE DEF w, d
  <2>5. \A i \in 1 .. Len(w) : w[i] \in Letters
    BY <2>1, Elements
  <2>6. \A i \in 1 .. Len(d) : d[i] \in Letters
    BY <2>3, Elements
  <2>7. w \in Seq(S)
    BY <1>4, <2>1
  <2>8. d \in Seq(S)
    BY <1>4, <2>3
  <2>9. u = w \o t \o d
    OBVIOUS
  <2> HIDE DEF u
  <2>10. /\ u \in Seq(S) /\ Len(u) = Len(w) + Len(t) + Len(d)
         /\ \A i \in 1 .. Len(w) : u[i] = w[i]
         /\ \A i \in 1 .. Len(t) : u[Len(w) + i] = t[i]
         /\ \A i \in 1 .. Len(d) : u[Len(w) + Len(t) + i] = d[i]
    BY <1>1, <2>7, <2>8, <2>9, Wrapped
  <2>11. Len(u) = 10 + Len(t)
    BY <1>1, <2>2, <2>4, <2>10
  <2>12. \A i \in 1 .. 9 : u[i] \in Letters
    BY <2>2, <2>5, <2>10
  <2>13. u[10 + Len(t)] \in Letters
    <3>1. u[Len(w) + Len(t) + 1] \in Letters
      BY <2>4, <2>6, <2>10
    <3> QED
      BY <1>1, <2>2, <3>1
  <2>14. \A i \in 1 .. Len(t) : u[9 + i] = t[i]
    BY <2>2, <2>10
  <2>15. Plain(u)
    <3> SUFFICES ASSUME NEW i \in 1 .. Len(u) PROVE u[i] \notin Special
      BY DEF Plain
    <3>1. CASE i <= 9
      BY <1>4, <2>12, <3>1
    <3>2. CASE i > 9 /\ i <= 9 + Len(t)
      <4>1. i - 9 \in 1 .. Len(t) /\ 9 + (i - 9) = i
        BY <1>1, <3>2
      <4>2. u[i] = t[i - 9]
        BY <2>14, <4>1
      <4> QED
        BY <1>2, <4>1, <4>2
    <3>3. CASE i = 10 + Len(t)
      BY <1>4, <2>13, <3>3
    <3> QED
      BY <1>1, <2>11, <3>1, <3>2, <3>3
  <2>16. Stripped(u)
    <3>1. u[1] \in Letters
      BY <2>12
    <3>2. u[Len(u)] \in Letters
      BY <2>11, <2>13
    <3> QED
      BY <1>4, <3>1, <3>2 DEF Stripped
  <2>17. Len(u) # Len(t)
    BY <1>1, <2>11
  <2> QED
    BY <2>10, <2>15, <2>16, <2>17 DEF u, w, d
<1> QED
  BY <1>5, <1>6, <1>7

\* The reply to r that says t, after a fault that rewrites payloads.
Remapped(r, t, fault) == _map_payload(Sent(r, t), fault)

\* Such a fault leaves the lengths and checksums of the text it replaced.
LEMMA Remaps ==
  ASSUME NEW S, NEW r \in Frame, NEW t, Told(t, S), NEW fault, fault # "read", NEW u,
         u = Rewritten(t, fault), u \in Seq(S), Plain(u)
  PROVE  /\ Remapped(r, t, fault) = Spoken(r.nonce, r.replicas, Len(t), {Checksum(t)}, u)
         /\ Held(Len(t), {Checksum(t)}, u, S)
<1> DEFINE V == Carried(S)
           n == r.replicas
           l == Len(t)
           c == {Checksum(t)}
           v == r.nonce
           st == "OK"
<1>1. n \in Nat /\ v \in Nat
  BY DEF Frame
<1>2. Held(l, c, t, S)
  BY ToldIsHeld
<1>3. Held(l, c, u, S)
  BY <1>2 DEF Held
<1>4. Fit(n, Same(n, l), Same(n, c), Same(n, t), S, V) /\ Fit(n, Same(n, l), Same(n, c), Same(n, u), S, V)
  BY <1>1, <1>2, <1>3, SameFits
<1>5. v \in V /\ st \in V
  BY <1>1, Carries
<1>6. \A b \in 1 .. n : Same(n, u)[b] = Rewritten(Same(n, t)[b], fault)
  BY DEF Same
<1> HIDE DEF V, l, c, st
<1>7. _map_payload(Said(v, st, n, Same(n, l), Same(n, c), Same(n, t)), fault)
        = Said(v, st, n, Same(n, l), Same(n, c), Same(n, u))
  BY <1>4, <1>5, <1>6, Maps
<1> QED
  BY <1>3, <1>7, Zenon DEF Remapped, Sent, Spoken, l, c, st

\* truncate, bitflip and wrong_mode are named by the layer that finds them.
LEMMA RewritingIsNamed ==
  ASSUME NEW S, NEW r \in Frame, NEW t, Told(t, S)
  PROVE  /\ StatusOf(Remapped(r, t, "truncate"), r) = "BAD_LENGTH"
         /\ StatusOf(Remapped(r, t, "bitflip"), r) = "BAD_CHECKSUM"
         /\ StatusOf(Remapped(r, t, "wrong_mode"), r) = "BAD_LENGTH"
<1> DEFINE l == Len(t)
           c == {Checksum(t)}
<1>1. Letters \subseteq S
  BY DEF Told
<1>2. ASSUME NEW fault, fault # "read", NEW u, u = Rewritten(t, fault), u \in Seq(S), Plain(u),
             NEW status, status # "OK", BlockStatus(Entry(l, c, u), r) = status
      PROVE  StatusOf(Remapped(r, t, fault), r) = status
  <2>1. /\ Remapped(r, t, fault) = Spoken(r.nonce, r.replicas, l, c, u)
        /\ Held(l, c, u, S)
    BY <1>2, Remaps
  <2> HIDE DEF l, c
  <2>2. StatusOf(Spoken(r.nonce, r.replicas, l, c, u), r) = status
    BY <1>1, <1>2, <2>1, Rejects
  <2> QED
    BY <2>1, <2>2
<1>3. StatusOf(Remapped(r, t, "truncate"), r) = "BAD_LENGTH"
  <2> DEFINE u == Cut(t)
  <2>1. u \in Seq(S) /\ Plain(u) /\ l \notin 0 .. Len(u)
    BY RewritesTold
  <2>2. u = Rewritten(t, "truncate")
    BY DEF Rewritten
  <2> HIDE DEF u, l, c
  <2>3. BlockStatus(Entry(l, c, u), r) = "BAD_LENGTH"
    BY <2>1, LengthJudged
  <2> QED
    BY <1>2, <2>1, <2>2, <2>3
<1>4. StatusOf(Remapped(r, t, "bitflip"), r) = "BAD_CHECKSUM"
  <2> DEFINE u == Flip(t)
  <2>1. u \in Seq(S) /\ Plain(u) /\ Stripped(u) /\ Len(u) = l /\ u # t
    BY RewritesTold
  <2>2. u = Rewritten(t, "bitflip")
    BY DEF Rewritten
  <2> HIDE DEF u
  <2>3. BlockStatus(Entry(Len(u), c, u), r) = BlockVerdict(Len(u), c, u, r)
    BY <2>1, SumJudged
  <2>4. BlockVerdict(Len(u), c, u, r) = "BAD_CHECKSUM"
    BY <2>1, Forging
  <2> HIDE DEF l, c
  <2>5. BlockStatus(Entry(l, c, u), r) = "BAD_CHECKSUM"
    BY <2>1, <2>3, <2>4
  <2> QED
    BY <1>2, <2>1, <2>2, <2>5
<1>5. StatusOf(Remapped(r, t, "wrong_mode"), r) = "BAD_LENGTH"
  <2> DEFINE u == Wording \o t \o <<".">>
  <2>1. u \in Seq(S) /\ Plain(u) /\ Stripped(u) /\ Len(u) # l
    BY RewritesTold
  <2>2. u = Rewritten(t, "wrong_mode")
    BY DEF Rewritten
  <2> HIDE DEF u, l, c
  <2>3. BlockStatus(Entry(l, c, u), r) = "BAD_LENGTH"
    BY <2>1, LengthJudged
  <2> QED
    BY <1>2, <2>1, <2>2, <2>3
<1> QED
  BY <1>3, <1>4, <1>5

\* No END line.
LEMMA UnendedIsNamed ==
  ASSUME NEW S, NEW r \in Frame, NEW t, Told(t, S)
  PROVE  StatusOf(Without(Sent(r, t), {"end"}), r) = "MALFORMED"
<1> DEFINE V == Carried(S)
           n == r.replicas
           l == Len(t)
           c == {Checksum(t)}
           ls == Same(n, l)
           cs == Same(n, c)
           xs == Same(n, t)
           mid == FlattenSeq(Fences(n, ls, cs, xs))
           es == Entries(n, ls, cs, xs)
           v == r.nonce
           st == "OK"
           text == <<Opening>> \o (Heading(v, st) \o mid)
<1>1. n \in Nat /\ v \in Nat
  BY DEF Frame
<1>2. Held(l, c, t, S)
  BY ToldIsHeld
<1>3. Fit(n, ls, cs, xs, S, V)
  BY <1>1, <1>2, SameFits
<1>4. v \in V /\ st \in V
  BY <1>1, Carries
<1>5. FoundAs(text, FALSE, es, v, st) /\ Shown(es, n)
  <2>1. FoundAlike(v, st, n, l, c, t)
    BY <1>1, <1>2, FindsSpoken
  <2> QED
    BY <2>1, Zenon DEF FoundAlike
<1>6. Sent(r, t) = Said(v, st, n, ls, cs, xs)
  BY DEF Sent, Spoken
<1>7. Without(Said(v, st, n, ls, cs, xs), {"end"}) = text
  <2> HIDE DEF V, ls, cs, xs, st
  <2> QED
    BY <1>3, <1>4, Unends
<1> HIDE DEF text, es, st
<1>8. validate(text, r).status = "MALFORMED"
  <2>1. FrameVerdict(text, r, es, n, v, st)
    BY <1>5, JudgesFrame
  <2> QED
    BY <1>5, <2>1 DEF FrameVerdict
<1> QED
  BY <1>6, <1>7, <1>8 DEF StatusOf

\* A block more.
LEMMA ReadsFenced ==
  ASSUME NEW S, NEW text \in Seq(S), Plain(text), NEW V, Seq(S) \subseteq V, 1 \in V,
         NEW len \in V, NEW c, c = {} \/ \E x \in V : c = {x},
         NEW E, Entry(len, c, text) \in E
  PROVE  Reads(Fenced(len, c, text), <<Entry(len, c, text)>>, E)
<1> DEFINE e == Entry(len, c, text)
<1> SUFFICES ASSUME NEW bs \in Seq(E), NEW v, NEW st
             PROVE  Scanned(Fenced(len, c, text), Between(bs, v, st), Between(bs \o <<e>>, v, st))
  BY DEF Reads
<1>1. Scanned(Fenced(len, c, text), Between(bs, v, st), Between(Append(bs, e), v, st))
  BY ScansFenced
<1> HIDE DEF e
<1>2. e \in E
  BY DEF e
<1>3. bs \o <<e>> = Append(bs, e)
  BY <1>2
<1> QED
  BY <1>1, <1>3

\* One closed block more.
LEMMA ShownOneMore ==
  ASSUME NEW es, NEW n, Shown(es, n), NEW E, es \in Seq(E), NEW e \in E, e.closed = TRUE
  PROVE  Shown(es \o <<e>>, n + 1)
<1>1. Len(es) = n /\ \A b \in 1 .. Len(es) : es[b].closed = TRUE
  BY DEF Shown
<1> DEFINE new == es \o <<e>>
<1>2. /\ new \in Seq(E) /\ Len(new) = Len(es) + 1 /\ Len(es) \in Nat
      /\ \A b \in 1 .. Len(new) : new[b] = IF b <= Len(es) THEN es[b] ELSE e
  OBVIOUS
<1> HIDE DEF new
<1>3. \A b \in 1 .. Len(new) : new[b].closed = TRUE
  BY <1>1, <1>2
<1>4. Shown(new, n + 1)
  BY <1>1, <1>2, <1>3 DEF Shown
<1> QED
  BY <1>4 DEF new

\* A block too many is named MALFORMED.
LEMMA ExtraBlockIsNamed ==
  ASSUME NEW S, NEW r \in Frame, NEW t, Told(t, S)
  PROVE  StatusOf(InsertExtraBlock(Sent(r, t)), r) = "MALFORMED"
<1> DEFINE V == Carried(S)
           n == r.replicas
           l == Len(t)
           c == {Checksum(t)}
           ls == Same(n, l)
           cs == Same(n, c)
           xs == Same(n, t)
           mid == FlattenSeq(Fences(n, ls, cs, xs))
           es == Entries(n, ls, cs, xs)
           e == Entry(1, {}, <<"?">>)
           E == EntriesOf(n, ls, cs, xs) \cup {e}
           v == r.nonce
           st == "OK"
           new == mid \o ExtraBlock
           all == es \o <<e>>
           text == Reply(v, st, new)
<1>1. n \in Nat /\ v \in Nat
  BY DEF Frame
<1>2. Held(l, c, t, S)
  BY ToldIsHeld
<1>3. Fit(n, ls, cs, xs, S, V)
  BY <1>1, <1>2, SameFits
<1>4. v \in V /\ st \in V /\ Seq(S) \subseteq V /\ 1 \in V
  BY <1>1, Carries
<1>5. <<"?">> \in Seq(S) /\ Plain(<<"?">>)
  BY DEF Told, Letters, Plain, Special, Marker, FF
<1>6. ExtraBlock \in Seq(Lines(V)) /\ Reads(ExtraBlock, <<e>>, E)
  <2> DEFINE q == <<"?">>
             none == {}
  <2>1. e \in E /\ q \in Seq(S) /\ Plain(q) /\ none = {}
    BY <1>5
  <2>2. ExtraBlock = Fenced(1, none, q)
    BY ExtraIsFenced
  <2>3. e = Entry(1, none, q)
    OBVIOUS
  <2> HIDE DEF q, none, V, E, e
  <2>4. Fenced(1, none, q) \in Seq(Lines(V))
    BY <1>4, <2>1, ScansFenced
  <2>5. Reads(Fenced(1, none, q), <<Entry(1, none, q)>>, E)
    BY <1>4, <2>1, <2>3, ReadsFenced
  <2> QED
    BY <2>2, <2>3, <2>4, <2>5
<1>7. mid \in Seq(Lines(V)) /\ es \in Seq(E) /\ Reads(mid, es, E)
  <2>1. n \in Nat /\ Seq(S) \subseteq V /\ 1 \in V /\ BlocksOver(n, ls, cs, xs, S, V)
    BY <1>3 DEF Fit
  <2>2. EntriesOf(n, ls, cs, xs) \subseteq E
    OBVIOUS
  <2> HIDE DEF V, ls, cs, xs, E
  <2> QED
    BY <2>1, <2>2, ReadsBlocks
<1>8. Shown(es, n)
  <2>1. FoundAlike(v, st, n, l, c, t)
    BY <1>1, <1>2, FindsSpoken
  <2> QED
    BY <2>1, Zenon DEF FoundAlike
<1>9. e \in E /\ e.closed = TRUE
  BY DEF Entry
<1>10. Sent(r, t) = Reply(v, st, mid)
  BY DEF Sent, Spoken, Said
<1> HIDE DEF V, ls, cs, xs, mid, es, st, e, E
<1>11. InsertExtraBlock(Reply(v, st, mid)) = text
  BY <1>4, <1>6, <1>7, Inserts
<1>12. <<e>> \in Seq(E)
  BY <1>9
<1>13. Reads(new, all, E)
  BY <1>6, <1>7, <1>12, ReadsOn
<1>14. new \in Seq(Lines(V))
  BY <1>6, <1>7
<1>15. all \in Seq(E)
  BY <1>7, <1>12
<1>16. Shown(all, n + 1)
  BY <1>7, <1>8, <1>9, ShownOneMore
<1> HIDE DEF new, all
<1>17. text \in Seq(AllLines(V))
  BY <1>4, <1>14, ReplyIs DEF ReplyAre
<1>18. Finds(<<>>, v, st, new, <<>>, all)
  <2>1. <<>> \in Seq(Lines(V))
    OBVIOUS
  <2> QED
    BY <1>4, <1>13, <1>14, <1>15, <2>1, FindsReply
<1> HIDE DEF text
<1>19. <<>> \o text \o <<>> = text
  BY <1>17, Alone
<1>20. FoundAs(text, TRUE, all, v, st)
  BY <1>18, <1>19, Zenon DEF Finds, FoundAs, text
<1>21. validate(text, r).status = "MALFORMED"
  <2>1. FrameVerdict(text, r, all, n + 1, v, st)
    BY <1>16, JudgesFrame
  <2>2. n + 1 # n
    BY <1>1
  <2> QED
    BY <1>20, <2>1, <2>2 DEF FrameVerdict, st
<1> QED
  BY <1>10, <1>11, <1>21 DEF StatusOf

\* A refusal.
LEMMA RefusalIsNamed ==
  ASSUME NEW r \in Frame
  PROVE  StatusOf(Refusal(r), r) = "REFUSED"
<1> DEFINE S == Letters
           x == <<"A">>
           v == r.nonce
           st == "REFUSED"
           texts == Canonical(<<>>)
           none == "none"
<1>1. v \in Nat /\ v \in Carried(S) /\ st \in Carried(S) /\ none \in {"none", "CRC"}
  BY Carries DEF Frame
<1>2. Texted(0, texts, S)
  BY DEF Texted, Canonical
<1>3. texts = Same(0, x) /\ Sizes(texts) = Same(0, 1) /\ Sums(texts, none) = Same(0, {})
  <2>1. DOMAIN texts = {} /\ 1 .. 0 = {}
    BY DEF Canonical
  <2>2. texts = [b \in {} |-> 0]
    BY <2>1 DEF Canonical
  <2> QED
    BY <2>1, <2>2 DEF Same, Sizes, Sums
<1>4. Held(1, {}, x, S)
  <2>1. 1 \in Carried(S)
    BY Carries
  <2>2. x \in Seq(S) /\ Plain(x)
    BY DEF Letters, Plain, Special, Marker, FF
  <2> QED
    BY <2>1, <2>2 DEF Held
<1> HIDE DEF S, texts, st, none, x
<1>5. render_reply(v, <<>>, st, none) = Said(v, st, 0, Sizes(texts), Sums(texts, none), texts)
  <2> DEFINE payloads == <<>>
  <2>1. texts = Canonical(payloads)
    BY DEF texts
  <2> HIDE DEF payloads
  <2>2. Texted(0, Canonical(payloads), S)
    BY <1>2, <2>1
  <2>3. render_reply(v, payloads, st, none)
          = Said(v, st, 0, Sizes(Canonical(payloads)), Sums(Canonical(payloads), none),
                 Canonical(payloads))
    <3>1. Rendered(v, st, none, payloads, 0, S)
      BY <1>1, <2>2, Renders
    <3> QED
      BY <3>1, Zenon DEF Rendered
  <2> QED
    BY <2>1, <2>3, Zenon DEF payloads
<1> DEFINE es == Entries(0, Same(0, 1), Same(0, {}), Same(0, x))
           text == Said(v, st, 0, Same(0, 1), Same(0, {}), Same(0, x))
<1>6. FoundAs(text, TRUE, es, v, st) /\ Shown(es, 0)
  <2> DEFINE c == {}
  <2>1. FoundAlike(v, st, 0, 1, c, x)
    BY <1>1, <1>4, FindsSpoken DEF st
  <2> QED
    BY <2>1, Zenon DEF FoundAlike
<1>7. Refusal(r) = text
  BY <1>3, <1>5 DEF Refusal, st, none
<1> HIDE DEF text, es
<1>8. validate(text, r).status = "REFUSED"
  <2>1. FrameVerdict(text, r, es, 0, v, st)
    BY <1>6, JudgesFrame
  <2> QED
    BY <1>6, <2>1 DEF FrameVerdict, st
<1> QED
  BY <1>7, <1>8 DEF StatusOf

\* Prose.
LEMMA SilenceIsNamed ==
  ASSUME NEW r
  PROVE  StatusOf(<<Prose>>, r) = "NO_FRAME"
<1>1. find_reply_frames(<<Prose>>) = <<>>
  <2> DEFINE s == <<Prose>>
             D == {Prose}
  <2>1. s \in Seq(D) /\ \A l \in D : ~IsBegin(l)
    BY DEF Prose, Line, IsBegin
  <2> HIDE DEF s, D
  <2>2. find_reply_frames(s) = <<>>
    BY <2>1, NothingFound
  <2> QED
    BY <2>2 DEF s
<1>2. validate(<<Prose>>, r) = Failed("NO_FRAME")
  BY <1>1 DEF validate
<1> QED
  BY <1>2 DEF Failed, StatusOf

\* The faults that do not pass the reply through _corrupt.
Outright == {"drop", "silence", "refuse"}

\* What the injector makes of the one reply it was given.
LEMMA InjectedOne ==
  ASSUME NEW s, NEW fault, NEW r, NEW text \in InjectedAsk({s}, fault, r)
  PROVE  /\ fault # "drop"
         /\ fault = "silence" => text = <<Prose>>
         /\ fault = "refuse" => text = Refusal(r)
         /\ fault \notin Outright => text = _corrupt(s, fault, r)
<1>1. fault # "drop"
  BY DEF InjectedAsk
<1>2. fault = "silence" => text = <<Prose>>
  BY DEF InjectedAsk
<1>3. fault = "refuse" => text = Refusal(r)
  BY DEF InjectedAsk
<1>4. fault \notin Outright => text = _corrupt(s, fault, r)
  BY DEF InjectedAsk, Outright
<1> QED
  BY <1>1, <1>2, <1>3, <1>4

\* _corrupt, fault by fault.
LEMMA Corruptions ==
  ASSUME NEW s, NEW r
  PROVE  /\ _corrupt(s, "none", r) = s
         /\ _corrupt(s, "stale_nonce", r) = _replace_header(s, "NONCE", stale(r))
         /\ _corrupt(s, "bad_nonce", r) = _replace_header(s, "NONCE", Unparsable)
         /\ _corrupt(s, "no_checksum", r) = Without(s, {"CRC", "SUM"})
         /\ _corrupt(s, "bad_checksum", r) = Tamper(s)
         /\ _corrupt(s, "bad_length", r) = Miscount(s)
         /\ _corrupt(s, "truncate", r) = _map_payload(s, "truncate")
         /\ _corrupt(s, "bitflip", r) = _map_payload(s, "bitflip")
         /\ _corrupt(s, "wrong_mode", r) = _map_payload(s, "wrong_mode")
         /\ _corrupt(s, "chatty", r) = <<Prose>> \o s \o <<Prose>>
         /\ _corrupt(s, "fenced", r) = <<Prose>> \o s \o <<Prose>>
         /\ _corrupt(s, "unterminated", r) = Without(s, {"end"})
         /\ _corrupt(s, "extra_block", r) = InsertExtraBlock(s)
  BY DEF _corrupt

\* What a fault makes of an answer that the request can use is named.
LEMMA FaultIsNamed ==
  ASSUME NEW S, frame \in Frame, frame.nonce \in 1 .. MaxNonce,
         NEW t, Told(t, S), Fits(t, frame), NEW fault \in Fault,
         NEW text \in InjectedAsk({Sent(frame, t)}, fault, frame)
  PROVE  StatusOf(text, frame) \in Documented(fault)
<1> DEFINE s == Sent(frame, t)
           c == {Checksum(t)}
<1>1. /\ fault # "drop"
      /\ fault = "silence" => text = <<Prose>>
      /\ fault = "refuse" => text = Refusal(frame)
      /\ fault \notin Outright => text = _corrupt(s, fault, frame)
  BY InjectedOne
<1>2. StatusOf(s, frame) = "OK" /\ StatusOf(<<Prose>> \o s \o <<Prose>>, frame) = "OK"
  <2>1. Passable(c, t, frame) /\ c # {}
    BY DEF Passable
  <2>2. s = Spoken(frame.nonce, frame.replicas, Len(t), c, t)
    BY DEF Sent
  <2> HIDE DEF c, s
  <2>3. SpokenAccepted(c, t, frame)
    BY <2>1, AcceptsSpoken
  <2>4. /\ StatusOf(s, frame) = IF c = {} THEN "DEGRADED" ELSE "OK"
        /\ StatusOf(<<Prose>> \o s \o <<Prose>>, frame) = IF c = {} THEN "DEGRADED" ELSE "OK"
    BY <2>2, <2>3, Zenon DEF SpokenAccepted
  <2> QED
    BY <2>1, <2>4
<1>3. CASE fault \in {"none", "chatty", "fenced"}
  <2>1. text = s \/ text = <<Prose>> \o s \o <<Prose>>
    BY <1>1, <1>3, Corruptions DEF Outright
  <2>2. Documented(fault) = {"OK"}
    BY <1>3 DEF Documented
  <2> QED
    BY <1>2, <2>1, <2>2
<1>4. CASE fault \in {"stale_nonce", "bad_nonce"}
  <2>1. PICK w \in Nat : w # frame.nonce /\ text = _replace_header(s, "NONCE", w)
    <3>1. stale(frame) \in Nat /\ stale(frame) # frame.nonce
      BY BackendsAssumption DEF stale
    <3>2. Unparsable \in Nat /\ Unparsable # frame.nonce
      BY DEF Unparsable
    <3> QED
      BY <1>1, <1>4, <3>1, <3>2, Corruptions DEF Outright
  <2>2. StatusOf(_replace_header(s, "NONCE", w), frame) = "BAD_NONCE"
    BY <2>1, ReaddressedIsNamed
  <2> QED
    BY <1>4, <2>1, <2>2 DEF Documented
<1>5. CASE fault = "no_checksum"
  <2>1. text = Without(s, {"CRC", "SUM"})
    BY <1>1, <1>5, Corruptions DEF Outright
  <2>2. StatusOf(Without(s, {"CRC", "SUM"}), frame)
          = IF frame.strict THEN "BAD_CHECKSUM" ELSE "DEGRADED"
    BY UnvouchedIsNamed
  <2> QED
    BY <1>5, <2>1, <2>2 DEF Documented
<1>6. CASE fault = "bad_checksum"
  <2>1. text = Tamper(s)
    BY <1>1, <1>6, Corruptions DEF Outright
  <2>2. StatusOf(Tamper(s), frame) = "BAD_CHECKSUM"
    BY TamperingIsNamed
  <2> QED
    BY <1>6, <2>1, <2>2 DEF Documented
<1>7. CASE fault = "bad_length"
  <2>1. text = Miscount(s)
    BY <1>1, <1>7, Corruptions DEF Outright
  <2>2. StatusOf(Miscount(s), frame) = "BAD_LENGTH"
    BY MiscountIsNamed
  <2> QED
    BY <1>7, <2>1, <2>2 DEF Documented
<1>8. CASE fault \in {"truncate", "bitflip", "wrong_mode"}
  <2>1. text = Remapped(frame, t, fault)
    BY <1>1, <1>8, Corruptions DEF Outright, Remapped
  <2>2. /\ StatusOf(Remapped(frame, t, "truncate"), frame) = "BAD_LENGTH"
        /\ StatusOf(Remapped(frame, t, "bitflip"), frame) = "BAD_CHECKSUM"
        /\ StatusOf(Remapped(frame, t, "wrong_mode"), frame) = "BAD_LENGTH"
    BY RewritingIsNamed
  <2> QED
    BY <1>8, <2>1, <2>2 DEF Documented
<1>9. CASE fault = "unterminated"
  <2>1. text = Without(s, {"end"})
    BY <1>1, <1>9, Corruptions DEF Outright
  <2>2. StatusOf(Without(s, {"end"}), frame) = "MALFORMED"
    BY UnendedIsNamed
  <2> QED
    BY <1>9, <2>1, <2>2 DEF Documented
<1>10. CASE fault = "extra_block"
  <2>1. text = InsertExtraBlock(s)
    BY <1>1, <1>10, Corruptions DEF Outright
  <2>2. StatusOf(InsertExtraBlock(s), frame) = "MALFORMED"
    BY ExtraBlockIsNamed
  <2> QED
    BY <1>10, <2>1, <2>2 DEF Documented
<1>11. CASE fault = "refuse"
  <2>1. StatusOf(Refusal(frame), frame) = "REFUSED"
    BY RefusalIsNamed
  <2> QED
    BY <1>1, <1>11, <2>1 DEF Documented
<1>12. CASE fault = "silence"
  <2>1. StatusOf(<<Prose>>, frame) = "NO_FRAME"
    BY SilenceIsNamed
  <2> QED
    BY <1>1, <1>12, <2>1 DEF Documented
<1> QED
  BY <1>1, <1>3, <1>4, <1>5, <1>6, <1>7, <1>8, <1>9, <1>10, <1>11, <1>12 DEF Fault

-----------------------------------------------------------------------------
(***************************************************************************)
(* A reply on its way to the machine.                                      *)
(***************************************************************************)

\* Backends in the machine's own process that frame their own answers.
Framers == {"callback", "mux", "noisy"}

\* What such a backend may mean to say, and says, before the fault injector.
MeantInside ==
  CASE backend = "callback" ->
         answers \in [1 .. frame.replicas -> Answers] \/ answers = Repeat(Declined)
    [] backend = "mux" -> \E answer \in Answers : answers = Repeat(answer)
    [] backend = "noisy" ->
         \E truth \in Answers \ {<<>>} : answers \in [1 .. frame.replicas -> Perturbed(truth)]

\* What the wrapped backend says to the frame.
SaidInside ==
  CASE backend = "callback" -> {CallbackAsk(frame, answers, "CRC")}
    [] backend = "mux" ->
         IF MuxAnswers(frame, Devices) THEN {EchoAsk(frame, answers[1])} ELSE {}
    [] backend = "noisy" -> {NoisyAsk(frame, answers)}

\* The reply in hand is what the injector made of it, and its fault is on record.
InTransit ==
  \E fault \in Fault : faults = <<fault>> /\ reply = InjectedAsk(SaidInside, fault, frame)

\* The inductive invariant: a reply on its way is what one fault made of what
\* was meant, and a verdict that is there is the one due.
Exchanged ==
  /\ frame \in Frame /\ frame.nonce \in 1 .. MaxNonce
  /\ \E r \in Requests : frame.replicas = r.replicas
  /\ phase # "done" => verdict = Pending
  /\ backend \in Framers /\ phase = "ask" => faults = <<>>
  /\ backend \in Framers /\ phase = "reply" => MeantInside /\ InTransit
  /\ FaultsAreNamed
  /\ MinorityIsRepaired

\* What a usable answer is good for.
LEMMA UsableIsTold ==
  ASSUME NEW p, p \in Seq(ToSet(p)), Usable(p)
  PROVE  /\ p # Declined /\ Told(Trim(p), ToSet(p) \cup Letters) /\ Fits(Trim(p), frame)
<1> DEFINE t == Trim(p)
           S == ToSet(p)
<1>1. S \cap Special = {} /\ t # <<>> /\ p # Declined
  BY DEF Usable, Special
<1>2. \E k \in Encoded(t, frame.mode) : k > frame.capacity => frame.allow_truncate
  BY DEF Usable
<1>3. p \in Seq(S)
  OBVIOUS
<1> HIDE DEF S
<1>4. t \in Seq(S) /\ Stripped(t)
  BY <1>3, Trims
<1> HIDE DEF t
<1>5. \A i \in 1 .. Len(t) : t[i] \in S
  BY <1>4, Elements
<1>6. Plain(t)
  BY <1>1, <1>5 DEF Plain
<1>7. t \in Seq(S \cup Letters)
  BY <1>4
<1>8. Told(t, S \cup Letters)
  BY <1>1, <1>4, <1>6, <1>7 DEF Told
<1>9. Fits(t, frame)
  BY <1>2 DEF Fits
<1> QED
  BY <1>1, <1>8, <1>9 DEF t, S

\* Where a request stands.
Requested ==
  /\ frame \in Frame /\ frame.nonce \in 1 .. MaxNonce
  /\ \E r \in Requests : frame.replicas = r.replicas

\* Every answer is a sequence over its own letters.
LEMMA AnswersAreSeqs ==
  ASSUME Requested, NEW answer \in Answers
  PROVE  answer \in Seq(ToSet(answer))
<1>1. PICK r \in Requests : frame.replicas = r.replicas
  BY DEF Requested
<1>2. answer \in Answer[r.replicas]
  BY <1>1 DEF Answers
<1> QED
  BY <1>2, AnswerAssumption

\* The answer that FaultsAreNamed is about.
OneUsable ==
  /\ backend \in {"callback", "mux"}
  /\ backend = "mux" => MuxAnswers(frame, Devices)
  /\ \A r \in DOMAIN answers : Usable(answers[r]) /\ answers[r] = answers[1]

\* Behind the injector, one usable answer is sent as it is meant.
LEMMA OneUsableIsSent ==
  ASSUME Requested, MeantInside, OneUsable
  PROVE  \E t, S : Told(t, S) /\ Fits(t, frame) /\ SaidInside = {Sent(frame, t)}
<1> DEFINE n == frame.replicas
           p == answers[1]
           t == Trim(p)
           S == ToSet(p) \cup Letters
<1>1. n \in Nat /\ n > 0 /\ frame.nonce \in Nat
  BY DEF Requested, Frame
<1>2. /\ p \in Answers /\ answers = Same(n, p)
      /\ SaidInside = {render_reply(frame.nonce, answers, "OK", "CRC")}
      /\ Usable(p)
  <2>1. CASE backend = "callback"
    <3>1. answers \in [1 .. n -> Answers] \/ answers = Repeat(Declined)
      BY <2>1 DEF MeantInside
    <3>2. answers # Repeat(Declined)
      <4>1. \A r \in DOMAIN answers : answers[r] # Declined
        BY DEF OneUsable, Usable
      <4>2. 1 \in DOMAIN Repeat(Declined) /\ Repeat(Declined)[1] = Declined
        BY <1>1 DEF Repeat
      <4> QED
        BY <4>1, <4>2
    <3>3. answers \in [1 .. n -> Answers]
      BY <3>1, <3>2
    <3>4. \A r \in 1 .. n : Usable(answers[r]) /\ answers[r] = p
      BY <3>3 DEF OneUsable
    <3>5. 1 \in 1 .. n
      BY <1>1
    <3>6. p \in Answers /\ Usable(p)
      BY <3>3, <3>4, <3>5
    <3>7. answers = Same(n, p)
      BY <3>3, <3>4 DEF Same
    <3>8. \A r \in DOMAIN answers : answers[r] # Declined
      BY <3>3, <3>4 DEF Usable
    <3>9. SaidInside = {CallbackAsk(frame, answers, "CRC")}
      BY <2>1 DEF SaidInside
    <3>10. CallbackAsk(frame, answers, "CRC") = render_reply(frame.nonce, answers, "OK", "CRC")
      BY <3>8, Zenon DEF CallbackAsk
    <3> QED
      BY <3>6, <3>7, <3>9, <3>10
  <2>2. CASE backend = "mux"
    <3>1. PICK a \in Answers : answers = Repeat(a)
      BY <2>2 DEF MeantInside
    <3>2. DOMAIN answers = 1 .. n /\ 1 \in 1 .. n /\ p = a
      BY <1>1, <3>1 DEF Repeat
    <3>3. Usable(p) /\ p \in Answers
      BY <3>2 DEF OneUsable
    <3>4. answers = Same(n, p)
      BY <3>1, <3>2, Zenon DEF Repeat, Same
    <3>5. SaidInside = {EchoAsk(frame, p)}
      <4>1. MuxAnswers(frame, Devices)
        BY <2>2 DEF OneUsable
      <4> QED
        BY <2>2, <4>1 DEF SaidInside
    <3>6. EchoAsk(frame, p) = render_reply(frame.nonce, answers, "OK", "CRC")
      BY <3>4, Zenon DEF EchoAsk, Same
    <3> QED
      BY <3>3, <3>4, <3>5, <3>6
  <2> QED
    BY <2>1, <2>2 DEF OneUsable
<1>3. p \in Seq(ToSet(p))
  BY <1>2, AnswersAreSeqs
<1>4. Told(t, S) /\ Fits(t, frame)
  BY <1>2, <1>3, UsableIsTold
<1>5. render_reply(frame.nonce, Same(n, p), "OK", "CRC")
        = Spoken(frame.nonce, n, Len(t), {Checksum(t)}, t)
  BY <1>1, <1>4, Speaks
<1>6. SaidInside = {Sent(frame, t)}
  BY <1>2, <1>5, Zenon DEF Sent
<1> QED
  BY <1>4, <1>6

\* The verdict that is due on a reply, or on none.
LEMMA NamedWhenReceived ==
  ASSUME Requested, MeantInside, OneUsable, NEW fault \in Fault,
         reply = InjectedAsk(SaidInside, fault, frame)
  PROVE  /\ reply = {} => "RETRIES" \in Documented(fault)
         /\ \A text \in reply : validate(text, frame).status \in Documented(fault)
<1>1. PICK t, S : Told(t, S) /\ Fits(t, frame) /\ SaidInside = {Sent(frame, t)}
  BY OneUsableIsSent
<1> DEFINE s == Sent(frame, t)
<1> HIDE DEF s
<1>2. reply = InjectedAsk({s}, fault, frame)
  BY <1>1 DEF s
<1>3. fault # "drop" => reply # {}
  BY <1>2 DEF InjectedAsk
<1>4. fault = "drop" => Documented(fault) = {"RETRIES"}
  BY DEF Documented
<1>5. ASSUME NEW text \in reply PROVE validate(text, frame).status \in Documented(fault)
  <2>1. text \in InjectedAsk({Sent(frame, t)}, fault, frame)
    BY <1>2 DEF s
  <2>2. StatusOf(text, frame) \in Documented(fault)
    BY <1>1, <2>1, FaultIsNamed DEF Requested
  <2> QED
    BY <2>2 DEF StatusOf
<1> QED
  BY <1>3, <1>4, <1>5

\* The payloads that MinorityIsRepaired is about.
AllUsable ==
  /\ backend = "noisy" /\ frame.mode = "TEXT" /\ ~frame.strict
  /\ \A r \in DOMAIN Meant : Usable(Meant[r])

\* MinorityIsRepaired, of a verdict v.
Repaired(v) ==
  /\ \A r \in DOMAIN Meant :
       2 * Tally(Meant, Meant[r]) > Len(Meant)
         => v.status \in Success /\ v.text = Meant[r]
  /\ (Len(Meant) = 2 /\ Meant[1] # Meant[2]) => v.status = "NO_QUORUM"

\* The samples of NoisyOracle, and its reply.
LEMMA SamplesAreSaid ==
  ASSUME Requested, MeantInside, AllUsable
  PROVE  \E S : /\ Letters \subseteq S /\ Texted(frame.replicas, Meant, S)
                /\ \A r \in 1 .. frame.replicas : Stripped(Meant[r])
                /\ SaidInside = {Said(frame.nonce, "OK", frame.replicas, Sizes(Meant),
                                      Same(frame.replicas, {}), Meant)}
                /\ Fit(frame.replicas, Sizes(Meant), Same(frame.replicas, {}), Meant, S, Carried(S))
<1> DEFINE n == frame.replicas
<1>1. n \in Nat /\ n > 0 /\ frame.nonce \in Nat
  BY DEF Requested, Frame
<1>2. PICK truth \in Answers \ {<<>>} : answers \in [1 .. n -> Perturbed(truth)]
  BY DEF MeantInside, AllUsable
<1> DEFINE S == ToSet(truth) \cup Letters
<1>3. Letters \subseteq S /\ truth \in Seq(ToSet(truth))
  BY <1>2, AnswersAreSeqs
<1>4. \A r \in 1 .. n : answers[r] \in Seq(S)
  <2>1. "X" \in S /\ "Q" \in S /\ truth \in Seq(S)
    BY <1>3 DEF Letters
  <2> HIDE DEF S
  <2>2. \A y \in Perturbed(truth) : y \in Seq(S)
    BY <2>1 DEF Perturbed
  <2> QED
    BY <1>2, <2>2
<1> HIDE DEF S
<1>5. DOMAIN Meant = 1 .. n /\ \A r \in 1 .. n : Meant[r] = Trim(answers[r])
  BY <1>2 DEF Meant
<1>6. \A r \in 1 .. n : Meant[r] \in Seq(S) /\ Stripped(Meant[r])
  BY <1>4, <1>5, Trims
<1>7. \A r \in 1 .. n : Plain(Meant[r])
  <2> SUFFICES ASSUME NEW r \in 1 .. n PROVE Plain(Meant[r])
    OBVIOUS
  <2> DEFINE x == Meant[r]
  <2>1. x \in Seq(S) /\ ToSet(x) \cap Special = {}
    BY <1>5, <1>6 DEF AllUsable, Usable, Special
  <2> HIDE DEF x
  <2>2. \A i \in 1 .. Len(x) : x[i] \in ToSet(x)
    BY <2>1 DEF ToSet
  <2>3. Plain(x)
    BY <2>1, <2>2 DEF Plain
  <2> QED
    BY <2>3 DEF x
<1>8. Texted(n, Meant, S)
  BY <1>1, <1>5, <1>6, <1>7 DEF Texted
<1> DEFINE v == frame.nonce
           st == "OK"
           none == "none"
<1>9. Canonical(answers) = Meant
  BY <1>2, Zenon DEF Canonical, Meant
<1>10. v \in Carried(S) /\ st \in Carried(S) /\ none \in {"none", "CRC"}
  BY <1>1, Carries
<1>11. Sums(Meant, none) = Same(n, {})
  <2>1. Sums(Meant, none) = [r \in DOMAIN Meant |-> {}]
    BY DEF Sums
  <2> QED
    BY <1>5, <2>1, Zenon DEF Same
<1> HIDE DEF v, st, none
<1>12. /\ render_reply(v, answers, st, none)
            = Said(v, st, n, Sizes(Canonical(answers)), Sums(Canonical(answers), none),
                   Canonical(answers))
       /\ Fit(n, Sizes(Canonical(answers)), Sums(Canonical(answers), none),
              Canonical(answers), S, Carried(S))
  <2> DEFINE payloads == answers
  <2>1. Texted(n, Canonical(payloads), S)
    BY <1>8, <1>9
  <2> HIDE DEF payloads, n
  <2>2. Rendered(v, st, none, payloads, n, S)
    BY <1>10, <2>1, Renders
  <2> QED
    BY <2>2, Zenon DEF Rendered, payloads
<1>13. render_reply(v, answers, st, none) = Said(v, st, n, Sizes(Meant), Same(n, {}), Meant)
  BY <1>9, <1>11, <1>12
<1>14. Fit(n, Sizes(Meant), Same(n, {}), Meant, S, Carried(S))
  BY <1>9, <1>11, <1>12
<1>15. SaidInside = {render_reply(v, answers, st, none)}
  BY DEF AllUsable, SaidInside, NoisyAsk, v, st, none
<1>16. SaidInside = {Said(v, st, n, Sizes(Meant), Same(n, {}), Meant)}
  BY <1>13, <1>15
<1> QED
  BY <1>3, <1>6, <1>8, <1>14, <1>16, Zenon DEF v, st

\* The verdict on samples without checksums.
LEMMA SamplesAreJudged ==
  ASSUME Requested, MeantInside, AllUsable, NEW fault \in {"none", "chatty", "fenced"},
         NEW text \in InjectedAsk(SaidInside, fault, frame)
  PROVE  Repaired(validate(text, frame))
<1> DEFINE n == frame.replicas
           v == frame.nonce
           st == "OK"
           len == Sizes(Meant)
           c == Same(n, {})
<1>1. n \in Nat /\ n > 0 /\ v \in Nat
  BY DEF Requested, Frame
<1>2. PICK S : /\ Letters \subseteq S /\ Texted(n, Meant, S)
               /\ \A r \in 1 .. n : Stripped(Meant[r])
               /\ SaidInside = {Said(v, st, n, len, c, Meant)}
               /\ Fit(n, len, c, Meant, S, Carried(S))
  BY SamplesAreSaid
<1> DEFINE V == Carried(S)
           s == Said(v, st, n, len, c, Meant)
           mid == FlattenSeq(Fences(n, len, c, Meant))
<1>3. v \in V /\ st \in V
  BY <1>1, Carries
<1>4. DOMAIN Meant = 1 .. n /\ \A r \in 1 .. n : Meant[r] \in Seq(S)
  BY <1>2 DEF Texted
<1>5. Alike(n, len, c, Meant, frame, "OK")
  <2> SUFFICES ASSUME NEW b \in 1 .. n
               PROVE  BlockStatus(Entry(len[b], c[b], Meant[b]), frame) = "OK"
    BY DEF Alike
  <2> DEFINE x == Meant[b]
             none == {}
  <2>1. len[b] = Len(x) /\ c[b] = none /\ x \in Seq(S) /\ Stripped(x)
    BY <1>2, <1>4 DEF Sizes, Same
  <2> HIDE DEF x, len, c
  <2>2. BlockStatus(Entry(Len(x), none, x), frame) = BlockVerdict(Len(x), none, x, frame)
    BY <2>1, SumJudged
  <2>3. BlockVerdict(Len(x), none, x, frame) = "OK"
    BY Vouching DEF AllUsable
  <2> QED
    BY <2>1, <2>2, <2>3 DEF x
<1>6. Read(n, Meant, frame) = Meant
  <2>1. \A b \in 1 .. n : Trim(Meant[b]) = Meant[b]
    BY <1>2, <1>4, Trims
  <2>2. Meant = [b \in 1 .. n |-> Meant[b]]
    BY <1>4, Zenon DEF Meant
  <2> QED
    BY <2>1, <2>2, Zenon DEF Read
<1>7. Unsummed(n, c)
  <2>1. 1 \in 1 .. n /\ c[1] = {}
    BY <1>1 DEF Same
  <2> QED
    BY <2>1 DEF Unsummed
<1>8. s \in Seq(AllLines(V))
  <2>1. mid \in Seq(Lines(V))
    BY <1>2, FitsLines
  <2>2. s = Reply(v, st, mid)
    BY DEF Said
  <2> HIDE DEF s, mid, V
  <2>3. ReplyAre(Reply(v, st, mid), v, st, mid, V)
    BY <1>3, <2>1, ReplyIs
  <2> QED
    BY <2>2, <2>3 DEF ReplyAre
<1>9. ASSUME NEW pre \in Seq(Lines(V)), NEW post \in Seq(Lines(V))
      PROVE  Verdict(pre \o s \o post, frame, "OK", Meant, Unsummed(n, c))
  <2> HIDE DEF len, c
  <2>1. Verdict(pre \o Said(v, "OK", n, len, c, Meant) \o post, frame, "OK",
                Read(n, Meant, frame), Unsummed(n, c))
    BY <1>1, <1>2, <1>3, <1>5, <1>9, JudgesSaid
  <2> QED
    BY <1>6, <2>1
<1> HIDE DEF s, V, len, c
<1>10. Verdict(text, frame, "OK", Meant, Unsummed(n, c))
  <2>1. /\ Verdict(<<>> \o s \o <<>>, frame, "OK", Meant, Unsummed(n, c))
        /\ Verdict(<<Prose>> \o s \o <<Prose>>, frame, "OK", Meant, Unsummed(n, c))
    BY <1>2, <1>9, ProseIsLine DEF V
  <2>2. <<>> \o s \o <<>> = s
    BY <1>8, Alone
  <2>3. text \in InjectedAsk({s}, fault, frame)
    BY <1>2 DEF s
  <2>4. text = s \/ text = <<Prose>> \o s \o <<Prose>>
    <3>1. text = _corrupt(s, fault, frame)
      BY <2>3, InjectedOne DEF Outright
    <3> QED
      BY <3>1, Corruptions
  <2> QED
    BY <2>1, <2>2, <2>4
<1>11. /\ ~Elects(Meant) => validate(text, frame) = Failed("NO_QUORUM")
       /\ Elects(Meant) => validate(text, frame) = Accepted(Meant, frame, TRUE)
  BY <1>7, <1>10 DEF Verdict
<1>12. Meant \in Seq(Seq(S)) /\ Len(Meant) = n
  <2>1. Meant = [b \in 1 .. n |-> Meant[b]]
    BY <1>4, Zenon DEF Meant
  <2> DEFINE f == Meant
             D == Seq(S)
  <2>2. f = [b \in 1 .. n |-> f[b]] /\ \A b \in 1 .. n : f[b] \in D
    BY <1>4, <2>1
  <2> HIDE DEF f, D
  <2>3. f \in Seq(D) /\ Len(f) = n
    BY <1>1, <2>2
  <2> QED
    BY <2>3 DEF f, D
<1>13. ASSUME NEW r \in DOMAIN Meant, 2 * Tally(Meant, Meant[r]) > Len(Meant)
       PROVE  validate(text, frame).status \in Success /\ validate(text, frame).text = Meant[r]
  <2> DEFINE x == Meant[r]
             u == TRUE
  <2>1. x \in Seq(S) /\ Stripped(x) /\ Usable(x)
    BY <1>2, <1>4, <1>13 DEF AllUsable
  <2>2. Elects(Meant) /\ Elected(Meant) = x
    <3> HIDE DEF x
    <3>1. 2 * Tally(Meant, x) > Len(Meant)
      BY <1>13 DEF x
    <3> QED
      BY <1>12, <2>1, <3>1, MajorityElected
  <2>3. PICK k \in Encoded(Trim(x), frame.mode) : k > frame.capacity => frame.allow_truncate
    BY <2>1 DEF Usable
  <2>4. Trim(x) = x
    BY <2>1, Trims
  <2>5. k \in Encoded(Elected(Meant), frame.mode) /\ (frame.allow_truncate \/ ~(k > frame.capacity))
    BY <2>2, <2>3, <2>4
  <2>6. frame.mode \in {"TEXT", "NUM", "BYTES"}
    BY DEF Requested, Frame
  <2> HIDE DEF x, u
  <2>7. /\ Accepted(Meant, frame, u).status = IF u THEN "DEGRADED" ELSE "OK"
        /\ Accepted(Meant, frame, u).text = Elected(Meant)
    BY <2>5, <2>6, Accepts
  <2> QED
    BY <1>11, <2>2, <2>7 DEF Success, x, u
<1>14. ASSUME Len(Meant) = 2, Meant[1] # Meant[2]
       PROVE  validate(text, frame).status = "NO_QUORUM"
  <2>1. ~Elects(Meant)
    BY <1>12, <1>14, PairNeverCorrects
  <2> QED
    BY <1>11, <2>1 DEF Failed
<1> QED
  BY <1>13, <1>14 DEF Repaired

\* The verdict is the one due.
Received ==
  /\ phase = "reply" /\ phase' = "done"
  /\ UNCHANGED <<backend, frame, answers, faults>>
  /\ \/ reply = {} /\ verdict' = Failed("RETRIES")
     \/ \E text \in reply : verdict' = validate(text, frame)

\* The noisy backend says what was sampled.
LEMMA SaysSomething ==
  ASSUME MeantInside, AllUsable
  PROVE  SaidInside = {NoisyAsk(frame, answers)}
BY DEF AllUsable, SaidInside

\* A verdict names the fault.
LEMMA NamedOnReceipt ==
  ASSUME Exchanged, Received
  PROVE  FaultsAreNamed'
<1>1. /\ backend' = backend /\ frame' = frame /\ answers' = answers /\ faults' = faults
      /\ phase = "reply" /\ Requested
  BY DEF Received, Exchanged, Requested
<1>2. OneUsable' <=> OneUsable
  BY <1>1 DEF OneUsable, Usable
<1>3. \A fault : Documented(fault)' = Documented(fault)
  BY <1>1 DEF Documented
<1>4. OneUsable => verdict'.status \in Documented(LastFault)
  <2> SUFFICES ASSUME OneUsable PROVE verdict'.status \in Documented(LastFault)
    OBVIOUS
  <2>1. backend \in Framers
    BY DEF OneUsable, Framers
  <2>2. MeantInside /\ InTransit
    BY <1>1, <2>1 DEF Exchanged
  <2>3. PICK fault \in Fault : faults = <<fault>> /\ reply = InjectedAsk(SaidInside, fault, frame)
    BY <2>2 DEF InTransit
  <2>4. LastFault = fault
    BY <2>3 DEF LastFault, Last
  <2>5. /\ reply = {} => "RETRIES" \in Documented(fault)
        /\ \A text \in reply : validate(text, frame).status \in Documented(fault)
    BY <1>1, <2>2, <2>3, NamedWhenReceived
  <2>6. CASE reply = {} /\ verdict' = Failed("RETRIES")
    BY <2>4, <2>5, <2>6 DEF Failed
  <2>7. CASE \E text \in reply : verdict' = validate(text, frame)
    BY <2>4, <2>5, <2>7
  <2> QED
    BY <2>6, <2>7 DEF Received
<1>5. LastFault' = LastFault
  BY <1>1 DEF LastFault
<1>6. OneUsable' => verdict'.status \in Documented(LastFault)'
  BY <1>2, <1>3, <1>4, <1>5
<1> QED
  BY <1>6 DEF FaultsAreNamed, OneUsable

\* A verdict is the majority of what was meant.
LEMMA RepairedOnReceipt ==
  ASSUME Exchanged, Received
  PROVE  MinorityIsRepaired'
<1>1. /\ backend' = backend /\ frame' = frame /\ answers' = answers /\ faults' = faults
      /\ phase = "reply" /\ Requested
  BY DEF Received, Exchanged, Requested
<1>2. Meant' = Meant /\ LastFault' = LastFault
  BY <1>1 DEF Meant, LastFault
<1>3. AllUsable' <=> AllUsable
  <2>1. \A r : Usable(Meant[r])' <=> Usable(Meant[r])
    BY <1>1, <1>2 DEF Usable
  <2> QED
    BY <1>1, <1>2, <2>1 DEF AllUsable
<1>4. AllUsable /\ LastFault \in {"none", "chatty", "fenced"} => Repaired(verdict')
  <2> SUFFICES ASSUME AllUsable, LastFault \in {"none", "chatty", "fenced"}
               PROVE  Repaired(verdict')
    OBVIOUS
  <2>1. backend \in Framers
    BY DEF AllUsable, Framers
  <2>2. MeantInside /\ InTransit
    BY <1>1, <2>1 DEF Exchanged
  <2>3. PICK fault \in Fault : faults = <<fault>> /\ reply = InjectedAsk(SaidInside, fault, frame)
    BY <2>2 DEF InTransit
  <2>4. LastFault = fault
    BY <2>3 DEF LastFault, Last
  <2>5. reply # {}
    <3>1. SaidInside = {NoisyAsk(frame, answers)}
      BY <2>2, SaysSomething
    <3> QED
      BY <2>3, <2>4, <3>1 DEF InjectedAsk
  <2>6. PICK text \in reply : verdict' = validate(text, frame)
    BY <2>5 DEF Received
  <2>7. Repaired(validate(text, frame))
    BY <1>1, <2>2, <2>3, <2>4, <2>6, SamplesAreJudged
  <2> QED
    BY <2>6, <2>7
<1>5. AllUsable /\ LastFault \in {"none", "chatty", "fenced"} => Repaired(verdict)'
  BY <1>2, <1>4 DEF Repaired
<1> QED
  BY <1>2, <1>3, <1>5 DEF MinorityIsRepaired, AllUsable, Repaired

\* A reply is handed over as it is made.
LEMMA HandedOver ==
  ASSUME Exchanged, AskCallback \/ AskDeclined \/ AskEcho \/ AskNoisy
  PROVE  Exchanged'
<1>1. PICK fault \in Fault :
        /\ phase = "ask" /\ phase' = "reply" /\ faults' = Append(faults, fault)
        /\ verdict' = Pending /\ backend' = backend /\ frame' = frame /\ backend \in Framers
        /\ MeantInside' /\ reply' = InjectedAsk(SaidInside', fault, frame)
  <2>1. Requested
    BY DEF Exchanged, Requested
  <2>2. frame.replicas \in Nat /\ frame.replicas > 0
    BY <2>1 DEF Requested, Frame
  <2>3. CASE AskCallback
    <3>1. PICK meant \in [1 .. frame.replicas -> Answers], fault \in Fault :
            /\ Hand(InjectedAsk({CallbackAsk(frame, meant, "CRC")}, fault, frame), meant, fault)
            /\ UNCHANGED <<backend, frame>>
      BY <2>3 DEF AskCallback, InProcess
    <3>2. MeantInside'
      BY <2>3, <3>1 DEF AskCallback, Hand, MeantInside, Answers
    <3>3. SaidInside' = {CallbackAsk(frame, meant, "CRC")}
      BY <2>3, <3>1 DEF AskCallback, Hand, SaidInside
    <3> QED
      BY <2>3, <3>1, <3>2, <3>3 DEF AskCallback, Hand, Framers
  <2>4. CASE AskDeclined
    <3>1. PICK fault \in Fault :
            /\ Hand(InjectedAsk({CallbackAsk(frame, Repeat(Declined), "CRC")}, fault, frame),
                    Repeat(Declined), fault)
            /\ UNCHANGED <<backend, frame>>
      BY <2>4 DEF AskDeclined, InProcess
    <3>2. MeantInside'
      BY <2>4, <3>1 DEF AskDeclined, Hand, MeantInside, Repeat
    <3>3. SaidInside' = {CallbackAsk(frame, Repeat(Declined), "CRC")}
      BY <2>4, <3>1 DEF AskDeclined, Hand, SaidInside
    <3> QED
      BY <2>4, <3>1, <3>2, <3>3 DEF AskDeclined, Hand, Framers
  <2>5. CASE AskEcho
    <3>1. PICK answer \in Answers, fault \in Fault :
            /\ Hand(InjectedAsk(IF MuxAnswers(frame, Devices) THEN {EchoAsk(frame, answer)} ELSE {},
                                fault, frame), Repeat(answer), fault)
            /\ UNCHANGED <<backend, frame>>
      BY <2>5 DEF AskEcho, InProcess
    <3>2. MeantInside'
      BY <2>5, <3>1 DEF AskEcho, Hand, MeantInside, Answers, Repeat
    <3>3. Repeat(answer)[1] = answer
      BY <2>2 DEF Repeat
    <3>4. SaidInside' = IF MuxAnswers(frame, Devices) THEN {EchoAsk(frame, answer)} ELSE {}
      BY <2>5, <3>1, <3>3 DEF AskEcho, Hand, SaidInside
    <3> QED
      BY <2>5, <3>1, <3>2, <3>4 DEF AskEcho, Hand, Framers
  <2>6. CASE AskNoisy
    <3>1. PICK truth \in Answers \ {<<>>} :
            \E samples \in [1 .. frame.replicas -> Perturbed(truth)] :
              InProcess(samples, {NoisyAsk(frame, samples)})
      BY <2>6 DEF AskNoisy
    <3>2. PICK samples \in [1 .. frame.replicas -> Perturbed(truth)], fault \in Fault :
            /\ Hand(InjectedAsk({NoisyAsk(frame, samples)}, fault, frame), samples, fault)
            /\ UNCHANGED <<backend, frame>>
      BY <3>1 DEF InProcess
    <3>3. MeantInside'
      BY <2>6, <3>1, <3>2 DEF AskNoisy, Hand, MeantInside, Answers
    <3>4. SaidInside' = {NoisyAsk(frame, samples)}
      BY <2>6, <3>2 DEF AskNoisy, Hand, SaidInside
    <3> QED
      BY <2>6, <3>2, <3>3, <3>4 DEF AskNoisy, Hand, Framers
  <2> QED
    BY <2>3, <2>4, <2>5, <2>6
<1>2. faults' = <<fault>>
  BY <1>1 DEF Exchanged
<1>3. InTransit'
  BY <1>1, <1>2 DEF InTransit
<1>4. FaultsAreNamed' /\ MinorityIsRepaired'
  BY <1>1 DEF FaultsAreNamed, MinorityIsRepaired, Judged, Pending, Failed
<1> QED
  BY <1>1, <1>3, <1>4 DEF Exchanged

\* While there is no verdict, there is nothing to say about it.
LEMMA NothingJudged ==
  ASSUME verdict' = Pending, phase' # "done"
  PROVE  FaultsAreNamed' /\ MinorityIsRepaired'
BY DEF FaultsAreNamed, MinorityIsRepaired, Judged, Pending

\* The other backends.
LEMMA AskedOutside ==
  ASSUME Exchanged, AskManual \/ HttpRetryable \/ HttpFatal \/ AskClaude \/ AskIndependent
  PROVE  Exchanged'
<1>1. /\ frame' = frame /\ backend' = backend /\ backend \notin Framers
      /\ verdict' = Pending /\ phase' \in {"ask", "reply", "raised"}
  <2>1. phase = "ask" => verdict = Pending
    BY DEF Exchanged
  <2>2. CASE AskManual
    BY <2>2 DEF AskManual, Hand, Framers
  <2>3. CASE HttpRetryable
    BY <2>1, <2>3 DEF HttpRetryable, Hand, IsClaude, Framers
  <2>4. CASE HttpFatal
    BY <2>1, <2>4 DEF HttpFatal, IsClaude, Framers
  <2>5. CASE AskClaude
    BY <2>5 DEF AskClaude, Hand, IsClaude, Framers
  <2>6. CASE AskIndependent
    <3>1. phase = "ask" /\ backend \notin Framers /\ UNCHANGED <<backend, frame>>
      BY <2>6 DEF AskIndependent, Independent, Framers
    <3>2. verdict' = Pending
      BY <2>6 DEF AskIndependent, Hand
    <3>3. phase' = "reply" \/ phase' = phase
      BY <2>6 DEF AskIndependent, Hand
    <3> QED
      BY <3>1, <3>2, <3>3
  <2> QED
    BY <2>2, <2>3, <2>4, <2>5, <2>6
<1> QED
  BY <1>1, NothingJudged DEF Exchanged

\* Receiving keeps the invariant.
LEMMA ReceiptKeeps ==
  ASSUME Exchanged, ReceiveNothing \/ Receive
  PROVE  Exchanged'
<1>1. CASE ReceiveNothing
  <2>1. Received /\ phase' = "done" /\ frame' = frame /\ backend' = backend
    BY <1>1 DEF ReceiveNothing, Received
  <2> QED
    BY <2>1, NamedOnReceipt, RepairedOnReceipt DEF Exchanged
<1>2. CASE Receive
  <2>1. PICK text \in reply :
          \/ /\ phase' = "ask" /\ verdict' = Pending /\ faults' = <<>>
             /\ frame' = [frame EXCEPT !.attempt = @ + 1, !.nonce = NextNonce(@)]
          \/ /\ phase' = "done" /\ verdict' = validate(text, frame)
             /\ UNCHANGED <<frame, answers, faults>>
    BY <1>2 DEF Receive
  <2>2. phase = "reply" /\ backend' = backend
    BY <1>2 DEF Receive
  <2>3. CASE phase' = "done"
    <3>1. Received /\ frame' = frame
      BY <2>1, <2>2, <2>3 DEF Received
    <3> QED
      BY <2>2, <2>3, <3>1, NamedOnReceipt, RepairedOnReceipt DEF Exchanged
  <2>4. CASE phase' = "ask"
    <3>1. NextNonce(frame.nonce) \in 1 .. MaxNonce
      BY BackendsAssumption DEF NextNonce, Exchanged
    <3> DEFINE a == frame.attempt + 1
               n == NextNonce(frame.nonce)
    <3>2. frame \in Frame /\ a \in Nat \ {0} /\ n \in Nat /\ n \in 1 .. MaxNonce
      BY <3>1, BackendsAssumption DEF Frame, Exchanged
    <3>3. frame' = [frame EXCEPT !.attempt = a, !.nonce = n]
      BY <2>1, <2>4
    <3> HIDE DEF a, n
    <3>4. /\ frame' \in Frame /\ frame'.nonce \in 1 .. MaxNonce
          /\ frame'.replicas = frame.replicas
      BY <3>2, <3>3 DEF Frame
    <3> QED
      BY <2>1, <2>2, <2>4, <3>4, NothingJudged DEF Exchanged
  <2> QED
    BY <2>1, <2>3, <2>4
<1> QED
  BY <1>1, <1>2

\* Every request is a frame with a nonce in range.
LEMMA NewRequest ==
  ASSUME NEW r \in Requests
  PROVE  r \in Frame /\ r.nonce \in 1 .. MaxNonce
BY RequestsAssumption

\* The invariant holds at first.
LEMMA ExchangedInit == Init => Exchanged
<1> SUFFICES ASSUME Init PROVE Exchanged
  OBVIOUS
<1>1. frame \in Frame /\ frame.nonce \in 1 .. MaxNonce
  BY NewRequest DEF Init
<1>2. FaultsAreNamed /\ MinorityIsRepaired
  BY DEF Init, FaultsAreNamed, MinorityIsRepaired, Judged
<1> QED
  BY <1>1, <1>2 DEF Init, Exchanged

\* Every step keeps it.
LEMMA ExchangedStep == Exchanged /\ [Next]_vars => Exchanged'
<1> SUFFICES ASSUME Exchanged, [Next]_vars PROVE Exchanged'
  OBVIOUS
<1>1. CASE NextRequest
  <2>1. /\ frame' \in Requests /\ phase' = "ask" /\ verdict' = Pending
        /\ faults' = <<>> /\ backend' = backend
    BY <1>1 DEF NextRequest
  <2> QED
    BY <2>1, NewRequest, NothingJudged DEF Exchanged
<1>2. CASE UNCHANGED vars
  <2>1. FaultsAreNamed'
    BY <1>2 DEF vars, Exchanged, FaultsAreNamed, Judged, Usable, Documented, LastFault
  <2>2. MinorityIsRepaired'
    BY <1>2 DEF vars, Exchanged, MinorityIsRepaired, Usable, Meant, LastFault
  <2>3. MeantInside' = MeantInside /\ InTransit' = InTransit
    BY <1>2 DEF vars, MeantInside, InTransit, SaidInside, Answers, Repeat
  <2> QED
    BY <1>2, <2>1, <2>2, <2>3 DEF vars, Exchanged
<1> QED
  BY <1>1, <1>2, HandedOver, AskedOutside, ReceiptKeeps DEF Next

\* Whatever an in-process backend answers, to whatever request, and whichever
\* fault befalls the reply: the status names the fault.
THEOREM FaultsNamed == Spec => []FaultsAreNamed
<1>1. Exchanged => FaultsAreNamed
  BY DEF Exchanged
<1> QED
  BY <1>1, ExchangedInit, ExchangedStep, PTL DEF Spec

\* A strict majority of sound samples is the answer, however the others are
\* perturbed; two that differ give none.
THEOREM MinorityRepaired == Spec => []MinorityIsRepaired
<1>1. Exchanged => MinorityIsRepaired
  BY DEF Exchanged
<1> QED
  BY <1>1, ExchangedInit, ExchangedStep, PTL DEF Spec

=============================================================================
