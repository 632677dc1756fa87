--------------------------- MODULE Session_proofs ---------------------------
(***************************************************************************)
(* Theorems about Session: no answer is taken for another question than    *)
(* its own, whatever the number of nonces, retries, frames and processes.  *)
(***************************************************************************)
EXTENDS Session, TLAPS

\* Publishing keeps the conversation a sequence of nonces, one longer.
LEMMA AskAppends ==
  ASSUME TypeOK, NEW n \in Nonce, NEW a \in 1 .. Retries + 1,
         NEW p \in 0 .. MaxFrames, Ask(n, a, p)
  PROVE  /\ pending' = [frame |-> Len(frames) + 1, nonce |-> n, attempt |-> a]
         /\ pending' \in Requests
         /\ frames' \in Seq(Frame) /\ Len(frames') = Len(frames) + 1
         /\ Len(frames') <= MaxFrames
         /\ frames'[Len(frames) + 1] = [nonce |-> n, replaces |-> p]
         /\ \A i \in DOMAIN frames : i \in DOMAIN frames' /\ frames'[i] = frames[i]
         /\ DOMAIN frames' = DOMAIN frames \cup {Len(frames) + 1}
<1> USE SessionAssumption
<1>1. frames \in Seq(Frame) /\ Len(frames) < MaxFrames /\ Len(frames) \in Nat
  BY DEF TypeOK, Ask
<1>2. /\ frames' = Append(frames, [nonce |-> n, replaces |-> p])
      /\ [nonce |-> n, replaces |-> p] \in Frame
  BY DEF Ask, Frame
<1>3. /\ frames' \in Seq(Frame) /\ Len(frames') = Len(frames) + 1
      /\ frames'[Len(frames) + 1] = [nonce |-> n, replaces |-> p]
      /\ \A i \in 1 .. Len(frames) : frames'[i] = frames[i]
  BY <1>1, <1>2
<1>4. DOMAIN frames = 1 .. Len(frames) /\ DOMAIN frames' = 1 .. Len(frames) + 1
  BY <1>1, <1>3
<1>5. pending' = [frame |-> Len(frames) + 1, nonce |-> n, attempt |-> a]
  BY DEF Ask
<1>6. Len(frames) + 1 \in 1 .. MaxFrames
  BY <1>1
<1>7. pending' \in Requests
  BY <1>5, <1>6 DEF Requests
<1> QED
  BY <1>1, <1>3, <1>4, <1>5, <1>7

-----------------------------------------------------------------------------
\* RETRIES bounds the attempts of every request (Machine._resume_pending),
\* snapshots included.
THEOREM TypeCorrect == Spec => []TypeOK
<1> USE SessionAssumption
<1>1. Init => TypeOK
  BY DEF Init, TypeOK
<1>2. TypeOK /\ [Next]_vars => TypeOK'
  <2> SUFFICES ASSUME TypeOK, [Next]_vars PROVE TypeOK'
    OBVIOUS
  <2>1. CASE Publish
    <3>1. PICK n \in Nonce : Ask(n, 1, 0)
      BY <2>1 DEF Publish
    <3>2. 1 \in 1 .. Retries + 1 /\ 0 \in 0 .. MaxFrames
      OBVIOUS
    <3>3. UNCHANGED <<process, parked, replies, taken>>
      BY <2>1 DEF Publish
    <3> QED
      BY <3>1, <3>2, <3>3, AskAppends DEF TypeOK
  <2>2. CASE Retry
    <3>1. PICK n \in Nonce : Ask(n, pending.attempt + 1, pending.frame)
      BY <2>2 DEF Retry
    <3>2. pending.attempt + 1 \in 1 .. Retries + 1 /\ pending.frame \in 0 .. MaxFrames
      BY <2>2 DEF Retry, MayRetry, TypeOK, Requests
    <3>3. UNCHANGED <<process, parked, replies, taken>>
      BY <2>2 DEF Retry
    <3> QED
      BY <3>1, <3>2, <3>3, AskAppends DEF TypeOK
  <2>3. CASE Answer
    BY <2>3 DEF Answer, TypeOK
  <2>4. CASE \E reply \in replies : Complete(reply)
    <3>1. PICK reply \in replies : Complete(reply)
      BY <2>4
    <3>2. pending \in Requests /\ reply \in 1 .. MaxFrames
      BY <3>1 DEF Complete, TypeOK
    <3> QED
      BY <3>1, <3>2 DEF Complete, TypeOK
  <2>5. CASE GiveUp
    BY <2>5 DEF GiveUp, TypeOK
  <2>6. CASE Park
    BY <2>6 DEF Park, TypeOK
  <2>7. CASE Mount
    BY <2>7 DEF Mount, TypeOK
  <2>8. CASE UNCHANGED vars
    BY <2>8 DEF vars, TypeOK
  <2> QED
    BY <2>1, <2>2, <2>3, <2>4, <2>5, <2>6, <2>7, <2>8 DEF Next
<1> QED
  BY <1>1, <1>2, PTL DEF Spec

-----------------------------------------------------------------------------
\* A request carries the nonce of the frame that was published for it.
Named(request) ==
  request # None =>
    request.frame \in DOMAIN frames /\ frames[request.frame].nonce = request.nonce

\* A frame has another nonce than the frame whose attempt it replaces.
Superseding(i) ==
  frames[i].replaces # 0 =>
    /\ frames[i].replaces \in DOMAIN frames
    /\ frames[frames[i].replaces].nonce # frames[i].nonce

\* The inductive strengthening: requests, whether in flight or in a snapshot,
\* carry the nonce of their own frame; a retry has another nonce than the
\* attempt before it; and what completed a request had the request's nonce.
FreshInv ==
  /\ TypeOK
  /\ Named(pending)
  /\ \A image \in parked : Named(image)
  /\ \A i \in DOMAIN frames : Superseding(i)
  /\ \A t \in taken :
       /\ t.request.frame \in DOMAIN frames /\ t.answered \in DOMAIN frames
       /\ frames[t.request.frame].nonce = t.request.nonce
       /\ frames[t.answered].nonce = t.request.nonce

\* What the invariant says of the frames of a conversation it says of them in
\* every conversation that goes on from there.
LEMMA GrowingKeeps ==
  ASSUME FreshInv, DOMAIN frames \subseteq DOMAIN frames',
         \A i \in DOMAIN frames : frames'[i] = frames[i]
  PROVE  /\ \A request : Named(request) => Named(request)'
         /\ \A i \in DOMAIN frames : Superseding(i)'
         /\ \A t \in taken :
              /\ t.request.frame \in DOMAIN frames' /\ t.answered \in DOMAIN frames'
              /\ frames'[t.request.frame].nonce = t.request.nonce
              /\ frames'[t.answered].nonce = t.request.nonce
<1>1. \A request : Named(request) => Named(request)'
  BY DEF Named
<1>2. \A i \in DOMAIN frames : Superseding(i)'
  BY DEF Superseding, FreshInv
<1> QED
  BY <1>1, <1>2 DEF FreshInv

\* A frame published with another nonce than the one it replaces.
LEMMA AskKeepsInv ==
  ASSUME FreshInv, NEW n \in Nonce, NEW a \in 1 .. Retries + 1,
         NEW p \in 0 .. MaxFrames, Ask(n, a, p), TypeOK', UNCHANGED <<parked, taken>>,
         p # 0 => p \in DOMAIN frames /\ frames[p].nonce # n
  PROVE  FreshInv'
<1> DEFINE new == Len(frames) + 1
<1>0. TypeOK
  BY DEF FreshInv
<1>1. /\ pending' = [frame |-> new, nonce |-> n, attempt |-> a]
      /\ frames'[new] = [nonce |-> n, replaces |-> p]
      /\ \A i \in DOMAIN frames : i \in DOMAIN frames' /\ frames'[i] = frames[i]
      /\ DOMAIN frames' = DOMAIN frames \cup {new}
  BY <1>0, AskAppends
<1> HIDE DEF new
<1>2. /\ \A request : Named(request) => Named(request)'
      /\ \A i \in DOMAIN frames : Superseding(i)'
      /\ \A t \in taken :
           /\ t.request.frame \in DOMAIN frames' /\ t.answered \in DOMAIN frames'
           /\ frames'[t.request.frame].nonce = t.request.nonce
           /\ frames'[t.answered].nonce = t.request.nonce
  BY <1>1, GrowingKeeps
<1>3. Named(pending)'
  <2>1. pending'.frame = new /\ pending'.nonce = n /\ frames'[new].nonce = n
    BY <1>1
  <2> QED
    BY <1>1, <2>1 DEF Named
<1>4. \A i \in {new} : Superseding(i)'
  <2>1. /\ frames'[new].nonce = n /\ frames'[new].replaces = p
        /\ p # 0 => p \in DOMAIN frames' /\ frames'[p].nonce # n
    BY <1>1
  <2> QED
    BY <2>1 DEF Superseding
<1>5. \A i \in DOMAIN frames' : Superseding(i)'
  BY <1>1, <1>2, <1>4
<1> QED
  BY <1>2, <1>3, <1>5 DEF FreshInv

\* A step that leaves the conversation's frames alone.
LEMMA QuietKeepsInv ==
  ASSUME FreshInv, TypeOK', UNCHANGED <<frames, taken>>,
         Named(pending'), \A image \in parked' : Named(image)
  PROVE  FreshInv'
BY DEF FreshInv, Named, Superseding

LEMMA FreshInvHolds == Spec => []FreshInv
<1> USE SessionAssumption
<1>1. Init => FreshInv
  BY DEF Init, FreshInv, TypeOK, Named
<1>2. FreshInv /\ TypeOK' /\ [Next]_vars => FreshInv'
  <2> SUFFICES ASSUME FreshInv, TypeOK', [Next]_vars PROVE FreshInv'
    OBVIOUS
  <2>0. TypeOK /\ Named(pending) /\ Named(None) /\ \A image \in parked : Named(image)
    BY DEF FreshInv, Named
  <2>1. CASE Publish
    <3>1. PICK n \in Nonce : Ask(n, 1, 0)
      BY <2>1 DEF Publish
    <3>2. 1 \in 1 .. Retries + 1 /\ 0 \in 0 .. MaxFrames /\ UNCHANGED <<parked, taken>>
      BY <2>1 DEF Publish
    <3> QED
      BY <3>1, <3>2, AskKeepsInv
  <2>2. CASE Retry
    <3>1. PICK n \in Nonce : /\ NextNonce(pending.nonce, n)
                             /\ Ask(n, pending.attempt + 1, pending.frame)
      BY <2>2 DEF Retry
    <3>2. n # pending.nonce
      BY <3>1 DEF NextNonce
    <3>3. /\ pending.attempt + 1 \in 1 .. Retries + 1 /\ pending.frame \in 0 .. MaxFrames
          /\ UNCHANGED <<parked, taken>>
      BY <2>0, <2>2 DEF Retry, MayRetry, TypeOK, Requests
    <3>4. pending.frame \in DOMAIN frames /\ frames[pending.frame].nonce # n
      BY <2>0, <2>2, <3>2 DEF Named, Retry
    <3> QED
      BY <3>1, <3>3, <3>4, AskKeepsInv
  <2>3. CASE Answer
    BY <2>0, <2>3, QuietKeepsInv DEF Answer
  <2>4. CASE \E reply \in replies : Complete(reply)
    <3>1. PICK reply \in replies : Complete(reply)
      BY <2>4
    <3>2. reply \in DOMAIN frames /\ frames[reply].nonce = pending.nonce
      BY <2>0, <3>1 DEF TypeOK, Complete, Matches
    <3> QED
      BY <2>0, <3>1, <3>2 DEF FreshInv, Named, Superseding, Complete
  <2>5. CASE GiveUp
    BY <2>0, <2>5, QuietKeepsInv DEF GiveUp
  <2>6. CASE Park
    BY <2>0, <2>6, QuietKeepsInv DEF Park
  <2>7. CASE Mount
    BY <2>0, <2>7, QuietKeepsInv DEF Mount
  <2>8. CASE UNCHANGED vars
    BY <2>0, <2>8, QuietKeepsInv DEF vars
  <2> QED
    BY <2>1, <2>2, <2>3, <2>4, <2>5, <2>6, <2>7, <2>8 DEF Next
<1> QED
  BY <1>1, <1>2, TypeCorrect, PTL DEF Spec

\* No reply to the attempt that a retry replaced completes the retry
\* (Machine._next_nonce, _nonce_matches), whatever nonces are drawn.
THEOREM RetriesSupersede == Spec => []RetrySupersedes
<1>1. FreshInv => RetrySupersedes
  <2> SUFFICES ASSUME FreshInv, NEW t \in taken,
                      t.answered = frames[t.request.frame].replaces
               PROVE  FALSE
    BY DEF RetrySupersedes
  <2>1. /\ t.request \in Requests /\ t.answered \in DOMAIN frames
        /\ t.request.frame \in DOMAIN frames
        /\ frames[t.request.frame].nonce = t.request.nonce
        /\ frames[t.answered].nonce = t.request.nonce
        /\ frames \in Seq(Frame)
    BY DEF FreshInv, TypeOK
  <2>2. Superseding(t.request.frame) /\ 0 \notin DOMAIN frames
    BY <2>1 DEF FreshInv
  <2> QED
    BY <2>1, <2>2 DEF Superseding
<1> QED
  BY <1>1, FreshInvHolds, PTL

\* While nonces differ, no late, repeated or re-read reply completes a request
\* it does not answer (Machine.resume, _nonce_matches).
THEOREM AnswersAreCurrent == Spec => []OnlyCurrentAnswers
<1>1. FreshInv => OnlyCurrentAnswers
  BY DEF FreshInv, OnlyCurrentAnswers, NoncesDiffer
<1> QED
  BY <1>1, FreshInvHolds, PTL
=============================================================================
