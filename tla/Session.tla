------------------------------ MODULE Session ------------------------------
(***************************************************************************)
(* One program's conversation with its oracle over several processes:      *)
(* `chatcpu frame`, then any number of `chatcpu resume`, each of which     *)
(* mounts a snapshot, feeds one reply to the machine and parks it again    *)
(* (trapcpu/cli.py, trapcpu/machine.py, trapcpu/snapshot.py).  The         *)
(* conversation is an append-only log: every frame and every reply ever    *)
(* written stays there, and the host may feed any reply at any time.       *)
(*                                                                         *)
(* The machine is reduced to its one request slot (TrapMachine shows that  *)
(* there is one), and a reply to the frame it answers: the text that the   *)
(* host feeds either validates but for its nonce, or it does not validate. *)
(***************************************************************************)
EXTENDS Naturals, Sequences

CONSTANTS
  Nonce,         \* the nonces; 1 .. 65535 in the code
  Retries,       \* the RETRIES field of every descriptor
  MaxFrames,     \* bound on the frames published
  MaxProcesses,  \* bound on the processes
  None           \* no request

ASSUME SessionAssumption ==
  /\ Retries \in Nat
  /\ MaxFrames \in Nat /\ MaxProcesses \in Nat

VARIABLES
  pending,  \* the request in flight, or None
  process,  \* which process runs
  parked,   \* snapshots: the request that was in flight, or None
  frames,   \* the conversation: each frame published, as its nonce and the
            \* frame of the attempt that it replaces (history; 0 if none)
  replies,  \* the conversation: the frames that a well-formed reply answers
  taken     \* history: requests completed, and the frame that was answered

vars == <<pending, process, parked, frames, replies, taken>>

Requests == [frame : 1 .. MaxFrames, nonce : Nonce, attempt : 1 .. Retries + 1]

Frame == [nonce : Nonce, replaces : 0 .. MaxFrames]

\* Machine._next_nonce: any nonce but that of the request in flight.  Nonces of
\* older frames may come again: by chance, or because a process was given the
\* --seed of the one before it.  Seeded fault: the first draw is taken.
NextNonceOnce(previous, n) == n \in Nonce

NextNonce(previous, n) == n \in Nonce \ {previous}

\* The frame and its nonce are appended to the conversation.
Ask(n, attempt, replaces) ==
  /\ Len(frames) < MaxFrames
  /\ frames' = Append(frames, [nonce |-> n, replaces |-> replaces])
  /\ pending' = [frame |-> Len(frames) + 1, nonce |-> n, attempt |-> attempt]

Init ==
  /\ pending = None /\ process = 1
  /\ parked = {} /\ frames = <<>> /\ replies = {} /\ taken = {}

\* TRAP or TRAPA of a new request: no previous nonce is looked at.
Publish ==
  /\ pending = None
  /\ \E n \in Nonce : NextNonce(None, n) /\ Ask(n, 1, 0)
  /\ UNCHANGED <<process, parked, replies, taken>>

\* The oracle answers a frame of the conversation, an old one even.
Answer ==
  /\ \E i \in DOMAIN frames : replies' = replies \cup {i}
  /\ UNCHANGED <<pending, process, parked, frames, taken>>

\* Off by one in the retry count, a seeded fault.
MayRetryOnce == pending.attempt <= Retries + 1

MayRetry == pending.attempt <= Retries

\* Addressed to the request in flight.  Seeded fault: nobody looks.
MatchesAny(reply) == TRUE

Matches(reply) == frames[reply].nonce = pending.nonce

\* Machine.resume with a reply of the conversation that validates...
Complete(reply) ==
  /\ pending # None
  /\ Matches(reply)
  /\ pending' = None
  /\ taken' = taken \cup {[request |-> pending, answered |-> reply]}
  /\ UNCHANGED <<process, parked, frames, replies>>

\* ... with one that does not, for its nonce or for anything else, and a retry
\* is left...
Retry ==
  /\ pending # None
  /\ MayRetry
  /\ \E n \in Nonce :
       NextNonce(pending.nonce, n) /\ Ask(n, pending.attempt + 1, pending.frame)
  /\ UNCHANGED <<process, parked, replies, taken>>

\* ... and when none is left, or the host fails the request.
GiveUp ==
  /\ pending # None
  /\ pending' = None
  /\ UNCHANGED <<process, parked, frames, replies, taken>>

\* dump() into a file, or a copy of one.
Park ==
  /\ parked' = parked \cup {pending}
  /\ UNCHANGED <<pending, process, frames, replies, taken>>

\* A new process mounts any of them.
Mount ==
  /\ process < MaxProcesses /\ process' = process + 1
  /\ pending' \in parked
  /\ UNCHANGED <<parked, frames, replies, taken>>

Next ==
  \/ Publish \/ Answer \/ Retry \/ GiveUp \/ Park \/ Mount
  \/ \E reply \in replies : Complete(reply)

Spec == Init /\ [][Next]_vars

-----------------------------------------------------------------------------
\* Every variable has its type; RETRIES bounds the attempts of a request, also
\* of one that went through snapshots.
TypeOK ==
  /\ pending \in Requests \cup {None}
  /\ process \in Nat
  /\ parked \subseteq Requests \cup {None}
  /\ frames \in Seq(Frame) /\ Len(frames) <= MaxFrames
  /\ replies \subseteq DOMAIN frames
  /\ taken \subseteq [request : Requests, answered : 1 .. MaxFrames]

\* A nonce is fresh per attempt: no reply to the attempt that a retry replaced
\* completes the retry, whatever nonces are drawn (by chance or under --seed),
\* however late the reply is fed and from whichever snapshot the request came.
RetrySupersedes ==
  \A t \in taken : t.answered # frames[t.request.frame].replaces

\* As long as no two frames of the conversation drew the same nonce, a request
\* is only ever completed by a reply to its frame in flight: no late, repeated
\* or re-read reply to another attempt or request completes it, in any process
\* and from any snapshot.
NoncesDiffer ==
  \A i, j \in DOMAIN frames : frames[i].nonce = frames[j].nonce => i = j

OnlyCurrentAnswers ==
  NoncesDiffer => \A t \in taken : t.answered = t.request.frame
=============================================================================
