---------------------------- MODULE OracleDevice ----------------------------
(***************************************************************************)
(* What the trap device promises a guest, without the machine around it:   *)
(* one request at a time, from publication through its attempts to its     *)
(* answer, and for an asynchronous request to the interrupt that announces *)
(* the answer.  Nothing can be published before that interrupt has been    *)
(* taken, and only publication draws on the budget.                        *)
(***************************************************************************)
EXTENDS Naturals

CONSTANTS
  MaxRetries,  \* a natural number: retries the device may grant a request
  Budget       \* a natural number: requests that may be published

VARIABLES
  phase,  \* "idle"; "sync" or "async": a request is out; "raised": its
          \* interrupt waits to be taken
  tries,  \* attempts made on the request that is out
  calls   \* requests published

vars == <<phase, tries, calls>>

Init == phase = "idle" /\ tries = 0 /\ calls = 0

Publish(channel) ==
  /\ phase = "idle" /\ calls < Budget
  /\ phase' = channel /\ tries' = 1 /\ calls' = calls + 1

Retry ==
  /\ phase \in {"sync", "async"} /\ tries <= MaxRetries
  /\ tries' = tries + 1
  /\ UNCHANGED <<phase, calls>>

Answer ==
  /\ phase \in {"sync", "async"}
  /\ phase' = IF phase = "async" THEN "raised" ELSE "idle"
  /\ tries' = 0
  /\ UNCHANGED calls

Deliver == phase = "raised" /\ phase' = "idle" /\ UNCHANGED <<tries, calls>>

Reset == phase' = "idle" /\ tries' = 0 /\ calls' = 0

Next ==
  \/ \E channel \in {"sync", "async"} : Publish(channel)
  \/ Retry \/ Answer \/ Deliver \/ Reset

Spec == Init /\ [][Next]_vars
=============================================================================
