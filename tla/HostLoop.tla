----------------------------- MODULE HostLoop -----------------------------
(***************************************************************************)
(* The host of the trap device: Machine.execute() and the drive loops of   *)
(* trapcpu/cli.py (run, frame, resume and mount --run), as programs that   *)
(* call run(), resume() and fail_trap() of TrapMachine and decide by the   *)
(* RunResult they get back.  A command ends with its machine parked in a   *)
(* snapshot, from which the next one mounts it.                            *)
(***************************************************************************)
EXTENDS TrapMachine

CONSTANTS
  limit,      \* --limit, the argument of execute()
  latencies,  \* --latency; 0: the reply is there at once
  HostTraps   \* the values of max_traps; None: no limit

ASSUME HostAssumption ==
  /\ limit \in Limits
  /\ latencies \subseteq Limits \cup {0}
  /\ HostTraps \subseteq Nat \cup {None}

VARIABLES
  command,    \* the command that is running, or that ran last
  at,         \* where it is
  result,     \* the state in the RunResult it looks at
  latency, max_traps,
  served,     \* replies asked for by this execute()
  asked       \* the request of the frame that was asked for

hostVars == <<command, at, result, latency, max_traps, served, asked>>
allVars == <<vars, hostVars>>

Command == {"none", "run", "frame", "resume", "mount"}

HostInit ==
  /\ Init
  /\ command = "none" /\ at = "done" /\ result = "READY"
  /\ latency = 0 /\ max_traps = None
  /\ served = 0 /\ asked = None

-----------------------------------------------------------------------------
(***************************************************************************)
(* Calls of the machine.                                                   *)
(***************************************************************************)
\* The RunResult of a machine that stopped running in state s.
ResultOf(s) == IF s = "RUNNING" THEN "ASYNC" ELSE s

\* What the call returns, once it returns; meanwhile the host waits.
Returns == result' = IF control' = "host" THEN ResultOf(state') ELSE result

\* run() goes on until it returns.
Loop ==
  /\ control = "loop"
  /\ LimitReached \/ Guest
  /\ Returns
  /\ UNCHANGED <<command, at, latency, max_traps, served, asked>>

\* resume() answers with the same request again, or as its run() returns; the
\* frame of a retry is asynchronous unless the CPU is suspended.
Resume(next) ==
  \/ /\ ResumeRetry
     /\ result' = IF state = "TRAPPED" THEN "TRAPPED" ELSE "ASYNC"
     /\ at' = next
  \/ /\ ResumeFinish
     /\ Returns
     /\ at' = IF aborted' > aborted THEN "raised" ELSE next

Fail(next) ==
  /\ FailTrap
  /\ Returns
  /\ at' = IF aborted' > aborted THEN "raised" ELSE next

Returned == control = "host"

\* An exception ends the command: run() on a suspended machine, resume() with
\* nothing in flight, an oracle that is exhausted.
Raise == at' = "raised" /\ UNCHANGED <<vars, result>>

-----------------------------------------------------------------------------
(***************************************************************************)
(* Machine.execute().                                                      *)
(***************************************************************************)
\* run(): a machine that has stopped returns its state.
CallRun(n, next) ==
  \/ /\ Run(n) /\ at' = next /\ UNCHANGED <<result>>
  \/ /\ Returned /\ state \in {"HALTED", "FAULT"}
     /\ at' = next /\ result' = state /\ UNCHANGED vars
  \/ Returned /\ state = "TRAPPED" /\ Raise

Execute ==
  /\ at = "execute"
  /\ CallRun(limit, "result")
  /\ served' = 0
  /\ UNCHANGED <<command, latency, max_traps, asked>>

\* Seeded fault: only a suspended machine is served.
ToServeTrapped == result = "TRAPPED"

ToServe == result \in {"TRAPPED", "ASYNC"}

LimitServed == max_traps # None /\ served >= max_traps

ExecuteReturns ==
  /\ at \in {"result", "last"} /\ Returned
  /\ at = "last" \/ ~ToServe
  /\ at' = "done"
  /\ UNCHANGED <<vars, command, result, latency, max_traps, served, asked>>

\* oracle.ask(); with a slow device the guest runs on before the reply is in.
Ask ==
  /\ at = "result" /\ Returned /\ ToServe /\ ~LimitServed
  /\ served' = served + 1 /\ asked' = InFlight
  /\ IF result = "ASYNC" /\ latency > 0
     THEN Run(latency) /\ at' = "interim"
     ELSE UNCHANGED vars /\ at' = "reply"
  /\ UNCHANGED <<command, result, latency, max_traps>>

\* Or it raises OracleExhausted: run ends with an exit code and writes no
\* snapshot, mount --run ends with the exception.
Exhausted ==
  /\ Returned
  /\ \/ at = "result" /\ ToServe /\ ~LimitServed
     \/ at = "serve" /\ result = "TRAPPED"
  /\ Raise
  /\ UNCHANGED <<command, latency, max_traps, served, asked>>

Interim ==
  /\ at = "interim" /\ Returned
  /\ at' = IF state \in {"HALTED", "FAULT"} THEN "done" ELSE "reply"
  /\ UNCHANGED <<vars, command, result, latency, max_traps, served, asked>>

HandReply ==
  /\ at = "reply" /\ Returned
  /\ Resume("result") \/ Fail("result")
  /\ UNCHANGED <<command, latency, max_traps, served, asked>>

HostLimit ==
  /\ at = "result" /\ Returned /\ ToServe /\ LimitServed
  /\ Fail("last")
  /\ UNCHANGED <<command, latency, max_traps, served, asked>>

-----------------------------------------------------------------------------
(***************************************************************************)
(* The commands.                                                           *)
(***************************************************************************)
\* A program is assembled and loaded; run and frame start from there.
LoadProgram ==
  /\ at \in {"done", "raised"} /\ Returned
  /\ Load
  /\ command' = "none" /\ at' = "done" /\ result' = "READY" /\ latency' = 0
  /\ max_traps' = None /\ served' = 0 /\ asked' = None

CmdRun ==
  /\ at = "done" /\ command = "none"
  /\ command' = "run" /\ at' = "execute"
  /\ latency' \in latencies /\ max_traps' \in HostTraps
  /\ UNCHANGED <<vars, result, served, asked>>

CmdFrame ==
  /\ at = "done" /\ command = "none"
  /\ command' = "frame"
  /\ CallRun(limit, "publish")
  /\ UNCHANGED <<latency, max_traps, served, asked>>

\* _publish: the frame of a suspended machine is printed; the machine is parked
\* in the snapshot either way.
PublishFrame ==
  /\ at = "publish" /\ Returned
  /\ at' = "done"
  /\ UNCHANGED <<vars, command, result, latency, max_traps, served, asked>>

\* A new process mounts the snapshot; the limit of the segment is not in it.
Mounted(name) ==
  /\ at = "done" /\ command # "none" /\ Returned
  /\ command' = name
  /\ segment_limit' = cycle_limit
  /\ result' = state /\ latency' = 0 /\ max_traps' = None
  /\ wrote' = NoWrite
  /\ UNCHANGED <<loopVars, deviceVars, ien, exec_map, oracle_ptr, traps_used,
                 statVars, historyVars, served, asked>>

CmdResume ==
  /\ Mounted("resume")
  /\ at' = IF state = "TRAPPED" THEN "feed" ELSE "raised"

Feed ==
  /\ at = "feed"
  /\ Resume("publish")
  /\ UNCHANGED <<command, latency, max_traps, served, asked>>

CmdMount ==
  /\ Mounted("mount")
  /\ at' = IF state = "TRAPPED" THEN "serve" ELSE "execute"

\* resume(oracle.ask(...)) while the machine is suspended; no reply is an empty
\* reply here.
Serve ==
  /\ at = "serve" /\ Returned
  /\ IF result = "TRAPPED"
     THEN Resume("serve")
     ELSE at' = "done" /\ UNCHANGED <<vars, result>>
  /\ UNCHANGED <<command, latency, max_traps, served, asked>>

HostNext ==
  \/ Loop \/ Execute \/ ExecuteReturns \/ Ask \/ Exhausted \/ Interim \/ HandReply \/ HostLimit
  \/ LoadProgram \/ CmdRun \/ CmdFrame \/ PublishFrame \/ CmdResume \/ Feed
  \/ CmdMount \/ Serve

HostSpec == HostInit /\ [][HostNext]_allVars

(***************************************************************************)
(* Fairness.  A command is one thread of one process: it takes its next    *)
(* step until it is done.  Nobody has to type the next command.            *)
(***************************************************************************)
Working ==
  \/ Loop \/ Execute \/ ExecuteReturns \/ Ask \/ Exhausted \/ Interim \/ HandReply \/ HostLimit
  \/ PublishFrame \/ Feed \/ Serve

HostFairSpec == HostSpec /\ WF_allVars(Working)
-----------------------------------------------------------------------------
(***************************************************************************)
(* Properties.                                                             *)
(***************************************************************************)
\* execute() hands a reply to the very attempt it asked the oracle about, also
\* when the guest ran on in between and tried to issue further requests.
AskedIsAnswered == at = "reply" => Awaiting /\ InFlight = asked

\* execute()'s docstring, "Run to completion, letting oracle answer every trap":
\* it returns a machine that has stopped and owes no answer.  Two exceptions:
\* the guest finished while a slow device was still thinking, or max_traps
\* replies were asked for.
NobodyLeftWaiting ==
  (at = "done" /\ command = "run")
  => /\ state \in {"HALTED", "FAULT", "LIMIT"} \/ LimitServed
     /\ Outstanding = 0 \/ (latency > 0 /\ state # "LIMIT") \/ LimitServed

\* run()'s docstring: resuming from a trap continues under the same limit
\* instead of silently reverting to the default.  What execute() runs while a
\* slow device thinks has the latency as its limit, and so may what follows.
LimitIsKept ==
  [][(control = "host" /\ control' = "loop" /\ command' \in {"run", "frame"})
     => fuel' = limit \/ (latency' > 0 /\ served' > 0 /\ fuel' = latency')]_allVars

\* Every command comes to its end: segments, retries and calls are bounded.
CommandsFinish == at \notin {"done", "raised"} ~> at \in {"done", "raised"}

=============================================================================
