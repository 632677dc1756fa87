----------------------------- MODULE Exchange -----------------------------
(***************************************************************************)
(* One request's way over the bus: the machine publishes a frame, a        *)
(* backend of trapcpu/oracle.py or trapcpu/llm.py answers it through a     *)
(* fault injector or over HTTP, the machine validates the reply and        *)
(* publishes the frame again while it fails and retries are left           *)
(* (Machine.execute, Machine.resume, Machine.fail_trap).                   *)
(***************************************************************************)
EXTENDS Backends

CONSTANTS
  Requests,        \* the requests that programs make, as frames
  Answer,          \* what oracles answer, by the number of replicas
  Prompts,         \* what prompts say
  Devices,         \* the device numbers with a backend
  BackendNames,    \* the backends attached
  MaxHttpRetries   \* ClaudeOracle.max_retries

ASSUME ExchangeAssumption == MaxHttpRetries \in Nat

\* The headers of a TrapFrame that the exchange looks at.
Frame ==
  [nonce : Nat, attempt : Nat \ {0}, retries : Nat, mode : {"TEXT", "NUM", "BYTES"},
   replicas : Nat \ {0}, capacity : Nat, strict : BOOLEAN, no_trim : BOOLEAN,
   allow_truncate : BOOLEAN, device : Nat]

ASSUME RequestsAssumption ==
  \A r \in Requests : r \in Frame /\ r.attempt = 1 /\ r.nonce \in 1 .. MaxNonce
ASSUME AnswerAssumption ==
  \A r \in Requests : \A answer \in Answer[r.replicas] : answer \in Seq(ToSet(answer))
ASSUME PromptsAssumption == \A p \in Prompts : p \in Seq(ToSet(p))

VARIABLES
  backend,   \* the backend of this run
  frame,     \* the request in flight
  phase,     \* where it is
  reply,     \* the text handed to the machine, {} for None
  verdict,   \* validate()'s result for the last attempt, or Pending
  http,      \* failed HTTP attempts of the call in progress
  gathered,  \* _ask_independent: the payloads of the calls made so far
  stream,    \* ManualOracle: lines typed and not read
  answers,   \* history: the payloads meant by the replies to this attempt
  faults,    \* history: what befell each reply to this attempt
  calls      \* history: HTTP calls made for this request

vars == <<backend, frame, phase, reply, verdict, http, gathered, stream,
          answers, faults, calls>>

Pending == Failed("PENDING")
Answers == Answer[frame.replicas]
Repeat(answer) == [r \in 1 .. frame.replicas |-> answer]

Init ==
  /\ backend \in BackendNames
  /\ frame \in Requests
  /\ phase = "ask"
  /\ reply = {} /\ verdict = Pending
  /\ http = 0 /\ gathered = <<>> /\ stream = <<>>
  /\ answers = <<>> /\ faults = <<>> /\ calls = 0

\* The machine is handed the reply.
Hand(text, meant, fault) ==
  /\ phase' = "reply"
  /\ reply' = text
  /\ answers' = meant
  /\ faults' = Append(faults, fault)
  /\ verdict' = Pending

-----------------------------------------------------------------------------
(***************************************************************************)
(* Backends in the machine's own process.                                  *)
(***************************************************************************)
InProcess(meant, inner) ==
  /\ \E fault \in Fault : Hand(InjectedAsk(inner, fault, frame), meant, fault)
  /\ UNCHANGED <<backend, frame, http, gathered, stream, calls>>

AskCallback ==
  /\ phase = "ask" /\ backend = "callback"
  /\ \E meant \in [1 .. frame.replicas -> Answers] :
       InProcess(meant, {CallbackAsk(frame, meant, "CRC")})

AskDeclined ==
  /\ phase = "ask" /\ backend = "callback"
  /\ InProcess(Repeat(Declined), {CallbackAsk(frame, Repeat(Declined), "CRC")})

AskEcho ==
  /\ phase = "ask" /\ backend = "mux"
  /\ \E answer \in Answers :
       InProcess(Repeat(answer),
                 IF MuxAnswers(frame, Devices) THEN {EchoAsk(frame, answer)} ELSE {})

AskNoisy ==
  /\ phase = "ask" /\ backend = "noisy"
  /\ \E truth \in Answers \ {<<>>} :
       \E samples \in [1 .. frame.replicas -> Perturbed(truth)] :
         InProcess(samples, {NoisyAsk(frame, samples)})

\* The frame is printed and a human pastes an answer, or the whole
\* conversation: the frame and the answer to it.
AskManual ==
  /\ phase = "ask" /\ backend = "manual"
  /\ \E answer \in Answers, fault \in Fault, echoed \in BOOLEAN :
       LET said == InjectedAsk({EchoAsk(frame, answer)}, fault, frame)
           typed == stream \o (IF echoed THEN render(frame, <<"A">>) ELSE <<>>)
                           \o FlattenSeq(SetToSeq(said))
       IN /\ Hand(IF typed = <<>> THEN {} ELSE {ManualRead(typed)}, Repeat(answer),
                  IF echoed THEN "echoed" ELSE fault)
          /\ stream' = ManualRest(typed)
  /\ UNCHANGED <<backend, frame, http, gathered, calls>>

-----------------------------------------------------------------------------
(***************************************************************************)
(* ClaudeOracle.  _call tries the transport up to MaxHttpRetries + 1       *)
(* times; with independent_replicas, ask() makes one call per replica.     *)
(***************************************************************************)
IsClaude == backend \in {"claude", "independent"}
Independent == backend = "independent" /\ frame.replicas > 1

\* Seeded fault: one try too many.
MayTryAgainOnce == http <= MaxHttpRetries

MayTryAgain == http < MaxHttpRetries

\* 408, 409, 429, 5xx and a broken connection.
HttpRetryable ==
  /\ phase = "ask" /\ IsClaude
  /\ calls' = calls + 1
  /\ IF MayTryAgain
     THEN http' = http + 1 /\ UNCHANGED <<phase, reply, verdict, answers, faults, gathered>>
     ELSE http' = 0 /\ gathered' = <<>> /\ Hand({}, answers, "exhausted")
  /\ UNCHANGED <<backend, frame, stream>>

\* Any other error is raised out of execute() and ends the process.
HttpFatal ==
  /\ phase = "ask" /\ IsClaude
  /\ calls' = calls + 1
  /\ phase' = "raised"
  /\ UNCHANGED <<backend, frame, reply, verdict, http, gathered, stream, answers, faults>>

\* What a model writes back to a frame it is shown.
ModelTexts(shown, meant, fault) ==
  CASE fault = "drop" -> <<>>
    [] OTHER -> (CHOOSE text \in InjectedAsk({render_reply(shown.nonce, meant, "OK", "CRC")},
                                             fault, shown) : TRUE)

AskClaude ==
  /\ phase = "ask" /\ IsClaude /\ ~Independent
  /\ calls' = calls + 1 /\ http' = 0
  /\ \E meant \in [1 .. frame.replicas -> Answers], fault \in Fault :
       Hand({ModelTexts(frame, meant, fault)}, meant, fault)
  /\ UNCHANGED <<backend, frame, gathered, stream>>

\* One sub-call: the payload is taken out of the last frame of the text, or
\* the text is handed on as it is.
TakenBlock(text) ==
  LET parsed == find_reply_frames(text)
  IN IF parsed = <<>> \/ Last(parsed).body.blocks = <<>> THEN {}
     ELSE {Trim(Last(parsed).body.blocks[1].text)}

AskIndependent ==
  /\ phase = "ask" /\ Independent
  /\ calls' = calls + 1 /\ http' = 0
  /\ \E answer \in Answers, fault \in Fault :
       LET text == ModelTexts([frame EXCEPT !.replicas = 1], <<answer>>, fault)
           all == gathered \o SetToSeq(TakenBlock(text))
           meant == Append(answers, answer)
       IN IF TakenBlock(text) = {}
          THEN Hand({text}, meant, fault) /\ gathered' = <<>>
          ELSE IF Len(all) = frame.replicas
          THEN /\ Hand({render_reply(frame.nonce, all, "OK", "none")}, meant, fault)
               /\ gathered' = <<>>
          ELSE /\ gathered' = all /\ answers' = meant
               /\ faults' = Append(faults, fault)
               /\ verdict' = Pending
               /\ UNCHANGED <<phase, reply>>
  /\ UNCHANGED <<backend, frame, stream>>

-----------------------------------------------------------------------------
(***************************************************************************)
(* The machine.                                                            *)
(***************************************************************************)
NextNonce(nonce) == IF nonce = MaxNonce THEN 1 ELSE nonce + 1

MayAskAgain == frame.attempt <= frame.retries

\* execute(): no reply fails the trap at once; a reply that fails validation
\* is asked for again while retries are left, under a fresh nonce.
ReceiveNothing ==
  /\ phase = "reply" /\ reply = {}
  /\ verdict' = Failed("RETRIES")
  /\ phase' = "done"
  /\ UNCHANGED <<backend, frame, reply, http, gathered, stream, answers, faults, calls>>

Receive ==
  /\ phase = "reply"
  /\ \E text \in reply :
       LET result == validate(text, frame)
       IN IF result.status \notin Success /\ MayAskAgain
          THEN /\ phase' = "ask"
               /\ frame' = [frame EXCEPT !.attempt = @ + 1, !.nonce = NextNonce(@)]
               /\ verdict' = Pending /\ answers' = <<>> /\ faults' = <<>>
          ELSE /\ phase' = "done"
               /\ verdict' = result
               /\ UNCHANGED <<frame, answers, faults>>
  /\ reply' = {}
  /\ UNCHANGED <<backend, http, gathered, stream, calls>>

\* The next request of the program, or of the next run of it.
NextRequest ==
  /\ phase \in {"done", "raised"}
  /\ frame' \in Requests
  /\ phase' = "ask"
  /\ reply' = {} /\ verdict' = Pending
  /\ http' = 0 /\ gathered' = <<>> /\ stream' = <<>>
  /\ answers' = <<>> /\ faults' = <<>> /\ calls' = 0
  /\ UNCHANGED backend

Next ==
  \/ AskCallback \/ AskDeclined \/ AskEcho \/ AskNoisy \/ AskManual
  \/ HttpRetryable \/ HttpFatal \/ AskClaude \/ AskIndependent
  \/ ReceiveNothing \/ Receive \/ NextRequest

Spec == Init /\ [][Next]_vars

-----------------------------------------------------------------------------
(***************************************************************************)
(* Properties.                                                             *)
(***************************************************************************)
Judged == verdict # Pending
LastFault == Last(faults)
Meant == [r \in DOMAIN answers |-> Trim(answers[r])]

\* Section 9 of docs/TRAP_PROTOCOL.md: the status that names each fault when
\* the answer itself is one that the request can use.
Documented(fault) ==
  CASE fault = "drop" -> {"RETRIES"}
    [] fault = "silence" -> {"NO_FRAME"}
    [] fault \in {"unterminated", "extra_block"} -> {"MALFORMED"}
    [] fault \in {"stale_nonce", "bad_nonce"} -> {"BAD_NONCE"}
    [] fault = "refuse" -> {"REFUSED"}
    [] fault \in {"bad_length", "truncate"} -> {"BAD_LENGTH"}
    [] fault = "wrong_mode" -> {"BAD_LENGTH", "BAD_ENCODING"}
    [] fault \in {"bitflip", "bad_checksum"} -> {"BAD_CHECKSUM"}
    [] fault = "no_checksum" -> IF frame.strict THEN {"BAD_CHECKSUM"} ELSE {"DEGRADED"}
    [] fault \in {"none", "chatty", "fenced"} -> {"OK"}

Usable(payload) ==
  /\ payload # Declined /\ Trim(payload) # <<>>
  /\ ToSet(payload) \cap (Marker \cup {FF}) = {}
  /\ \E n \in Encoded(Trim(payload), frame.mode) : n > frame.capacity => frame.allow_truncate

FaultsAreNamed ==
  (/\ Judged /\ backend \in {"callback", "mux"}
   /\ (backend = "mux" => MuxAnswers(frame, Devices))
   /\ \A r \in DOMAIN answers : Usable(answers[r]) /\ answers[r] = answers[1])
  => verdict.status \in Documented(LastFault)

\* The wire ends lines with newlines.
Unified(text) == [i \in DOMAIN text |-> IF text[i] \in Breaks THEN NL ELSE text[i]]

\* A verdict of success is the election among the answers that were meant, as
\* if there were no wire but for what ends their lines: whatever happens to the
\* text on its way, no accepted payload is cut, glued, shifted or taken from
\* elsewhere.  Only a change that keeps the length gets through when nobody
\* checksummed: a flipped character, or wording around a payload that a fence
\* of its own cuts short; or what a sub-reply hid.
AcceptedIsElected ==
  (Judged /\ verdict.status \in Success /\ ~Independent
   /\ ~(verdict.status = "DEGRADED" /\ LastFault \in {"bitflip", "wrong_mode"}))
  => LET read == [r \in DOMAIN Meant |-> Unified(Meant[r])]
     IN Elects(read) /\ verdict.text = Elected(read)

\* Section 7: with a strict majority of sound replicas, the answer is theirs;
\* a pair that disagrees is never corrected.
MinorityIsRepaired ==
  (phase = "done" /\ backend = "noisy" /\ LastFault \in {"none", "chatty", "fenced"}
   /\ frame.mode = "TEXT" /\ ~frame.strict /\ \A r \in DOMAIN Meant : Usable(Meant[r]))
  => /\ \A r \in DOMAIN Meant :
          2 * Tally(Meant, Meant[r]) > Len(Meant)
            => verdict.status \in Success /\ verdict.text = Meant[r]
     /\ (Len(Meant) = 2 /\ Meant[1] # Meant[2]) => verdict.status = "NO_QUORUM"

\* However often the transport and the protocol retry, one request costs at
\* most retries + 1 attempts, of one call per replica, of MaxHttpRetries + 1
\* tries.
CallsAreBounded ==
  calls <= (frame.retries + 1) * frame.replicas * (MaxHttpRetries + 1)

\* A REPLY line that the parser sees and escape_reserved does not.
Smuggles(prompt) == \E i \in DOMAIN prompt \ {1} : prompt[i] = "begin" /\ prompt[i - 1] = FF

\* A request frame holds no reply frame for the parser, unless its prompt has a
\* REPLY marker right behind a separator that is no newline: whatever blanks,
\* fences and markers it has elsewhere, escaped or not.
RequestIsNoReply ==
  phase = "ask" /\ faults = <<>> =>
    \A prompt \in Prompts :
      ~Smuggles(prompt) => find_reply_frames(render(frame, prompt)) = <<>>

\* protocol.py:13-14: "A request therefore cannot be mistaken for a reply by the
\* parser."
PromptIsNoReply ==
  \A prompt \in Prompts : find_reply_frames(render(frame, prompt)) = <<>>

=============================================================================
