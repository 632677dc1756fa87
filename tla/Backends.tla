----------------------------- MODULE Backends -----------------------------
(***************************************************************************)
(* The oracle backends of trapcpu/oracle.py that frame their own answers,  *)
(* and FaultInjector, which corrupts what another backend replied.  An     *)
(* answer is a payload; Declined is a callback that returns None.          *)
(***************************************************************************)
EXTENDS Wire

CONSTANTS
  Declined,   \* the answer of an oracle that will not answer
  MaxNonce    \* nonces are 1 .. MaxNonce

ASSUME BackendsAssumption == MaxNonce \in Nat \ {0, 1}

-----------------------------------------------------------------------------
Refusal(frame) == render_reply(frame.nonce, <<>>, "REFUSED", "none")

\* CallbackOracle: one call of the function per replica.
CallbackAsk(frame, answers, checksum) ==
  IF \E r \in DOMAIN answers : answers[r] = Declined
  THEN Refusal(frame)
  ELSE render_reply(frame.nonce, answers, "OK", checksum)

\* EchoOracle, BisectOracle, JudgeOracle, NavigatorOracle and a plain script
\* line: one answer, repeated.
EchoAsk(frame, answer) ==
  render_reply(frame.nonce, [r \in 1 .. frame.replicas |-> answer], "OK", "CRC")

\* NoisyOracle: independent samples, each perturbed in at most one position,
\* and no checksum.
Perturbed(text) ==
  {text} \cup {[text EXCEPT ![p] = IF text[p] # "X" THEN "X" ELSE "Q"] : p \in DOMAIN text}

NoisyAsk(frame, samples) == render_reply(frame.nonce, samples, "OK", "none")

\* MuxOracle: a device with nothing attached never answers.
MuxAnswers(frame, devices) == frame.device \in devices

\* ManualOracle: reads up to the first line that says END in whatever column;
\* what follows stays in the stream for the next frame.
EndOfReply(stream) ==
  Min({i \in DOMAIN stream : stream[i].is = "end"} \cup {Len(stream)})

ManualRead(stream) == SubSeq(stream, 1, EndOfReply(stream))
ManualRest(stream) == SubSeq(stream, EndOfReply(stream) + 1, Len(stream))

-----------------------------------------------------------------------------
(***************************************************************************)
(* FaultInjector.                                                          *)
(***************************************************************************)
Fault == {"none", "drop", "silence", "stale_nonce", "bad_nonce", "no_checksum",
          "bad_checksum", "bad_length", "truncate", "chatty", "fenced",
          "unterminated", "bitflip", "refuse", "extra_block", "wrong_mode"}

Prose == Line("text", <<"A">>)
Unparsable == 0   \* a nonce that is not a hexadecimal word
Wording == <<"T", "h", "e", "a", "n", "s", "w", "e", "r">>

stale(frame) == IF frame.nonce = 1 THEN MaxNonce ELSE frame.nonce - 1

_replace_header(lines, key, value) ==
  LET first == SelectInSeq(lines, LAMBDA l : l.is = key)
  IN IF first = 0 THEN lines ELSE [lines EXCEPT ![first].val = value]

Flip(text) ==
  IF text = <<>> THEN <<"?">>
  ELSE [text EXCEPT ![Len(text) \div 2 + 1] = IF @ # "X" THEN "X" ELSE "Y"]

Cut(text) == SubSeq(text, 1, Len(text) - 2)

Rewritten(text, fault) ==
  CASE fault = "truncate" -> Cut(text)
    [] fault = "bitflip" -> Flip(text)
    [] fault = "wrong_mode" -> Wording \o text \o <<".">>

\* Rewrites what stands in each closed fence and leaves LEN and checksums.
MapLine(scan, line, fault) ==
  CASE line.is = "open" ->
         [out |-> Append(scan.out, line), inside |-> TRUE, buffer |-> <<>>]
    [] scan.inside /\ line.is = "close" ->
         [out |-> scan.out \o Split(Rewritten(Join(scan.buffer), fault)) \o <<line>>,
          inside |-> FALSE, buffer |-> <<>>]
    [] scan.inside /\ line.is \notin {"open", "close"} ->
         [scan EXCEPT !.buffer = Append(@, line)]
    [] OTHER -> [scan EXCEPT !.out = Append(@, line)]

_map_payload(lines, fault) ==
  LET scan[i \in 0 .. Len(lines)] ==
        IF i = 0 THEN [out |-> <<>>, inside |-> FALSE, buffer |-> <<>>]
        ELSE MapLine(scan[i - 1], lines[i], fault)
  IN scan[Len(lines)].out

IsChecksum(line) == line.is \in {"CRC", "SUM"}

\* The lines that are of other kinds.
Without(lines, kinds) ==
  FlattenSeq([i \in DOMAIN lines |-> IF lines[i].is \in kinds THEN <<>> ELSE <<lines[i]>>])

\* A checksum that does not match; a forged one where there was none.
Tamper(lines) ==
  IF \E i \in DOMAIN lines : IsChecksum(lines[i])
  THEN [i \in DOMAIN lines |->
          IF IsChecksum(lines[i]) THEN [lines[i] EXCEPT !.val.tampered = TRUE] ELSE lines[i]]
  ELSE LET first == SelectInSeq(lines, LAMBDA l : l.is = "open")
       IN IF first = 0 THEN lines
          ELSE InsertAt(lines, first, Line("CRC", [of |-> <<>>, tampered |-> TRUE]))

Miscount(lines) ==
  [i \in DOMAIN lines |->
     IF lines[i].is = "LEN" THEN [lines[i] EXCEPT !.val = @ + 3] ELSE lines[i]]

ExtraBlock == <<Line("LEN", 1), Line("open", 1), Line("text", <<"?">>), Line("close", 1)>>

InsertExtraBlock(lines) ==
  LET last == SelectLastInSeq(lines, LAMBDA l : l.is = "end")
  IN IF last = 0 THEN lines \o ExtraBlock
     ELSE SubSeq(lines, 1, last - 1) \o ExtraBlock \o SubSeq(lines, last, Len(lines))

_corrupt(reply, fault, frame) ==
  CASE fault = "none" -> reply
    [] fault = "stale_nonce" -> _replace_header(reply, "NONCE", stale(frame))
    [] fault = "bad_nonce" -> _replace_header(reply, "NONCE", Unparsable)
    [] fault = "no_checksum" -> Without(reply, {"CRC", "SUM"})
    [] fault = "bad_checksum" -> Tamper(reply)
    [] fault = "bad_length" -> Miscount(reply)
    [] fault \in {"truncate", "bitflip", "wrong_mode"} -> _map_payload(reply, fault)
    [] fault \in {"chatty", "fenced"} -> <<Prose>> \o reply \o <<Prose>>
    [] fault = "unterminated" -> Without(reply, {"end"})
    [] fault = "extra_block" -> InsertExtraBlock(reply)

\* FaultInjector.ask.  inner: the inner backend's reply, {} if it has none.
InjectedAsk(inner, fault, frame) ==
  CASE fault = "drop" -> {}
    [] fault = "silence" -> {<<Prose>>}
    [] fault = "refuse" -> {Refusal(frame)}
    [] OTHER -> {_corrupt(reply, fault, frame) : reply \in inner}

=============================================================================
