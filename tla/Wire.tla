------------------------------- MODULE Wire -------------------------------
(***************************************************************************)
(* The wire format of trapcpu/protocol.py: request frames, reply frames,   *)
(* the parser and the validation ladder.                                   *)
(*                                                                         *)
(* Text is a sequence of lines.  A line is a record: is names its kind (a  *)
(* marker, a header key, or "text"), at whether it starts at column zero,  *)
(* val what the header carries or the symbols of the text.  A payload is a *)
(* sequence of symbols, one byte each: letters, digits, SP, NL, FF and     *)
(* the marker lines themselves, which are one symbol.  FF stands for every *)
(* separator but the newline at which splitlines() ends a line too: a form *)
(* feed, a carriage return, ...  A checksum is the payload it vouches for, *)
(* and whether it was tampered with.                                       *)
(***************************************************************************)
EXTENDS Replicas, Lists, SequencesExt

SP == " "
NL == "\n"
FF == "\f"
Breaks == {NL, FF}
Blank == {SP} \cup Breaks
Digit == <<"1", "2", "3", "4", "5", "6", "7", "8", "9", "0">>
HexLetter == {"A", "B", "C", "D", "E", "F"}

Marker == {"begin", "end", "open", "close"}  \* of a reply; also as symbols
PROTOCOL_VERSION == 1
MaxWord == 65535

Line(is, val) == [is |-> is, at |-> TRUE, val |-> val]
Indented(line) == [line EXCEPT !.at = FALSE]

-----------------------------------------------------------------------------
(***************************************************************************)
(* Lines and symbols.                                                      *)
(***************************************************************************)
\* str.strip()
Trim(s) ==
  LET kept == {i \in DOMAIN s : s[i] \notin Blank}
  IN IF kept = {} THEN <<>> ELSE SubSeq(s, Min(kept), Max(kept))

\* A line made of a marker alone is that marker; only the markers of the
\* frame, not those of the payload, are anchored to column zero.
LineOf(word) ==
  LET marker == Trim(word)
  IN IF Len(marker) = 1 /\ marker[1] \in Marker
     THEN [is |-> marker[1], at |-> word[1] = marker[1], val |-> PROTOCOL_VERSION]
     ELSE Line("text", word)

\* A line, as symbols of a payload that it became part of.
WordOf(line) == IF line.is = "text" THEN line.val ELSE <<line.is>>

\* The pieces of s between separators.
Words(s, separators) ==
  LET cuts == Ascending({0, Len(s) + 1} \cup {i \in DOMAIN s : s[i] \in separators})
  IN [k \in 1 .. Len(cuts) - 1 |-> SubSeq(s, cuts[k] + 1, cuts[k + 1] - 1)]

\* "\n".join
Glue(words) ==
  FlattenSeq([k \in DOMAIN words |-> IF k = 1 THEN words[k] ELSE <<NL>> \o words[k]])

\* splitlines(), with which every reader begins: a text as the lines it has on the
\* wire.  FaultInjector and ManualOracle cut at newlines alone; it makes a
\* difference to them when a payload has a marker behind another separator.
Split(s) == [k \in DOMAIN Words(s, Breaks) |-> LineOf(Words(s, Breaks)[k])]

\* Lines that were split come together with newlines, whatever ended them.
Join(lines) == Glue([k \in DOMAIN lines |-> WordOf(lines[k])])

-----------------------------------------------------------------------------
(***************************************************************************)
(* Writing frames.                                                         *)
(***************************************************************************)
\* _RESERVED_RE: what begins like a line of the frame, and the fences alone.
Reserved(word) ==
  /\ word # <<>> /\ word[1] \in Marker
  /\ word[1] \in {"begin", "end"} \/ Len(Trim(word)) = 1

\* Seeded fault: lines that look like structure are left as they are.
EscapeNothing(prompt) == prompt

\* It sees the lines that newlines end, and no others.
escape_reserved(prompt) ==
  LET words == Words(prompt, {NL})
  IN Glue([k \in DOMAIN words |-> IF Reserved(words[k]) THEN <<SP>> \o words[k] ELSE words[k]])

\* TrapFrame.render: headers, the prompt, and a copy of the reply template,
\* padded.  Of the rules only their being prose matters.
Template(frame) ==
  <<Line("begin", PROTOCOL_VERSION), Line("NONCE", frame.nonce), Line("STATUS", "OK")>>
  \o FlattenSeq([r \in 1 .. frame.replicas |->
                   <<Line("REPLICA", r), Line("text", <<"A">>), Line("open", 1),
                     Line("text", <<"A">>), Line("close", 1)>>])
  \o <<Line("end", 1)>>

render(frame, prompt) ==
  <<Line("request", PROTOCOL_VERSION), Line("NONCE", frame.nonce)>>
  \o Split(escape_reserved(prompt))
  \o [k \in DOMAIN Template(frame) |-> Indented(Template(frame)[k])]
  \o <<Line("end", 1)>>

Checksum(payload) == [of |-> payload, tampered |-> FALSE]

\* render_reply: one block per payload.  checksum is "none", "CRC" or "SUM".
ReplyBlock(payload, checksum) ==
  LET canonical == Trim(payload)
  IN <<Line("LEN", Len(canonical))>>
     \o (IF checksum = "none" THEN <<>> ELSE <<Line(checksum, Checksum(canonical))>>)
     \o <<Line("open", 1)>> \o Split(canonical) \o <<Line("close", 1)>>

render_reply(nonce, payloads, status, checksum) ==
  <<Line("begin", PROTOCOL_VERSION), Line("NONCE", nonce), Line("STATUS", status)>>
  \o FlattenSeq([r \in DOMAIN payloads |-> ReplyBlock(payloads[r], checksum)])
  \o <<Line("end", 1)>>

-----------------------------------------------------------------------------
(***************************************************************************)
(* Reading replies.  Optional values are sets of at most one element.      *)
(***************************************************************************)
NoHeaders == [k \in {"LEN", "CRC", "SUM"} |-> {}]

CloseBlock(scan, closed) ==
  [scan EXCEPT !.inside = FALSE, !.headers = NoHeaders, !.collected = <<>>,
               !.blocks = Append(@, [text |-> Join(scan.collected),
                                     headers |-> scan.headers, closed |-> closed])]

\* _parse_body, one line: the first NONCE and STATUS are the frame's, any other
\* header belongs to the block that follows it.
ScanLine(scan, line) ==
  CASE scan.inside /\ line.is = "close" -> CloseBlock(scan, TRUE)
    [] scan.inside /\ line.is # "close" -> [scan EXCEPT !.collected = Append(@, line)]
    [] ~scan.inside /\ line.is = "open" -> [scan EXCEPT !.inside = TRUE]
    [] ~scan.inside /\ line.is = "NONCE" /\ scan.nonce = {} ->
         [scan EXCEPT !.nonce = {line.val}]
    [] ~scan.inside /\ line.is = "STATUS" /\ scan.status = {} ->
         [scan EXCEPT !.status = {line.val}]
    [] ~scan.inside /\ line.is \in DOMAIN NoHeaders ->
         [scan EXCEPT !.headers[line.is] = {line.val}]
    [] OTHER -> scan

\* The scan before the first line of a body.
Unread == [inside |-> FALSE, collected |-> <<>>, headers |-> NoHeaders,
           blocks |-> <<>>, nonce |-> {}, status |-> {}]

_parse_body(body) ==
  LET scan[i \in 0 .. Len(body)] ==
        IF i = 0 THEN Unread ELSE ScanLine(scan[i - 1], body[i])
      read == scan[Len(body)]
  IN IF read.inside THEN CloseBlock(read, FALSE) ELSE read

IsBegin(line) == line.is = "begin" /\ line.at
IsEnd(line) == line.is = "end" /\ line.at

\* find_reply_frames: every REPLY line opens a frame, which runs up to its END
\* line, the next REPLY line or the end of the text.
find_reply_frames(text) ==
  LET begins == Ascending({i \in DOMAIN text : IsBegin(text[i])})
      stop(i) == Min({j \in i + 1 .. Len(text) : IsBegin(text[j]) \/ IsEnd(text[j])}
                       \cup {Len(text) + 1})
      frameAt(i) ==
        [version |-> text[i].val,
         terminated |-> stop(i) <= Len(text) /\ IsEnd(text[stop(i)]),
         body |-> _parse_body(SubSeq(text, i + 1, stop(i) - 1))]
  IN [k \in DOMAIN begins |-> frameAt(begins[k])]

-----------------------------------------------------------------------------
(***************************************************************************)
(* The validation ladder.  Each layer returns a status, "OK" if it passes. *)
(***************************************************************************)
\* Seeded fault: any frame is the answer.
MatchesAny(nonce, frame) == nonce # {}

_nonce_matches(nonce, frame) == nonce = {frame.nonce}

\* The last frame that is addressed to the request, or else the last one.
\* Seeded fault: the last one.
SelectedLast(frames, frame) == Last(frames)

Selected(frames, frame) ==
  LET matching == {k \in DOMAIN frames : _nonce_matches(frames[k].body.nonce, frame)}
  IN IF matching # {} THEN frames[Max(matching)] ELSE Last(frames)

Refusals == {"REFUSED", "REFUSE", "DECLINED"}

\* L0 and L1.
Framing(f, frame) ==
  LET blocks == f.body.blocks
  IN IF ~f.terminated THEN "MALFORMED"
     ELSE IF f.version # PROTOCOL_VERSION THEN "BAD_VERSION"
     ELSE IF ~_nonce_matches(f.body.nonce, frame) THEN "BAD_NONCE"
     ELSE IF f.body.status \cap Refusals # {} THEN "REFUSED"
     ELSE IF f.body.status \notin {{}, {"OK"}} THEN "MALFORMED"
     ELSE IF \E b \in DOMAIN blocks : ~blocks[b].closed THEN "MALFORMED"
     ELSE IF Len(blocks) # frame.replicas \/ blocks = <<>> THEN "MALFORMED"
     ELSE "OK"

Payload(block, frame) == IF frame.no_trim THEN block.text ELSE Trim(block.text)

Checksums(block) == block.headers["CRC"] \cup block.headers["SUM"]

\* L2 and L3 for one block.  Seeded fault: LEN is not compared.
BlockStatusNoLength(block, frame) ==
  IF \E c \in Checksums(block) : c # Checksum(Payload(block, frame)) THEN "BAD_CHECKSUM"
  ELSE IF Checksums(block) = {} /\ frame.strict THEN "BAD_CHECKSUM"
  ELSE "OK"

BlockStatus(block, frame) ==
  IF block.headers["LEN"] # {Len(Payload(block, frame))} THEN "BAD_LENGTH"
  ELSE IF \E c \in Checksums(block) : c # Checksum(Payload(block, frame)) THEN "BAD_CHECKSUM"
  ELSE IF Checksums(block) = {} /\ frame.strict THEN "BAD_CHECKSUM"
  ELSE "OK"

\* The first block that fails names the failure.
BlocksStatus(blocks, frame) ==
  LET bad == {b \in DOMAIN blocks : BlockStatus(blocks[b], frame) # "OK"}
  IN IF bad = {} THEN "OK" ELSE BlockStatus(blocks[Min(bad)], frame)

DigitsOf(s) == {s[i] : i \in DOMAIN s} \cap ToSet(Digit)

ValueOf(s) ==
  FoldLeft(LAMBDA n, c : (10 * n) + ((CHOOSE d \in 1 .. 10 : Digit[d] = c) % 10), 0, s)

\* A payload without its blanks.
Solid(payload) == SelectSeq(payload, LAMBDA c : c \notin Blank)

\* L5: how many bytes a payload becomes in guest RAM, none if its mode refuses
\* it.  The signs, underscores and 0x that _parse_int takes too, and hexadecimal
\* digits in lower case, are not among the symbols.
Encoded(payload, mode) ==
  LET word == Trim(payload)
      hex == Solid(payload)
  IN CASE mode = "TEXT" -> {Len(payload)}
       [] mode = "NUM" ->
            IF word # <<>> /\ ToSet(word) \subseteq ToSet(Digit) /\ ValueOf(word) <= MaxWord
            THEN {2} ELSE {}
       [] mode = "BYTES" ->
            IF Len(hex) % 2 = 0 /\ ToSet(hex) \subseteq ToSet(Digit) \cup HexLetter
            THEN {Len(hex) \div 2} ELSE {}

\* validate: what the machine makes of a reply.  text is the elected payload
\* before it is decoded, stored the bytes of it that fit the buffer.
Failed(status) ==
  [status |-> status, text |-> <<>>, stored |-> 0, corrected |-> 0, discarded |-> 0]

Accepted(payloads, frame, unchecked) ==
  LET text == Elected(payloads)
      length == Encoded(text, frame.mode)
  IN IF length = {} THEN Failed("BAD_ENCODING")
     ELSE IF (\E n \in length : n > frame.capacity) /\ ~frame.allow_truncate
          THEN Failed("OVERFLOW")
     ELSE [status |-> IF unchecked THEN "DEGRADED" ELSE "OK",
           text |-> text,
           stored |-> Min(length \cup {frame.capacity}),
           corrected |-> Cardinality(Corrected(payloads)),
           discarded |-> Cardinality(Discarded(payloads))]

validate(reply, frame) ==
  LET frames == find_reply_frames(reply)
      raw == Selected(frames, frame)
      blocks == raw.body.blocks
      payloads == [b \in DOMAIN blocks |-> Payload(blocks[b], frame)]
  IN IF frames = <<>> THEN Failed("NO_FRAME")
     ELSE IF Framing(raw, frame) # "OK" THEN Failed(Framing(raw, frame))
     ELSE IF BlocksStatus(blocks, frame) # "OK" THEN Failed(BlocksStatus(blocks, frame))
     ELSE IF ~Elects(payloads) THEN Failed("NO_QUORUM")
     ELSE Accepted(payloads, frame, \E b \in DOMAIN blocks : Checksums(blocks[b]) = {})

Success == {"OK", "DEGRADED"}

=============================================================================
