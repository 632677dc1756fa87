----------------------------- MODULE Assembler -----------------------------
(***************************************************************************)
(* The two-pass assembler of trapcpu/assembler.py and the disassembler of  *)
(* trapcpu/cli.py.                                                         *)
(***************************************************************************)
EXTENDS Isa, Lists

CONSTANTS
  utf8,      \* the encoded bytes of the tokens that occur in strings
  Files      \* the files an .INCLUDE finds, each a sequence of lines

MAX_INCLUDE_DEPTH == 8

Quote == {"'", "\""}
Escapes == [n |-> "LF", t |-> "TAB", r |-> "CR", x41 |-> "A"] @@
           ("0" :> "NUL" @@ Backslash :> Backslash @@ "\"" :> "\"" @@ "'" :> "'")

-----------------------------------------------------------------------------
(***************************************************************************)
(* Lexing.                                                                 *)
(***************************************************************************)
\* Seeded fault: a backslash is an ordinary character.
QuoteStepNoEscape(scan, c) ==
  CASE scan.quote # "" ->
         [scan EXCEPT !.quote = IF c = @ THEN "" ELSE @, !.free = Append(@, FALSE)]
    [] c \in Quote -> [scan EXCEPT !.quote = c, !.free = Append(@, FALSE)]
    [] OTHER -> [scan EXCEPT !.free = Append(@, TRUE)]

\* The scanner that strip_comment, split_operands and split_label share: which
\* positions are outside quotes.
QuoteStep(scan, c) ==
  CASE scan.escaped -> [scan EXCEPT !.escaped = FALSE, !.free = Append(@, FALSE)]
    [] ~scan.escaped /\ c = Backslash /\ scan.quote # "" ->
         [scan EXCEPT !.escaped = TRUE, !.free = Append(@, FALSE)]
    [] ~scan.escaped /\ c # Backslash /\ scan.quote # "" ->
         [scan EXCEPT !.quote = IF c = @ THEN "" ELSE @, !.free = Append(@, FALSE)]
    [] ~scan.escaped /\ scan.quote = "" /\ c \in Quote ->
         [scan EXCEPT !.quote = c, !.free = Append(@, FALSE)]
    [] OTHER -> [scan EXCEPT !.free = Append(@, TRUE)]

Unscanned == [quote |-> "", escaped |-> FALSE, free |-> <<>>]

Scan(tokens) ==
  LET scan[i \in 0 .. Len(tokens)] ==
        IF i = 0 THEN Unscanned ELSE QuoteStep(scan[i - 1], tokens[i])
  IN scan[Len(tokens)]

Unquoted(tokens, c) ==
  LET free == Scan(tokens).free
  IN {i \in DOMAIN tokens : free[i] /\ tokens[i] = c}

strip_comment(line) ==
  LET cuts == Unquoted(line, ";")
  IN IF cuts = {} THEN line ELSE Before(line, Min(cuts))

\* The text between the cuts.
Pieces(text, cuts) ==
  LET From(k) == IF k = 1 THEN 1 ELSE cuts[k - 1] + 1
  IN [k \in DOMAIN cuts |-> Strip(SubSeq(text, From(k), cuts[k] - 1))]

\* An empty operand counts between two commas and not after the last one.
NoEmptyEnd(pieces) == IF Last(pieces) = <<>> THEN Front(pieces) ELSE pieces

split_operands(text) ==
  IF Scan(text).quote # "" THEN Error
  ELSE NoEmptyEnd(Pieces(text, Ascending(Unquoted(text, ",")) \o <<Len(text) + 1>>))

\* No label is a blank.
NoLabel == <<" ">>

split_label(line) ==
  LET colons == Unquoted(line, ":")
  IN IF colons = {} THEN <<NoLabel, Strip(line)>>
     ELSE <<Strip(Before(line, Min(colons))), Strip(After(line, Min(colons)))>>

UnescapeStep(acc, c) ==
  CASE acc = Error -> Error
    [] acc # Error /\ acc.escape /\ c \in DOMAIN Escapes ->
         [escape |-> FALSE, out |-> Append(acc.out, Escapes[c])]
    [] acc # Error /\ acc.escape /\ c \notin DOMAIN Escapes -> Error
    [] acc # Error /\ ~acc.escape /\ c = Backslash -> [acc EXCEPT !.escape = TRUE]
    [] OTHER -> [acc EXCEPT !.out = Append(@, c)]

Unescaped(acc) ==
  IF acc = Error THEN Error ELSE IF acc.escape THEN Error ELSE acc.out

unescape(literal) ==
  LET read[i \in 0 .. Len(literal)] ==
        IF i = 0 THEN [escape |-> FALSE, out |-> <<>>]
        ELSE UnescapeStep(read[i - 1], literal[i])
  IN Unescaped(read[Len(literal)])

\* Both ends of the operand are the quote q.
IsQuoted(operand, q) ==
  Len(operand) >= 2 /\ Head(operand) = q /\ Last(operand) = q

Body(operand) == SubSeq(operand, 2, Len(operand) - 1)

\* The text of a double quoted operand, and its bytes.
Quoted(operand) == IF IsQuoted(operand, "\"") THEN unescape(Body(operand)) ELSE Error
encode(text) ==
  IF text = Error THEN Error ELSE FlattenSeq([i \in DOMAIN text |-> utf8[text[i]]])

string_operand(operand) == encode(Quoted(operand))

-----------------------------------------------------------------------------
(***************************************************************************)
(* Expressions.  A symbol is a number, or the text of a constant whose     *)
(* definition could not be evaluated where it stood.                       *)
(***************************************************************************)
Number(n) == [deferred |-> FALSE, is |-> n]
Deferred(text) == [deferred |-> TRUE, is |-> text]

Character(text) ==
  IF text = Error THEN Error
  ELSE IF Len(text) = 1 /\ text[1] \in DOMAIN ord THEN ord[text[1]] ELSE Error

\* The value of a term, {} if it is a name.
parse_number(term) ==
  IF Len(term) = 1 /\ term[1] \in DOMAIN Numeral THEN {Numeral[term[1]]}
  ELSE IF Len(term) >= 3 /\ IsQuoted(term, "'") THEN {Character(unescape(Body(term)))}
  ELSE {}

Close(acc) ==
  IF Strip(acc.current) = <<>> THEN acc.terms
  ELSE Append(acc.terms, [sign |-> acc.sign, term |-> Strip(acc.current)])

TermStep(acc, c) ==
  CASE acc.quote ->
         [acc EXCEPT !.current = Append(@, c),
                     !.escaped = ~@ /\ c = Backslash,
                     !.quote = acc.escaped \/ c # "'"]
    [] ~acc.quote /\ c = "'" -> [acc EXCEPT !.quote = TRUE, !.current = Append(@, c)]
    [] ~acc.quote /\ c \in {"+", "-"} /\ Strip(acc.current) # <<>> ->
         [acc EXCEPT !.terms = Close(acc), !.current = <<>>,
                     !.sign = IF c = "+" THEN 1 ELSE -1]
    [] ~acc.quote /\ c \in {"+", "-"} /\ Strip(acc.current) = <<>> ->
         [acc EXCEPT !.current = <<>>, !.sign = IF c = "-" THEN -@ ELSE @]
    [] OTHER -> [acc EXCEPT !.current = Append(@, c)]

NoTerms ==
  [terms |-> <<>>, current |-> <<>>, sign |-> 1, quote |-> FALSE, escaped |-> FALSE]

_tokenize_expression(expression) ==
  LET read[i \in 0 .. Len(expression)] ==
        IF i = 0 THEN NoTerms ELSE TermStep(read[i - 1], expression[i])
  IN Close(read[Len(expression)])

Resolve(numbers, name, known) ==
  IF numbers # {} THEN CHOOSE n \in numbers : TRUE
  ELSE IF name \in DOMAIN known THEN known[name] ELSE Error

Plus(sum, sign, value) ==
  IF sum = Error \/ value = Error THEN Error ELSE sum + sign * value

Value(term, known) == Resolve(parse_number(term), upper(term), known)

\* The sum of the terms, the names taken from known; Error if one has no value.
Total(terms, known) ==
  LET sum[i \in 0 .. Len(terms)] ==
        IF i = 0 THEN 0 ELSE Plus(sum[i - 1], terms[i].sign, Value(terms[i].term, known))
  IN sum[Len(terms)]

evaluate(expression, known) ==
  IF Strip(expression) = <<>> THEN Error ELSE Total(_tokenize_expression(expression), known)

Defined(values) == [name \in {n \in DOMAIN values : values[n] # Error} |-> values[name]]

\* The values of the names in known, and of those in more.
Beyond(known, more) ==
  [name \in DOMAIN known \cup DOMAIN more |->
     IF name \in DOMAIN known THEN known[name] ELSE more[name]]

\* The values of all symbols.  A deferred constant has one as soon as all the
\* names in it have; one that is circular, or hangs on an unknown name, never.
Values(symbols) ==
  LET Round[n \in 0 .. Cardinality(DOMAIN symbols)] ==
        IF n = 0
        THEN [name \in {s \in DOMAIN symbols : ~symbols[s].deferred} |-> symbols[name].is]
        ELSE Beyond(Round[n - 1],
                    Defined([s \in DOMAIN symbols \ DOMAIN Round[n - 1] |->
                               evaluate(symbols[s].is, Round[n - 1])]))
  IN Round[Cardinality(DOMAIN symbols)]

-----------------------------------------------------------------------------
(***************************************************************************)
(* Includes are spliced in before anything else is looked at.              *)
(***************************************************************************)
Bare(line) == Strip(strip_comment(line))

\* Everything before the first blank, and what follows it.
Word1(tokens) ==
  LET blanks == {i \in DOMAIN tokens : tokens[i] = " "}
  IN IF blanks = {} THEN <<tokens, <<>>>>
     ELSE <<Before(tokens, Min(blanks)), Strip(After(tokens, Min(blanks)))>>

IsInclude(unit) == upper(Word1(Bare(unit.line))[1]) = <<".INCLUDE">>

\* stack: the files the line comes from.
Units(lines, stack) == [i \in DOMAIN lines |-> [line |-> lines[i], stack |-> stack]]

Inclusion(unit, target) ==
  IF target = Error \/ target \notin DOMAIN Files \/ target \in unit.stack THEN <<Error>>
  ELSE Units(Files[target], unit.stack \cup {target})

Spread(unit) ==
  IF IsInclude(unit) THEN Inclusion(unit, Quoted(Word1(Bare(unit.line))[2])) ELSE <<unit>>

AllSpread(units) ==
  IF Contains(units, Error) THEN <<Error>>
  ELSE FlattenSeq([i \in DOMAIN units |-> Spread(units[i])])

expand_includes(lines) ==
  LET Round[n \in 0 .. MAX_INCLUDE_DEPTH] ==
        IF n = 0 THEN Units(lines, {}) ELSE AllSpread(Round[n - 1])
      units == Round[MAX_INCLUDE_DEPTH]
  IN IF Contains(units, Error) THEN Error
     ELSE IF \E i \in DOMAIN units : IsInclude(units[i]) THEN Error
     ELSE [i \in DOMAIN units |-> units[i].line]

\* A line as label, operation and operands; op is "" if there is none.
Statement(label, op, operands) ==
  IF label = <<>> \/ operands = Error THEN Error
  ELSE [label |-> upper(label), operands |-> operands,
        op |-> CASE op = <<>> -> ""
                 [] Len(op) = 1 -> upper(op)[1]
                 [] OTHER -> "unknown"]

Parted(label, words) == Statement(label, words[1], split_operands(words[2]))

Record(line) ==
  LET parts == split_label(Bare(line))
  IN Parted(parts[1], Word1(parts[2]))

_parse_source(lines) ==
  LET records[i \in 0 .. Len(lines)] ==
        CASE i = 0 -> <<>>
          [] i > 0 /\ Bare(lines[i]) = <<>> -> records[i - 1]
          [] OTHER -> Append(records[i - 1], Record(lines[i]))
  IN records[Len(lines)]

-----------------------------------------------------------------------------
(***************************************************************************)
(* Pass one: addresses, labels, constants.                                 *)
(***************************************************************************)
StringBytes(operands) == Joined([i \in DOMAIN operands |-> string_operand(operands[i])])

Length(bytes, end) == IF bytes = Error THEN Error ELSE Len(bytes) + end

AtLeast(low, value) ==
  IF value = Error THEN Error ELSE IF value < low THEN Error ELSE value

\* known: the values of the symbols, here and below.
_sizeof(op, operands, known) ==
  CASE op \in DOMAIN OPS -> width(op)
    [] op = ".DB" -> Len(operands)
    [] op = ".DW" -> 2 * Len(operands)
    [] op \in {".ASCII", ".ASCIIZ"} -> Length(StringBytes(operands), Bit(op = ".ASCIIZ"))
    [] op = ".RESB" /\ Len(operands) = 1 -> AtLeast(0, evaluate(operands[1], known))
    [] OTHER -> Error

Section == {"CODE", "DATA"}

Here(pass) == pass.address[pass.section]

Define(pass, name, symbol) == [pass EXCEPT !.symbols = With(@, name, symbol)]

Label(pass, r) ==
  IF r.label = NoLabel THEN pass
  ELSE IF r.label \in DOMAIN pass.symbols THEN Error
  ELSE Define(pass, r.label, Number(Here(pass)))

\* The single operand of .ORG and .ALIGN.
Single(r, known) ==
  IF Len(r.operands) = 1 THEN evaluate(r.operands[1], known) ELSE Error

Move(pass, r, address) ==
  LET moved == [pass EXCEPT !.address[pass.section] = address % WordSize]
  IN IF r.label = NoLabel THEN moved
     ELSE Define(moved, r.label, Number(address % WordSize))

Org(pass, r, known) ==
  IF Single(r, known) = Error THEN Error ELSE Move(pass, r, Single(r, known))

\* Seeded fault: a forward reference in a constant is an error.
EquBackward(pass, r, known) ==
  LET name == upper(r.operands[1])
      value == evaluate(r.operands[2], known)
  IN IF name \in DOMAIN pass.symbols \/ value = Error THEN Error
     ELSE Define(pass, name, Number(value))

Equ(pass, r, known) ==
  IF Len(r.operands) # 2 THEN Error
  ELSE LET name == upper(r.operands[1])
           value == evaluate(r.operands[2], known)
       IN IF name = <<>> \/ name \in DOMAIN pass.symbols THEN Error
          ELSE Define(pass, name,
                      IF value = Error THEN Deferred(r.operands[2]) ELSE Number(value))

Aligned(pass, boundary) ==
  IF boundary = Error THEN Error
  ELSE [pass EXCEPT !.address[pass.section] = @ + ((-@) % boundary)]

Align(pass, r, known) == Aligned(pass, AtLeast(1, Single(r, known)))

Take(pass, r, size) ==
  IF size = Error THEN Error
  ELSE [pass EXCEPT !.layout = Append(@, [section |-> pass.section, address |-> Here(pass),
                                          op |-> r.op, operands |-> r.operands]),
                    !.address[pass.section] = @ + size]

Place(pass, r, known) == Take(pass, r, _sizeof(r.op, r.operands, known))

Directive(pass, r, known) ==
  CASE r.op = "" -> pass
    [] r.op = ".CODE" -> [pass EXCEPT !.section = "CODE"]
    [] r.op = ".DATA" -> [pass EXCEPT !.section = "DATA"]
    [] r.op = ".ORG" -> Org(pass, r, known)
    [] r.op = ".EQU" -> Equ(pass, r, known)
    [] r.op = ".ALIGN" -> Align(pass, r, known)
    [] OTHER -> Place(pass, r, known)

Labelled(pass, r) == IF pass = Error THEN Error ELSE Directive(pass, r, Values(pass.symbols))

PassOneStep(pass, r) ==
  IF pass = Error \/ r = Error THEN Error ELSE Labelled(Label(pass, r), r)

Unpassed ==
  [symbols |-> <<>>, address |-> [s \in Section |-> 0], section |-> "CODE", layout |-> <<>>]

PassOne(records) ==
  LET pass[i \in 0 .. Len(records)] ==
        IF i = 0 THEN Unpassed ELSE PassOneStep(pass[i - 1], records[i])
  IN pass[Len(records)]

-----------------------------------------------------------------------------
(***************************************************************************)
(* Pass two: bytes.  A memory is a function on the addresses that were     *)
(* written.                                                                *)
(***************************************************************************)
InByte(value) == IF value = Error THEN Error ELSE IF value \in Byte THEN <<value>> ELSE Error
InWord(value) == IF value = Error THEN Error ELSE Bytes16(value % WordSize)

\* The bytes of a placed line; known: the values of the symbols.
Emitted(line, known) ==
  LET value == [i \in DOMAIN line.operands |-> evaluate(line.operands[i], known)]
      bytes == [i \in DOMAIN value |-> InByte(value[i])]
      words == [i \in DOMAIN value |-> InWord(value[i])]
  IN CASE line.op = ".DB" -> Joined(bytes)
       [] line.op = ".DW" -> Joined(words)
       [] line.op = ".ASCII" -> StringBytes(line.operands)
       [] line.op = ".ASCIIZ" -> Append(StringBytes(line.operands), 0)
       [] line.op = ".RESB" -> <<>>
       [] line.op \in DOMAIN OPS ->
            LET parts == CASE line.op \in ARG8_OPS -> bytes
                           [] line.op \in ARG16_OPS -> words
                           [] OTHER -> <<>>
            IN IF Len(line.operands) # (IF width(line.op) = 1 THEN 0 ELSE 1) THEN Error
               ELSE Joined(<<<<OPS[line.op]>>>> \o parts)

End(segment) == segment.base + Len(segment.blob)

\* Seeded fault: a write goes to whichever segment it continues.
EmitAnywhere(segments, address, data) ==
  LET ends == {i \in DOMAIN segments : End(segments[i]) = address}
  IN IF data = <<>> THEN segments
     ELSE IF ends # {} THEN [segments EXCEPT ![Max(ends)].blob = @ \o data]
     ELSE Append(segments, [base |-> address, blob |-> data])

\* A write that continues the last segment is merged into it.
Emit(segments, address, data) ==
  IF data = <<>> THEN segments
  ELSE IF segments # <<>> /\ End(Last(segments)) = address
  THEN [segments EXCEPT ![Len(segments)].blob = @ \o data]
  ELSE Append(segments, [base |-> address, blob |-> data])

\* The segments of a section.
PassTwo(layout, known, section) ==
  LET segments[i \in 0 .. Len(layout)] ==
        CASE i = 0 -> <<>>
          [] i > 0 /\ layout[i].section = section ->
               Emit(segments[i - 1], layout[i].address, Emitted(layout[i], known))
          [] OTHER -> segments[i - 1]
  IN segments[Len(layout)]

Stretch(segment) == segment.base .. End(segment) - 1

\* The memory that holds the segments, each stored over those before it.
Stored(segments) ==
  LET holder(a) == segments[Max({i \in DOMAIN segments : a \in Stretch(segments[i])})]
  IN [a \in UNION {Stretch(segments[i]) : i \in DOMAIN segments} |->
        holder(a).blob[a - holder(a).base + 1]]

Size(segments) == Max({0} \cup {End(segments[i]) : i \in DOMAIN segments})

\* code and data: the segments of the two sections.  (flat() makes one blob of
\* the code segments in the same way load() stores those of the data.)
Link(pass, known) ==
  IF \/ DOMAIN known # DOMAIN pass.symbols
     \/ \E i \in DOMAIN pass.layout : Emitted(pass.layout[i], known) = Error
  THEN Error
  ELSE [code |-> PassTwo(pass.layout, known, "CODE"),
        data |-> PassTwo(pass.layout, known, "DATA"),
        symbols |-> known, layout |-> pass.layout]

LaidOut(units) == IF units = Error THEN Error ELSE PassOne(_parse_source(units))

Linked(pass) == IF pass = Error THEN Error ELSE Link(pass, Values(pass.symbols))

assemble(lines) == Linked(LaidOut(expand_includes(lines)))

-----------------------------------------------------------------------------
(***************************************************************************)
(* cli.py disassemble(): the listing of the bytes code[0] ... code[n - 1]. *)
(***************************************************************************)
\* Seeded fault: an operand that ends the code is not decoded.
FitsShort(name, pc, n) == pc + width(name) < n

Fits(name, pc, n) == pc + width(name) <= n

DecodeAt(code, pc, n) ==
  LET name == Mnemonic(At(code, pc))
      operand == CASE width(name) = 1 -> 0
                   [] width(name) = 2 -> At(code, pc + 1)
                   [] width(name) = 3 -> At(code, pc + 1) + 256 * At(code, pc + 2)
  IN IF At(code, pc) \notin Opcode
     THEN [at |-> pc, name |-> "???", operand |-> 0, width |-> 1]
     ELSE IF Fits(name, pc, n)
     THEN [at |-> pc, name |-> name, operand |-> operand, width |-> width(name)]
     ELSE [at |-> pc, name |-> name, operand |-> 0, width |-> 1]

disassemble(code, n) ==
  LET From[pc \in 0 .. n] ==
        IF pc = n THEN <<>>
        ELSE <<DecodeAt(code, pc, n)>> \o From[pc + DecodeAt(code, pc, n).width]
  IN From[0]
=============================================================================
