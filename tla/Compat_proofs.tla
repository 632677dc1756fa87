---------------------------- MODULE Compat_proofs ----------------------------
(***************************************************************************)
(* Theorems about Compat: what MiniOS runs, the original runs alike, and   *)
(* TRAPCPU makes the same bytes as the original of every portable program  *)
(* and runs it as the original did.  From the lines of a text to the bytes *)
(* of its program (each pass a function that is followed line by line),    *)
(* from the bytes to what one instruction does on each machine, and from   *)
(* there to sessions of any length, on any disk, with any limit of cycles. *)
(***************************************************************************)
EXTENDS Compat, Lists_proofs, TLAPS

-----------------------------------------------------------------------------
(***************************************************************************)
(* Words and bytes.                                                        *)
(***************************************************************************)
\* Words are written out: the provers enumerate an interval of numerals.
LEMMA WordRange == \A w : w \in Word <=> w \in Nat /\ w < 65536
<1>1. \A w : w \in Word <=> w \in Nat /\ w <= WordSize - 1
  <2>1. WordSize \in Nat
    BY DEF WordSize
  <2> QED
    BY <2>1 DEF Word
<1>2. WordSize = 65536
  BY DEF WordSize
<1> QED
  BY <1>1, <1>2

\* Bytes, written out.
LEMMA ByteRange == \A b : b \in Byte <=> b \in Nat /\ b < 256
  BY DEF Byte

\* Bytes of a word, words of a byte or two.
LEMMA BytesOfWords ==
  /\ \A n \in Int : Wrap(n) \in Word /\ Low(n) \in Byte /\ High(n) \in Byte
  /\ \A w \in Word : Wrap(w) = w
  /\ \A a, b \in Byte : a + 256 * b \in Word /\ 256 * a + b \in Word /\ a \in Word
<1>1. WordSize = 65536
  BY DEF WordSize
<1>2. \A n \in Int : Wrap(n) \in Word /\ Low(n) \in Byte /\ High(n) \in Byte
  BY <1>1, WordRange, ByteRange DEF Wrap, Low, High
<1>3. \A w \in Word : Wrap(w) = w
  BY <1>1, WordRange DEF Wrap
<1>4. \A a, b \in Byte : a + 256 * b \in Word /\ 256 * a + b \in Word /\ a \in Word
  BY WordRange, ByteRange
<1> QED
  BY <1>2, <1>3, <1>4

-----------------------------------------------------------------------------
(***************************************************************************)
(* The assembler of the original.                                          *)
(***************************************************************************)
\* The passes over the first lines, one line after the other.
LEMMA PassOneRuns ==
  ASSUME NEW S, NEW text \in Seq(S)
  PROVE  \E f : /\ f[0] = Unpassed /\ f[Len(text)] = PassOne(text)
                /\ \A k \in 1 .. Len(text) : f[k] = PassOneStep(f[k - 1], text[k])
<1> DEFINE n == Len(text)
           Goes(f, m) == f[0] = Unpassed /\ \A k \in 1 .. m : f[k] = PassOneStep(f[k - 1], text[k])
           On(f, i) == IF i = 0 THEN Unpassed ELSE PassOneStep(f[i - 1], text[i])
           Runs(f) == f = [i \in 0 .. n |-> On(f, i)]
           K == {m \in 0 .. n : \E f : Goes(f, m)}
<1>1. n \in Nat
  OBVIOUS
<1>2. PassOne(text) = (CHOOSE f : Runs(f))[n]
  BY DEF PassOne
<1> HIDE DEF n
<1>3. 0 \in K
  <2> DEFINE f == [i \in 0 .. 0 |-> Unpassed]
  <2>1. f[0] = Unpassed /\ 1 .. 0 = {} /\ 0 \in 0 .. n
    BY <1>1
  <2> HIDE DEF f
  <2> QED
    BY <2>1
<1>4. ASSUME NEW m \in 0 .. n - 1, m \in K PROVE m + 1 \in K
  <2>1. PICK f : Goes(f, m)
    BY <1>4
  <2> DEFINE last == PassOneStep(f[m], text[m + 1])
  <2> HIDE DEF last
  <2> DEFINE g == [i \in 0 .. m + 1 |-> IF i <= m THEN f[i] ELSE last]
  <2>2. (\A i \in 0 .. m : g[i] = f[i]) /\ g[m + 1] = last /\ m + 1 \in 0 .. n
    BY <1>1
  <2> HIDE DEF g
  <2>3. ASSUME NEW k \in 1 .. m + 1 PROVE g[k] = PassOneStep(g[k - 1], text[k])
    <3>1. CASE k = m + 1
      <4>1. g[k - 1] = f[m] /\ g[k] = last
        BY <1>1, <2>2, <3>1
      <4> QED
        BY <3>1, <4>1 DEF last
    <3>2. CASE k # m + 1
      <4>1. g[k - 1] = f[k - 1] /\ g[k] = f[k] /\ k \in 1 .. m
        BY <1>1, <2>2, <3>2
      <4> QED
        BY <2>1, <4>1, Zenon
    <3> QED
      BY <3>1, <3>2
  <2>4. g[0] = Unpassed
    BY <1>1, <2>1, <2>2
  <2>5. Goes(g, m + 1)
    BY <2>3, <2>4, Zenon
  <2> QED
    BY <2>2, <2>5, Zenon
<1> HIDE DEF K
<1>5. \A k \in 0 .. n : k \in K
  BY <1>1, <1>3, <1>4, Induction
<1>6. PICK f : Goes(f, n)
  <2>1. n \in K
    BY <1>1, <1>5
  <2> HIDE DEF Goes
  <2> QED
    BY <2>1 DEF K
<1> DEFINE h == [i \in 0 .. n |-> f[i]]
<1>7. Runs(h)
  <2>1. \A i \in 0 .. n : h[i] = f[i]
    OBVIOUS
  <2>2. h = [i \in 0 .. n |-> h[i]]
    OBVIOUS
  <2> HIDE DEF h
  <2>3. ASSUME NEW i \in 0 .. n PROVE h[i] = On(h, i)
    <3>1. CASE i = 0
      BY <1>6, <2>1, <3>1
    <3>2. CASE i # 0
      <4>1. i \in 1 .. n /\ i - 1 \in 0 .. n
        BY <1>1, <3>2
      <4>2. h[i] = PassOneStep(h[i - 1], text[i])
        BY <1>6, <2>1, <4>1, Zenon
      <4> QED
        BY <3>2, <4>2, Zenon
    <3> QED
      BY <3>1, <3>2
  <2> HIDE DEF On
  <2>4. [i \in 0 .. n |-> h[i]] = [i \in 0 .. n |-> On(h, i)]
    BY <2>3, Zenon
  <2> QED
    BY <2>2, <2>4, Zenon
<1> HIDE DEF h
<1> DEFINE p == CHOOSE g : Runs(g)
<1>8. Runs(p)
  <2> HIDE DEF Runs
  <2> QED
    BY <1>7, Zenon
<1>9. p[n] = PassOne(text)
  BY <1>2, Zenon
<1> HIDE DEF p
<1>10. \A i \in 0 .. n : p[i] = On(p, i)
  <2> HIDE DEF On
  <2> QED
    BY <1>8, Zenon
<1>11. p[0] = Unpassed /\ \A k \in 1 .. n : p[k] = PassOneStep(p[k - 1], text[k])
  <2>1. 0 \in 0 .. n /\ \A k \in 1 .. n : k \in 0 .. n /\ k # 0
    BY <1>1
  <2> QED
    BY <1>10, <2>1, Zenon
<1> QED
  BY <1>9, <1>11, Zenon DEF n

\* What a pass keeps: the addresses of the labels, the address it is at, and the
\* lines without their labels.
PassFields == {"labels", "pc", "lines"}

\* What a pass makes of a line, field by field.
LEMMA PassGoes ==
  ASSUME NEW pass, NEW raw, DOMAIN pass = PassFields, PassOneStep(pass, raw) # Error
  PROVE  LET next == PassOneStep(pass, raw)
             line == Code(raw)
             rest == Unlabelled(line)
             op == Operation(Words(rest))
             label == LabelOf(line)
         IN /\ pass # Error /\ DOMAIN next = PassFields
            /\ next.labels = IF Places(line, ":") = {} THEN pass.labels ELSE With(pass.labels, label, pass.pc)
            /\ next.pc = IF rest = <<>> THEN pass.pc ELSE pass.pc + Size(op)
            /\ next.lines = IF rest = <<>> THEN pass.lines ELSE Append(pass.lines, rest)
            /\ rest # <<>> => op # Error
<1> DEFINE next == PassOneStep(pass, raw)
           line == Code(raw)
           rest == Unlabelled(line)
           op == Operation(Words(rest))
           label == LabelOf(line)
           labelled == IF Places(line, ":") = {} THEN pass
                       ELSE [pass EXCEPT !.labels = With(@, label, pass.pc)]
           ended == [labelled EXCEPT !.pc = @ + Size(op), !.lines = Append(@, rest)]
<1>1. next = CASE pass = Error -> Error
               [] pass # Error /\ rest = <<>> -> labelled
               [] pass # Error /\ rest # <<>> /\ op = Error -> Error
               [] OTHER -> ended
  BY DEF PassOneStep
<1> HIDE DEF next, op, rest
<1>2. /\ DOMAIN labelled = PassFields
      /\ labelled.labels = IF Places(line, ":") = {} THEN pass.labels ELSE With(pass.labels, label, pass.pc)
      /\ labelled.pc = pass.pc /\ labelled.lines = pass.lines
  <2> HIDE DEF label, line
  <2> QED
    BY DEF PassFields
<1> HIDE DEF labelled, label, line
<1>3. /\ DOMAIN ended = PassFields /\ ended.labels = labelled.labels
      /\ ended.pc = labelled.pc + Size(op) /\ ended.lines = Append(labelled.lines, rest)
  BY <1>2 DEF PassFields
<1> HIDE DEF ended
<1>4. next # Error
  BY DEF next
<1>5. pass # Error /\ (rest # <<>> => op # Error) /\ next = IF rest = <<>> THEN labelled ELSE ended
  BY <1>1, <1>4
<1>6. /\ DOMAIN next = PassFields
      /\ next.labels = IF Places(line, ":") = {} THEN pass.labels ELSE With(pass.labels, label, pass.pc)
      /\ next.pc = IF rest = <<>> THEN pass.pc ELSE pass.pc + Size(op)
      /\ next.lines = IF rest = <<>> THEN pass.lines ELSE Append(pass.lines, rest)
  BY <1>2, <1>3, <1>5
<1> QED
  BY <1>5, <1>6 DEF next, line, rest, op, label

\* A number is an integer, if it is one.
LEMMA Numbers == ASSUME NEW word PROVE number(word) = Error \/ number(word) \in Int
<1> DEFINE signed == Len(word) = 2 /\ word[1] \in {"+", "-"} /\ word[2] \in Decimal
<1>1. CASE Len(word) = 1 /\ word[1] \in DOMAIN Numeral
  <2>1. number(word) = Numeral[word[1]]
    BY <1>1 DEF number
  <2> QED
    BY <1>1, <2>1, NumeralsAssumption
<1>2. CASE Len(word) = 3 /\ word[1] = "'" /\ word[3] = "'" /\ word[2] \in DOMAIN ord
  <2>1. number(word) = ord[word[2]]
    BY <1>2 DEF number
  <2> QED
    BY <1>2, <2>1, NumeralsAssumption
<1>3. CASE signed
  <2>1. number(word) = IF word[1] = "-" THEN -Numeral[word[2]] ELSE Numeral[word[2]]
    BY <1>3 DEF number
  <2> QED
    BY <1>3, <2>1, NumeralsAssumption
<1>4. CASE /\ ~(Len(word) = 1 /\ word[1] \in DOMAIN Numeral)
           /\ ~(Len(word) = 3 /\ word[1] = "'" /\ word[3] = "'" /\ word[2] \in DOMAIN ord)
           /\ ~signed
  BY <1>4, Zenon DEF number
<1> QED
  BY <1>1, <1>2, <1>3, <1>4

\* Each mnemonic has one opcode.
LEMMA Opcodes ==
  /\ DOMAIN OPS = {Mnemonics[i] : i \in 1 .. 34}
  /\ \A name \in DOMAIN OPS : OPS[name] \in 0 .. 33 /\ OPS[name] \in Byte /\ Mnemonics[OPS[name] + 1] = name
<1>1. DOMAIN Mnemonics = 1 .. 34
  BY DEF Mnemonics
<1>2. DOMAIN OPS = {Mnemonics[i] : i \in 1 .. 34}
  BY <1>1 DEF OPS
<1>3. ASSUME NEW name \in DOMAIN OPS PROVE OPS[name] \in 0 .. 33 /\ Mnemonics[OPS[name] + 1] = name
  <2> DEFINE i == CHOOSE i \in 1 .. 34 : Mnemonics[i] = name
  <2>1. \E k \in 1 .. 34 : Mnemonics[k] = name
    BY <1>2
  <2>2. i \in 1 .. 34 /\ Mnemonics[i] = name
    BY <2>1
  <2>3. OPS[name] = i - 1
    BY <1>1 DEF OPS
  <2> HIDE DEF i
  <2> QED
    BY <2>2, <2>3
<1> QED
  BY <1>2, <1>3, ByteRange

\* A line is encoded in as many bytes as its instruction takes.
LEMMA EncodedBytes ==
  ASSUME NEW op, op = Error \/ op \in DOMAIN OPS, NEW value, value = Error \/ value \in Int,
         Encoded(op, value) # Error
  PROVE  Encoded(op, value) \in Seq(Byte) /\ Len(Encoded(op, value)) = Size(op) /\ op # Error
         /\ Encoded(op, value)[1] = OPS[op]
<1>1. op # Error /\ Size(op) \in {1, 2, 3}
  BY DEF Encoded, Size
<1>2. OPS[op] \in Byte
  BY <1>1, Opcodes
<1>3. CASE Size(op) = 1
  <2>1. Encoded(op, value) = <<OPS[op]>>
    BY <1>1, <1>3 DEF Encoded
  <2> QED
    BY <1>1, <1>2, <1>3, <2>1
<1>4. CASE Size(op) = 2
  <2>1. value # Error /\ Encoded(op, value) = <<OPS[op], Low(value)>>
    BY <1>1, <1>4 DEF Encoded
  <2>2. Low(value) \in Byte
    BY <2>1, BytesOfWords
  <2> QED
    BY <1>1, <1>2, <1>4, <2>1, <2>2
<1>5. CASE Size(op) = 3
  <2>1. value # Error /\ Encoded(op, value) = <<OPS[op]>> \o Bytes16(Wrap(value))
    BY <1>1, <1>5 DEF Encoded
  <2>2. Wrap(value) \in Int
    BY <2>1, BytesOfWords, WordRange
  <2>3. Low(Wrap(value)) \in Byte /\ High(Wrap(value)) \in Byte
    BY <2>2, BytesOfWords
  <2> QED
    BY <1>1, <1>2, <1>5, <2>1, <2>3 DEF Bytes16
<1> QED
  BY <1>1, <1>3, <1>4, <1>5

\* What an operand that is no label comes to.
LEMMA Arguments ==
  ASSUME NEW op, NEW words, NEW labels, \A l \in DOMAIN labels : labels[l] \in Nat
  PROVE  Argument(op, words, labels) = Error \/ Argument(op, words, labels) \in Int
  BY Numbers DEF Argument

\* What the second pass makes of a line is bytes.
LEMMA EmittedBytes ==
  ASSUME NEW line, NEW labels, \A l \in DOMAIN labels : labels[l] \in Nat, Emitted(line, labels) # Error
  PROVE  Emitted(line, labels) \in Seq(Byte)
<1> DEFINE words == Words(Unlabelled(line))
           op == Operation(words)
           value == Argument(op, words, labels)
<1>1. op = Error \/ op \in DOMAIN OPS
  BY DEF Operation
<1>2. value = Error \/ value \in Int
  BY Arguments
<1>3. Emitted(line, labels) = IF Unlabelled(line) = <<>> THEN <<>> ELSE Encoded(op, value)
  BY DEF Emitted, Instruction
<1> HIDE DEF op, value
<1>4. CASE Unlabelled(line) = <<>>
  BY <1>3, <1>4
<1>5. CASE Unlabelled(line) # <<>>
  BY <1>1, <1>2, <1>3, <1>5, EncodedBytes
<1> QED
  BY <1>4, <1>5

\* The fields of a pass have their types.
TypedPass(pass) ==
  /\ DOMAIN pass = PassFields /\ pass.pc \in Nat /\ IsSeq(pass.lines)
  /\ \A l \in DOMAIN pass.labels : pass.labels[l] \in Nat

\* The first pass keeps those types.
LEMMA PassTypes ==
  ASSUME NEW S, NEW text \in Seq(S), NEW f, f[0] = Unpassed,
         \A k \in 1 .. Len(text) : f[k] = PassOneStep(f[k - 1], text[k])
  PROVE  \A k \in 0 .. Len(text) : f[k] = Error \/ TypedPass(f[k])
<1> DEFINE n == Len(text)
           K == {k \in 0 .. n : f[k] = Error \/ TypedPass(f[k])}
<1>1. n \in Nat
  OBVIOUS
<1>2. 0 \in K
  <2>1. 0 \in 0 .. n
    BY <1>1
  <2>2. DOMAIN Unpassed = PassFields /\ Unpassed.pc = 0 /\ Unpassed.lines = <<>> /\ Unpassed.labels = <<>>
    BY DEF Unpassed, PassFields
  <2>3. DOMAIN Unpassed.labels = {}
    BY <2>2
  <2> QED
    BY <2>1, <2>2, <2>3, Empty DEF TypedPass
<1>3. ASSUME NEW k \in 0 .. n - 1, k \in K PROVE k + 1 \in K
  <2>1. k + 1 \in 0 .. n /\ f[k + 1] = PassOneStep(f[k], text[k + 1])
    BY <1>1
  <2> DEFINE pass == f[k]
             raw == text[k + 1]
             next == PassOneStep(pass, raw)
  <2>2. CASE next = Error
    BY <2>1, <2>2
  <2>3. CASE next # Error
    <3>0. pass # Error
      BY <2>3 DEF PassOneStep
    <3>1. TypedPass(pass)
      BY <1>3, <3>0
    <3> DEFINE line == Code(raw)
               rest == Unlabelled(line)
               op == Operation(Words(rest))
               label == LabelOf(line)
    <3>2. /\ DOMAIN next = PassFields
          /\ next.labels = IF Places(line, ":") = {} THEN pass.labels ELSE With(pass.labels, label, pass.pc)
          /\ next.pc = IF rest = <<>> THEN pass.pc ELSE pass.pc + Size(op)
          /\ next.lines = IF rest = <<>> THEN pass.lines ELSE Append(pass.lines, rest)
      BY <2>3, <3>1, PassGoes DEF TypedPass
    <3> HIDE DEF pass, next, label, rest, op
    <3>3. Size(op) \in Nat
      BY DEF Size
    <3>4. next.pc \in Nat
      BY <3>1, <3>2, <3>3 DEF TypedPass
    <3>5. IsSeq(next.lines)
      BY <3>1, <3>2, Appended DEF TypedPass
    <3>6. \A l \in DOMAIN With(pass.labels, label, pass.pc) : With(pass.labels, label, pass.pc)[l] \in Nat
      BY <3>1 DEF With, TypedPass
    <3>7. \A l \in DOMAIN next.labels : next.labels[l] \in Nat
      BY <3>1, <3>2, <3>6 DEF TypedPass
    <3>8. TypedPass(next)
      BY <3>2, <3>4, <3>5, <3>7 DEF TypedPass
    <3> QED
      BY <2>1, <3>8 DEF next, pass
  <2> QED
    BY <2>2, <2>3
<1> HIDE DEF K
<1>4. \A k \in 0 .. n : k \in K
  BY <1>1, <1>2, <1>3, Induction
<1> QED
  BY <1>4 DEF K

\* The pieces the second pass makes of the lines.
Made(pass) == [i \in DOMAIN pass.lines |-> Emitted(pass.lines[i], pass.labels)]

\* What is assembled is made of the bytes of the lines, one line after the other.
LEMMA PassTwoMakes ==
  ASSUME NEW pass, pass = Error \/ TypedPass(pass), PassTwo(pass) # Error
  PROVE  /\ pass # Error /\ TypedPass(pass)
         /\ Made(pass) \in Seq(Seq(Byte)) /\ DOMAIN Made(pass) = DOMAIN pass.lines
         /\ \A i \in DOMAIN pass.lines : Emitted(pass.lines[i], pass.labels) # Error
         /\ PassTwo(pass) = FlattenSeq(Made(pass))
<1>1. pass # Error /\ PassTwo(pass) = Joined(Made(pass))
  BY DEF PassTwo, Made
<1>2. TypedPass(pass)
  BY <1>1
<1>3. (\A i \in DOMAIN Made(pass) : Made(pass)[i] # Error) /\ PassTwo(pass) = FlattenSeq(Made(pass))
  BY <1>1 DEF Joined
<1>4. DOMAIN Made(pass) = DOMAIN pass.lines
      /\ \A i \in DOMAIN pass.lines : Made(pass)[i] = Emitted(pass.lines[i], pass.labels)
  BY DEF Made
<1>5. \A i \in DOMAIN pass.lines : Made(pass)[i] \in Seq(Byte)
  BY <1>2, <1>3, <1>4, EmittedBytes DEF TypedPass
<1>6. DOMAIN pass.lines = 1 .. Len(pass.lines) /\ Len(pass.lines) \in Nat
  BY <1>2, SeqOfOwn DEF TypedPass, IsSeq
<1>7. Made(pass) \in [1 .. Len(pass.lines) -> Seq(Byte)]
  <2>1. Made(pass) = [i \in 1 .. Len(pass.lines) |-> Emitted(pass.lines[i], pass.labels)]
    BY <1>6 DEF Made
  <2>2. \A i \in 1 .. Len(pass.lines) : Emitted(pass.lines[i], pass.labels) \in Seq(Byte)
    BY <1>4, <1>5, <1>6
  <2> QED
    BY <2>1, <2>2
<1>8. Made(pass) \in Seq(Seq(Byte))
  BY <1>6, <1>7, SeqDef
<1> QED
  BY <1>1, <1>2, <1>3, <1>4, <1>8

\* What a text is assembled to is bytes.
LEMMA AssembledBytes ==
  ASSUME NEW S, NEW text \in Seq(S), assemble(text) # Error
  PROVE  assemble(text) \in Seq(Byte)
<1>1. PICK f : /\ f[0] = Unpassed /\ f[Len(text)] = PassOne(text)
               /\ \A k \in 1 .. Len(text) : f[k] = PassOneStep(f[k - 1], text[k])
  BY PassOneRuns
<1>2. Len(text) \in 0 .. Len(text)
  OBVIOUS
<1>3. PassOne(text) = Error \/ TypedPass(PassOne(text))
  BY <1>1, <1>2, PassTypes
<1>4. assemble(text) = FlattenSeq(Made(PassOne(text))) /\ Made(PassOne(text)) \in Seq(Seq(Byte))
  BY <1>3, PassTwoMakes DEF assemble
<1> QED
  BY <1>4, Flattened

-----------------------------------------------------------------------------
(***************************************************************************)
(* MiniOS has its own copy of the operators: they are the same.            *)
(***************************************************************************)
\* It reads a line as the original does.
LEMMA MiniCode == ASSUME NEW raw PROVE Mini!Code(raw) = Code(raw)
  BY DEF Mini!Code, Code, Mini!Strip, Strip, Mini!Before, Before, Mini!Places, Places, Min, Mini!Min, Max, Mini!Max

\* So it finds the words,
LEMMA MiniWords == ASSUME NEW line PROVE Mini!Words(line) = Words(line)
  BY Zenon DEF Mini!Words, Words

\* takes the numbers,
LEMMA MiniNumber == ASSUME NEW word PROVE Mini!number(word) = number(word)
  BY DEF Mini!number, number

\* turns letters into capitals,
LEMMA MiniUpper == ASSUME NEW tokens PROVE Mini!upper(tokens) = upper(tokens)
  BY DEF Mini!upper, upper

\* and puts bytes
LEMMA MiniFlatten == ASSUME NEW pieces PROVE Mini!FlattenSeq(pieces) = FlattenSeq(pieces)
  BY DEF Mini!FlattenSeq, FlattenSeq

\* together.
LEMMA MiniJoined == ASSUME NEW made PROVE Mini!Joined(made) = Joined(made)
  BY MiniFlatten DEF Mini!Joined, Joined

\* It computes as the original does.
LEMMA MiniArithmetic ==
  /\ \A memory, a : Mini!At(memory, a) = At(memory, a)
  /\ \A n : /\ Mini!Low(n) = Low(n) /\ Mini!High(n) = High(n) /\ Mini!Wrap(n) = Wrap(n)
           /\ Mini!Bytes16(n) = Bytes16(n) /\ Mini!Bit(n) = Bit(n)
  /\ Mini!WordSize = 65536 /\ WordSize = 65536
<1>1. \A memory, a : Mini!At(memory, a) = At(memory, a)
  BY DEF Mini!At, At
<1>2. Mini!WordSize = 65536 /\ WordSize = 65536
  BY DEF Mini!WordSize, WordSize
<1>3. \A n : Mini!Low(n) = Low(n) /\ Mini!High(n) = High(n)
  BY DEF Mini!Low, Low, Mini!High, High
<1>4. \A n : Mini!Wrap(n) = Wrap(n)
  BY <1>2 DEF Mini!Wrap, Wrap
<1>5. \A n : Mini!Bit(n) = Bit(n)
  BY DEF Mini!Bit, Bit
<1>6. \A n : Mini!Bytes16(n) = Bytes16(n)
  BY <1>3 DEF Mini!Bytes16, Bytes16
<1> QED
  BY <1>1, <1>2, <1>3, <1>4, <1>5, <1>6

\* It has nine of the instructions, under the same opcodes.
MiniNames == {"NOP", "LDIA", "LDIB", "ADD", "SUB", "INC", "DEC", "OUT", "HLT"}

\* They have the opcodes and the sizes they have in the original.
LEMMA MiniOpcodes ==
  /\ DOMAIN Mini!OPS = MiniNames /\ MiniNames \subseteq DOMAIN OPS
  /\ \A op \in MiniNames : /\ Mini!OPS[op] = OPS[op] /\ Mini!Size(op) = Size(op)
                          /\ Size(op) \in {1, 3} /\ (Size(op) = 3 => op \in ARG16_OPS)
<1>1. DOMAIN Mini!OPS = MiniNames
  BY DEF Mini!OPS, MiniNames
<1>2. /\ Mnemonics[1] = "NOP" /\ Mnemonics[2] = "LDIA" /\ Mnemonics[3] = "LDIB"
      /\ Mnemonics[6] = "ADD" /\ Mnemonics[7] = "SUB" /\ Mnemonics[8] = "INC"
      /\ Mnemonics[9] = "DEC" /\ Mnemonics[20] = "OUT" /\ Mnemonics[22] = "HLT"
  BY DEF Mnemonics
<1>3. MiniNames \subseteq DOMAIN OPS
  BY <1>2, Opcodes DEF MiniNames
<1>4. \A i, j \in 1 .. 34 : Mnemonics[i] = Mnemonics[j] => i = j
  BY DEF Mnemonics
<1>5. ASSUME NEW i \in 1 .. 34 PROVE OPS[Mnemonics[i]] = i - 1
  <2>1. Mnemonics[i] \in DOMAIN OPS
    BY Opcodes
  <2>2. OPS[Mnemonics[i]] \in 0 .. 33 /\ Mnemonics[OPS[Mnemonics[i]] + 1] = Mnemonics[i]
    BY <2>1, Opcodes
  <2> DEFINE k == OPS[Mnemonics[i]]
  <2>3. k + 1 \in 1 .. 34 /\ Mnemonics[k + 1] = Mnemonics[i]
    BY <2>2
  <2>4. k + 1 = i
    BY <1>4, <2>3
  <2> HIDE DEF k
  <2> QED
    BY <2>3, <2>4, <2>2 DEF k
<1>6. /\ OPS["NOP"] = 0 /\ OPS["LDIA"] = 1 /\ OPS["LDIB"] = 2 /\ OPS["ADD"] = 5 /\ OPS["SUB"] = 6
      /\ OPS["INC"] = 7 /\ OPS["DEC"] = 8 /\ OPS["OUT"] = 19 /\ OPS["HLT"] = 21
  BY <1>2, <1>5
<1>7. \A op \in MiniNames : Mini!OPS[op] = OPS[op]
  BY <1>6 DEF MiniNames, Mini!OPS
<1>8. \A op \in MiniNames : /\ Mini!Size(op) = Size(op) /\ Size(op) \in {1, 3}
                           /\ (Size(op) = 3 => op \in ARG16_OPS)
  BY DEF MiniNames, Mini!Size, Size, ARG8_OPS, ARG16_OPS
<1> QED
  BY <1>1, <1>3, <1>7, <1>8

\* A piece of a program of MiniOS: nothing, or one of its instructions.
MiniPiece(piece) ==
  \/ piece = <<>>
  \/ /\ piece \in Seq(Byte)
     /\ \E op \in MiniNames : Len(piece) = Size(op) /\ piece[1] = OPS[op]

\* Such a piece is bytes.
LEMMA PieceBytes == ASSUME NEW piece, MiniPiece(piece) PROVE piece \in Seq(Byte)
<1>1. <<>> \in Seq(Byte)
  OBVIOUS
<1> QED
  BY <1>1 DEF MiniPiece

\* The bytes it makes of a line without a label are those of the original.
LEMMA MiniEmits ==
  ASSUME NEW raw, ~Labelled(raw), Mini!Emitted(raw) # Error, NEW labels, DOMAIN labels = {}
  PROVE  /\ Unlabelled(Code(raw)) = Code(raw)
         /\ Mini!Emitted(raw) = IF Code(raw) = <<>> THEN <<>> ELSE Emitted(Code(raw), labels)
         /\ MiniPiece(Mini!Emitted(raw))
<1> DEFINE line == Code(raw)
           words == Words(line)
           op == upper(words[1])[1]
           value == Argument(op, words, labels)
           mini_value == IF Len(words) = 1 THEN Error ELSE Mini!Operand(words[2])
<1>1. Unlabelled(line) = line
  BY DEF Labelled, Unlabelled
<1>2. CASE line = <<>>
  <2>1. Mini!Emitted(raw) = <<>>
    BY <1>2, MiniCode DEF Mini!Emitted
  <2> QED
    BY <1>1, <1>2, <2>1 DEF MiniPiece
<1>3. CASE line # <<>>
  <2>1. Mini!Emitted(raw) = Mini!Instruction(words)
    BY <1>3, MiniCode, MiniWords DEF Mini!Emitted
  <2>2. Mini!Instruction(words) # Error
    BY <2>1
  <2>3. words # <<>> /\ Len(words[1]) = 1 /\ op \in MiniNames
        /\ Mini!Instruction(words) = Mini!Encoded(op, mini_value)
    <3> HIDE DEF words
    <3> QED
      BY <2>2, MiniOpcodes, MiniUpper DEF Mini!Instruction
  <2>4. Operation(words) = op
    <3> HIDE DEF words
    <3> QED
      BY <2>3, MiniOpcodes DEF Operation
  <2>5. Emitted(line, labels) = Encoded(op, value)
    BY <1>1, <1>3, <2>4 DEF Emitted, Instruction
  <2>6. op \in DOMAIN OPS /\ OPS[op] \in Byte /\ Mini!OPS[op] = OPS[op] /\ Mini!Size(op) = Size(op)
        /\ Size(op) \in {1, 3}
    BY <2>3, MiniOpcodes, Opcodes
  <2> HIDE DEF words, op
  <2>7. Mini!Encoded(op, mini_value) # Error /\ op # Error
    BY <2>2, <2>3, <2>6, ErrorAssumption
  <2>8. CASE Size(op) = 1
    <3>1. Mini!Encoded(op, mini_value) = <<OPS[op]>>
      BY <2>6, <2>8 DEF Mini!Encoded
    <3>2. Encoded(op, value) = <<OPS[op]>>
      BY <2>7, <2>8 DEF Encoded
    <3>3. <<OPS[op]>> \in Seq(Byte) /\ Len(<<OPS[op]>>) = 1 /\ <<OPS[op]>>[1] = OPS[op]
      BY <2>6
    <3>4. MiniPiece(<<OPS[op]>>)
      BY <2>3, <2>8, <3>3 DEF MiniPiece
    <3> QED
      BY <1>1, <1>3, <2>1, <2>3, <2>5, <3>1, <3>2, <3>4
  <2>9. CASE Size(op) = 3
    <3>1. mini_value # Error /\ Mini!Encoded(op, mini_value) = <<OPS[op]>> \o Bytes16(Wrap(mini_value))
      BY <2>6, <2>7, <2>9, MiniArithmetic DEF Mini!Encoded
    <3>2. Len(words) # 1 /\ mini_value = number(words[2])
      BY <3>1, MiniNumber DEF Mini!Operand
    <3>3. value = number(words[2])
      BY <3>2 DEF Argument
    <3>4. Encoded(op, value) = <<OPS[op]>> \o Bytes16(Wrap(value))
      BY <2>7, <2>9, <3>1, <3>2, <3>3 DEF Encoded
    <3>5. value \in Int
      BY <3>1, <3>2, <3>3, Numbers
    <3>6. Encoded(op, value) # Error
      BY <2>7, <3>1, <3>2, <3>3, <3>4
    <3>7. MiniPiece(Encoded(op, value))
      BY <2>3, <2>6, <3>5, <3>6, EncodedBytes DEF MiniPiece
    <3> QED
      BY <1>1, <1>3, <2>1, <2>3, <2>5, <3>1, <3>2, <3>3, <3>4, <3>7
  <2> QED
    BY <2>6, <2>8, <2>9
<1> QED
  BY <1>2, <1>3

\* Instructions one after the other, from the first byte to the last.
LinedBy(bytes, starts) ==
  /\ 0 \in starts /\ Len(bytes) \in starts
  /\ \A a \in starts : /\ a <= Len(bytes)
                       /\ a < Len(bytes) => \E op \in MiniNames : /\ bytes[a + 1] = OPS[op]
                                                                /\ a + Size(op) \in starts

\* There are such starts.
Lined(bytes) == \E starts \in SUBSET Nat : LinedBy(bytes, starts)

\* One more piece keeps them so.
LEMMA LinesUp ==
  ASSUME NEW bytes \in Seq(Byte), Lined(bytes), NEW piece, MiniPiece(piece)
  PROVE  bytes \o piece \in Seq(Byte) /\ Lined(bytes \o piece)
<1>1. CASE piece = <<>>
  BY <1>1
<1>2. CASE piece # <<>>
  <2>1. PICK op \in MiniNames : piece \in Seq(Byte) /\ Len(piece) = Size(op) /\ piece[1] = OPS[op]
    BY <1>2 DEF MiniPiece
  <2>2. PICK starts \in SUBSET Nat : LinedBy(bytes, starts)
    BY DEF Lined
  <2> DEFINE more == bytes \o piece
             n == Len(bytes)
  <2>3. Size(op) \in {1, 3} /\ n \in Nat
    BY MiniOpcodes
  <2>4. more \in Seq(Byte) /\ Len(more) = n + Size(op) /\ more[n + 1] = OPS[op]
        /\ \A i \in 1 .. n : more[i] = bytes[i]
    BY <2>1, <2>3
  <2> HIDE DEF more
  <2>5. ASSUME NEW a \in starts \cup {Len(more)}
        PROVE  /\ a <= Len(more) /\ a \in Nat
               /\ a < Len(more) => \E name \in MiniNames : /\ more[a + 1] = OPS[name]
                                                         /\ a + Size(name) \in starts \cup {Len(more)}
    <3>1. CASE a = Len(more)
      BY <2>3, <2>4, <3>1
    <3>2. CASE a = n
      BY <2>1, <2>3, <2>4, <3>2
    <3>3. CASE a \in starts /\ a # n
      <4>1. a \in Nat /\ a < n /\ a + 1 \in 1 .. n
        BY <2>2, <2>3, <3>3 DEF LinedBy
      <4>2. PICK name \in MiniNames : bytes[a + 1] = OPS[name] /\ a + Size(name) \in starts
        BY <2>2, <3>3, <4>1 DEF LinedBy
      <4> QED
        BY <2>3, <2>4, <4>1, <4>2
    <3> QED
      BY <3>1, <3>2, <3>3
  <2>6. Lined(more)
    <3> DEFINE all == starts \cup {Len(more)}
    <3>1. all \in SUBSET Nat /\ 0 \in all /\ Len(more) \in all
      BY <2>2, <2>5 DEF LinedBy
    <3>2. LinedBy(more, all)
      BY <2>5, <3>1 DEF LinedBy
    <3> QED
      BY <3>1, <3>2, Zenon DEF Lined
  <2> QED
    BY <2>4, <2>6 DEF more
<1> QED
  BY <1>1, <1>2

\* One piece is what it is joined to.
LEMMA FlattenOne == ASSUME NEW S, NEW piece \in Seq(S) PROVE FlattenSeq(<<piece>>) = piece
<1> DEFINE pieces == <<piece>>
<1>1. pieces \in Seq(Seq(S)) /\ Len(pieces) = 1 /\ pieces[1] = piece
  OBVIOUS
<1> HIDE DEF pieces
<1>2. PICK f \in [0 .. Len(pieces) -> Seq(S)] :
        /\ f[0] = <<>> /\ f[Len(pieces)] = FlattenSeq(pieces)
        /\ \A k \in 0 .. Len(pieces) - 1 : f[k + 1] = f[k] \o pieces[k + 1]
  BY <1>1, FlattenUnrolls
<1>3. 0 \in 0 .. Len(pieces) - 1 /\ 0 + 1 = 1
  BY <1>1
<1>4. f[1] = <<>> \o piece
  BY <1>1, <1>2, <1>3
<1>5. FlattenSeq(pieces) = piece
  BY <1>1, <1>2, <1>4
<1> QED
  BY <1>5 DEF pieces

\* A pass without labels, of which the bytes are known.
Clear(pass, bytes) ==
  /\ TypedPass(pass) /\ DOMAIN pass.labels = {}
  /\ Made(pass) \in Seq(Seq(Byte)) /\ FlattenSeq(Made(pass)) = bytes
  /\ bytes \in Seq(Byte) /\ Lined(bytes)

\* A line of MiniOS adds what MiniOS makes of it.
LEMMA ClearGoes ==
  ASSUME NEW pass, NEW bytes, Clear(pass, bytes), NEW raw, ~Labelled(raw), Mini!Emitted(raw) # Error,
         PassOneStep(pass, raw) # Error
  PROVE  Clear(PassOneStep(pass, raw), bytes \o Mini!Emitted(raw))
<1> DEFINE next == PassOneStep(pass, raw)
           line == Code(raw)
           rest == Unlabelled(line)
           piece == Mini!Emitted(raw)
           op == Operation(Words(rest))
<1>1. /\ rest = line /\ piece = IF line = <<>> THEN <<>> ELSE Emitted(line, pass.labels)
      /\ MiniPiece(piece)
  BY MiniEmits DEF Clear
<1>2. Places(line, ":") = {}
  BY DEF Labelled
<1>3. /\ DOMAIN next = PassFields /\ next.labels = pass.labels
      /\ next.pc = IF rest = <<>> THEN pass.pc ELSE pass.pc + Size(op)
      /\ next.lines = IF rest = <<>> THEN pass.lines ELSE Append(pass.lines, rest)
  BY <1>2, PassGoes DEF Clear, TypedPass
<1>4. Size(op) \in Nat
  BY DEF Size
<1> HIDE DEF next, piece, op, rest, line
<1>5. TypedPass(next) /\ DOMAIN next.labels = {}
  <2>1. IsSeq(next.lines)
    BY <1>3, Appended DEF Clear, TypedPass
  <2>2. next.pc \in Nat
    BY <1>3, <1>4 DEF Clear, TypedPass
  <2> QED
    BY <1>3, <2>1, <2>2 DEF Clear, TypedPass
<1>6. bytes \o piece \in Seq(Byte) /\ Lined(bytes \o piece)
  BY <1>1, LinesUp DEF Clear
<1>7. Made(next) \in Seq(Seq(Byte)) /\ FlattenSeq(Made(next)) = bytes \o piece
  <2>1. CASE line = <<>>
    <3>1. piece = <<>> /\ next.lines = pass.lines
      BY <1>1, <1>3, <2>1
    <3>2. Made(next) = Made(pass)
      BY <1>3, <3>1 DEF Made
    <3> QED
      BY <3>1, <3>2 DEF Clear
  <2>2. CASE line # <<>>
    <3> DEFINE n == Len(pass.lines)
               made == Made(pass)
    <3>1. n \in Nat /\ DOMAIN pass.lines = 1 .. n /\ IsSeq(pass.lines)
      BY SeqOfOwn DEF Clear, TypedPass, IsSeq
    <3>2. next.lines = Append(pass.lines, line) /\ piece = Emitted(line, pass.labels)
      BY <1>1, <1>3, <2>2
    <3>3. /\ IsSeq(next.lines) /\ Len(next.lines) = n + 1 /\ next.lines[n + 1] = line
          /\ \A i \in 1 .. n : next.lines[i] = pass.lines[i]
      BY <3>1, <3>2, Appended
    <3>4. DOMAIN next.lines = 1 .. n + 1
      BY <3>3, SeqOfOwn
    <3>5. /\ DOMAIN made = 1 .. n /\ Len(made) = n
          /\ \A i \in 1 .. n : made[i] = Emitted(pass.lines[i], pass.labels)
      <4>1. DOMAIN made = 1 .. n /\ \A i \in 1 .. n : made[i] = Emitted(pass.lines[i], pass.labels)
        BY <3>1 DEF Made
      <4>2. made \in Seq(Seq(Byte))
        BY DEF Clear
      <4> HIDE DEF made
      <4> QED
        BY <3>1, <4>1, <4>2
    <3>6. /\ DOMAIN Made(next) = 1 .. n + 1
          /\ \A i \in 1 .. n + 1 : Made(next)[i] = Emitted(next.lines[i], pass.labels)
          /\ Made(next) = [i \in 1 .. n + 1 |-> Made(next)[i]]
      BY <1>3, <3>4 DEF Made
    <3>7. piece \in Seq(Byte)
      BY <1>1, PieceBytes
    <3> DEFINE longer == Append(made, piece)
    <3>8. made \in Seq(Seq(Byte))
      BY DEF Clear
    <3> HIDE DEF made
    <3>9. /\ longer \in Seq(Seq(Byte)) /\ longer = made \o <<piece>>
          /\ Len(longer) = n + 1 /\ longer[n + 1] = piece
          /\ \A i \in 1 .. n : longer[i] = made[i]
      BY SMTT(30), <3>1, <3>5, <3>7, <3>8
    <3> HIDE DEF longer
    <3>10. IsSeq(longer)
      BY <3>9, SeqIsSeq
    <3>11. IsSeq(Made(next)) /\ Len(Made(next)) = n + 1
      <4>1. n + 1 \in Nat
        BY <3>1
      <4> QED
        BY <3>6, <4>1, FunctionIsSeq, Zenon
    <3>12. \A i \in 1 .. n + 1 : Made(next)[i] = longer[i]
      <4>1. ASSUME NEW i \in 1 .. n PROVE Made(next)[i] = longer[i]
        <5>1. i \in 1 .. n + 1
          BY <3>1
        <5>2. Made(next)[i] = Emitted(next.lines[i], pass.labels)
          BY <3>6, <5>1, Zenon
        <5>3. longer[i] = Emitted(pass.lines[i], pass.labels)
          BY <3>5, <3>9, Zenon
        <5> QED
          BY <3>3, <5>2, <5>3, Zenon
      <4>2. Made(next)[n + 1] = longer[n + 1]
        <5>1. n + 1 \in 1 .. n + 1
          BY <3>1
        <5>2. Made(next)[n + 1] = Emitted(next.lines[n + 1], pass.labels)
          BY <3>6, <5>1, Zenon
        <5> QED
          BY <3>2, <3>3, <3>9, <5>2, Zenon
      <4> QED
        BY <3>1, <4>1, <4>2
    <3>13. Made(next) = longer
      BY <3>9, <3>10, <3>11, <3>12, SameSeq
    <3>14. FlattenSeq(longer) = FlattenSeq(made) \o FlattenSeq(<<piece>>)
      <4>1. <<piece>> \in Seq(Seq(Byte))
        BY <3>7
      <4> QED
        BY <3>8, <3>9, <4>1, FlattenConcat
    <3>15. FlattenSeq(<<piece>>) = piece /\ FlattenSeq(made) = bytes
      BY <3>7, FlattenOne DEF Clear, made
    <3> QED
      BY <3>9, <3>13, <3>14, <3>15
  <2> QED
    BY <2>1, <2>2
<1>8. Clear(next, bytes \o piece)
  BY <1>5, <1>6, <1>7 DEF Clear
<1> QED
  BY <1>8 DEF next, piece

\* MiniOS makes the same bytes of a text without labels as the original.
LEMMA MiniAssembles ==
  ASSUME NEW S, NEW text \in Seq(S), \A i \in DOMAIN text : ~Labelled(text[i]),
         assemble(text) # Error, Mini!assemble(text) # Error
  PROVE  Mini!assemble(text) = assemble(text) /\ Lined(assemble(text))
<1> DEFINE n == Len(text)
           pieces == [i \in DOMAIN text |-> Mini!Emitted(text[i])]
<1>1. n \in Nat /\ DOMAIN text = 1 .. n
  OBVIOUS
<1>2. Mini!assemble(text) = FlattenSeq(pieces) /\ \A i \in 1 .. n : Mini!Emitted(text[i]) # Error
  <2>1. Mini!assemble(text) = Joined(pieces)
    BY MiniJoined DEF Mini!assemble
  <2> QED
    BY <1>1, <2>1 DEF Joined
<1>3. \A i \in 1 .. n : MiniPiece(pieces[i]) /\ pieces[i] = Mini!Emitted(text[i])
  <2>1. DOMAIN (<<>>) = {}
    OBVIOUS
  <2> QED
    BY <1>1, <1>2, <2>1, MiniEmits
<1>4. pieces \in Seq(Seq(Byte)) /\ Len(pieces) = n
  <2>1. \A i \in 1 .. n : pieces[i] \in Seq(Byte)
    BY <1>3, PieceBytes
  <2>2. pieces \in [1 .. n -> Seq(Byte)]
    BY <1>1, <2>1
  <2> HIDE DEF pieces
  <2> QED
    BY <1>1, <2>2, SeqDef
<1> HIDE DEF pieces, n
<1>5. PICK g \in [0 .. Len(pieces) -> Seq(Byte)] :
        /\ g[0] = <<>> /\ g[Len(pieces)] = FlattenSeq(pieces)
        /\ \A k \in 0 .. Len(pieces) - 1 : g[k + 1] = g[k] \o pieces[k + 1]
  BY <1>4, FlattenUnrolls
<1>6. PICK f : /\ f[0] = Unpassed /\ f[n] = PassOne(text)
               /\ \A k \in 1 .. n : f[k] = PassOneStep(f[k - 1], text[k])
  BY PassOneRuns DEF n
<1> DEFINE K == {k \in 0 .. n : f[k] # Error => Clear(f[k], g[k])}
<1>7. 0 \in K
  <2>1. /\ DOMAIN Unpassed = PassFields /\ Unpassed.pc = 0 /\ Unpassed.lines = <<>> /\ Unpassed.labels = <<>>
        /\ DOMAIN (<<>>) = {} /\ 0 \in 0 .. n
    BY <1>1 DEF Unpassed, PassFields
  <2>2. TypedPass(Unpassed) /\ DOMAIN Unpassed.labels = {}
    BY <2>1, Empty DEF TypedPass
  <2>3. Made(Unpassed) = <<>>
    BY <2>1 DEF Made
  <2>4. <<>> \in Seq(Seq(Byte)) /\ FlattenSeq(<<>>) = <<>>
    BY DEF FlattenSeq
  <2>5. Lined(<<>>)
    <3> DEFINE all == {0}
    <3>1. all \in SUBSET Nat /\ 0 \in all /\ Len(<<>>) \in all
      OBVIOUS
    <3>2. LinedBy(<<>>, all)
      BY DEF LinedBy
    <3> QED
      BY <3>1, <3>2, Zenon DEF Lined
  <2>6. <<>> \in Seq(Byte)
    OBVIOUS
  <2>7. Clear(Unpassed, <<>>)
    BY <2>2, <2>3, <2>4, <2>5, <2>6 DEF Clear
  <2> QED
    BY <1>5, <1>6, <2>1, <2>7
<1>8. ASSUME NEW k \in 0 .. n - 1, k \in K PROVE k + 1 \in K
  <2>1. k + 1 \in 1 .. n /\ k + 1 \in 0 .. n /\ (k + 1) - 1 = k
    BY <1>1
  <2>2. f[k + 1] = PassOneStep(f[k], text[k + 1]) /\ g[k + 1] = g[k] \o Mini!Emitted(text[k + 1])
    <3>1. f[k + 1] = PassOneStep(f[(k + 1) - 1], text[k + 1])
      BY <1>6, <2>1, Zenon
    <3> QED
      BY <1>3, <1>4, <1>5, <2>1, <3>1
  <2>3. ASSUME f[k + 1] # Error PROVE Clear(f[k + 1], g[k + 1])
    <3>1. f[k] # Error
      BY <2>2, <2>3 DEF PassOneStep
    <3>2. Clear(f[k], g[k])
      BY <1>8, <3>1
    <3>3. ~Labelled(text[k + 1]) /\ Mini!Emitted(text[k + 1]) # Error
      BY <1>1, <1>2, <2>1
    <3>4. PassOneStep(f[k], text[k + 1]) # Error
      BY <2>2, <2>3
    <3> QED
      BY <2>2, <3>2, <3>3, <3>4, ClearGoes
  <2> QED
    BY <2>1, <2>3
<1> HIDE DEF K
<1>9. \A k \in 0 .. n : k \in K
  BY <1>1, <1>7, <1>8, Induction
<1>10. n \in 0 .. n
  BY <1>1
<1>11. PassOne(text) # Error
  BY DEF assemble, PassTwo
<1>12. Clear(PassOne(text), FlattenSeq(pieces))
  BY <1>4, <1>5, <1>6, <1>9, <1>10, <1>11 DEF K
<1>13. assemble(text) = FlattenSeq(Made(PassOne(text)))
  BY <1>12, PassTwoMakes DEF Clear, assemble
<1> QED
  BY <1>2, <1>12, <1>13 DEF Clear

-----------------------------------------------------------------------------
(***************************************************************************)
(* The machine of the original.                                            *)
(***************************************************************************)
\* Its fields, written out: provers do not compare records.
OldFields == {"A", "B", "C", "D", "PC", "SP", "Z", "CF", "N", "rom", "ram", "cycles", "running",
              "raised", "out", "keys", "screen"}

\* Memories hold bytes.
Stocked(memory) == \A a \in DOMAIN memory : memory[a] \in Byte

\* Registers are words, memory is bytes, and so are the keys typed.
Typed(c) ==
  /\ DOMAIN c = OldFields
  /\ c.A \in Word /\ c.B \in Word /\ c.C \in Word /\ c.D \in Word /\ c.PC \in Word /\ c.SP \in Word
  /\ Stocked(c.rom) /\ Stocked(c.ram) /\ c.keys \in Seq(Byte)
  /\ c.cycles \in Nat /\ c.running \in BOOLEAN /\ c.raised \in BOOLEAN

\* What an instruction leaves alone.
Untouched(c, d) == d.rom = c.rom /\ d.cycles = c.cycles /\ d.raised = c.raised

\* Every instruction but the halt goes on.
Goes(c, d) == Typed(d) /\ Untouched(c, d) /\ d.running = c.running

\* What is read is a byte, and what is stored is one.
LEMMA Memory ==
  ASSUME NEW memory, Stocked(memory)
  PROVE  /\ \A a : At(memory, a) \in Byte
         /\ \A a, v : v \in Byte => Stocked(Put(memory, a, v))
<1>1. \A a : At(memory, a) \in Byte
  BY ByteRange DEF At, Stocked
<1>2. ASSUME NEW a, NEW v \in Byte PROVE Stocked(Put(memory, a, v))
  BY DEF Put, With, Stocked
<1> QED
  BY <1>1, <1>2

\* What the accumulator gets is described by the flags, and nothing else changes.
LEMMA Accumulates ==
  ASSUME NEW c, Typed(c), NEW v \in Word
  PROVE  /\ Goes(c, Accumulate(c, v))
         /\ Accumulate(c, v).A = v /\ Accumulate(c, v).B = c.B /\ Accumulate(c, v).PC = c.PC
         /\ Accumulate(c, v).CF = c.CF /\ Accumulate(c, v).out = c.out
<1> DEFINE d == [c EXCEPT !.A = v]
<1>1. Goes(c, d) /\ d.A = v /\ d.B = c.B /\ d.PC = c.PC /\ d.CF = c.CF /\ d.out = c.out
  BY DEF Goes, Typed, Untouched, OldFields
<1> HIDE DEF d
<1> DEFINE z == Bit(Wrap(v) = 0)
           n == Bit(Wrap(v) >= WordSize \div 2)
           e == [d EXCEPT !.Z = z, !.N = n]
<1>2. Accumulate(c, v) = e
  BY DEF Accumulate, flags, d
<1> HIDE DEF z, n
<1>3. Goes(d, e) /\ e.A = d.A /\ e.B = d.B /\ e.PC = d.PC /\ e.CF = d.CF /\ e.out = d.out
  BY <1>1 DEF Goes, Typed, Untouched, OldFields
<1> HIDE DEF e
<1> QED
  BY <1>1, <1>2, <1>3 DEF Goes, Untouched

\* So it is with a carry.
LEMMA Adds ==
  ASSUME NEW c, Typed(c), NEW v \in Int
  PROVE  /\ Goes(c, Arithmetic(c, v))
         /\ Arithmetic(c, v).A = Wrap(v) /\ Arithmetic(c, v).B = c.B /\ Arithmetic(c, v).PC = c.PC
         /\ Arithmetic(c, v).CF = Bit(v \notin Word) /\ Arithmetic(c, v).out = c.out
<1> DEFINE carry == Bit(v \notin Word)
           d == [c EXCEPT !.CF = carry]
<1>1. Arithmetic(c, v) = Accumulate(d, Wrap(v))
  BY DEF Arithmetic
<1> HIDE DEF carry
<1>2. Goes(c, d) /\ d.B = c.B /\ d.PC = c.PC /\ d.CF = carry /\ d.out = c.out
  BY DEF Goes, Typed, Untouched, OldFields
<1>3. Wrap(v) \in Word
  BY BytesOfWords
<1> HIDE DEF d
<1> QED
  BY <1>1, <1>2, <1>3, Accumulates DEF Goes, Untouched, carry

\* The stack.
LEMMA Stacks ==
  ASSUME NEW c, Typed(c), NEW v \in Word
  PROVE  Goes(c, push16(c, v)) /\ Goes(c, Popped(c)) /\ pop16(c) \in Word /\ Goes(c, write16(c, v, c.A))
         /\ read16(c, v) \in Word
<1>1. v \in Int /\ c.SP \in Int /\ c.A \in Int
  BY WordRange DEF Typed
<1>2. /\ Low(v) \in Byte /\ High(v) \in Byte /\ Wrap(c.SP - 2) \in Word /\ Wrap(c.SP + 2) \in Word
      /\ Low(c.A) \in Byte /\ High(c.A) \in Byte
  BY <1>1, BytesOfWords
<1>3. Goes(c, push16(c, v))
  <2> DEFINE ram == Put(Put(c.ram, c.SP, Low(v)), Wrap(c.SP - 1), High(v))
             sp == Wrap(c.SP - 2)
  <2>1. Stocked(ram)
    BY <1>2, Memory DEF Typed
  <2>2. push16(c, v) = [c EXCEPT !.ram = ram, !.SP = sp]
    BY DEF push16
  <2>3. sp \in Word
    BY <1>2
  <2> HIDE DEF ram, sp
  <2> QED
    BY <2>1, <2>2, <2>3 DEF Goes, Typed, Untouched, OldFields
<1>4. Goes(c, Popped(c))
  <2> DEFINE sp == Wrap(c.SP + 2)
  <2>1. Popped(c) = [c EXCEPT !.SP = sp] /\ sp \in Word
    BY <1>2 DEF Popped
  <2> HIDE DEF sp
  <2> QED
    BY <2>1 DEF Goes, Typed, Untouched, OldFields
<1>5. Goes(c, write16(c, v, c.A))
  <2> DEFINE ram == Put(Put(c.ram, Wrap(v), Low(c.A)), Wrap(v + 1), High(c.A))
  <2>1. Stocked(ram)
    BY <1>2, Memory DEF Typed
  <2>2. write16(c, v, c.A) = [c EXCEPT !.ram = ram]
    BY DEF write16
  <2> HIDE DEF ram
  <2> QED
    BY <2>1, <2>2 DEF Goes, Typed, Untouched, OldFields
<1>6. pop16(c) \in Word /\ read16(c, v) \in Word
  <2>1. \A a : At(c.ram, a) \in Byte
    BY Memory DEF Typed
  <2> QED
    BY <2>1, BytesOfWords DEF pop16, read16
<1> QED
  BY <1>3, <1>4, <1>5, <1>6

-----------------------------------------------------------------------------
(***************************************************************************)
(* Bits.                                                                   *)
(***************************************************************************)
\* What a bit weighs in a word.
Worth(bits, k) == IF k \in bits THEN Weight[k] ELSE 0

\* A word is the sum of its bits.
LEMMA BitsAddUp ==
  ASSUME NEW bits
  PROVE  OfBits(bits) = Worth(bits, 1) + Worth(bits, 2) + Worth(bits, 3) + Worth(bits, 4)
                      + Worth(bits, 5) + Worth(bits, 6) + Worth(bits, 7) + Worth(bits, 8)
                      + Worth(bits, 9) + Worth(bits, 10) + Worth(bits, 11) + Worth(bits, 12)
                      + Worth(bits, 13) + Worth(bits, 14) + Worth(bits, 15) + Worth(bits, 16)
<1> DEFINE worth(k) == IF k \in bits THEN Weight[k] ELSE 0
           On(f, k) == IF k = 0 THEN 0 ELSE f[k - 1] + worth(k)
           Totals(f) == f = [k \in 0 .. Len(Weight) |-> On(f, k)]
           G == [k \in 1 .. 16 |-> [x \in Nat |-> x + worth(k)]]
<1>1. Len(Weight) = 16 /\ \A k \in 1 .. 16 : Weight[k] \in Nat
  BY DEF Weight
<1>2. OfBits(bits) = (CHOOSE f : Totals(f))[16]
  BY <1>1 DEF OfBits
<1>3. \A k \in 1 .. 16 : worth(k) \in Nat
  BY <1>1
<1> HIDE DEF worth
<1>4. \E f : Totals(f)
  <2>1. G \in [1 .. 16 -> [Nat -> Nat]]
    BY <1>3
  <2>2. \A k \in 1 .. 16, x \in Nat : G[k][x] = x + worth(k)
    OBVIOUS
  <2> HIDE DEF G
  <2>3. PICK f : Unrolled(f, 16, Nat, 0, G)
    <3>1. 16 \in Nat /\ 0 \in Nat
      OBVIOUS
    <3> QED
      BY <2>1, <3>1, Recursion, Zenon
  <2>4. f \in [0 .. 16 -> Nat] /\ f[0] = 0 /\ \A k \in 1 .. 16 : f[k] = G[k][f[k - 1]]
    BY <2>3 DEF Unrolled
  <2>5. ASSUME NEW k \in 0 .. 16 PROVE f[k] = On(f, k)
    <3>1. CASE k = 0
      BY <2>4, <3>1
    <3>2. CASE k # 0
      <4>1. k \in 1 .. 16 /\ k - 1 \in 0 .. 16
        BY <3>2
      <4>2. f[k] = f[k - 1] + worth(k)
        BY <2>2, <2>4, <4>1
      <4> QED
        BY <3>2, <4>2
    <3> QED
      BY <3>1, <3>2
  <2>6. f = [k \in 0 .. 16 |-> f[k]]
    BY <2>4
  <2> HIDE DEF On
  <2>7. [k \in 0 .. 16 |-> f[k]] = [k \in 0 .. 16 |-> On(f, k)]
    BY <2>5, Zenon
  <2>8. f = [k \in 0 .. Len(Weight) |-> On(f, k)]
    BY <1>1, <2>6, <2>7
  <2> QED
    BY <2>8, Zenon
<1> DEFINE T == CHOOSE f : Totals(f)
<1>5. Totals(T)
  <2> HIDE DEF Totals
  <2> QED
    BY <1>4, Zenon
<1>6. OfBits(bits) = T[16]
  BY <1>2, Zenon
<1> HIDE DEF T, G
<1>7. \A k \in 0 .. 16 : T[k] = On(T, k)
  <2> HIDE DEF On
  <2> QED
    BY <1>1, <1>5
<1>8. T[0] = 0 /\ \A k \in 1 .. 16 : T[k] = T[k - 1] + worth(k)
  BY <1>7
<1> HIDE DEF On, Totals
<1>9. T[1] = worth(1)
  BY <1>3, <1>8
<1>10. T[2] = T[1] + worth(2) /\ T[3] = T[2] + worth(3) /\ T[4] = T[3] + worth(4)
       /\ T[5] = T[4] + worth(5) /\ T[6] = T[5] + worth(6) /\ T[7] = T[6] + worth(7)
       /\ T[8] = T[7] + worth(8) /\ T[9] = T[8] + worth(9) /\ T[10] = T[9] + worth(10)
       /\ T[11] = T[10] + worth(11) /\ T[12] = T[11] + worth(12) /\ T[13] = T[12] + worth(13)
       /\ T[14] = T[13] + worth(14) /\ T[15] = T[14] + worth(15) /\ T[16] = T[15] + worth(16)
  BY <1>8
<1>11. \A k \in 1 .. 16 : worth(k) = Worth(bits, k)
  BY DEF worth, Worth
<1>12. OfBits(bits) = worth(1) + worth(2) + worth(3) + worth(4) + worth(5) + worth(6) + worth(7) + worth(8)
                    + worth(9) + worth(10) + worth(11) + worth(12) + worth(13) + worth(14) + worth(15)
                    + worth(16)
  BY <1>6, <1>9, <1>10
<1> QED
  BY <1>11, <1>12

\* What the bits weigh, written out.
LEMMA Weights ==
  /\ Weight[1] = 1 /\ Weight[2] = 2 /\ Weight[3] = 4 /\ Weight[4] = 8 /\ Weight[5] = 16
  /\ Weight[6] = 32 /\ Weight[7] = 64 /\ Weight[8] = 128 /\ Weight[9] = 256 /\ Weight[10] = 512
  /\ Weight[11] = 1024 /\ Weight[12] = 2048 /\ Weight[13] = 4096 /\ Weight[14] = 8192
  /\ Weight[15] = 16384 /\ Weight[16] = 32768 /\ DOMAIN Weight = 1 .. 16
  BY DEF Weight

\* The words that bits make.
LEMMA BitsMakeWords == ASSUME NEW bits PROVE OfBits(bits) \in Word
<1>1. \A k \in 1 .. 16 : Weight[k] \in Nat
  BY DEF Weight
<1>2. \A k \in 1 .. 16 : Worth(bits, k) \in Nat /\ Worth(bits, k) <= Weight[k]
  BY <1>1 DEF Worth
<1>3. Worth(bits, 1) + Worth(bits, 2) + Worth(bits, 3) + Worth(bits, 4) \in Nat /\ Worth(bits, 1) + Worth(bits, 2) + Worth(bits, 3) + Worth(bits, 4) <= 15
  BY <1>2, Weights
<1>4. Worth(bits, 5) + Worth(bits, 6) + Worth(bits, 7) + Worth(bits, 8) \in Nat /\ Worth(bits, 5) + Worth(bits, 6) + Worth(bits, 7) + Worth(bits, 8) <= 240
  BY <1>2, Weights
<1>5. Worth(bits, 9) + Worth(bits, 10) + Worth(bits, 11) + Worth(bits, 12) \in Nat /\ Worth(bits, 9) + Worth(bits, 10) + Worth(bits, 11) + Worth(bits, 12) <= 3840
  BY <1>2, Weights
<1>6. Worth(bits, 13) + Worth(bits, 14) + Worth(bits, 15) + Worth(bits, 16) \in Nat /\ Worth(bits, 13) + Worth(bits, 14) + Worth(bits, 15) + Worth(bits, 16) <= 61440
  BY <1>2, Weights
<1>7. OfBits(bits) \in Nat /\ OfBits(bits) <= 65535
  <2> DEFINE a == Worth(bits, 1) + Worth(bits, 2) + Worth(bits, 3) + Worth(bits, 4)
             b == Worth(bits, 5) + Worth(bits, 6) + Worth(bits, 7) + Worth(bits, 8)
             c == Worth(bits, 9) + Worth(bits, 10) + Worth(bits, 11) + Worth(bits, 12)
             d == Worth(bits, 13) + Worth(bits, 14) + Worth(bits, 15) + Worth(bits, 16)
  <2>1. OfBits(bits) = a + b + c + d
    BY <1>2, BitsAddUp
  <2>2. a \in Nat /\ b \in Nat /\ c \in Nat /\ d \in Nat
        /\ a <= 15 /\ b <= 240 /\ c <= 3840 /\ d <= 61440
    BY <1>3, <1>4, <1>5, <1>6
  <2> HIDE DEF a, b, c, d
  <2> QED
    BY <2>1, <2>2
<1> QED
  BY <1>7, WordRange

\* The bits of a word add up to it, and the others to its complement.
LEMMA Complement == ASSUME NEW w \in Word PROVE OfBits(DOMAIN Weight \ Bits(w)) = 65535 - w
<1> DEFINE rest == DOMAIN Weight \ Bits(w)
           half(x) == x \div 2
           odd(x) == IF x % 2 = 1 THEN 1 ELSE 0
           q(d) == w \div d
<1>1. w \in Nat /\ w < 65536
  BY WordRange
<1>2. \A k \in 1 .. 16 : k \in Bits(w) <=> (w \div Weight[k]) % 2 = 1
  BY Weights DEF Bits
<1>3. \A k \in 1 .. 16 : Worth(rest, k) = IF (w \div Weight[k]) % 2 = 1 THEN 0 ELSE Weight[k]
  BY <1>2, Weights DEF Worth
<1> HIDE DEF rest
<1>4. ASSUME NEW x \in Nat, NEW y \in Nat, y = half(x) PROVE odd(x) = x - 2 * y
  BY <1>4
<1>5. /\ q(1) = w /\ half(q(32768)) = 0
      /\ q(2) = half(q(1))
      /\ q(4) = half(q(2))
      /\ q(8) = half(q(4))
      /\ q(16) = half(q(8))
      /\ q(32) = half(q(16))
      /\ q(64) = half(q(32))
      /\ q(128) = half(q(64))
      /\ q(256) = half(q(128))
      /\ q(512) = half(q(256))
      /\ q(1024) = half(q(512))
      /\ q(2048) = half(q(1024))
      /\ q(4096) = half(q(2048))
      /\ q(8192) = half(q(4096))
      /\ q(16384) = half(q(8192))
      /\ q(32768) = half(q(16384))
  BY <1>1
<1>6. /\ q(1) \in Nat
      /\ q(2) \in Nat
      /\ q(4) \in Nat
      /\ q(8) \in Nat
      /\ q(16) \in Nat
      /\ q(32) \in Nat
      /\ q(64) \in Nat
      /\ q(128) \in Nat
      /\ q(256) \in Nat
      /\ q(512) \in Nat
      /\ q(1024) \in Nat
      /\ q(2048) \in Nat
      /\ q(4096) \in Nat
      /\ q(8192) \in Nat
      /\ q(16384) \in Nat
      /\ q(32768) \in Nat
  BY <1>1
<1>7. /\ Worth(rest, 1) = 1 - 1 * odd(q(1))
      /\ Worth(rest, 2) = 2 - 2 * odd(q(2))
      /\ Worth(rest, 3) = 4 - 4 * odd(q(4))
      /\ Worth(rest, 4) = 8 - 8 * odd(q(8))
      /\ Worth(rest, 5) = 16 - 16 * odd(q(16))
      /\ Worth(rest, 6) = 32 - 32 * odd(q(32))
      /\ Worth(rest, 7) = 64 - 64 * odd(q(64))
      /\ Worth(rest, 8) = 128 - 128 * odd(q(128))
      /\ Worth(rest, 9) = 256 - 256 * odd(q(256))
      /\ Worth(rest, 10) = 512 - 512 * odd(q(512))
      /\ Worth(rest, 11) = 1024 - 1024 * odd(q(1024))
      /\ Worth(rest, 12) = 2048 - 2048 * odd(q(2048))
      /\ Worth(rest, 13) = 4096 - 4096 * odd(q(4096))
      /\ Worth(rest, 14) = 8192 - 8192 * odd(q(8192))
      /\ Worth(rest, 15) = 16384 - 16384 * odd(q(16384))
      /\ Worth(rest, 16) = 32768 - 32768 * odd(q(32768))
  BY <1>3, Weights
<1> HIDE DEF q, half, odd
<1>8. /\ odd(q(1)) = q(1) - 2 * q(2)
      /\ odd(q(2)) = q(2) - 2 * q(4)
      /\ odd(q(4)) = q(4) - 2 * q(8)
      /\ odd(q(8)) = q(8) - 2 * q(16)
      /\ odd(q(16)) = q(16) - 2 * q(32)
      /\ odd(q(32)) = q(32) - 2 * q(64)
      /\ odd(q(64)) = q(64) - 2 * q(128)
      /\ odd(q(128)) = q(128) - 2 * q(256)
      /\ odd(q(256)) = q(256) - 2 * q(512)
      /\ odd(q(512)) = q(512) - 2 * q(1024)
      /\ odd(q(1024)) = q(1024) - 2 * q(2048)
      /\ odd(q(2048)) = q(2048) - 2 * q(4096)
      /\ odd(q(4096)) = q(4096) - 2 * q(8192)
      /\ odd(q(8192)) = q(8192) - 2 * q(16384)
      /\ odd(q(16384)) = q(16384) - 2 * q(32768)
      /\ odd(q(32768)) = q(32768)
  <2>1. odd(q(1)) = q(1) - 2 * q(2)
    BY <1>4, <1>5, <1>6
  <2>2. odd(q(2)) = q(2) - 2 * q(4)
    BY <1>4, <1>5, <1>6
  <2>3. odd(q(4)) = q(4) - 2 * q(8)
    BY <1>4, <1>5, <1>6
  <2>4. odd(q(8)) = q(8) - 2 * q(16)
    BY <1>4, <1>5, <1>6
  <2>5. odd(q(16)) = q(16) - 2 * q(32)
    BY <1>4, <1>5, <1>6
  <2>6. odd(q(32)) = q(32) - 2 * q(64)
    BY <1>4, <1>5, <1>6
  <2>7. odd(q(64)) = q(64) - 2 * q(128)
    BY <1>4, <1>5, <1>6
  <2>8. odd(q(128)) = q(128) - 2 * q(256)
    BY <1>4, <1>5, <1>6
  <2>9. odd(q(256)) = q(256) - 2 * q(512)
    BY <1>4, <1>5, <1>6
  <2>10. odd(q(512)) = q(512) - 2 * q(1024)
    BY <1>4, <1>5, <1>6
  <2>11. odd(q(1024)) = q(1024) - 2 * q(2048)
    BY <1>4, <1>5, <1>6
  <2>12. odd(q(2048)) = q(2048) - 2 * q(4096)
    BY <1>4, <1>5, <1>6
  <2>13. odd(q(4096)) = q(4096) - 2 * q(8192)
    BY <1>4, <1>5, <1>6
  <2>14. odd(q(8192)) = q(8192) - 2 * q(16384)
    BY <1>4, <1>5, <1>6
  <2>15. odd(q(16384)) = q(16384) - 2 * q(32768)
    BY <1>4, <1>5, <1>6
  <2>16. odd(q(32768)) = q(32768) - 2 * 0
    BY <1>4, <1>5, <1>6
  <2>17. odd(q(32768)) = q(32768)
    BY <1>6, <2>16
  <2> QED
    BY <2>1, <2>2, <2>3, <2>4, <2>5, <2>6, <2>7, <2>8, <2>9, <2>10, <2>11, <2>12, <2>13, <2>14, <2>15, <2>17
<1>9. /\ Worth(rest, 1) = 1 - 1 * q(1) + 2 * q(2)
      /\ Worth(rest, 2) = 2 - 2 * q(2) + 4 * q(4)
      /\ Worth(rest, 3) = 4 - 4 * q(4) + 8 * q(8)
      /\ Worth(rest, 4) = 8 - 8 * q(8) + 16 * q(16)
      /\ Worth(rest, 5) = 16 - 16 * q(16) + 32 * q(32)
      /\ Worth(rest, 6) = 32 - 32 * q(32) + 64 * q(64)
      /\ Worth(rest, 7) = 64 - 64 * q(64) + 128 * q(128)
      /\ Worth(rest, 8) = 128 - 128 * q(128) + 256 * q(256)
      /\ Worth(rest, 9) = 256 - 256 * q(256) + 512 * q(512)
      /\ Worth(rest, 10) = 512 - 512 * q(512) + 1024 * q(1024)
      /\ Worth(rest, 11) = 1024 - 1024 * q(1024) + 2048 * q(2048)
      /\ Worth(rest, 12) = 2048 - 2048 * q(2048) + 4096 * q(4096)
      /\ Worth(rest, 13) = 4096 - 4096 * q(4096) + 8192 * q(8192)
      /\ Worth(rest, 14) = 8192 - 8192 * q(8192) + 16384 * q(16384)
      /\ Worth(rest, 15) = 16384 - 16384 * q(16384) + 32768 * q(32768)
      /\ Worth(rest, 16) = 32768 - 32768 * q(32768)
  BY <1>6, <1>7, <1>8
<1>10. Worth(rest, 1) + Worth(rest, 2) + Worth(rest, 3) + Worth(rest, 4) = 15 - 1 * q(1) + 16 * q(16)
      /\ (Worth(rest, 1) + Worth(rest, 2) + Worth(rest, 3) + Worth(rest, 4)) \in Int
  BY <1>6, <1>9
<1>11. Worth(rest, 5) + Worth(rest, 6) + Worth(rest, 7) + Worth(rest, 8) = 240 - 16 * q(16) + 256 * q(256)
      /\ (Worth(rest, 5) + Worth(rest, 6) + Worth(rest, 7) + Worth(rest, 8)) \in Int
  BY <1>6, <1>9
<1>12. Worth(rest, 9) + Worth(rest, 10) + Worth(rest, 11) + Worth(rest, 12) = 3840 - 256 * q(256) + 4096 * q(4096)
      /\ (Worth(rest, 9) + Worth(rest, 10) + Worth(rest, 11) + Worth(rest, 12)) \in Int
  BY <1>6, <1>9
<1>13. Worth(rest, 13) + Worth(rest, 14) + Worth(rest, 15) + Worth(rest, 16) = 61440 - 4096 * q(4096)
      /\ (Worth(rest, 13) + Worth(rest, 14) + Worth(rest, 15) + Worth(rest, 16)) \in Int
  BY <1>6, <1>9
<1>14. OfBits(rest) = 65535 - q(1)
  <2> DEFINE a == Worth(rest, 1) + Worth(rest, 2) + Worth(rest, 3) + Worth(rest, 4)
             b == Worth(rest, 5) + Worth(rest, 6) + Worth(rest, 7) + Worth(rest, 8)
             c == Worth(rest, 9) + Worth(rest, 10) + Worth(rest, 11) + Worth(rest, 12)
             d == Worth(rest, 13) + Worth(rest, 14) + Worth(rest, 15) + Worth(rest, 16)
  <2>1. \A k \in 1 .. 16 : Worth(rest, k) \in Int
    <3>1. \A k \in 1 .. 16 : Weight[k] \in Int
      BY DEF Weight
    <3> QED
      BY <3>1 DEF Worth
  <2>2. OfBits(rest) = a + b + c + d
    BY <2>1, BitsAddUp
  <2>3. /\ a = 15 - q(1) + 16 * q(16) /\ b = 240 - 16 * q(16) + 256 * q(256)
        /\ c = 3840 - 256 * q(256) + 4096 * q(4096) /\ d = 61440 - 4096 * q(4096)
    BY <1>6, <1>10, <1>11, <1>12, <1>13
  <2> HIDE DEF a, b, c, d
  <2> QED
    BY <1>6, <2>2, <2>3
<1> QED
  BY <1>5, <1>14 DEF rest

-----------------------------------------------------------------------------
(***************************************************************************)
(* What an instruction of the original does.                               *)
(***************************************************************************)
\* The mnemonics, without their order.
Names == {Mnemonics[i] : i \in 1 .. 34}

\* They are, written out:
LEMMA NamesAre ==
  Names = {"NOP", "LDIA", "LDIB", "LDIC", "LDID", "ADD", "SUB", "INC", "DEC", "STA",
           "LDA", "JMP", "JZ", "JNZ", "CMP", "PUSH", "POP", "CALL", "RET", "OUT", "IN",
           "HLT", "MOVAB", "MOVBA", "ADDC", "ADDD", "SUBC", "SUBD", "XOR", "AND", "OR",
           "NOT", "INP", "OUTP"}
  BY DEF Names, Mnemonics

\* What a port returns is a word, and the key that was read is gone.
LEMMA PortsGo ==
  ASSUME NEW c, Typed(c), NEW port, NEW random \in Byte
  PROVE  read_port(c, port, random) \in Word /\ Goes(c, AfterRead(c, port)) /\ Goes(c, write_port(c, port))
<1>1. read_port(c, port, random) \in Word
  <2>1. c.keys # <<>> => Head(c.keys) \in Byte
    BY DEF Typed
  <2>2. \A test : Bit(test) \in Byte
    BY ByteRange DEF Bit
  <2>3. 0 \in Byte
    BY ByteRange
  <2>4. read_port(c, port, random) \in Byte
    BY <2>1, <2>2, <2>3 DEF read_port, PORT_KEY, PORT_KEY_STATE, PORT_RANDOM
  <2> QED
    BY <2>4, BytesOfWords
<1>2. Goes(c, AfterRead(c, port))
  <2>1. c.keys # <<>> => Tail(c.keys) \in Seq(Byte)
    BY DEF Typed
  <2> DEFINE keys == Tail(c.keys)
             d == [c EXCEPT !.keys = keys]
  <2>2. AfterRead(c, port) = c \/ (c.keys # <<>> /\ AfterRead(c, port) = d)
    <3>1. CASE port = PORT_KEY /\ c.keys # <<>>
      BY <3>1, Zenon DEF AfterRead
    <3>2. CASE ~(port = PORT_KEY /\ c.keys # <<>>)
      BY <3>2 DEF AfterRead
    <3> QED
      BY <3>1, <3>2
  <2> HIDE DEF keys
  <2>3. keys \in Seq(Byte) => Goes(c, d)
    BY DEF Goes, Typed, Untouched, OldFields
  <2>4. Goes(c, c)
    BY DEF Goes, Untouched
  <2> HIDE DEF d
  <2> QED
    BY <2>1, <2>2, <2>3, <2>4 DEF keys
<1>3. Goes(c, write_port(c, port))
  <2> DEFINE screen == With(c.screen, <<c.B, c.C>>, Low(c.A))
             d == [c EXCEPT !.screen = screen]
  <2>1. write_port(c, port) = c \/ write_port(c, port) = d
    BY DEF write_port
  <2> HIDE DEF screen
  <2>2. Goes(c, d) /\ Goes(c, c)
    BY DEF Goes, Typed, Untouched, OldFields
  <2> HIDE DEF d
  <2> QED
    BY <2>1, <2>2
<1> QED
  BY <1>1, <1>2, <1>3

\* Two steps that go on, one after the other.
LEMMA GoesOn == ASSUME NEW c, NEW d, NEW e, Goes(c, d), Goes(d, e) PROVE Goes(c, e)
  BY DEF Goes, Untouched

\* Every instruction leaves words in the registers and bytes in memory, and the
\* ROM as it is; all but HLT go on.
LEMMA PerformGoes ==
  ASSUME NEW c, Typed(c), NEW name \in Names, NEW arg \in Word, NEW random \in Byte
  PROVE  LET d == Perform(c, name, arg, random)
         IN Typed(d) /\ Untouched(c, d) /\ d.running = (IF name = "HLT" THEN FALSE ELSE c.running)
<1> DEFINE d == Perform(c, name, arg, random)
<1>1. c.A \in Int /\ c.B \in Int /\ c.C \in Int /\ c.D \in Int /\ 0 \in Word
  BY WordRange DEF Typed
<1>2. CASE name = "HLT"
  BY <1>2 DEF Perform, Typed, Untouched, OldFields
<1>3. ASSUME name # "HLT" PROVE Goes(c, d)
  <2>1. CASE name \in {"NOP", "LDIA", "IN", "MOVAB"}
    <3>1. 0 \in Word /\ c.B \in Word
      BY WordRange DEF Typed
    <3>2. Goes(c, c)
      BY DEF Goes, Untouched
    <3> QED
      BY <2>1, <3>1, <3>2, Accumulates DEF Perform
  <2>2. CASE name \in {"LDIB", "LDIC", "LDID", "MOVBA"}
    BY <2>2 DEF Perform, Goes, Typed, Untouched, OldFields
  <2>3. CASE name \in {"ADD", "SUB"}
    <3>1. d = Arithmetic(c, Sums(c)[name])
      BY <2>3 DEF Perform
    <3>2. Sums(c)["ADD"] \in Int /\ Sums(c)["SUB"] \in Int
      BY <1>1 DEF Sums
    <3>3. Sums(c)[name] \in Int
      BY <2>3, <3>2
    <3> HIDE DEF d
    <3> QED
      BY <3>1, <3>3, Adds
  <2>4. CASE name \in {"ADDC", "ADDD", "SUBC", "SUBD"}
    <3>1. d = Arithmetic(c, MoreSums(c)[name])
      BY <2>4 DEF Perform
    <3>2. /\ MoreSums(c)["ADDC"] \in Int /\ MoreSums(c)["ADDD"] \in Int
          /\ MoreSums(c)["SUBC"] \in Int /\ MoreSums(c)["SUBD"] \in Int
      BY <1>1 DEF MoreSums
    <3>3. MoreSums(c)[name] \in Int
      BY <2>4, <3>2
    <3> HIDE DEF d
    <3> QED
      BY <3>1, <3>3, Adds
  <2>5. CASE name \in {"XOR", "AND", "OR", "NOT"}
    <3>1. d = Accumulate(c, OfBits(Logic(c)[name]))
      BY <2>5 DEF Perform
    <3>2. OfBits(Logic(c)[name]) \in Word
      BY BitsMakeWords
    <3> QED
      BY <3>1, <3>2, Accumulates
  <2>6. CASE name \in {"INC", "DEC"}
    <3>1. Wrap(c.A + 1) \in Word /\ Wrap(c.A - 1) \in Word
      BY <1>1, BytesOfWords
    <3> QED
      BY <2>6, <3>1, Accumulates DEF Perform
  <2>7. CASE name = "CMP"
    <3> DEFINE z == Bit(Wrap(c.A - c.B) = 0)
               n == Bit(Wrap(c.A - c.B) >= WordSize \div 2)
    <3>1. d = [c EXCEPT !.Z = z, !.N = n]
      BY <2>7 DEF Perform, flags
    <3> HIDE DEF z, n
    <3> QED
      BY <3>1 DEF Goes, Typed, Untouched, OldFields
  <2>8. CASE name = "STA"
    BY <2>8, Stacks DEF Perform
  <2>9. CASE name = "LDA"
    <3>1. read16(c, arg) \in Word
      BY Stacks
    <3> QED
      BY <2>9, <3>1, Accumulates DEF Perform
  <2>10. CASE name \in {"JMP", "JZ", "JNZ"}
    <3>1. d = c \/ d = [c EXCEPT !.PC = arg]
      BY <2>10 DEF Perform, Branch
    <3> HIDE DEF d
    <3> QED
      BY <3>1 DEF Goes, Typed, Untouched, OldFields
  <2>11. CASE name = "PUSH"
    <3>1. d = push16(c, c.A) /\ c.A \in Word
      BY <2>11 DEF Perform, Stack, Typed
    <3> QED
      BY <3>1, Stacks
  <2>12. CASE name = "POP"
    <3>1. d = Accumulate(Popped(c), pop16(c))
      BY <2>12 DEF Perform, Stack
    <3>2. Goes(c, Popped(c)) /\ pop16(c) \in Word
      BY <1>1, Stacks
    <3>3. Goes(Popped(c), Accumulate(Popped(c), pop16(c)))
      BY <3>2, Accumulates DEF Goes
    <3> QED
      BY <3>1, <3>2, <3>3, GoesOn
  <2>13. CASE name = "CALL"
    <3> DEFINE e == push16(c, c.PC)
    <3>1. d = [e EXCEPT !.PC = arg] /\ c.PC \in Word
      BY <2>13 DEF Perform, Stack, Typed
    <3>2. Goes(c, e)
      BY <3>1, Stacks
    <3> HIDE DEF d, e
    <3>3. Goes(e, d)
      BY <3>1, <3>2 DEF Goes, Typed, Untouched, OldFields
    <3> QED
      BY <3>2, <3>3, GoesOn
  <2>14. CASE name = "RET"
    <3> DEFINE e == Popped(c)
               to == pop16(c)
    <3>1. d = [e EXCEPT !.PC = to]
      BY <2>14 DEF Perform, Stack
    <3>2. Goes(c, e) /\ to \in Word
      BY <1>1, Stacks
    <3> HIDE DEF d, e, to
    <3>3. Goes(e, d)
      BY <3>1, <3>2 DEF Goes, Typed, Untouched, OldFields
    <3> QED
      BY <3>2, <3>3, GoesOn
  <2>15. CASE name = "OUT"
    <3> DEFINE out == Append(c.out, Low(c.A))
    <3>1. d = [c EXCEPT !.out = out]
      BY <2>15 DEF Perform
    <3> HIDE DEF out, d
    <3> QED
      BY <3>1 DEF Goes, Typed, Untouched, OldFields
  <2>16. CASE name = "INP"
    <3>1. d = Accumulate(AfterRead(c, arg), read_port(c, arg, random))
      BY <2>16 DEF Perform, Ports
    <3>2. Goes(c, AfterRead(c, arg)) /\ read_port(c, arg, random) \in Word
      BY PortsGo
    <3>3. Goes(AfterRead(c, arg), d)
      BY <3>1, <3>2, Accumulates DEF Goes
    <3> QED
      BY <3>2, <3>3, GoesOn
  <2>17. CASE name = "OUTP"
    <3>1. d = write_port(c, arg)
      BY <2>17 DEF Perform, Ports
    <3> QED
      BY <3>1, PortsGo
  <2> HIDE DEF d
  <2> QED
    BY <1>3, <2>1, <2>2, <2>3, <2>4, <2>5, <2>6, <2>7, <2>8, <2>9, <2>10, <2>11, <2>12, <2>13, <2>14,
       <2>15, <2>16, <2>17, NamesAre
<1> HIDE DEF d
<1>4. CASE name # "HLT"
  <2>1. Goes(c, d)
    BY <1>3, <1>4
  <2> QED
    BY <1>4, <2>1 DEF Goes, d
<1> QED
  BY <1>2, <1>4

\* The machine that has fetched an instruction of some bytes.
Fetching(c, size) == [c EXCEPT !.PC = Wrap(@ + size)]

\* The operand of an instruction, after its opcode.
OperandOf(c, name) ==
  CASE Size(name) = 1 -> 0
    [] Size(name) = 2 -> At(c.rom, Wrap(c.PC + 1))
    [] Size(name) = 3 -> At(c.rom, Wrap(c.PC + 1)) + 256 * At(c.rom, Wrap(c.PC + 2))

\* The operand is a word, and only the program counter has changed.
LEMMA Fetches ==
  ASSUME NEW c, Typed(c), NEW name \in Names
  PROVE  /\ Size(name) \in {1, 2, 3}
         /\ OperandOf(c, name) \in Word
         /\ Goes(c, Fetching(c, Size(name))) /\ Fetching(c, Size(name)).PC = Wrap(c.PC + Size(name))
         /\ \A field \in OldFields \ {"PC"} : Fetching(c, Size(name))[field] = c[field]
<1>1. Size(name) \in {1, 2, 3}
  BY DEF Size
<1>2. \A a : At(c.rom, a) \in Byte
  BY Memory DEF Typed
<1>3. OperandOf(c, name) \in Word
  <2>1. 0 \in Word
    BY WordRange
  <2> QED
    BY <1>1, <1>2, <2>1, BytesOfWords DEF OperandOf
<1> DEFINE pc == Wrap(c.PC + Size(name))
<1>4. pc \in Word
  <2>1. c.PC + Size(name) \in Int
    BY <1>1, WordRange DEF Typed
  <2> QED
    BY <2>1, BytesOfWords
<1>5. Fetching(c, Size(name)) = [c EXCEPT !.PC = pc]
  BY DEF Fetching
<1> HIDE DEF pc
<1>6. Goes(c, Fetching(c, Size(name))) /\ Fetching(c, Size(name)).PC = pc
      /\ \A field \in OldFields \ {"PC"} : Fetching(c, Size(name))[field] = c[field]
  BY <1>4, <1>5 DEF Goes, Typed, Untouched, OldFields
<1> QED
  BY <1>1, <1>3, <1>6 DEF pc

\* An instruction is fetched, performed and counted; an opcode that is none is
\* an exception.
LEMMA Steps ==
  ASSUME NEW c, Typed(c), NEW random
  PROVE  LET opcode == At(c.rom, c.PC)
             name == Mnemonics[opcode + 1]
             d == Perform(Fetching(c, Size(name)), name, OperandOf(c, name), random)
         IN /\ opcode \in Byte
            /\ opcode < 34 => name \in Names /\ step(c, random) = [d EXCEPT !.cycles = @ + 1]
            /\ opcode >= 34 => step(c, random) = [c EXCEPT !.PC = Wrap(@ + 1), !.raised = TRUE]
<1> DEFINE opcode == At(c.rom, c.PC)
           name == Mnemonics[opcode + 1]
<1>1. opcode \in Byte
  BY Memory DEF Typed
<1>2. Len(Mnemonics) = 34
  BY DEF Mnemonics
<1>3. opcode \in Nat
  BY <1>1, ByteRange
<1> HIDE DEF opcode
<1>4. opcode < 34 => name \in Names
  BY <1>3 DEF Names
<1>5. opcode < 34 => step(c, random) = [Perform(Fetching(c, Size(name)), name, OperandOf(c, name), random)
                                          EXCEPT !.cycles = @ + 1]
  <2>1. CASE opcode < 34
    <3>1. ~(opcode >= Len(Mnemonics))
      BY <1>2, <1>3, <2>1
    <3> HIDE DEF name
    <3> QED
      BY <3>1, Zenon DEF step, OperandOf, Fetching, opcode, name
  <2> QED
    BY <2>1
<1>6. opcode >= 34 => step(c, random) = [c EXCEPT !.PC = Wrap(@ + 1), !.raised = TRUE]
  BY <1>2, <1>3 DEF step, opcode
<1> QED
  BY <1>1, <1>4, <1>5, <1>6 DEF opcode

\* A turn keeps the types and the program, and stops the machine only after it
\* has counted.
LEMMA TurnGoes ==
  ASSUME NEW c, Typed(c), NEW random \in Byte
  PROVE  LET d == Turn(c, random)
         IN Typed(d) /\ d.rom = c.rom /\ (d.running = c.running \/ d.cycles > 0)
<1> DEFINE d == Turn(c, random)
           opcode == At(c.rom, c.PC)
           name == Mnemonics[opcode + 1]
           e == Perform(Fetching(c, Size(name)), name, OperandOf(c, name), random)
<1>1. CASE c.cycles >= Limit
  <2>1. d = [c EXCEPT !.running = FALSE, !.raised = TRUE]
    BY <1>1 DEF Turn
  <2>2. c.cycles > 0
    BY <1>1, LimitAssumption DEF Typed
  <2> HIDE DEF d
  <2>3. Typed(d) /\ d.rom = c.rom /\ d.cycles = c.cycles
    BY <2>1 DEF Typed, OldFields
  <2> QED
    BY <2>2, <2>3 DEF d
<1>2. CASE ~(c.cycles >= Limit)
  <2>1. d = step(c, random)
    BY <1>2 DEF Turn
  <2>2. opcode \in Byte
    BY Steps
  <2>3. CASE opcode < 34
    <3>1. name \in Names /\ d = [e EXCEPT !.cycles = @ + 1]
      BY <2>1, <2>3, Steps
    <3>2. Goes(c, Fetching(c, Size(name))) /\ OperandOf(c, name) \in Word
      BY <3>1, Fetches
    <3> HIDE DEF name
    <3>3. Typed(e) /\ Untouched(Fetching(c, Size(name)), e)
      BY <3>1, <3>2, PerformGoes DEF Goes
    <3>4. e.rom = c.rom /\ e.cycles = c.cycles
      BY <3>2, <3>3 DEF Goes, Untouched
    <3> HIDE DEF d, e
    <3>5. Typed(d) /\ d.rom = c.rom /\ d.cycles > 0
      BY <3>1, <3>3, <3>4 DEF Typed, OldFields
    <3> QED
      BY <3>5 DEF d
  <2>4. CASE opcode >= 34
    <3> DEFINE pc == Wrap(c.PC + 1)
    <3>1. d = [c EXCEPT !.PC = pc, !.raised = TRUE]
      BY <2>1, <2>4, Steps
    <3>2. pc \in Word
      <4>1. c.PC + 1 \in Int
        BY WordRange DEF Typed
      <4> QED
        BY <4>1, BytesOfWords
    <3> HIDE DEF d, pc
    <3>3. Typed(d) /\ d.rom = c.rom /\ d.running = c.running
      BY <3>1, <3>2 DEF Typed, OldFields
    <3> QED
      BY <3>3 DEF d
  <2> QED
    BY <2>2, <2>3, <2>4, ByteRange
<1> QED
  BY <1>1, <1>2

-----------------------------------------------------------------------------
(***************************************************************************)
(* The machine of MiniOS, in step with the original.                       *)
(***************************************************************************)
\* The fields of a machine of MiniOS.
MiniFields == {"A", "B", "PC", "Z", "CF", "N", "rom", "cycles", "running", "raised", "out"}

\* What its instructions work on is the same.
Alike(c, m) == m.A = c.A /\ m.B = c.B /\ m.CF = c.CF /\ m.out = c.out /\ m.running = c.running

\* What its instructions leave alone.
Kept(m, e) ==
  DOMAIN e = MiniFields /\ e.PC = m.PC /\ e.rom = m.rom /\ e.cycles = m.cycles /\ e.raised = m.raised

\* Its nine instructions do what those of the original do, but for Z and N.
LEMMA MiniPerforms ==
  ASSUME NEW c, Typed(c), NEW m, DOMAIN m = MiniFields, Alike(c, m), NEW op \in MiniNames,
         NEW arg \in Word, NEW random
  PROVE  /\ Alike(Perform(c, op, arg, random), Mini!Perform(m, op, arg))
         /\ Kept(m, Mini!Perform(m, op, arg)) /\ Perform(c, op, arg, random).PC = c.PC
<1> DEFINE d == Perform(c, op, arg, random)
           e == Mini!Perform(m, op, arg)
<1>1. c.A \in Nat /\ c.B \in Nat /\ c.A < 65536 /\ c.B < 65536
  BY WordRange DEF Typed
<1>2. CASE op = "NOP"
  BY <1>2 DEF Perform, Mini!Perform, Alike, Kept
<1>3. CASE op = "LDIA"
  <2>1. d = Accumulate(c, arg) /\ e = [m EXCEPT !.A = arg]
    BY <1>3 DEF Perform, Mini!Perform
  <2> HIDE DEF d, e
  <2>2. Kept(m, e) /\ e.A = arg /\ e.B = m.B /\ e.CF = m.CF /\ e.out = m.out /\ e.running = m.running
    BY <2>1 DEF Kept, MiniFields
  <2> QED
    BY <2>1, <2>2, Accumulates DEF d, e, Alike, Goes
<1>4. CASE op = "LDIB"
  <2>1. d = [c EXCEPT !.B = arg] /\ e = [m EXCEPT !.B = arg]
    BY <1>4 DEF Perform, Mini!Perform
  <2> HIDE DEF d, e
  <2>2. Kept(m, e) /\ e.A = m.A /\ e.B = arg /\ e.CF = m.CF /\ e.out = m.out /\ e.running = m.running
    BY <2>1 DEF Kept, MiniFields
  <2>3. d.A = c.A /\ d.B = arg /\ d.CF = c.CF /\ d.out = c.out /\ d.running = c.running /\ d.PC = c.PC
    BY <2>1 DEF Typed, OldFields
  <2> QED
    BY <2>2, <2>3 DEF d, e, Alike
<1>5. CASE op = "ADD"
  <2> DEFINE cf == Bit(c.A + c.B >= WordSize)
             a == Wrap(c.A + c.B)
  <2>1. d = Arithmetic(c, c.A + c.B) /\ c.A + c.B \in Int
    <3>1. d = Arithmetic(c, Sums(c)["ADD"])
      BY <1>5 DEF Perform
    <3>2. Sums(c)["ADD"] = c.A + c.B
      BY DEF Sums
    <3> QED
      BY <1>1, <3>1, <3>2
  <2>2. e = [m EXCEPT !.CF = cf, !.A = a]
    <3>1. e = Mini!Sum(m)
      BY <1>5 DEF Mini!Perform
    <3>2. e = [m EXCEPT !.CF = Mini!Bit(c.A + c.B >= Mini!WordSize), !.A = Mini!Wrap(c.A + c.B)]
      BY <3>1 DEF Mini!Sum, Alike
    <3>3. Mini!Bit(c.A + c.B >= Mini!WordSize) = cf
      BY MiniArithmetic DEF Bit, Mini!Bit
    <3>4. Mini!Wrap(c.A + c.B) = a
      BY MiniArithmetic
    <3> HIDE DEF e, cf, a
    <3> QED
      BY <3>2, <3>3, <3>4
  <2>3. Bit(c.A + c.B \notin Word) = cf
    BY <1>1, MiniArithmetic, WordRange DEF Bit
  <2>4. Goes(c, d) /\ d.A = a /\ d.B = c.B /\ d.PC = c.PC /\ d.CF = cf /\ d.out = c.out
    BY <2>1, <2>3, Adds
  <2> HIDE DEF d, e, cf, a
  <2>5. Kept(m, e) /\ e.A = a /\ e.B = m.B /\ e.CF = cf /\ e.out = m.out /\ e.running = m.running
    BY <2>2 DEF Kept, MiniFields
  <2> QED
    BY <2>4, <2>5 DEF d, e, Alike, Goes
<1>6. CASE op = "SUB"
  <2> DEFINE cf == Bit(c.A < c.B)
             a == Wrap(c.A - c.B)
  <2>1. d = Arithmetic(c, c.A - c.B) /\ c.A - c.B \in Int
    <3>1. d = Arithmetic(c, Sums(c)["SUB"])
      BY <1>6 DEF Perform
    <3>2. Sums(c)["SUB"] = c.A - c.B
      BY DEF Sums
    <3> QED
      BY <1>1, <3>1, <3>2
  <2>2. e = [m EXCEPT !.CF = cf, !.A = a]
    <3>1. e = Mini!Difference(m)
      BY <1>6 DEF Mini!Perform
    <3>2. e = [m EXCEPT !.CF = Mini!Bit(c.A < c.B), !.A = Mini!Wrap(c.A - c.B)]
      BY <3>1 DEF Mini!Difference, Alike
    <3>3. Mini!Bit(c.A < c.B) = cf
      BY MiniArithmetic DEF Bit, Mini!Bit
    <3>4. Mini!Wrap(c.A - c.B) = a
      BY MiniArithmetic
    <3> HIDE DEF e, cf, a
    <3> QED
      BY <3>2, <3>3, <3>4
  <2>3. Bit(c.A - c.B \notin Word) = cf
    BY <1>1, MiniArithmetic, WordRange DEF Bit
  <2>4. Goes(c, d) /\ d.A = a /\ d.B = c.B /\ d.PC = c.PC /\ d.CF = cf /\ d.out = c.out
    BY <2>1, <2>3, Adds
  <2> HIDE DEF d, e, cf, a
  <2>5. Kept(m, e) /\ e.A = a /\ e.B = m.B /\ e.CF = cf /\ e.out = m.out /\ e.running = m.running
    BY <2>2 DEF Kept, MiniFields
  <2> QED
    BY <2>4, <2>5 DEF d, e, Alike, Goes
<1>7. CASE op \in {"INC", "DEC"}
  <2> DEFINE a == IF op = "INC" THEN Wrap(c.A + 1) ELSE Wrap(c.A - 1)
  <2>1. d = Accumulate(c, a)
    BY <1>7 DEF Perform
  <2>2. e = [m EXCEPT !.A = a]
    BY <1>7, MiniArithmetic DEF Mini!Perform, Alike
  <2>3. a \in Word
    BY <1>1, BytesOfWords
  <2> HIDE DEF d, e, a
  <2>4. Kept(m, e) /\ e.A = a /\ e.B = m.B /\ e.CF = m.CF /\ e.out = m.out /\ e.running = m.running
    BY <2>2 DEF Kept, MiniFields
  <2> QED
    BY <2>1, <2>3, <2>4, Accumulates DEF d, e, Alike, Goes
<1>8. CASE op = "OUT"
  <2> DEFINE out == Append(c.out, Low(c.A))
  <2>1. d = [c EXCEPT !.out = out]
    BY <1>8 DEF Perform
  <2>2. e = [m EXCEPT !.out = out]
    BY <1>8, MiniArithmetic DEF Mini!Perform, Alike
  <2> HIDE DEF d, e, out
  <2>3. Kept(m, e) /\ e.A = m.A /\ e.B = m.B /\ e.CF = m.CF /\ e.out = out /\ e.running = m.running
    BY <2>2 DEF Kept, MiniFields
  <2>4. d.A = c.A /\ d.B = c.B /\ d.CF = c.CF /\ d.out = out /\ d.running = c.running /\ d.PC = c.PC
    BY <2>1 DEF Typed, OldFields
  <2> QED
    BY <2>3, <2>4 DEF d, e, Alike
<1>9. CASE op = "HLT"
  <2>1. d = [c EXCEPT !.running = FALSE] /\ e = [m EXCEPT !.running = FALSE]
    BY <1>9 DEF Perform, Mini!Perform
  <2> HIDE DEF d, e
  <2>2. Kept(m, e) /\ e.A = m.A /\ e.B = m.B /\ e.CF = m.CF /\ e.out = m.out /\ e.running = FALSE
    BY <2>1 DEF Kept, MiniFields
  <2>3. d.A = c.A /\ d.B = c.B /\ d.CF = c.CF /\ d.out = c.out /\ d.running = FALSE /\ d.PC = c.PC
    BY <2>1 DEF Typed, OldFields
  <2> QED
    BY <2>2, <2>3 DEF d, e, Alike
<1> QED
  BY <1>2, <1>3, <1>4, <1>5, <1>6, <1>7, <1>8, <1>9 DEF MiniNames

\* Instructions of MiniOS one after the other, through the memory and beyond.
Aligned(rom, starts) ==
  \A a \in starts : \E op \in MiniNames : At(rom, a) = OPS[op] /\ a + Size(op) \in starts

\* Both machines are at the same instruction of the same program.
InStep(c, m) ==
  /\ DOMAIN m = MiniFields /\ Alike(c, m)
  /\ m.PC = c.PC /\ m.rom = c.rom /\ m.cycles = c.cycles /\ m.raised = c.raised
  /\ \E starts \in SUBSET Nat : Aligned(m.rom, starts) /\ m.PC \in starts

\* MiniOS finds the instruction by its opcode.
LEMMA MiniFinds ==
  ASSUME NEW op \in MiniNames
  PROVE  {name \in DOMAIN Mini!OPS : Mini!OPS[name] = OPS[op]} = {op}
<1>1. ASSUME NEW name \in MiniNames, Mini!OPS[name] = OPS[op] PROVE name = op
  <2>1. OPS[name] = OPS[op] /\ name \in DOMAIN OPS /\ op \in DOMAIN OPS
    BY <1>1, MiniOpcodes
  <2> QED
    BY <2>1, Opcodes
<1> QED
  BY <1>1, MiniOpcodes

\* A turn of MiniOS never goes back.
LEMMA MiniGoesOn ==
  ASSUME NEW m, DOMAIN m = MiniFields, m.PC \in Nat
  PROVE  DOMAIN Mini!Turn(m) = MiniFields /\ Mini!Turn(m).PC \in Nat /\ Mini!Turn(m).PC >= m.PC
<1> DEFINE ops == {name \in DOMAIN Mini!OPS : Mini!OPS[name] = Mini!At(m.rom, m.PC)}
           op == CHOOSE name \in ops : TRUE
           arg == Mini!At(m.rom, m.PC + 1) + 256 * Mini!At(m.rom, m.PC + 2)
           fetched == [m EXCEPT !.PC = @ + Mini!Size(op)]
           done == Mini!Perform(fetched, op, arg)
           z == Mini!Bit(done.A = 0)
           n == Mini!Bit(done.A >= Mini!WordSize \div 2)
           counted == [done EXCEPT !.Z = z, !.N = n, !.cycles = @ + 1]
<1>1. CASE m.cycles >= Limit
  <2>1. Mini!Turn(m) = [m EXCEPT !.running = FALSE, !.raised = TRUE]
    BY <1>1 DEF Mini!Turn
  <2> QED
    BY <2>1 DEF MiniFields
<1>2. CASE ~(m.cycles >= Limit)
  <2>1. Mini!Turn(m) = Mini!step(m)
    BY <1>2 DEF Mini!Turn
  <2>2. CASE m.PC >= Mini!WordSize
    <3>1. Mini!step(m) = [m EXCEPT !.raised = TRUE]
      <4>1. ~(m.PC < Mini!WordSize)
        BY <2>2, MiniArithmetic
      <4> QED
        BY <2>2, <4>1, Zenon DEF Mini!step
    <3> QED
      BY <2>1, <3>1 DEF MiniFields
  <2>3. CASE m.PC < Mini!WordSize /\ (ops = {} \/ m.PC + Mini!Size(op) > Mini!WordSize)
    <3>1. Mini!step(m) = [m EXCEPT !.PC = @ + 1, !.raised = TRUE]
      <4>1. ~(m.PC >= Mini!WordSize)
        BY <2>3, MiniArithmetic
      <4> QED
        BY <2>3, <4>1, Zenon DEF Mini!step
    <3> QED
      BY <2>1, <3>1 DEF MiniFields
  <2>4. CASE m.PC < Mini!WordSize /\ ~(ops = {} \/ m.PC + Mini!Size(op) > Mini!WordSize)
    <3>1. Mini!step(m) = counted
      <4>1. ~(m.PC >= Mini!WordSize)
        BY <2>4, MiniArithmetic
      <4> QED
        BY <2>4, <4>1, Zenon DEF Mini!step
    <3>2. op \in MiniNames
      BY <2>4, MiniOpcodes
    <3> HIDE DEF op, ops, arg
    <3>3. Mini!Size(op) \in Nat
      BY DEF Mini!Size
    <3>4. DOMAIN fetched = MiniFields /\ fetched.PC = m.PC + Mini!Size(op)
      BY DEF MiniFields
    <3> HIDE DEF fetched
    <3>5. DOMAIN done = MiniFields /\ done.PC = fetched.PC
      BY <3>2, <3>4 DEF Mini!Perform, MiniNames, MiniFields, Mini!Sum, Mini!Difference
    <3> HIDE DEF done, z, n
    <3>6. DOMAIN counted = MiniFields /\ counted.PC = done.PC
      BY <3>5 DEF MiniFields
    <3> HIDE DEF counted
    <3> QED
      BY <2>1, <3>1, <3>3, <3>4, <3>5, <3>6
  <2> QED
    BY <2>2, <2>3, <2>4, MiniArithmetic
<1> QED
  BY <1>1, <1>2

\* In step they stay, until the program counter of MiniOS reaches the end of
\* the memory.
LEMMA StaysInStep ==
  ASSUME NEW c, Typed(c), NEW m, InStep(c, m), NEW random \in Byte,
         m.PC + 3 <= WordSize, Mini!Turn(m).PC + 3 <= WordSize
  PROVE  InStep(Turn(c, random), Mini!Turn(m))
<1>1. c.PC \in Nat /\ c.PC < 65536 /\ m.PC = c.PC /\ m.PC <= 65533 /\ WordSize = 65536
  BY WordRange, MiniArithmetic DEF Typed, InStep
<1>2. CASE c.cycles >= Limit
  <2> DEFINE d == [c EXCEPT !.running = FALSE, !.raised = TRUE]
             e == [m EXCEPT !.running = FALSE, !.raised = TRUE]
  <2>1. Turn(c, random) = d /\ Mini!Turn(m) = e
    BY <1>2 DEF Turn, Mini!Turn, InStep
  <2>2. /\ d.A = c.A /\ d.B = c.B /\ d.CF = c.CF /\ d.out = c.out /\ d.running = FALSE /\ d.PC = c.PC
        /\ d.rom = c.rom /\ d.cycles = c.cycles /\ d.raised = TRUE
    BY DEF Typed, OldFields
  <2>3. /\ e.A = m.A /\ e.B = m.B /\ e.CF = m.CF /\ e.out = m.out /\ e.running = FALSE /\ e.PC = m.PC
        /\ e.rom = m.rom /\ e.cycles = m.cycles /\ e.raised = TRUE /\ DOMAIN e = MiniFields
    BY DEF InStep, MiniFields
  <2> HIDE DEF d, e
  <2>4. InStep(d, e)
    BY <2>2, <2>3 DEF InStep, Alike
  <2> QED
    BY <2>1, <2>4
<1>3. CASE ~(c.cycles >= Limit)
  <2>1. PICK starts \in SUBSET Nat : Aligned(m.rom, starts) /\ m.PC \in starts
    BY DEF InStep
  <2>2. PICK op \in MiniNames : At(m.rom, m.PC) = OPS[op] /\ m.PC + Size(op) \in starts
    BY <2>1 DEF Aligned
  <2>3. Size(op) \in {1, 3} /\ Mini!Size(op) = Size(op) /\ op \in DOMAIN OPS /\ op \in Names
        /\ OPS[op] \in 0 .. 33 /\ Mnemonics[OPS[op] + 1] = op
    <3>1. Size(op) \in {1, 3} /\ Mini!Size(op) = Size(op) /\ op \in DOMAIN OPS
      BY MiniOpcodes
    <3> QED
      BY <3>1, Opcodes DEF Names
  <2> DEFINE size == Size(op)
             f == Fetching(c, size)
             x == OperandOf(c, op)
             arg == Mini!At(m.rom, m.PC + 1) + 256 * Mini!At(m.rom, m.PC + 2)
             g == [m EXCEPT !.PC = @ + Mini!Size(op)]
             d == Perform(f, op, x, random)
             e == Mini!Perform(g, op, arg)
             y == Mini!Perform(g, op, x)
             z == Mini!Bit(e.A = 0)
             n == Mini!Bit(e.A >= Mini!WordSize \div 2)
  <2>4. Turn(c, random) = [d EXCEPT !.cycles = @ + 1]
    <3>1. At(c.rom, c.PC) = OPS[op]
      BY <2>2 DEF InStep
    <3> DEFINE opcode == At(c.rom, c.PC)
               name == Mnemonics[opcode + 1]
               made == Perform(Fetching(c, Size(name)), name, OperandOf(c, name), random)
    <3>2. opcode < 34 => step(c, random) = [made EXCEPT !.cycles = @ + 1]
      BY Steps
    <3>3. opcode < 34 /\ name = op
      BY <2>3, <3>1
    <3> HIDE DEF opcode, name
    <3>4. made = d
      BY <3>3
    <3>5. step(c, random) = [d EXCEPT !.cycles = @ + 1]
      BY <3>2, <3>3, <3>4
    <3> QED
      BY <1>3, <3>5 DEF Turn
  <2>5. Mini!Turn(m) = [e EXCEPT !.Z = z, !.N = n, !.cycles = @ + 1]
    <3> DEFINE ops == {name \in DOMAIN Mini!OPS : Mini!OPS[name] = Mini!At(m.rom, m.PC)}
               chosen == CHOOSE name \in ops : TRUE
    <3>1. ops = {op}
      BY <2>2, MiniFinds, MiniArithmetic
    <3>2. chosen = op
      BY <3>1
    <3>3. ~(m.PC >= Mini!WordSize) /\ ~(ops = {} \/ m.PC + Mini!Size(chosen) > Mini!WordSize)
      BY <1>1, <2>3, <3>1, <3>2, MiniArithmetic
    <3>4. m.PC < Mini!WordSize
      BY <1>1, MiniArithmetic
    <3>5. Mini!Turn(m) = Mini!step(m)
      BY <1>3 DEF Mini!Turn, InStep
    <3> DEFINE fetched == [m EXCEPT !.PC = @ + Mini!Size(chosen)]
               done == Mini!Perform(fetched, chosen, arg)
    <3>6. Mini!step(m) = [done EXCEPT !.Z = Mini!Bit(done.A = 0), !.N = Mini!Bit(done.A >= Mini!WordSize \div 2),
                                      !.cycles = @ + 1]
      BY <3>3, <3>4, Zenon DEF Mini!step
    <3>7. done = e
      BY <3>2
    <3> QED
      BY <3>5, <3>6, <3>7
  <2>6. Typed(f) /\ f.PC = Wrap(c.PC + size) /\ x \in Word
        /\ f.A = c.A /\ f.B = c.B /\ f.CF = c.CF /\ f.out = c.out /\ f.running = c.running
        /\ f.rom = c.rom /\ f.cycles = c.cycles /\ f.raised = c.raised
    BY <2>3, Fetches DEF Goes, OldFields
  <2>7. DOMAIN g = MiniFields /\ g.PC = m.PC + size /\ Alike(f, g)
        /\ g.rom = m.rom /\ g.cycles = m.cycles /\ g.raised = m.raised
    BY <2>3, <2>6 DEF InStep, Alike, MiniFields
  <2>8. e = y
    <3>1. CASE size = 3
      <4>1. Wrap(c.PC + 1) = m.PC + 1 /\ Wrap(c.PC + 2) = m.PC + 2
        BY <1>1 DEF Wrap
      <4>2. x = arg
        BY <3>1, <4>1, MiniArithmetic DEF OperandOf, InStep
      <4> QED
        BY <4>2
    <3>2. CASE size = 1
      <4>1. op \notin {"LDIA", "LDIB"}
        BY <3>2 DEF Size, ARG8_OPS, ARG16_OPS
      <4> QED
        BY <4>1 DEF Mini!Perform, MiniNames
    <3> QED
      BY <2>3, <3>1, <3>2
  <2> HIDE DEF f, x, g, d, y, arg
  <2>9. Alike(d, y) /\ Kept(g, y) /\ d.PC = f.PC
    BY <2>6, <2>7, MiniPerforms DEF d, y
  <2>10. Typed(d) /\ Untouched(f, d)
    BY <2>3, <2>6, PerformGoes DEF d
  <2>11. e.A = d.A /\ e.B = d.B /\ e.CF = d.CF /\ e.out = d.out /\ e.running = d.running
         /\ DOMAIN e = MiniFields /\ e.PC = m.PC + size /\ e.rom = m.rom /\ e.cycles = m.cycles
         /\ e.raised = m.raised
    BY <2>7, <2>8, <2>9 DEF Alike, Kept
  <2>12. d.PC = Wrap(c.PC + size) /\ d.rom = c.rom /\ d.cycles = c.cycles /\ d.raised = c.raised
    BY <2>6, <2>9, <2>10 DEF Untouched
  <2> HIDE DEF e, z, n
  <2> DEFINE t == [d EXCEPT !.cycles = @ + 1]
             u == [e EXCEPT !.Z = z, !.N = n, !.cycles = @ + 1]
  <2>13. /\ t.A = d.A /\ t.B = d.B /\ t.CF = d.CF /\ t.out = d.out /\ t.running = d.running
         /\ t.PC = d.PC /\ t.rom = d.rom /\ t.cycles = d.cycles + 1 /\ t.raised = d.raised
    BY <2>10 DEF Typed, OldFields
  <2>14. /\ u.A = e.A /\ u.B = e.B /\ u.CF = e.CF /\ u.out = e.out /\ u.running = e.running
         /\ u.PC = e.PC /\ u.rom = e.rom /\ u.cycles = e.cycles + 1 /\ u.raised = e.raised
         /\ DOMAIN u = MiniFields
    BY <2>11 DEF MiniFields
  <2> HIDE DEF t, u
  <2>15. u = Mini!Turn(m) /\ t = Turn(c, random)
    BY <2>4, <2>5 DEF t, u
  <2>16. u.PC = t.PC
    <3>1. u.PC = m.PC + size
      BY <2>11, <2>14
    <3>2. m.PC + size < 65536
      BY <1>1, <2>3, <2>15, <3>1
    <3>3. Wrap(c.PC + size) = m.PC + size
      BY <1>1, <2>3, <3>2 DEF Wrap
    <3> QED
      BY <2>12, <2>13, <3>1, <3>3
  <2>17. Aligned(u.rom, starts) /\ u.PC \in starts
    BY <2>1, <2>2, <2>11, <2>14
  <2>18. u.rom = t.rom /\ u.cycles = t.cycles /\ u.raised = t.raised
    BY <2>11, <2>12, <2>13, <2>14 DEF InStep
  <2>19. Alike(t, u)
    BY <2>11, <2>13, <2>14 DEF Alike
  <2>20. InStep(t, u)
    BY <2>14, <2>16, <2>17, <2>18, <2>19 DEF InStep
  <2> QED
    BY <2>15, <2>20
<1> QED
  BY <1>2, <1>3

\* A program that is loaded is in ROM, byte by byte, and the machine is as new.
LEMMA Loads ==
  ASSUME NEW c, c.keys \in Seq(Byte), NEW program \in Seq(Byte)
  PROVE  LET d == load(c, program)
         IN /\ Typed(d) /\ d.cycles = 0 /\ d.running = FALSE
            /\ ~d.raised => /\ Len(program) <= WordSize
                            /\ d.rom = [a \in 0 .. Len(program) - 1 |-> program[a + 1]]
                            /\ d.A = 0 /\ d.B = 0 /\ d.CF = 0 /\ d.PC = 0 /\ d.out = <<>>
<1> DEFINE d == load(c, program)
           rom == [a \in 0 .. Len(program) - 1 |-> program[a + 1]]
<1>1. /\ Typed(reset(c)) /\ reset(c).cycles = 0 /\ reset(c).running = FALSE /\ reset(c).raised = FALSE
      /\ reset(c).A = 0 /\ reset(c).B = 0 /\ reset(c).CF = 0 /\ reset(c).PC = 0 /\ reset(c).out = <<>>
  <2>1. Stocked(<<>>)
    BY DEF Stocked
  <2>2. 0 \in Word /\ WordSize - 1 \in Word
    BY WordRange, MiniArithmetic
  <2> QED
    BY <2>1, <2>2 DEF reset, Typed, OldFields
<1>2. Stocked(rom)
  BY DEF Stocked
<1>3. CASE Len(program) > WordSize
  <2>1. d = [reset(c) EXCEPT !.raised = TRUE]
    BY <1>3 DEF load
  <2> HIDE DEF d
  <2>2. Typed(d) /\ d.raised = TRUE /\ d.cycles = 0 /\ d.running = FALSE
    BY <1>1, <2>1 DEF Typed, OldFields
  <2> QED
    BY <2>2 DEF d
<1>4. CASE ~(Len(program) > WordSize)
  <2>1. d = [reset(c) EXCEPT !.rom = rom]
    BY <1>4 DEF load
  <2>2. Len(program) <= WordSize
    BY <1>4, MiniArithmetic
  <2> HIDE DEF d, rom
  <2>3. /\ Typed(d) /\ d.rom = rom /\ d.cycles = 0 /\ d.running = FALSE
        /\ d.A = 0 /\ d.B = 0 /\ d.CF = 0 /\ d.PC = 0 /\ d.out = <<>>
    BY <1>1, <1>2, <2>1 DEF Typed, OldFields
  <2> QED
    BY <2>2, <2>3 DEF d, rom
<1> QED
  BY <1>3, <1>4

\* A program of whole lines starts in step on both machines; beyond its end the
\* memory is filled with NOP.
LEMMA StartsInStep ==
  ASSUME NEW c, c.keys \in Seq(Byte), NEW program \in Seq(Byte), Lined(program), ~load(c, program).raised
  PROVE  InStep([load(c, program) EXCEPT !.running = TRUE], [Mini!load(program) EXCEPT !.running = TRUE])
<1> DEFINE n == Len(program)
           rom == [a \in 0 .. n - 1 |-> program[a + 1]]
           loaded == load(c, program)
           d == [loaded EXCEPT !.running = TRUE]
           m == [Mini!load(program) EXCEPT !.running = TRUE]
<1>1. n \in Nat
  OBVIOUS
<1>2. PICK lines \in SUBSET Nat : LinedBy(program, lines)
  BY DEF Lined
<1> DEFINE starts == lines \cup {a \in Nat : a >= n}
<1>3. Aligned(rom, starts)
  <2>1. OPS["NOP"] = 0 /\ Size("NOP") = 1 /\ "NOP" \in MiniNames
    BY MiniOpcodes DEF Mini!OPS, MiniNames, Size, ARG8_OPS, ARG16_OPS
  <2>2. ASSUME NEW a \in starts, a >= n
        PROVE  \E op \in MiniNames : At(rom, a) = OPS[op] /\ a + Size(op) \in starts
    <3>1. a \in Nat /\ a \notin DOMAIN rom
      BY <1>1, <2>2
    <3>2. At(rom, a) = 0 /\ a + 1 \in starts
      BY <1>1, <2>2, <3>1 DEF At
    <3> QED
      BY <2>1, <3>2
  <2>3. ASSUME NEW a \in starts, ~(a >= n)
        PROVE  \E op \in MiniNames : At(rom, a) = OPS[op] /\ a + Size(op) \in starts
    <3>1. a \in lines /\ a < n /\ a \in 0 .. n - 1
      BY <1>1, <2>3
    <3>2. PICK op \in MiniNames : program[a + 1] = OPS[op] /\ a + Size(op) \in lines
      BY <1>2, <3>1 DEF LinedBy
    <3>3. At(rom, a) = program[a + 1]
      BY <3>1 DEF At
    <3> QED
      BY <3>2, <3>3
  <2> QED
    BY <2>2, <2>3 DEF Aligned
<1>4. 0 \in starts /\ starts \in SUBSET Nat
  BY <1>2 DEF LinedBy
<1>5. /\ Typed(loaded) /\ loaded.rom = rom /\ loaded.cycles = 0 /\ loaded.raised = FALSE
      /\ loaded.A = 0 /\ loaded.B = 0 /\ loaded.CF = 0 /\ loaded.PC = 0 /\ loaded.out = <<>>
  <2>1. loaded.raised \in BOOLEAN
    BY Loads DEF Typed
  <2> QED
    BY <2>1, Loads
<1>6. /\ DOMAIN m = MiniFields /\ m.rom = rom /\ m.cycles = 0 /\ m.raised = FALSE /\ m.running = TRUE
      /\ m.A = 0 /\ m.B = 0 /\ m.CF = 0 /\ m.PC = 0 /\ m.out = <<>>
  BY DEF Mini!load, Mini!reset, MiniFields
<1> HIDE DEF loaded, m, rom, starts
<1>7. /\ d.rom = rom /\ d.cycles = 0 /\ d.raised = FALSE /\ d.running = TRUE
      /\ d.A = 0 /\ d.B = 0 /\ d.CF = 0 /\ d.PC = 0 /\ d.out = <<>>
  BY <1>5 DEF Typed, OldFields
<1> HIDE DEF d
<1>8. InStep(d, m)
  BY <1>3, <1>4, <1>6, <1>7 DEF InStep, Alike
<1> QED
  BY <1>8 DEF d, m, loaded

-----------------------------------------------------------------------------
(***************************************************************************)
(* The system.                                                             *)
(***************************************************************************)
\* No line has a colon.
Unmarked == \A i \in DOMAIN source : ~Labelled(source[i])

\* What is on the disk is sequences of lines.
Texts == \A path \in DOMAIN disk : disk[path] \in SourceText

\* A machine that has another beside it was started, and has run or runs.  A
\* machine just reset is therefore never taken for the one that was running.
Begun == mini # NoTwin => cpu.running \/ cpu.cycles > 0

\* MiniOS is in step unless it is at the end of the memory.
Paired ==
  mini # NoTwin /\ Unmarked =>
    /\ DOMAIN mini = MiniFields /\ mini.PC \in Nat
    /\ mini.PC + 3 <= WordSize => InStep(cpu, mini)

\* The inductive invariant.
MiniInv ==
  /\ kit \in DOMAIN Kits /\ Texts /\ Typed(cpu)
  /\ task = "run" => cpu.running = TRUE /\ cpu.raised = FALSE
  /\ Begun /\ Paired

\* The machine as it is switched on.
LEMMA PowersOn == Typed(PowerOn) /\ ~(PowerOn.running \/ PowerOn.cycles > 0)
<1>1. Stocked(<<>>)
  BY DEF Stocked
<1>2. 0 \in Word /\ WordSize - 1 \in Word
  BY WordRange, MiniArithmetic
<1> QED
  BY <1>1, <1>2 DEF PowerOn, reset, Typed, OldFields

\* It holds before the first boot: nothing runs.
LEMMA InvInit == Init => MiniInv
<1> SUFFICES ASSUME Init PROVE MiniInv
  OBVIOUS
<1>1. kit \in DOMAIN Kits /\ disk = <<>> /\ cpu = PowerOn /\ task = "boot" /\ mini = NoTwin
  BY DEF Init, OsInit
<1>2. Typed(cpu)
  BY <1>1, PowersOn
<1> QED
  BY <1>1, <1>2 DEF MiniInv, Texts, Begun, Paired

\* A turn of both machines keeps it: they stay in step.
LEMMA TurnKeepsInv == ASSUME MiniInv, NEW random \in Random, RunTurn(random), MiniTurn PROVE MiniInv'
<1>1. task = "run" /\ cpu' = Turn(cpu, random) /\ kit' = kit /\ disk' = disk /\ source' = source
      /\ random \in Byte /\ Typed(cpu) /\ cpu.running = TRUE /\ cpu.raised = FALSE
  BY SessionsAssumption DEF RunTurn, MiniInv
<1>2. Typed(cpu') /\ (cpu'.running = cpu.running \/ cpu'.cycles > 0)
  BY <1>1, TurnGoes
<1>3. task' = "run" => cpu'.running = TRUE /\ cpu'.raised = FALSE
  BY <1>2 DEF RunTurn, Typed
<1>4. mini' = IF mini = NoTwin \/ mini.raised \/ ~mini.running THEN mini ELSE Mini!Turn(mini)
  BY DEF MiniTurn
<1>5. ASSUME mini' # NoTwin, Unmarked'
      PROVE  /\ DOMAIN mini' = MiniFields /\ mini'.PC \in Nat
             /\ mini'.PC + 3 <= WordSize => InStep(cpu', mini')
  <2>1. mini # NoTwin /\ Unmarked
    BY <1>1, <1>4, <1>5 DEF Unmarked
  <2>2. DOMAIN mini = MiniFields /\ mini.PC \in Nat /\ (mini.PC + 3 <= WordSize => InStep(cpu, mini))
    BY <2>1 DEF MiniInv, Paired
  <2>3. DOMAIN mini' = MiniFields /\ mini'.PC \in Nat /\ mini'.PC >= mini.PC
    BY <1>4, <2>2, MiniGoesOn
  <2>4. ASSUME mini'.PC + 3 <= WordSize PROVE InStep(cpu', mini')
    <3>1. mini.PC + 3 <= WordSize
      BY <2>2, <2>3, <2>4, MiniArithmetic
    <3>2. InStep(cpu, mini)
      BY <2>2, <3>1
    <3>3. mini.raised = FALSE /\ mini.running = TRUE
      BY <1>1, <3>2 DEF InStep, Alike
    <3>4. mini' = Mini!Turn(mini)
      BY <1>4, <2>1, <3>3
    <3> QED
      BY <1>1, <2>4, <3>1, <3>2, <3>4, StaysInStep
  <2> QED
    BY <2>3, <2>4
<1>6. Begun'
  BY <1>1, <1>2 DEF Begun
<1> QED
  BY <1>1, <1>2, <1>3, <1>5, <1>6 DEF MiniInv, Paired, Texts

\* What does not start a program leaves both machines alone or resets one.
LEMMA LeftAlone ==
  ASSUME MiniInv, Follow, task' # "run",
         cpu' = cpu => source' = source \/ ~(cpu.running \/ cpu.cycles > 0)
  PROVE  Begun' /\ Paired'
<1>1. CASE cpu' = cpu
  <2>1. mini' = mini
    BY <1>1 DEF Follow
  <2>2. CASE mini = NoTwin
    BY <2>1, <2>2 DEF Begun, Paired
  <2>3. CASE mini # NoTwin
    <3>1. source' = source
      BY <1>1, <2>3 DEF MiniInv, Begun
    <3> QED
      BY <1>1, <2>1, <3>1 DEF MiniInv, Begun, Paired, Unmarked
  <2> QED
    BY <2>2, <2>3
<1>2. CASE cpu' # cpu
  <2>1. mini' = NoTwin
    BY <1>2 DEF Follow
  <2> QED
    BY <2>1 DEF Begun, Paired
<1> QED
  BY <1>1, <1>2

\* So does the start of a program: both machines get the same bytes.
LEMMA StartKeepsInv ==
  ASSUME MiniInv, NEW S, NEW text \in Seq(S), Start(text, assemble(text)), Follow, kit' = kit, disk' = disk
  PROVE  MiniInv'
<1> DEFINE program == assemble(text)
           loaded == load(cpu, program)
<1>1. program \in Seq(Byte) /\ source' = text
  BY AssembledBytes DEF Start
<1>2. cpu.keys \in Seq(Byte)
  BY DEF MiniInv, Typed
<1> HIDE DEF program
<1>3. Typed(loaded) /\ loaded.cycles = 0 /\ loaded.running = FALSE
  BY <1>1, <1>2, Loads
<1>4. Started(loaded)
  BY DEF Start, program
<1>5. kit' \in DOMAIN Kits /\ Texts'
  BY DEF MiniInv, Texts
<1>6. CASE loaded.raised
  <2>1. cpu' = loaded /\ task' = "idle"
    BY <1>4, <1>6 DEF Started
  <2>2. Begun' /\ Paired'
    BY <1>3, <2>1, LeftAlone
  <2> QED
    BY <1>3, <1>5, <2>1, <2>2 DEF MiniInv
<1>7. CASE ~loaded.raised
  <2>1. cpu' = [loaded EXCEPT !.running = TRUE] /\ task' = "run"
    BY <1>4, <1>7 DEF Started
  <2> HIDE DEF loaded
  <2>2. Typed(cpu') /\ cpu'.running = TRUE /\ cpu'.raised = FALSE
    BY <1>3, <1>7, <2>1 DEF Typed, OldFields
  <2>3. mini' = MiniBeside(Mini!assemble(text))
    BY <1>1, <2>1 DEF Follow
  <2>4. ASSUME mini' # NoTwin, Unmarked'
        PROVE  DOMAIN mini' = MiniFields /\ mini'.PC \in Nat /\ InStep(cpu', mini')
    <3>1. Mini!assemble(text) # Error /\ mini' = [Mini!load(Mini!assemble(text)) EXCEPT !.running = TRUE]
      BY <2>3, <2>4 DEF MiniBeside
    <3>2. \A i \in DOMAIN text : ~Labelled(text[i])
      BY <1>1, <2>4 DEF Unmarked
    <3>3. assemble(text) # Error
      BY DEF Start
    <3>4. Mini!assemble(text) = program /\ Lined(program)
      BY <3>1, <3>2, <3>3, MiniAssembles DEF program
    <3>5. InStep(cpu', mini')
      BY <1>1, <1>2, <1>7, <2>1, <3>1, <3>4, StartsInStep DEF loaded
    <3>6. DOMAIN mini' = MiniFields /\ mini'.PC = cpu'.PC
      BY <3>5 DEF InStep
    <3> QED
      BY <2>2, <3>5, <3>6, WordRange DEF Typed
  <2>5. Begun' /\ Paired'
    BY <2>2, <2>4 DEF Begun, Paired
  <2> QED
    BY <1>5, <2>2, <2>5 DEF MiniInv
<1> QED
  BY <1>6, <1>7

\* So does a boot, which may start the demo or install it,
LEMMA BootsKeepInv == ASSUME MiniInv, Boots, Follow PROVE MiniInv'
<1>1. DEMO \in SourceText
  BY SessionsAssumption
<1>2. CASE BootExists
  <2>1. kit' = kit /\ disk' = disk /\ cpu' = cpu /\ source' = source /\ task' # "run"
    BY <1>2 DEF BootExists
  <2>2. Begun' /\ Paired'
    BY <2>1, LeftAlone
  <2> QED
    BY <2>1, <2>2 DEF MiniInv, Texts
<1>3. CASE BootInstall
  <2>1. kit' = kit /\ disk' = With(disk, DemoPath, DEMO) /\ cpu' = cpu /\ source' = source /\ task' # "run"
    BY <1>3 DEF BootInstall, write_file
  <2>2. Begun' /\ Paired'
    BY <2>1, LeftAlone
  <2>3. Texts'
    BY <1>1, <2>1 DEF MiniInv, Texts, With
  <2> QED
    BY <2>1, <2>2, <2>3 DEF MiniInv
<1>4. CASE BootDemo
  BY <1>1, <1>4, StartKeepsInv DEF BootDemo, SourceText
<1> QED
  BY <1>2, <1>3, <1>4 DEF Boots

\* so do the commands of the monitor, which change the disk or start a program,
LEMMA CommandsKeepInv == ASSUME MiniInv, Commands, Follow PROVE MiniInv'
<1>1. CASE WriteCommand
  <2>1. kit' = kit /\ cpu' = cpu /\ source' = source /\ task' = "idle"
    BY <1>1 DEF WriteCommand, Command
  <2>2. PICK path \in Kits[kit].paths, text \in Kits[kit].texts : disk' = With(disk, path, text)
    BY <1>1 DEF WriteCommand, write_file
  <2>3. text \in SourceText
    BY SessionsAssumption DEF MiniInv
  <2>4. Texts'
    BY <2>2, <2>3 DEF MiniInv, Texts, With
  <2>5. Begun' /\ Paired'
    BY <2>1, LeftAlone
  <2> QED
    BY <2>1, <2>4, <2>5 DEF MiniInv
<1>2. CASE TouchCommand
  <2>1. kit' = kit /\ cpu' = cpu /\ source' = source /\ task' = "idle"
    BY <1>2 DEF TouchCommand, Command
  <2>2. PICK path \in Kits[kit].paths : disk' = With(disk, path, <<>>)
    BY <1>2 DEF TouchCommand, write_file
  <2> DEFINE nothing == <<>>
  <2>3. nothing \in SourceText /\ disk' = With(disk, path, nothing)
    BY <2>2 DEF SourceText
  <2> HIDE DEF nothing
  <2>4. Texts'
    BY <2>3 DEF MiniInv, Texts, With
  <2>5. Begun' /\ Paired'
    BY <2>1, LeftAlone
  <2> QED
    BY <2>1, <2>4, <2>5 DEF MiniInv
<1>3. CASE RmCommand
  <2>1. kit' = kit /\ cpu' = cpu /\ source' = source /\ task' = "idle"
    BY <1>3 DEF RmCommand, Command
  <2>2. Texts'
    BY <1>3 DEF RmCommand, delete_file, MiniInv, Texts
  <2>3. Begun' /\ Paired'
    BY <2>1, LeftAlone
  <2> QED
    BY <2>1, <2>2, <2>3 DEF MiniInv
<1>4. CASE RunCommand
  <2>1. PICK path \in DOMAIN disk : Start(disk[path], assemble(disk[path]))
    BY <1>4 DEF RunCommand
  <2>2. disk[path] \in SourceText /\ kit' = kit /\ disk' = disk
    BY <1>4 DEF MiniInv, Texts, RunCommand, Command
  <2> QED
    BY <2>1, <2>2, StartKeepsInv DEF SourceText
<1>5. CASE ResetCommand
  <2>1. kit' = kit /\ disk' = disk /\ cpu' = PowerOn /\ task' = "idle"
    BY <1>5 DEF ResetCommand, Command
  <2>2. Typed(PowerOn) /\ ~(PowerOn.running \/ PowerOn.cycles > 0)
    BY PowersOn
  <2>3. Begun' /\ Paired'
    BY <2>1, <2>2, LeftAlone
  <2> QED
    BY <2>1, <2>2, <2>3 DEF MiniInv, Texts
<1>6. CASE ClsCommand
  <2>1. kit' = kit /\ disk' = disk /\ source' = source /\ task' = "idle"
        /\ cpu' = [cpu EXCEPT !.screen = <<>>]
    BY <1>6 DEF ClsCommand, Command
  <2>2. Typed(cpu')
    BY <2>1 DEF MiniInv, Typed, OldFields
  <2>3. Begun' /\ Paired'
    BY <2>1, LeftAlone
  <2> QED
    BY <2>1, <2>2, <2>3 DEF MiniInv, Texts
<1>7. CASE KeyCommand
  <2>1. kit' = kit /\ disk' = disk /\ source' = source /\ task' = "idle"
    BY <1>7 DEF KeyCommand, Command
  <2>2. PICK key \in Kits[kit].keys : cpu' = [cpu EXCEPT !.keys = Append(@, key)]
    BY <1>7 DEF KeyCommand
  <2>3. key \in Byte
    BY SessionsAssumption DEF MiniInv
  <2> DEFINE keys == Append(cpu.keys, key)
  <2>4. keys \in Seq(Byte) /\ cpu' = [cpu EXCEPT !.keys = keys]
    BY <2>2, <2>3 DEF MiniInv, Typed
  <2> HIDE DEF keys
  <2>5. Typed(cpu')
    BY <2>4 DEF MiniInv, Typed, OldFields
  <2>6. Begun' /\ Paired'
    BY <2>1, LeftAlone
  <2> QED
    BY <2>1, <2>5, <2>6 DEF MiniInv, Texts
<1>8. CASE ClearCommand \/ ClearEnds
  <2>1. kit' = kit /\ disk' = disk /\ cpu' = cpu /\ source' = source /\ task' # "run"
    BY <1>8 DEF ClearCommand, ClearEnds, Command
  <2>2. Begun' /\ Paired'
    BY <2>1, LeftAlone
  <2> QED
    BY <2>1, <2>2 DEF MiniInv, Texts
<1>9. CASE ClearOne
  <2>1. kit' = kit /\ cpu' = cpu /\ source' = source /\ task' # "run"
    BY <1>9 DEF ClearOne
  <2>2. Texts'
    BY <1>9 DEF ClearOne, delete_file, MiniInv, Texts
  <2>3. Begun' /\ Paired'
    BY <2>1, LeftAlone
  <2> QED
    BY <2>1, <2>2, <2>3 DEF MiniInv
<1> QED
  BY <1>1, <1>2, <1>3, <1>4, <1>5, <1>6, <1>7, <1>8, <1>9 DEF Commands

\* and so does a restart, which clears the machine and keeps the disk.
LEMMA RestartKeepsInv == ASSUME MiniInv, Restart, Follow PROVE MiniInv'
<1>1. kit' = kit /\ disk' = disk /\ cpu' = PowerOn /\ task' = "boot"
  BY DEF Restart
<1>2. Typed(PowerOn) /\ ~(PowerOn.running \/ PowerOn.cycles > 0)
  BY PowersOn
<1>3. Begun' /\ Paired'
  BY <1>1, <1>2, LeftAlone
<1> QED
  BY <1>1, <1>2, <1>3 DEF MiniInv, Texts

\* So does every step.
LEMMA InvNext == MiniInv /\ [Next]_vars => MiniInv'
<1> SUFFICES ASSUME MiniInv, [Next]_vars PROVE MiniInv'
  OBVIOUS
<1>1. ASSUME NEW random \in Random, RunTurn(random), MiniTurn PROVE MiniInv'
  BY <1>1, TurnKeepsInv
<1>2. CASE (Boots \/ Commands \/ Restart) /\ Follow
  BY <1>2, BootsKeepInv, CommandsKeepInv, RestartKeepsInv
<1>3. CASE UNCHANGED vars
  BY <1>3 DEF vars, MiniInv, Texts, Begun, Paired, Unmarked
<1> QED
  BY <1>1, <1>2, <1>3 DEF Next

\* What is in step runs alike.
LEMMA InvImplies == MiniInv => MiniProgramsRun
<1> SUFFICES ASSUME MiniInv, mini # NoTwin, Unmarked, mini.PC + 3 <= WordSize,
                    NEW field \in {"rom", "A", "B", "PC", "CF", "out", "cycles", "running", "raised"}
             PROVE  cpu[field] = mini[field]
  BY DEF MiniProgramsRun, Unmarked
<1>1. InStep(cpu, mini)
  BY DEF MiniInv, Paired
<1> QED
  BY <1>1 DEF InStep, Alike

\* Whatever program MiniOS and the original both assemble, without a colon, they
\* run alike, instruction by instruction.
THEOREM MiniProgramsRunAlike == Spec => []MiniProgramsRun
<1>1. Spec => []MiniInv
  BY InvInit, InvNext, PTL DEF Spec
<1> QED
  BY <1>1, InvImplies, PTL

-----------------------------------------------------------------------------
(***************************************************************************)
(* The machine of TRAPCPU, together with the original.                     *)
(***************************************************************************)
\* The fields of a machine of TRAPCPU.
TwinFields ==
  {"A", "B", "C", "D", "PC", "SP", "Z", "CF", "N", "cs", "ivec", "ien", "irq_pending", "async_pending",
   "pending", "exec_map", "oracle_ptr", "last_oracle_status", "rom", "ram", "keys", "screen", "out", "cycles", "state"}

\* All that the instructions of the original work on is the same; there is no
\* trap, and code is fetched from ROM.
Together(c, t, cycles) ==
  /\ DOMAIN t = TwinFields
  /\ t.A = c.A /\ t.B = c.B /\ t.C = c.C /\ t.D = c.D /\ t.PC = c.PC /\ t.SP = c.SP
  /\ t.Z = c.Z /\ t.N = c.N /\ t.rom = c.rom /\ t.ram = c.ram
  /\ t.keys = c.keys /\ t.screen = c.screen /\ t.out = c.out
  /\ t.state = IF c.running THEN "RUNNING" ELSE "HALTED"
  /\ t.cs = 0 /\ t.irq_pending = FALSE /\ t.async_pending = FALSE /\ t.last_oracle_status = 0
  /\ t.cycles = cycles

\* A store to an executable page ends the run of TRAPCPU.
Faulted(t) == t.state = "FAULT" /\ t.exec_map # {}

\* It computes as the original does.
LEMMA TrapArithmetic ==
  /\ \A memory, a : Trap!At(memory, a) = At(memory, a)
  /\ \A memory, a, v : Trap!Put(memory, a, v) = Put(memory, a, v) /\ Trap!With(memory, a, v) = With(memory, a, v)
  /\ \A n : /\ Trap!Low(n) = Low(n) /\ Trap!High(n) = High(n) /\ Trap!Wrap(n) = Wrap(n)
           /\ Trap!Bit(n) = Bit(n) /\ Trap!Bits(n) = Bits(n) /\ Trap!OfBits(n) = OfBits(n)
  /\ Trap!WordSize = 65536 /\ WordSize = 65536 /\ Trap!Word = Word
<1>1. \A memory, a : Trap!At(memory, a) = At(memory, a)
  BY DEF Trap!At, At
<1>2. \A memory, a, v : Trap!With(memory, a, v) = With(memory, a, v)
  BY DEF Trap!With, With
<1>3. \A memory, a, v : Trap!Put(memory, a, v) = Put(memory, a, v)
  BY <1>2 DEF Trap!Put, Put
<1>4. Trap!WordSize = 65536 /\ WordSize = 65536 /\ Trap!Word = Word
  BY DEF Trap!WordSize, WordSize, Trap!Word, Word
<1>5. \A n : Trap!Low(n) = Low(n) /\ Trap!High(n) = High(n)
  BY DEF Trap!Low, Low, Trap!High, High
<1>6. \A n : Trap!Wrap(n) = Wrap(n) /\ Trap!Bit(n) = Bit(n)
  BY <1>4 DEF Trap!Wrap, Wrap, Trap!Bit, Bit
<1>7. Trap!Weight = Weight
  BY DEF Trap!Weight, Weight
<1>8. \A n : Trap!Bits(n) = Bits(n)
  BY <1>7 DEF Trap!Bits, Bits
<1>9. \A n : Trap!OfBits(n) = OfBits(n)
  BY <1>7 DEF Trap!OfBits, OfBits
<1> QED
  BY <1>1, <1>2, <1>3, <1>4, <1>5, <1>6, <1>8, <1>9

\* Whatever one register or memory gets, the other gets.
LEMMA BothSet ==
  ASSUME NEW c, DOMAIN c = OldFields, NEW t, NEW n, Together(c, t, n), NEW v
  PROVE  /\ Together([c EXCEPT !.A = v], [t EXCEPT !.A = v], n)
         /\ Together([c EXCEPT !.B = v], [t EXCEPT !.B = v], n)
         /\ Together([c EXCEPT !.C = v], [t EXCEPT !.C = v], n)
         /\ Together([c EXCEPT !.D = v], [t EXCEPT !.D = v], n)
         /\ Together([c EXCEPT !.PC = v], [t EXCEPT !.PC = v], n)
         /\ Together([c EXCEPT !.SP = v], [t EXCEPT !.SP = v], n)
         /\ Together([c EXCEPT !.ram = v], [t EXCEPT !.ram = v], n)
         /\ Together([c EXCEPT !.keys = v], [t EXCEPT !.keys = v], n)
         /\ Together([c EXCEPT !.screen = v], [t EXCEPT !.screen = v], n)
         /\ Together([c EXCEPT !.out = v], [t EXCEPT !.out = v], n)
<1> USE DEF Together, OldFields, TwinFields
<1>1. Together([c EXCEPT !.A = v], [t EXCEPT !.A = v], n)
  OBVIOUS
<1>2. Together([c EXCEPT !.B = v], [t EXCEPT !.B = v], n)
  OBVIOUS
<1>3. Together([c EXCEPT !.C = v], [t EXCEPT !.C = v], n)
  OBVIOUS
<1>4. Together([c EXCEPT !.D = v], [t EXCEPT !.D = v], n)
  OBVIOUS
<1>5. Together([c EXCEPT !.PC = v], [t EXCEPT !.PC = v], n)
  OBVIOUS
<1>6. Together([c EXCEPT !.SP = v], [t EXCEPT !.SP = v], n)
  OBVIOUS
<1>7. Together([c EXCEPT !.ram = v], [t EXCEPT !.ram = v], n)
  OBVIOUS
<1>8. Together([c EXCEPT !.keys = v], [t EXCEPT !.keys = v], n)
  OBVIOUS
<1>9. Together([c EXCEPT !.screen = v], [t EXCEPT !.screen = v], n)
  OBVIOUS
<1>10. Together([c EXCEPT !.out = v], [t EXCEPT !.out = v], n)
  OBVIOUS
<1> HIDE DEF Together
<1> QED
  BY <1>1, <1>2, <1>3, <1>4, <1>5, <1>6, <1>7, <1>8, <1>9, <1>10

\* Of the carries nothing is said.
LEMMA BothCarry ==
  ASSUME NEW c, DOMAIN c = OldFields, NEW t, NEW n, Together(c, t, n), NEW v, NEW w
  PROVE  Together([c EXCEPT !.CF = v], [t EXCEPT !.CF = w], n) /\ Together(c, [t EXCEPT !.CF = w], n)
BY DEF Together, OldFields, TwinFields

\* Z and N are set alike,
LEMMA BothFlags ==
  ASSUME NEW c, DOMAIN c = OldFields, NEW t, NEW n, Together(c, t, n), NEW v
  PROVE  Together(flags(c, v), Trap!flags(t, v), n) /\ DOMAIN flags(c, v) = OldFields
<1> DEFINE z == Bit(Wrap(v) = 0)
           m == Bit(Wrap(v) >= WordSize \div 2)
<1>1. flags(c, v) = [c EXCEPT !.Z = z, !.N = m]
  BY DEF flags
<1>2. Trap!flags(t, v) = [t EXCEPT !.Z = z, !.N = m]
  <2>1. Trap!flags(t, v) = [t EXCEPT !.Z = Trap!Bit(Trap!Wrap(v) = 0),
                                     !.N = Trap!Bit(Trap!Wrap(v) >= Trap!WordSize \div 2)]
    BY DEF Trap!flags
  <2>2. Trap!Bit(Trap!Wrap(v) = 0) = z
    BY TrapArithmetic DEF Trap!Bit, Bit
  <2>3. Trap!Bit(Trap!Wrap(v) >= Trap!WordSize \div 2) = m
    BY TrapArithmetic DEF Trap!Bit, Bit
  <2> HIDE DEF z, m
  <2> QED
    BY <2>1, <2>2, <2>3
<1> HIDE DEF z, m
<1> QED
  BY <1>1, <1>2 DEF Together, OldFields, TwinFields

\* the accumulator with them,
LEMMA BothAccumulate ==
  ASSUME NEW c, DOMAIN c = OldFields, NEW t, NEW n, Together(c, t, n), NEW v
  PROVE  Together(Accumulate(c, v), Trap!Accumulate(t, v), n)
<1>1. Together([c EXCEPT !.A = v], [t EXCEPT !.A = v], n) /\ DOMAIN [c EXCEPT !.A = v] = OldFields
  BY BothSet
<1> QED
  BY <1>1, BothFlags DEF Accumulate, Trap!Accumulate

\* and a carry of TRAPCPU is no concern.
LEMMA BothAdd ==
  ASSUME NEW c, DOMAIN c = OldFields, NEW t, NEW n, Together(c, t, n), NEW v
  PROVE  Together(Arithmetic(c, v), Trap!_arith(t, v), n)
<1> DEFINE x == Bit(v \notin Word)
           y == Trap!Bit(v \notin Trap!Word)
           d == [c EXCEPT !.CF = x]
           e == [t EXCEPT !.CF = y]
<1>1. Arithmetic(c, v) = Accumulate(d, Wrap(v))
  BY DEF Arithmetic
<1>2. Trap!_arith(t, v) = Trap!Accumulate(e, Wrap(v))
  BY TrapArithmetic DEF Trap!_arith
<1>3. Together(d, e, n) /\ DOMAIN d = OldFields
  BY BothCarry
<1> HIDE DEF d, e
<1> QED
  BY <1>1, <1>2, <1>3, BothAccumulate

\* A store is the same or a fault.
LEMMA BothWrite ==
  ASSUME NEW c, DOMAIN c = OldFields, c.running, NEW t, NEW n, Together(c, t, n), NEW a, NEW v
  PROVE  \/ Together([c EXCEPT !.ram = Put(c.ram, Wrap(a), Low(v))], Trap!write8(t, a, v), n)
         \/ Faulted(Trap!write8(t, a, v))
<1>1. ~Trap!Stopped(t) /\ DOMAIN t = TwinFields /\ t.ram = c.ram
  BY DEF Trap!Stopped, Together
<1>2. CASE Trap!Page(Trap!Wrap(a)) \in t.exec_map
  <2>1. Trap!write8(t, a, v) = Trap!Fault(t)
    BY <1>1, <1>2 DEF Trap!write8
  <2>2. Faulted(Trap!Fault(t))
    BY <1>1, <1>2 DEF Trap!Fault, Faulted, TwinFields
  <2> QED
    BY <2>1, <2>2
<1>3. CASE Trap!Page(Trap!Wrap(a)) \notin t.exec_map
  <2> DEFINE ram == Put(c.ram, Wrap(a), Low(v))
  <2>1. Trap!write8(t, a, v) = [t EXCEPT !.ram = Trap!Put(t.ram, Trap!Wrap(a), Trap!Low(v))]
    BY <1>1, <1>3 DEF Trap!write8
  <2>2. Trap!write8(t, a, v) = [t EXCEPT !.ram = ram]
    BY <1>1, <2>1, TrapArithmetic
  <2> HIDE DEF ram
  <2>3. Together([c EXCEPT !.ram = ram], [t EXCEPT !.ram = ram], n)
    BY BothSet
  <2> QED
    BY <2>2, <2>3 DEF ram
<1> QED
  BY <1>2, <1>3

\* After a fault nothing more is done.
LEMMA FaultedStays ==
  ASSUME NEW t, Faulted(t), NEW a, NEW v, NEW cs, NEW in
  PROVE  /\ Trap!write8(t, a, v) = t /\ Trap!Down(t) = t /\ Trap!GoTo(t, cs, a) = t
         /\ Trap!step(t, in) = t
<1>1. Trap!Stopped(t)
  BY DEF Faulted, Trap!Stopped
<1>2. Trap!write8(t, a, v) = t
  BY <1>1, Zenon DEF Trap!write8
<1>3. Trap!fetch8(t) = t
  BY <1>1, Zenon DEF Trap!fetch8
<1>4. Trap!step(t, in) = t
  BY <1>1, <1>3, Zenon DEF Trap!step
<1> QED
  BY <1>1, <1>2, <1>4 DEF Trap!Down, Trap!GoTo

\* Two bytes are stored one after the other.
LEMMA BothStore ==
  ASSUME NEW c, Typed(c), c.running, NEW t, NEW n, Together(c, t, n), NEW a \in Word, NEW v \in Word
  PROVE  Together(write16(c, a, v), Trap!write16(t, a, v), n) \/ Faulted(Trap!write16(t, a, v))
<1> DEFINE one == Put(c.ram, Wrap(a), Low(v))
           two == Put(one, Wrap(a + 1), High(v))
           s == Trap!write8(t, a, v)
           d == [c EXCEPT !.ram = one]
<1>1. write16(c, a, v) = [c EXCEPT !.ram = two]
  BY DEF write16
<1>2. Trap!write16(t, a, v) = Trap!write8(s, a + 1, High(v))
  BY TrapArithmetic DEF Trap!write16
<1>3. Together(d, s, n) \/ Faulted(s)
  BY BothWrite DEF Typed
<1>4. Low(High(v)) = High(v)
  <2>1. High(v) \in Byte
    BY BytesOfWords, WordRange
  <2> QED
    BY <2>1, ByteRange DEF Low
<1> HIDE DEF one, s
<1>5. DOMAIN d = OldFields /\ d.running /\ d.ram = one
  BY DEF Typed, OldFields
<1>6. [d EXCEPT !.ram = two] = [c EXCEPT !.ram = two]
  OBVIOUS
<1>7. CASE Together(d, s, n)
  <2> HIDE DEF d
  <2>1. Together([d EXCEPT !.ram = two], Trap!write8(s, a + 1, High(v)), n)
        \/ Faulted(Trap!write8(s, a + 1, High(v)))
    BY <1>4, <1>5, <1>7, BothWrite
  <2> QED
    BY <1>1, <1>2, <1>6, <2>1
<1>8. CASE Faulted(s)
  BY <1>2, <1>8, FaultedStays
<1> QED
  BY <1>3, <1>7, <1>8

\* One byte on the stack.
LEMMA BothPushByte ==
  ASSUME NEW c, Typed(c), c.running, NEW t, NEW n, Together(c, t, n), NEW v
  PROVE  \/ Together([c EXCEPT !.ram = Put(c.ram, c.SP, Low(v)), !.SP = Wrap(c.SP - 1)],
                     Trap!Push8(t, v), n)
         \/ Faulted(Trap!Push8(t, v))
<1> DEFINE s == Trap!write8(t, t.SP, v)
           ram == Put(c.ram, c.SP, Low(v))
           sp == Wrap(c.SP - 1)
           d == [c EXCEPT !.ram = ram]
<1>1. Trap!Push8(t, v) = Trap!Down(s)
  BY DEF Trap!Push8
<1>2. t.SP = c.SP /\ Wrap(c.SP) = c.SP
  BY BytesOfWords DEF Together, Typed
<1>3. Together(d, s, n) \/ Faulted(s)
  <2>1. Together([c EXCEPT !.ram = Put(c.ram, Wrap(c.SP), Low(v))], Trap!write8(t, c.SP, v), n)
        \/ Faulted(Trap!write8(t, c.SP, v))
    BY BothWrite DEF Typed
  <2> QED
    BY <1>2, <2>1
<1> HIDE DEF ram, s
<1>4. DOMAIN d = OldFields /\ d.running /\ d.SP = c.SP
  BY DEF Typed, OldFields
<1>5. [d EXCEPT !.SP = sp] = [c EXCEPT !.ram = ram, !.SP = sp]
  OBVIOUS
<1>6. CASE Together(d, s, n)
  <2> HIDE DEF d
  <2>1. ~Trap!Stopped(s) /\ s.SP = c.SP
    BY <1>4, <1>6 DEF Together, Trap!Stopped
  <2>2. Trap!Down(s) = [s EXCEPT !.SP = sp]
    BY <2>1, TrapArithmetic DEF Trap!Down
  <2> HIDE DEF sp
  <2>3. Together([d EXCEPT !.SP = sp], [s EXCEPT !.SP = sp], n)
    BY <1>4, <1>6, BothSet
  <2> QED
    BY <1>1, <1>5, <2>2, <2>3 DEF ram, sp
<1>7. CASE Faulted(s)
  BY <1>1, <1>7, FaultedStays
<1> QED
  BY <1>3, <1>6, <1>7

\* Two bytes, the high one below.
LEMMA BothPush ==
  ASSUME NEW c, Typed(c), c.running, NEW t, NEW n, Together(c, t, n), NEW v \in Word
  PROVE  Together(push16(c, v), Trap!push16(t, v), n) \/ Faulted(Trap!push16(t, v))
<1> DEFINE one == Put(c.ram, c.SP, Low(v))
           sp == Wrap(c.SP - 1)
           two == Put(one, sp, High(v))
           s == Trap!Push8(t, v)
           d == [c EXCEPT !.ram = one, !.SP = sp]
<1>1. Trap!push16(t, v) = Trap!Push8(s, High(v))
  BY TrapArithmetic DEF Trap!push16
<1>2. Together(d, s, n) \/ Faulted(s)
  BY BothPushByte
<1>3. c.SP \in Int /\ v \in Int
  BY WordRange DEF Typed
<1>4. Low(High(v)) = High(v)
  <2>1. High(v) \in Byte
    BY <1>3, BytesOfWords
  <2> QED
    BY <2>1, ByteRange DEF Low
<1>5. sp \in Word /\ Wrap(sp - 1) = Wrap(c.SP - 2)
  <2>1. sp \in Word
    BY <1>3, BytesOfWords
  <2>2. Wrap(sp - 1) = Wrap(c.SP - 2)
    BY <1>3, TrapArithmetic DEF Wrap
  <2> QED
    BY <2>1, <2>2
<1>6. push16(c, v) = [c EXCEPT !.ram = two, !.SP = Wrap(c.SP - 2)]
  BY DEF push16
<1>7. Typed(d) /\ d.running /\ d.ram = one /\ d.SP = sp
  <2>1. Low(v) \in Byte /\ Stocked(c.ram)
    BY <1>3, BytesOfWords DEF Typed
  <2>2. Stocked(one)
    BY <2>1, Memory
  <2> HIDE DEF one, sp
  <2> QED
    BY <1>5, <2>2 DEF Typed, OldFields
<1> HIDE DEF one, s, sp
<1>8. [d EXCEPT !.ram = two, !.SP = Wrap(c.SP - 2)] = [c EXCEPT !.ram = two, !.SP = Wrap(c.SP - 2)]
  OBVIOUS
<1>9. CASE Together(d, s, n)
  <2> HIDE DEF d
  <2>1. Together([d EXCEPT !.ram = Put(d.ram, d.SP, Low(High(v))), !.SP = Wrap(d.SP - 1)],
                 Trap!Push8(s, High(v)), n)
        \/ Faulted(Trap!Push8(s, High(v)))
    BY <1>7, <1>9, BothPushByte
  <2> QED
    BY <1>1, <1>4, <1>5, <1>6, <1>7, <1>8, <2>1
<1>10. CASE Faulted(s)
  <2>1. Trap!Push8(s, High(v)) = s
    BY <1>10, FaultedStays DEF Trap!Push8
  <2> QED
    BY <1>1, <1>10, <2>1
<1> QED
  BY <1>2, <1>9, <1>10

\* What is popped.
LEMMA BothPop ==
  ASSUME NEW c, Typed(c), NEW t, NEW n, Together(c, t, n), NEW a
  PROVE  /\ Together(Popped(c), Trap!Popped(t), n) /\ Trap!pop16(t) = pop16(c)
         /\ DOMAIN Popped(c) = OldFields /\ Trap!read16(t, a) = read16(c, a)
<1>1. t.SP = c.SP /\ t.ram = c.ram /\ DOMAIN c = OldFields
  BY DEF Together, Typed
<1> DEFINE sp == Wrap(c.SP + 2)
<1>2. Popped(c) = [c EXCEPT !.SP = sp] /\ Trap!Popped(t) = [t EXCEPT !.SP = sp]
  BY <1>1, TrapArithmetic DEF Popped, Trap!Popped
<1> HIDE DEF sp
<1>3. Together([c EXCEPT !.SP = sp], [t EXCEPT !.SP = sp], n) /\ DOMAIN [c EXCEPT !.SP = sp] = OldFields
  BY <1>1, BothSet
<1>4. \A b : Trap!read8(t, b) = At(c.ram, Wrap(b))
  BY <1>1, TrapArithmetic DEF Trap!read8
<1>5. Trap!pop16(t) = pop16(c)
  BY <1>1, <1>4 DEF Trap!pop16, pop16
<1>6. Trap!read16(t, a) = read16(c, a)
  BY <1>4 DEF Trap!read16, read16
<1> QED
  BY <1>2, <1>3, <1>5, <1>6

\* Its first 34 instructions are those of the original.
LEMMA TrapNames ==
  /\ \A i \in 1 .. 34 : Trap!Mnemonics[i] = Mnemonics[i]
  /\ \A opcode \in 0 .. 33 : opcode \in Trap!Opcode /\ Trap!Mnemonic(opcode) = Mnemonics[opcode + 1]
  /\ \A name \in Names : Trap!width(name) = Size(name)
<1>1. \A i \in 1 .. 34 : Trap!Mnemonics[i] = Mnemonics[i]
  BY DEF Trap!Mnemonics, Mnemonics
<1>2. Len(Trap!Mnemonics) = 64
  BY DEF Trap!Mnemonics
<1>3. \A opcode \in 0 .. 33 : opcode \in Trap!Opcode /\ Trap!Mnemonic(opcode) = Mnemonics[opcode + 1]
  BY <1>1, <1>2 DEF Trap!Opcode, Trap!Mnemonic
<1>4. \A name \in Names : Trap!width(name) = Size(name)
  BY NamesAre DEF Trap!width, Size, ARG8_OPS, ARG16_OPS, Trap!ARG8_OPS, Trap!ARG16_OPS
<1> QED
  BY <1>1, <1>3, <1>4

\* The ports of the trap device read zero before any trap, and what is written
\* to them touches nothing of the original.
LEMMA BothPorts ==
  ASSUME NEW c, Typed(c), NEW t, NEW n, Together(c, t, n), NEW port \in Nat, NEW random \in Byte,
         NEW in, in.random = random
  PROVE  /\ Trap!read_port(t, port, in) = read_port(c, port, random)
         /\ Together(AfterRead(c, port), Trap!AfterRead(t, port), n) /\ DOMAIN AfterRead(c, port) = OldFields
         /\ Together(write_port(c, port), Trap!write_port(t, port), n)
<1>1. DOMAIN c = OldFields /\ DOMAIN t = TwinFields
  BY DEF Typed, Together
<1>2. Trap!read_port(t, port, in) = read_port(c, port, random)
  <2> USE DEF Trap!PORT_KEY, Trap!PORT_KEY_STATE, Trap!PORT_RANDOM, Trap!PORT_ORACLE_STAT, Trap!PORT_IVEC,
              PORT_KEY, PORT_KEY_STATE, PORT_RANDOM
  <2>1. CASE port = 0
    BY <2>1 DEF Trap!read_port, read_port, Together
  <2>2. CASE port = 1
    BY <2>2 DEF Trap!read_port, read_port, Together, Trap!Bit, Bit
  <2>3. CASE port = 32
    BY <2>3 DEF Trap!read_port, read_port
  <2>4. CASE port \notin {0, 1, 32}
    BY <2>4 DEF Trap!read_port, read_port, Together
  <2> QED
    BY <2>1, <2>2, <2>3, <2>4
<1>3. Together(AfterRead(c, port), Trap!AfterRead(t, port), n) /\ DOMAIN AfterRead(c, port) = OldFields
  <2>1. t.keys = c.keys
    BY DEF Together
  <2> DEFINE keys == Tail(c.keys)
             d == [c EXCEPT !.keys = keys]
             e == [t EXCEPT !.keys = keys]
  <2>2. CASE port = 0 /\ c.keys # <<>>
    <3>1. AfterRead(c, port) = d /\ Trap!AfterRead(t, port) = e
      BY <2>1, <2>2 DEF AfterRead, Trap!AfterRead, PORT_KEY, Trap!PORT_KEY
    <3> HIDE DEF keys
    <3>2. Together(d, e, n) /\ DOMAIN d = OldFields
      BY <1>1, BothSet
    <3> HIDE DEF d, e
    <3> QED
      BY <3>1, <3>2
  <2>3. CASE ~(port = 0 /\ c.keys # <<>>)
    BY <1>1, <2>1, <2>3 DEF AfterRead, Trap!AfterRead, PORT_KEY, Trap!PORT_KEY
  <2> QED
    BY <2>2, <2>3
<1>4. Together(write_port(c, port), Trap!write_port(t, port), n)
  <2> USE DEF Trap!PORT_SCREEN, Trap!PORT_ORACLE, Trap!PORT_ORACLE_END, Trap!PORT_IVEC, Trap!PORT_MPROT,
              PORT_SCREEN
  <2>1. CASE port = 16 /\ c.B < 32 /\ c.C < 16
    <3> DEFINE screen == With(c.screen, <<c.B, c.C>>, Low(c.A))
    <3>1. write_port(c, port) = [c EXCEPT !.screen = screen]
      BY <2>1 DEF write_port, SCREEN_W, SCREEN_H
    <3>2. Trap!write_port(t, port) = [t EXCEPT !.screen = screen]
      <4>1. t.A = c.A /\ t.B = c.B /\ t.C = c.C /\ t.screen = c.screen
        BY DEF Together
      <4>2. Trap!write_port(t, port) = [t EXCEPT !.screen = Trap!With(t.screen, <<t.B, t.C>>, Trap!Low(t.A))]
        BY <2>1, <4>1 DEF Trap!write_port, Trap!SCREEN_W, Trap!SCREEN_H
      <4>3. Trap!With(t.screen, <<t.B, t.C>>, Trap!Low(t.A)) = screen
        BY <4>1, TrapArithmetic
      <4> HIDE DEF screen
      <4> QED
        BY <4>2, <4>3
    <3> HIDE DEF screen
    <3>3. Together([c EXCEPT !.screen = screen], [t EXCEPT !.screen = screen], n)
      BY <1>1, BothSet
    <3> QED
      BY <3>1, <3>2, <3>3
  <2>2. CASE ~(port = 16 /\ c.B < 32 /\ c.C < 16)
    <3>1. write_port(c, port) = c
      BY <2>2 DEF write_port, SCREEN_W, SCREEN_H
    <3>2. ~(port = 16 /\ t.B < 32 /\ t.C < 16)
      BY <2>2 DEF Together
    <3>3. \/ Trap!write_port(t, port) = [t EXCEPT !.oracle_ptr = t.A]
          \/ Trap!write_port(t, port) = [t EXCEPT !.ivec = t.A]
          \/ \E map : Trap!write_port(t, port) = [t EXCEPT !.exec_map = map]
          \/ Trap!write_port(t, port) = t
      <4>1. CASE port \in 48 .. 55
        BY <3>2, <4>1 DEF Trap!write_port, Trap!SCREEN_W, Trap!SCREEN_H
      <4>2. CASE port = 56
        BY <3>2, <4>2 DEF Trap!write_port, Trap!SCREEN_W, Trap!SCREEN_H
      <4>3. CASE port = 57
        <5> DEFINE map == IF t.A % 2 = 1 THEN t.exec_map \cup {Trap!High(t.A)} ELSE t.exec_map \ {Trap!High(t.A)}
        <5>1. Trap!write_port(t, port) = [t EXCEPT !.exec_map = map]
          BY <3>2, <4>3 DEF Trap!write_port, Trap!SCREEN_W, Trap!SCREEN_H
        <5> HIDE DEF map
        <5> QED
          BY <5>1
      <4>4. CASE port \notin 48 .. 57
        BY <3>2, <4>4 DEF Trap!write_port, Trap!SCREEN_W, Trap!SCREEN_H
      <4> QED
        BY <4>1, <4>2, <4>3, <4>4
    <3>4. ASSUME NEW x PROVE /\ Together(c, [t EXCEPT !.oracle_ptr = x], n) /\ Together(c, [t EXCEPT !.ivec = x], n)
                             /\ Together(c, [t EXCEPT !.exec_map = x], n)
      BY DEF Together, TwinFields
    <3> QED
      BY <3>1, <3>3, <3>4
  <2> QED
    BY <2>1, <2>2
<1> QED
  BY <1>2, <1>3, <1>4

\* Every instruction does the same on both, or faults.
LEMMA BothPerform ==
  ASSUME NEW c, Typed(c), c.running = TRUE, NEW t, NEW n, Together(c, t, n),
         NEW name \in Names, NEW arg \in Word, NEW random \in Byte, NEW in, in.random = random
  PROVE  \/ Together(Perform(c, name, arg, random), Trap!Perform(t, name, arg, in), n)
         \/ Faulted(Trap!Perform(t, name, arg, in))
<1> DEFINE d == Perform(c, name, arg, random)
           e == Trap!Perform(t, name, arg, in)
<1>1. /\ c.A \in Word /\ c.B \in Word /\ DOMAIN c = OldFields
      /\ t.A = c.A /\ t.B = c.B /\ t.C = c.C /\ t.D = c.D /\ t.Z = c.Z /\ t.N = c.N /\ t.PC = c.PC
      /\ t.out = c.out /\ t.cs = 0
  BY DEF Typed, Together
<1>2. CASE name = "NOP"
  BY <1>2 DEF Perform, Trap!Perform
<1>3. CASE name \in {"LDIA", "IN", "MOVAB"}
  <2> DEFINE v == CASE name = "LDIA" -> arg [] name = "IN" -> 0 [] name = "MOVAB" -> c.B
  <2>1. d = Accumulate(c, v)
    BY <1>3 DEF Perform
  <2>2. e = Trap!Accumulate(t, v)
    BY <1>1, <1>3 DEF Trap!Perform
  <2> HIDE DEF d, e, v
  <2> QED
    BY <1>1, <2>1, <2>2, BothAccumulate DEF d, e
<1>4. CASE name = "LDIB"
  <2>1. d = [c EXCEPT !.B = arg] /\ e = [t EXCEPT !.B = arg]
    BY <1>4 DEF Perform, Trap!Perform
  <2>2. Together([c EXCEPT !.B = arg], [t EXCEPT !.B = arg], n)
    BY <1>1, BothSet
  <2> HIDE DEF d, e
  <2> QED
    BY <2>1, <2>2 DEF d, e
<1>5. CASE name = "LDIC"
  <2>1. d = [c EXCEPT !.C = arg] /\ e = [t EXCEPT !.C = arg]
    BY <1>5 DEF Perform, Trap!Perform
  <2>2. Together([c EXCEPT !.C = arg], [t EXCEPT !.C = arg], n)
    BY <1>1, BothSet
  <2> HIDE DEF d, e
  <2> QED
    BY <2>1, <2>2 DEF d, e
<1>6. CASE name = "LDID"
  <2>1. d = [c EXCEPT !.D = arg] /\ e = [t EXCEPT !.D = arg]
    BY <1>6 DEF Perform, Trap!Perform
  <2>2. Together([c EXCEPT !.D = arg], [t EXCEPT !.D = arg], n)
    BY <1>1, BothSet
  <2> HIDE DEF d, e
  <2> QED
    BY <2>1, <2>2 DEF d, e
<1>7. CASE name = "MOVBA"
  <2>1. d = [c EXCEPT !.B = c.A] /\ e = [t EXCEPT !.B = c.A]
    BY <1>1, <1>7 DEF Perform, Trap!Perform
  <2>2. Together([c EXCEPT !.B = c.A], [t EXCEPT !.B = c.A], n)
    BY <1>1, BothSet
  <2> HIDE DEF d, e
  <2> QED
    BY <2>1, <2>2 DEF d, e
<1>8. CASE name \in {"ADD", "SUB"}
  <2>1. d = Arithmetic(c, Sums(c)[name])
    BY <1>8 DEF Perform
  <2>2. e = Trap!_arith(t, Sums(c)[name])
    <3>1. CASE name = "ADD"
      <4>1. e = Trap!_arith(t, t.A + Trap!Other(t, name)) /\ Trap!Other(t, name) = t.B
        BY <3>1 DEF Trap!Perform, Trap!Other
      <4>2. Sums(c)[name] = c.A + c.B
        BY <3>1 DEF Sums
      <4> QED
        BY <1>1, <4>1, <4>2
    <3>2. CASE name = "SUB"
      <4>1. e = Trap!_arith(t, t.A - Trap!Other(t, name)) /\ Trap!Other(t, name) = t.B
        BY <3>2 DEF Trap!Perform, Trap!Other
      <4>2. Sums(c)[name] = c.A - c.B
        BY <3>2 DEF Sums
      <4> QED
        BY <1>1, <4>1, <4>2
    <3> QED
      BY <1>8, <3>1, <3>2
  <2> HIDE DEF d, e
  <2> QED
    BY <1>1, <2>1, <2>2, BothAdd DEF d, e
<1>9. CASE name \in {"ADDC", "ADDD", "SUBC", "SUBD"}
  <2>1. d = Arithmetic(c, MoreSums(c)[name])
    BY <1>9 DEF Perform
  <2>2. e = Trap!_arith(t, MoreSums(c)[name])
    <3>1. CASE name = "ADDC"
      <4>1. e = Trap!_arith(t, t.A + Trap!Other(t, name)) /\ Trap!Other(t, name) = t.C
        BY <3>1 DEF Trap!Perform, Trap!Other
      <4>2. MoreSums(c)[name] = c.A + c.C
        BY <3>1 DEF MoreSums
      <4> QED
        BY <1>1, <4>1, <4>2
    <3>2. CASE name = "ADDD"
      <4>1. e = Trap!_arith(t, t.A + Trap!Other(t, name)) /\ Trap!Other(t, name) = t.D
        BY <3>2 DEF Trap!Perform, Trap!Other
      <4>2. MoreSums(c)[name] = c.A + c.D
        BY <3>2 DEF MoreSums
      <4> QED
        BY <1>1, <4>1, <4>2
    <3>3. CASE name = "SUBC"
      <4>1. e = Trap!_arith(t, t.A - Trap!Other(t, name)) /\ Trap!Other(t, name) = t.C
        BY <3>3 DEF Trap!Perform, Trap!Other
      <4>2. MoreSums(c)[name] = c.A - c.C
        BY <3>3 DEF MoreSums
      <4> QED
        BY <1>1, <4>1, <4>2
    <3>4. CASE name = "SUBD"
      <4>1. e = Trap!_arith(t, t.A - Trap!Other(t, name)) /\ Trap!Other(t, name) = t.D
        BY <3>4 DEF Trap!Perform, Trap!Other
      <4>2. MoreSums(c)[name] = c.A - c.D
        BY <3>4 DEF MoreSums
      <4> QED
        BY <1>1, <4>1, <4>2
    <3> QED
      BY <1>9, <3>1, <3>2, <3>3, <3>4
  <2> HIDE DEF d, e
  <2> QED
    BY <1>1, <2>1, <2>2, BothAdd DEF d, e
<1>10. CASE name \in {"INC", "DEC"}
  <2> DEFINE v == IF name = "INC" THEN Wrap(c.A + 1) ELSE Wrap(c.A - 1)
  <2>1. d = Accumulate(c, v)
    BY <1>10 DEF Perform
  <2>2. e = Trap!Accumulate(t, v)
    <3>1. CASE name = "INC"
      <4>1. e = Trap!Accumulate(t, Trap!Wrap(t.A + 1))
        BY <3>1 DEF Trap!Perform
      <4> QED
        BY <1>1, <3>1, <4>1, TrapArithmetic
    <3>2. CASE name = "DEC"
      <4>1. e = Trap!Accumulate(t, Trap!Wrap(t.A - 1))
        BY <3>2 DEF Trap!Perform
      <4> QED
        BY <1>1, <3>2, <4>1, TrapArithmetic
    <3> QED
      BY <1>10, <3>1, <3>2
  <2> HIDE DEF d, e, v
  <2> QED
    BY <1>1, <2>1, <2>2, BothAccumulate DEF d, e
<1>11. CASE name \in {"XOR", "AND", "OR", "NOT"}
  <2> DEFINE v == OfBits(Logic(c)[name])
  <2>1. d = Accumulate(c, v)
    BY <1>11 DEF Perform
  <2>2. e = Trap!Accumulate(t, v)
    <3>1. CASE name = "XOR"
      <4>1. e = Trap!Accumulate(t, Trap!OfBits(Trap!SymDiff(Trap!Bits(t.A), Trap!Bits(t.B))))
        BY <3>1 DEF Trap!Perform
      <4>2. Logic(c)[name] = SymDiff(Bits(c.A), Bits(c.B))
        BY <3>1 DEF Logic
      <4>3. Trap!SymDiff(Bits(c.A), Bits(c.B)) = SymDiff(Bits(c.A), Bits(c.B))
        BY DEF Trap!SymDiff, SymDiff
      <4> QED
        BY <1>1, <4>1, <4>2, <4>3, TrapArithmetic
    <3>2. CASE name = "AND"
      <4>1. e = Trap!Accumulate(t, Trap!OfBits(Trap!Bits(t.A) \cap Trap!Bits(t.B)))
        BY <3>2 DEF Trap!Perform
      <4>2. Logic(c)[name] = Bits(c.A) \cap Bits(c.B)
        BY <3>2 DEF Logic
      <4> QED
        BY <1>1, <4>1, <4>2, TrapArithmetic
    <3>3. CASE name = "OR"
      <4>1. e = Trap!Accumulate(t, Trap!OfBits(Trap!Bits(t.A) \cup Trap!Bits(t.B)))
        BY <3>3 DEF Trap!Perform
      <4>2. Logic(c)[name] = Bits(c.A) \cup Bits(c.B)
        BY <3>3 DEF Logic
      <4> QED
        BY <1>1, <4>1, <4>2, TrapArithmetic
    <3>4. CASE name = "NOT"
      <4>1. e = Trap!Accumulate(t, Trap!WordSize - 1 - t.A)
        BY <3>4 DEF Trap!Perform
      <4>2. Logic(c)[name] = DOMAIN Weight \ Bits(c.A)
        BY <3>4 DEF Logic
      <4>3. v = 65535 - c.A
        BY <1>1, <4>2, Complement
      <4>4. Trap!WordSize - 1 - t.A = 65535 - c.A
        BY <1>1, TrapArithmetic, WordRange
      <4> QED
        BY <4>1, <4>3, <4>4
    <3> QED
      BY <1>11, <3>1, <3>2, <3>3, <3>4
  <2> HIDE DEF d, e, v
  <2> QED
    BY <1>1, <2>1, <2>2, BothAccumulate DEF d, e
<1>12. CASE name = "CMP"
  <2> DEFINE cf == Trap!Bit(t.A < t.B)
             s == [t EXCEPT !.CF = cf]
  <2>1. d = flags(c, c.A - c.B)
    BY <1>12 DEF Perform
  <2>2. e = Trap!flags(s, t.A - t.B)
    BY <1>12 DEF Trap!Perform, Trap!Compare, Trap!Other
  <2>3. Together(c, s, n)
    BY <1>1, BothCarry
  <2> HIDE DEF d, e, s
  <2> QED
    BY <1>1, <2>1, <2>2, <2>3, BothFlags DEF d, e
<1>13. CASE name = "STA"
  <2>1. d = write16(c, arg, c.A) /\ e = Trap!write16(t, arg, c.A)
    BY <1>1, <1>13 DEF Perform, Trap!Perform
  <2> QED
    BY <1>1, <2>1, BothStore
<1>14. CASE name = "LDA"
  <2> DEFINE v == read16(c, arg)
  <2>1. d = Accumulate(c, v)
    BY <1>14 DEF Perform
  <2>2. e = Trap!Accumulate(t, v)
    BY <1>14, BothPop DEF Trap!Perform
  <2> HIDE DEF d, e, v
  <2> QED
    BY <1>1, <2>1, <2>2, BothAccumulate DEF d, e
<1>15. CASE name \in {"JMP", "JZ", "JNZ"}
  <2> DEFINE taken == CASE name = "JMP" -> TRUE [] name = "JZ" -> c.Z = 1 [] name = "JNZ" -> c.Z = 0
  <2>1. d = Branch(c, taken, arg)
    BY <1>15 DEF Perform
  <2>2. e = Trap!Branch(t, taken, arg)
    BY <1>1, <1>15 DEF Trap!Perform
  <2>3. Together([c EXCEPT !.PC = arg], [t EXCEPT !.PC = arg], n)
    BY <1>1, BothSet
  <2> HIDE DEF d, e, taken
  <2> QED
    BY <2>1, <2>2, <2>3 DEF d, e, Branch, Trap!Branch
<1>16. CASE name = "PUSH"
  <2>1. d = push16(c, c.A) /\ e = Trap!push16(t, c.A)
    BY <1>1, <1>16 DEF Perform, Stack, Trap!Perform
  <2> QED
    BY <1>1, <2>1, BothPush
<1>17. CASE name = "POP"
  <2>1. d = Accumulate(Popped(c), pop16(c))
    BY <1>17 DEF Perform, Stack
  <2>2. e = Trap!Accumulate(Trap!Popped(t), pop16(c))
    BY <1>17, BothPop DEF Trap!Perform
  <2> HIDE DEF d, e
  <2>3. Together(Popped(c), Trap!Popped(t), n) /\ DOMAIN Popped(c) = OldFields
    BY BothPop
  <2> QED
    BY <2>1, <2>2, <2>3, BothAccumulate DEF d, e
<1>18. CASE name = "CALL"
  <2> DEFINE f == push16(c, c.PC)
             g == Trap!push16(t, c.PC)
  <2>1. d = [f EXCEPT !.PC = arg]
    BY <1>18 DEF Perform, Stack
  <2>2. e = Trap!GoTo(g, 0, arg)
    BY <1>1, <1>18 DEF Trap!Perform, Trap!Call
  <2>3. c.PC \in Word
    BY DEF Typed
  <2>4. Together(f, g, n) \/ Faulted(g)
    BY <2>3, BothPush
  <2>5. DOMAIN f = OldFields /\ f.running = TRUE
    BY <2>3, Stacks DEF Goes, Typed
  <2> HIDE DEF d, e, f, g
  <2>6. CASE Together(f, g, n)
    <3>1. ~Trap!Stopped(g) /\ g.cs = 0 /\ DOMAIN g = TwinFields
      BY <2>5, <2>6 DEF Together, Trap!Stopped
    <3> DEFINE h == [g EXCEPT !.cs = 0]
    <3>2. e = [h EXCEPT !.PC = arg]
      BY <2>2, <3>1 DEF Trap!GoTo
    <3>3. Together(f, h, n)
      BY <2>6, <3>1 DEF Together, TwinFields
    <3> HIDE DEF h
    <3>4. Together([f EXCEPT !.PC = arg], [h EXCEPT !.PC = arg], n)
      BY <2>5, <3>3, BothSet
    <3> QED
      BY <2>1, <3>2, <3>4 DEF d, e
  <2>7. CASE Faulted(g)
    BY <2>2, <2>7, FaultedStays DEF e
  <2> QED
    BY <2>4, <2>6, <2>7
<1>19. CASE name = "RET"
  <2> DEFINE f == Popped(c)
             g == Trap!Popped(t)
             to == pop16(c)
  <2>1. d = [f EXCEPT !.PC = to]
    BY <1>19 DEF Perform, Stack
  <2>2. e = [g EXCEPT !.PC = to]
    BY <1>19, BothPop DEF Trap!Perform
  <2>3. Together(f, g, n) /\ DOMAIN f = OldFields
    BY BothPop
  <2> HIDE DEF d, e, f, g, to
  <2>4. Together([f EXCEPT !.PC = to], [g EXCEPT !.PC = to], n)
    BY <2>3, BothSet
  <2> QED
    BY <2>1, <2>2, <2>4 DEF d, e
<1>20. CASE name = "OUT"
  <2> DEFINE out == Append(c.out, Low(c.A))
  <2>1. d = [c EXCEPT !.out = out]
    BY <1>20 DEF Perform
  <2>2. e = [t EXCEPT !.out = out]
    BY <1>1, <1>20, TrapArithmetic DEF Trap!Perform
  <2> HIDE DEF d, e, out
  <2>3. Together([c EXCEPT !.out = out], [t EXCEPT !.out = out], n)
    BY <1>1, BothSet
  <2> QED
    BY <2>1, <2>2, <2>3 DEF d, e
<1>21. CASE name = "HLT"
  <2>1. d = [c EXCEPT !.running = FALSE] /\ e = [t EXCEPT !.state = "HALTED"]
    BY <1>21 DEF Perform, Trap!Perform
  <2> HIDE DEF d, e
  <2>2. Together(d, e, n)
    BY <1>1, <2>1 DEF Together, OldFields, TwinFields
  <2> QED
    BY <2>2 DEF d, e
<1>22. CASE name = "INP"
  <2> DEFINE f == AfterRead(c, arg)
             g == Trap!AfterRead(t, arg)
             v == read_port(c, arg, random)
  <2>0. arg \in Nat
    BY WordRange
  <2>1. d = Accumulate(f, v)
    BY <1>22 DEF Perform, Ports
  <2>2. e = Trap!Accumulate(g, v)
    <3>1. e = Trap!Accumulate(g, Trap!read_port(t, arg, in))
      BY <1>22 DEF Trap!Perform
    <3> QED
      BY <2>0, <3>1, BothPorts
  <2>3. Together(f, g, n) /\ DOMAIN f = OldFields
    BY <2>0, BothPorts
  <2> HIDE DEF d, e, f, g, v
  <2> QED
    BY <2>1, <2>2, <2>3, BothAccumulate DEF d, e
<1>23. CASE name = "OUTP"
  <2>1. d = write_port(c, arg) /\ e = Trap!write_port(t, arg)
    BY <1>23 DEF Perform, Ports, Trap!Perform
  <2>2. arg \in Nat
    BY WordRange
  <2> HIDE DEF d, e
  <2>3. Together(d, e, n)
    BY <2>1, <2>2, BothPorts
  <2> QED
    BY <2>3 DEF d, e
<1> HIDE DEF d, e
<1>24. name \in {"NOP", "LDIA", "LDIB", "LDIC", "LDID", "ADD", "SUB", "INC", "DEC", "STA",
                 "LDA", "JMP", "JZ", "JNZ", "CMP", "PUSH", "POP", "CALL", "RET", "OUT", "IN",
                 "HLT", "MOVAB", "MOVBA", "ADDC", "ADDD", "SUBC", "SUBD", "XOR", "AND", "OR",
                 "NOT", "INP", "OUTP"}
  BY NamesAre
<1>25. Together(d, e, n) \/ Faulted(e)
  BY <1>2, <1>3, <1>4, <1>5, <1>6, <1>7, <1>8, <1>9, <1>10, <1>11, <1>12, <1>13, <1>14, <1>15,
     <1>16, <1>17, <1>18, <1>19, <1>20, <1>21, <1>22, <1>23, <1>24 DEF d, e
<1> QED
  BY <1>25 DEF d, e

\* So does every step, the fetch of the operand and the count of cycles included.
LEMMA BothStep ==
  ASSUME NEW c, Typed(c), c.running = TRUE, NEW t, Together(c, t, c.cycles), At(c.rom, c.PC) < 34,
         NEW random \in Byte, NEW in, in.random = random
  PROVE  \/ Together(step(c, random), Trap!step(t, in), step(c, random).cycles)
         \/ Faulted(Trap!step(t, in))
<1> DEFINE opcode == At(c.rom, c.PC)
           name == Mnemonics[opcode + 1]
           x == OperandOf(c, name)
           f == Fetching(c, Size(name))
           d == Perform(f, name, x, random)
           k == c.cycles + 1
<1>1. opcode \in 0 .. 33
  <2>1. opcode \in Byte
    BY Steps
  <2> QED
    BY <2>1, ByteRange
<1>2. name \in Names /\ step(c, random) = [d EXCEPT !.cycles = @ + 1]
  BY Steps
<1>3. Trap!Mnemonic(opcode) = name /\ opcode \in Trap!Opcode /\ Trap!width(name) = Size(name)
  BY <1>1, <1>2, TrapNames
<1>4. Typed(f) /\ x \in Word /\ Size(name) \in {1, 2, 3} /\ f.running = TRUE /\ f.PC = Wrap(c.PC + Size(name))
      /\ f.cycles = c.cycles
  BY <1>2, Fetches DEF Goes, Untouched
<1>5. Typed(d) /\ d.cycles = c.cycles
  BY <1>2, <1>4, PerformGoes DEF Untouched
<1>6. c.PC \in Int /\ t.PC = c.PC /\ t.rom = c.rom /\ t.cs = 0 /\ t.state = "RUNNING" /\ DOMAIN t = TwinFields
      /\ t.cycles = c.cycles
  BY WordRange DEF Typed, Together
<1> DEFINE p1 == Wrap(c.PC + 1)
           p2 == Wrap(c.PC + 2)
           p3 == Wrap(c.PC + 3)
           t1 == [t EXCEPT !.PC = p1, !.cycles = k]
           t2 == [t EXCEPT !.PC = p2, !.cycles = k]
           t3 == [t EXCEPT !.PC = p3, !.cycles = k]
<1>7. Wrap(p1 + 1) = p2 /\ Wrap(p2 + 1) = p3
  BY <1>6, TrapArithmetic DEF Wrap
<1>8. ASSUME NEW s, NEW p, s.cs = 0, s.state = "RUNNING", s.PC = p
      PROVE  Trap!fetch8(s) = [s EXCEPT !.PC = Wrap(p + 1)] /\ Trap!Fetched(s) = At(s.rom, p) /\ ~Trap!Stopped(s)
  BY <1>8, TrapArithmetic DEF Trap!fetch8, Trap!Fetched, Trap!Stopped
<1> HIDE DEF p1, p2, p3
<1>9. /\ t1.cs = 0 /\ t1.state = "RUNNING" /\ t1.PC = p1 /\ t1.rom = c.rom
      /\ t2.cs = 0 /\ t2.state = "RUNNING" /\ t2.PC = p2 /\ t2.rom = c.rom
      /\ t3.cs = 0 /\ t3.state = "RUNNING" /\ t3.PC = p3
  BY <1>6 DEF TwinFields
<1>10. Trap!fetch8(t) = [t EXCEPT !.PC = p1] /\ Trap!Fetched(t) = opcode
  <2>1. Trap!fetch8(t) = [t EXCEPT !.PC = Wrap(c.PC + 1)] /\ Trap!Fetched(t) = At(t.rom, c.PC)
    BY <1>6, <1>8
  <2> QED
    BY <1>6, <2>1 DEF p1
<1> DEFINE counted == IF Trap!Stopped(Trap!fetch8(t)) THEN Trap!fetch8(t)
                      ELSE [Trap!fetch8(t) EXCEPT !.cycles = @ + 1]
<1>11. counted = t1 /\ ~Trap!Stopped(counted)
  <2>1. ~Trap!Stopped([t EXCEPT !.PC = p1])
    BY <1>6 DEF Trap!Stopped, TwinFields
  <2>2. counted = [[t EXCEPT !.PC = p1] EXCEPT !.cycles = @ + 1]
    BY <1>10, <2>1
  <2>3. [t EXCEPT !.PC = p1].cycles = c.cycles
    BY <1>6 DEF TwinFields
  <2>4. counted = t1
    BY <2>2, <2>3
  <2> QED
    BY <1>9, <2>4 DEF Trap!Stopped
<1>12. Trap!fetch8(t1) = t2 /\ Trap!Fetched(t1) = At(c.rom, p1)
  <2> HIDE DEF t1
  <2>1. Trap!fetch8(t1) = [t1 EXCEPT !.PC = Wrap(p1 + 1)] /\ Trap!Fetched(t1) = At(t1.rom, p1)
    BY <1>8, <1>9
  <2>2. [t1 EXCEPT !.PC = p2] = t2
    BY DEF t1
  <2> HIDE DEF t2
  <2> QED
    BY <1>7, <1>9, <2>1, <2>2
<1>13. Trap!fetch8(t2) = t3 /\ Trap!Fetched(t2) = At(c.rom, p2)
  <2> HIDE DEF t2
  <2>1. Trap!fetch8(t2) = [t2 EXCEPT !.PC = Wrap(p2 + 1)] /\ Trap!Fetched(t2) = At(t2.rom, p2)
    BY <1>8, <1>9
  <2>2. [t2 EXCEPT !.PC = p3] = t3
    BY DEF t2
  <2> HIDE DEF t3
  <2> QED
    BY <1>7, <1>9, <2>1, <2>2
<1> DEFINE w == Trap!width(name)
           arg == CASE w = 1 -> 0
                    [] w = 2 -> Trap!Fetched(t1)
                    [] w = 3 -> Trap!Fetched(t1) + 256 * Trap!Fetched(t2)
           ready == CASE w = 1 -> t1 [] w = 2 -> t2 [] w = 3 -> t3
<1>14. Trap!step(t, in) = IF Trap!Stopped(ready) THEN ready ELSE Trap!Perform(ready, name, arg, in)
  <2> DEFINE short == Trap!fetch8(counted)
             op == Trap!Fetched(t)
             its == Trap!Mnemonic(op)
             low == Trap!Fetched(counted)
             more == CASE Trap!width(its) = 1 -> 0
                       [] Trap!width(its) = 2 -> low
                       [] Trap!width(its) = 3 -> low + 256 * Trap!Fetched(short)
             got == CASE Trap!width(its) = 1 -> counted
                      [] Trap!width(its) = 2 -> short
                      [] Trap!width(its) = 3 -> Trap!fetch8(short)
  <2>1. Trap!step(t, in) = IF Trap!Stopped(counted) THEN counted
                           ELSE IF op \notin Trap!Opcode THEN Trap!Fault(counted)
                           ELSE IF Trap!Stopped(got) THEN got ELSE Trap!Perform(got, its, more, in)
    BY Zenon DEF Trap!step
  <2>2. short = t2 /\ Trap!fetch8(short) = t3 /\ low = Trap!Fetched(t1)
    BY <1>11, <1>12, <1>13
  <2>3. op = opcode /\ its = name
    BY <1>3, <1>10
  <2> HIDE DEF counted, short, op, its, low, t1, t2, t3, name, opcode
  <2>4. more = arg /\ got = ready
    BY <1>11, <2>2, <2>3
  <2> HIDE DEF more, got, arg, ready
  <2> QED
    BY <1>3, <1>11, <2>1, <2>3, <2>4
<1>15. arg = x
  BY <1>3, <1>4, <1>12, <1>13 DEF OperandOf, p1, p2
<1>16. ready = [t EXCEPT !.PC = f.PC, !.cycles = k]
  <2> HIDE DEF name, t1, t2, t3, f
  <2>1. CASE w = 1
    <3>1. ready = t1 /\ f.PC = p1
      BY <1>3, <1>4, <2>1 DEF p1
    <3> HIDE DEF ready
    <3> QED
      BY <3>1 DEF t1
  <2>2. CASE w = 2
    <3>1. ready = t2 /\ f.PC = p2
      BY <1>3, <1>4, <2>2 DEF p2
    <3> HIDE DEF ready
    <3> QED
      BY <3>1 DEF t2
  <2>3. CASE w = 3
    <3>1. ready = t3 /\ f.PC = p3
      BY <1>3, <1>4, <2>3 DEF p3
    <3> HIDE DEF ready
    <3> QED
      BY <3>1 DEF t3
  <2> QED
    BY <1>3, <1>4, <2>1, <2>2, <2>3
<1>17. Together(f, ready, k) /\ ~Trap!Stopped(ready)
  <2>1. \A field \in OldFields \ {"PC"} : f[field] = c[field]
    BY <1>2, Fetches
  <2> DEFINE pc == f.PC
             r == [t EXCEPT !.PC = pc, !.cycles = k]
  <2>2. f.PC = pc
    OBVIOUS
  <2>3. ready = r
    BY <1>16
  <2> HIDE DEF f, pc, ready, k
  <2>4. Together(f, r, k) /\ r.state = "RUNNING"
    BY <1>6, <2>1, <2>2 DEF Together, OldFields, TwinFields
  <2> QED
    BY <2>3, <2>4 DEF Trap!Stopped
<1> HIDE DEF ready, arg, f, x, k, name, t1, t2, t3
<1>18. Trap!step(t, in) = Trap!Perform(ready, name, x, in)
  BY <1>14, <1>15, <1>17
<1>19. Together(d, Trap!step(t, in), k) \/ Faulted(Trap!step(t, in))
  <2>1. name \in Names
    BY <1>2
  <2>2. Together(d, Trap!Perform(ready, name, x, in), k) \/ Faulted(Trap!Perform(ready, name, x, in))
    BY <1>4, <1>17, <2>1, BothPerform
  <2> QED
    BY <1>18, <2>2
<1> HIDE DEF d
<1> DEFINE next == [d EXCEPT !.cycles = @ + 1]
           u == Trap!step(t, in)
<1>20. next.cycles = k
  BY <1>5 DEF Typed, OldFields, k
<1> HIDE DEF u, k
<1>21. Together(d, u, k) => Together(next, u, k)
  BY <1>5 DEF Together, Typed, OldFields
<1> HIDE DEF next
<1> QED
  BY <1>2, <1>19, <1>20, <1>21 DEF u, next

-----------------------------------------------------------------------------
(***************************************************************************)
(* The system, with TRAPCPU beside it.                                     *)
(***************************************************************************)
\* What the assemblers are compared on.
Programs == {disk[path] : path \in DOMAIN disk} \cup {DEMO}

\* As with MiniOS, a machine beside another means that one was started.
TwinBegun == twin # NoTwin => cpu.running \/ cpu.cycles > 0

\* They are together, unless a store to an executable page has stopped TRAPCPU.
TwinPaired == twin # NoTwin /\ Portable(source) => Together(cpu, twin, cpu.cycles) \/ Faulted(twin)

\* The inductive invariant for both.
TwinInv == MiniInv /\ TwinBegun /\ TwinPaired

\* What is no turn starts a program or leaves the machine alone or resets it.
LEMMA StartsOrNot ==
  ASSUME MiniInv, Boots \/ Commands \/ Restart
  PROVE  \/ task' # "run" /\ (cpu' = cpu => source' = source \/ ~(cpu.running \/ cpu.cycles > 0))
         \/ task # "run" /\ \E text \in Programs : text \in SourceText /\ Start(text, assemble(text))
<1>1. CASE BootExists \/ BootInstall
  BY <1>1 DEF BootExists, BootInstall
<1>2. CASE BootDemo
  BY <1>2, SessionsAssumption DEF BootDemo, Programs
<1>3. CASE WriteCommand \/ TouchCommand \/ RmCommand
  BY <1>3 DEF WriteCommand, TouchCommand, RmCommand, Command
<1>4. CASE RunCommand
  <2>1. PICK path \in DOMAIN disk : Start(disk[path], assemble(disk[path]))
    BY <1>4 DEF RunCommand
  <2>2. disk[path] \in SourceText /\ disk[path] \in Programs /\ task # "run"
    BY <1>4 DEF MiniInv, Texts, RunCommand, Command, Programs
  <2> QED
    BY <2>1, <2>2
<1>5. CASE ResetCommand \/ Restart
  <2>1. cpu' = PowerOn /\ task' # "run"
    BY <1>5 DEF ResetCommand, Command, Restart
  <2> QED
    BY <2>1, PowersOn
<1>6. CASE ClsCommand \/ KeyCommand \/ ClearCommand \/ ClearOne \/ ClearEnds
  BY <1>6 DEF ClsCommand, KeyCommand, Command, ClearCommand, ClearOne, ClearEnds
<1> QED
  BY <1>1, <1>2, <1>3, <1>4, <1>5, <1>6 DEF Boots, Commands

\* A program with the same image starts together on both machines.
LEMMA StartsTogether ==
  ASSUME NEW c, c.keys \in Seq(Byte), NEW program \in Seq(Byte), ~load(c, program).raised,
         NEW new, SameImage(program, new)
  PROVE  Together([load(c, program) EXCEPT !.running = TRUE],
                  [Trap!Load(new) EXCEPT !.state = "RUNNING", !.keys = c.keys, !.screen = c.screen], 0)
<1> DEFINE rom == [a \in 0 .. Len(program) - 1 |-> program[a + 1]]
           loaded == load(c, program)
           d == [loaded EXCEPT !.running = TRUE]
           t == [Trap!Load(new) EXCEPT !.state = "RUNNING", !.keys = c.keys, !.screen = c.screen]
           keys == c.keys
           screen == c.screen
<1>1. ~(Len(program) > WordSize)
  <2>1. ASSUME Len(program) > WordSize PROVE FALSE
    <3>1. load(c, program) = [reset(c) EXCEPT !.raised = TRUE]
      BY <2>1 DEF load
    <3> QED
      BY <3>1 DEF reset
  <2> QED
    BY <2>1
<1>2. loaded = [reset(c) EXCEPT !.rom = rom]
  BY <1>1 DEF load
<1>3. Trap!Stored(new.code) = rom
  BY DEF SameImage
<1>4. Trap!Stored(new.data) = <<>>
  <2>1. new.data = <<>> /\ DOMAIN (<<>>) = {}
    BY DEF SameImage
  <2>2. UNION {Trap!Stretch(new.data[i]) : i \in DOMAIN new.data} = {}
    BY <2>1
  <2> DEFINE memory == Trap!Stored(new.data)
             byte(a) == LET holder(b) == new.data[Trap!Max({i \in DOMAIN new.data : b \in Trap!Stretch(new.data[i])})]
                        IN holder(a).blob[a - holder(a).base + 1]
  <2>3. memory = [a \in UNION {Trap!Stretch(new.data[i]) : i \in DOMAIN new.data} |-> byte(a)]
    BY DEF Trap!Stored
  <2> HIDE DEF memory, byte
  <2>4. memory = [a \in 1 .. 0 |-> byte(a)]
    <3> DEFINE held == UNION {Trap!Stretch(new.data[i]) : i \in DOMAIN new.data}
    <3>1. held = 1 .. 0
      <4>1. held = {}
        BY <2>2
      <4> HIDE DEF held
      <4> QED
        BY <4>1
    <3>2. memory = [a \in held |-> byte(a)]
      BY <2>3
    <3> HIDE DEF held
    <3> QED
      BY <3>1, <3>2
  <2>5. memory \in Seq({}) /\ Len(memory) = 0
    BY <2>4
  <2> QED
    BY <2>5 DEF memory
<1>5. Trap!Load(new) = [Trap!Reset EXCEPT !.rom = rom, !.ram = <<>>]
  BY <1>3, <1>4 DEF Trap!Load
<1> HIDE DEF rom, keys, screen
<1>6. /\ d.A = 0 /\ d.B = 0 /\ d.C = 0 /\ d.D = 0 /\ d.PC = 0 /\ d.SP = 65535 /\ d.Z = 0 /\ d.N = 0
      /\ d.rom = rom /\ d.ram = <<>> /\ d.keys = keys /\ d.screen = screen /\ d.out = <<>> /\ d.running = TRUE
  BY <1>2 DEF reset, WordSize, keys, screen
<1>7. /\ t.A = 0 /\ t.B = 0 /\ t.C = 0 /\ t.D = 0 /\ t.PC = 0 /\ t.SP = 65535 /\ t.Z = 0 /\ t.N = 0
      /\ t.rom = rom /\ t.ram = <<>> /\ t.keys = keys /\ t.screen = screen /\ t.out = <<>>
      /\ t.state = "RUNNING" /\ t.cycles = 0 /\ DOMAIN t = TwinFields
      /\ t.cs = 0 /\ t.irq_pending = FALSE /\ t.async_pending = FALSE /\ t.last_oracle_status = 0
  BY <1>5 DEF Trap!Reset, Trap!WordSize, TwinFields, keys, screen
<1> HIDE DEF d, t
<1>8. Together(d, t, 0)
  BY <1>6, <1>7 DEF Together
<1> QED
  BY <1>8 DEF d, t, loaded

\* A turn of both machines leaves them together, or TRAPCPU with a fault.
LEMMA TwinTurns == ASSUME TwinInv, NEW random \in Random, RunTurn(random), TwinTurn(random)
                   PROVE  TwinBegun' /\ TwinPaired'
<1>1. task = "run" /\ cpu' = Turn(cpu, random) /\ source' = source
      /\ random \in Byte /\ Typed(cpu) /\ cpu.running = TRUE /\ cpu.raised = FALSE
  BY SessionsAssumption DEF RunTurn, TwinInv, MiniInv
<1>2. cpu'.running = cpu.running \/ cpu'.cycles > 0
  BY <1>1, TurnGoes
<1> DEFINE in == [random |-> random, nonce |-> 1, spent |-> FALSE]
<1>3. twin' = IF twin = NoTwin \/ cpu'.raised THEN NoTwin ELSE Trap!step(twin, in)
  BY DEF TwinTurn
<1>4. in.random = random
  OBVIOUS
<1> HIDE DEF in
<1>5. ASSUME twin' # NoTwin, Portable(source') PROVE Together(cpu', twin', cpu'.cycles) \/ Faulted(twin')
  <2>1. twin # NoTwin /\ ~cpu'.raised /\ twin' = Trap!step(twin, in)
    BY <1>3, <1>5
  <2>2. Together(cpu, twin, cpu.cycles) \/ Faulted(twin)
    BY <1>1, <1>5, <2>1 DEF TwinInv, TwinPaired
  <2>3. CASE Faulted(twin)
    BY <2>1, <2>3, FaultedStays
  <2>4. CASE Together(cpu, twin, cpu.cycles)
    <3>1. ~(cpu.cycles >= Limit)
      <4>1. ASSUME cpu.cycles >= Limit PROVE FALSE
        <5>1. cpu' = [cpu EXCEPT !.running = FALSE, !.raised = TRUE]
          BY <1>1, <4>1 DEF Turn
        <5> QED
          BY <1>1, <2>1, <5>1 DEF Typed, OldFields
      <4> QED
        BY <4>1
    <3>2. cpu' = step(cpu, random)
      BY <1>1, <3>1 DEF Turn
    <3>3. At(cpu.rom, cpu.PC) < 34
      <4>1. At(cpu.rom, cpu.PC) \in Nat
        BY <1>1, Steps, ByteRange
      <4>2. ASSUME At(cpu.rom, cpu.PC) >= 34 PROVE FALSE
        <5>1. cpu' = [cpu EXCEPT !.PC = Wrap(@ + 1), !.raised = TRUE]
          BY <1>1, <3>2, <4>2, Steps
        <5> QED
          BY <1>1, <2>1, <5>1 DEF Typed, OldFields
      <4> QED
        BY <4>1, <4>2
    <3> QED
      BY <1>1, <1>4, <2>1, <2>4, <3>2, <3>3, BothStep
  <2> QED
    BY <2>2, <2>3, <2>4
<1> QED
  BY <1>1, <1>2, <1>5 DEF TwinBegun, TwinPaired

\* A start puts the same image on both; whatever else happens, nothing is left running.
LEMMA TwinFollows ==
  ASSUME TwinInv, OldProgramsAssemble, Boots \/ Commands \/ Restart, Follow
  PROVE  TwinBegun' /\ TwinPaired'
<1>1. CASE task' # "run" /\ (cpu' = cpu => source' = source \/ ~(cpu.running \/ cpu.cycles > 0))
  <2>1. CASE cpu' = cpu
    <3>1. twin' = twin
      BY <1>1, <2>1 DEF Follow
    <3>2. CASE twin = NoTwin
      BY <3>1, <3>2 DEF TwinBegun, TwinPaired
    <3>3. CASE twin # NoTwin
      <4>1. source' = source
        BY <1>1, <2>1, <3>3 DEF TwinInv, TwinBegun
      <4> QED
        BY <2>1, <3>1, <4>1 DEF TwinInv, TwinBegun, TwinPaired
    <3> QED
      BY <3>2, <3>3
  <2>2. CASE cpu' # cpu
    <3>1. twin' = NoTwin
      BY <1>1, <2>2 DEF Follow
    <3> QED
      BY <3>1 DEF TwinBegun, TwinPaired
  <2> QED
    BY <2>1, <2>2
<1>2. ASSUME task # "run", NEW text \in Programs, text \in SourceText, Start(text, assemble(text))
      PROVE  TwinBegun' /\ TwinPaired'
  <2> DEFINE program == assemble(text)
             loaded == load(cpu, program)
             S == Seq(STRING)
  <2>1. program # Error /\ source' = text /\ Started(loaded)
    BY <1>2 DEF Start
  <2>2. program \in Seq(Byte)
    <3> HIDE DEF S
    <3>1. text \in Seq(S)
      BY <1>2 DEF S, SourceText
    <3> QED
      BY <2>1, <3>1, AssembledBytes
  <2>3. cpu.keys \in Seq(Byte)
    BY DEF TwinInv, MiniInv, Typed
  <2>4. Portable(text) => SameImage(program, Trap!assemble(text))
    BY <1>2, <2>1 DEF OldProgramsAssemble, Programs
  <2> HIDE DEF program
  <2>5. Typed(loaded) /\ loaded.cycles = 0 /\ loaded.running = FALSE
    BY <2>2, <2>3, Loads
  <2>6. CASE loaded.raised
    <3>1. cpu' = loaded /\ task' = "idle"
      BY <2>1, <2>6 DEF Started
    <3>2. CASE cpu' = cpu
      <4>1. twin' = twin
        BY <3>1, <3>2 DEF Follow
      <4>2. ~(cpu.running \/ cpu.cycles > 0)
        BY <2>5, <3>1, <3>2
      <4>3. twin = NoTwin
        BY <4>2 DEF TwinInv, TwinBegun
      <4> QED
        BY <4>1, <4>3 DEF TwinBegun, TwinPaired
    <3>3. CASE cpu' # cpu
      <4>1. twin' = NoTwin
        BY <3>1, <3>3 DEF Follow
      <4> QED
        BY <4>1 DEF TwinBegun, TwinPaired
    <3> QED
      BY <3>2, <3>3
  <2>7. CASE ~loaded.raised
    <3>1. cpu' = [loaded EXCEPT !.running = TRUE] /\ task' = "run"
      BY <2>1, <2>7 DEF Started
    <3>2. twin' = Beside(Trap!assemble(text))
      BY <2>1, <3>1 DEF Follow
    <3>3. cpu'.running = TRUE /\ cpu'.cycles = 0
      <4> HIDE DEF loaded
      <4> QED
        BY <2>5, <3>1 DEF Typed, OldFields
    <3>4. ASSUME Portable(source') PROVE Together(cpu', twin', cpu'.cycles)
      <4>1. SameImage(program, Trap!assemble(text))
        BY <2>1, <2>4, <3>4
      <4>2. twin' = [Trap!Load(Trap!assemble(text))
                       EXCEPT !.state = "RUNNING", !.keys = cpu.keys, !.screen = cpu.screen]
        BY <3>2, <4>1 DEF Beside, SameImage
      <4> QED
        BY <2>2, <2>3, <2>7, <3>1, <3>3, <4>1, <4>2, StartsTogether
    <3> QED
      BY <3>3, <3>4 DEF TwinBegun, TwinPaired
  <2> QED
    BY <2>6, <2>7
<1> QED
  BY <1>1, <1>2, StartsOrNot DEF TwinInv

\* So does every step, as long as the assemblers agree on what is on the disk.
LEMMA TwinNext == TwinInv /\ OldProgramsAssemble /\ [Next]_vars => TwinInv'
<1> SUFFICES ASSUME TwinInv, OldProgramsAssemble, [Next]_vars PROVE TwinInv'
  OBVIOUS
<1>1. MiniInv'
  BY InvNext DEF TwinInv
<1> SUFFICES TwinBegun' /\ TwinPaired'
  BY <1>1 DEF TwinInv
<1>2. ASSUME NEW random \in Random, RunTurn(random), TwinTurn(random) PROVE TwinBegun' /\ TwinPaired'
  BY <1>2, TwinTurns
<1>3. CASE (Boots \/ Commands \/ Restart) /\ Follow
  BY <1>3, TwinFollows
<1>4. CASE UNCHANGED vars
  BY <1>4 DEF vars, TwinInv, TwinBegun, TwinPaired
<1> QED
  BY <1>2, <1>3, <1>4 DEF Next

\* What is together has run alike.
LEMMA TwinImplies == TwinInv => OldProgramsRun
<1> SUFFICES ASSUME TwinInv, twin # NoTwin, Portable(source), ~Faulted(twin)
             PROVE  /\ \A field \in {"A", "B", "C", "D", "PC", "SP", "Z", "N", "ram", "screen", "keys", "out",
                                     "cycles"} : cpu[field] = twin[field]
                    /\ cpu.running <=> twin.state = "RUNNING"
                    /\ ~cpu.running <=> twin.state = "HALTED"
  BY DEF OldProgramsRun, Faulted
<1>1. Together(cpu, twin, cpu.cycles)
  BY DEF TwinInv, TwinPaired
<1> QED
  BY <1>1 DEF Together

\* A portable program that both assemblers make the same image of runs on
\* TRAPCPU as it did: what is assumed is what OldProgramsAssemble says.
THEOREM OldProgramsRunAlike == Spec /\ []OldProgramsAssemble => []OldProgramsRun
<1>1. Init => TwinInv
  BY InvInit DEF Init, TwinInv, TwinBegun, TwinPaired
<1>2. Spec /\ []OldProgramsAssemble => []TwinInv
  BY <1>1, TwinNext, PTL DEF Spec
<1> QED
  BY <1>2, TwinImplies, PTL

-----------------------------------------------------------------------------
(***************************************************************************)
(* Texts, as both assemblers read them.                                    *)
(***************************************************************************)
\* What stands for an exception is neither a number nor a function.
ErrorIsAlone == Error \notin Int /\ Error # [x \in DOMAIN Error |-> Error[x]]

\* So no number and no sequence is an exception.
LEMMA NoError ==
  ASSUME ErrorIsAlone
  PROVE  (\A n \in Int : n # Error) /\ (\A s : IsSeq(s) => s # Error)
<1>1. ASSUME NEW s, IsSeq(s) PROVE s # Error
  <2>1. DOMAIN s = 1 .. Len(s) /\ s = [i \in 1 .. Len(s) |-> s[i]]
    BY <1>1, SeqOfOwn DEF IsSeq
  <2>2. s = [x \in DOMAIN s |-> s[x]]
    BY <2>1, Zenon
  <2> QED
    BY <2>2 DEF ErrorIsAlone
<1> QED
  BY <1>1 DEF ErrorIsAlone

\* The characters the lexers look at, by name: most of them mean something else to the
\* provers.
Gap == " "
Comma == ","
Semicolon == ";"
Colon == ":"
Tick == "'"
Double == "\""
NoQuote == ""

\* No two of them are the same.
LEMMA MarksDiffer ==
  /\ Gap # Comma /\ Gap # Semicolon /\ Gap # Colon /\ Gap # Tick /\ Gap # Double /\ Gap # Backslash
  /\ Comma # Semicolon /\ Comma # Colon /\ Comma # Tick /\ Comma # Double /\ Comma # Backslash
  /\ Semicolon # Colon /\ Semicolon # Tick /\ Semicolon # Double /\ Semicolon # Backslash
  /\ Colon # Tick /\ Colon # Double /\ Colon # Backslash
  /\ Tick # Double /\ Tick # Backslash /\ Double # Backslash
  /\ NoQuote # Tick /\ NoQuote # Double
  BY Zenon DEF Gap, Comma, Semicolon, Colon, Tick, Double, Backslash, NoQuote

\* The least of some numbers.
LEMMA MinIs ==
  ASSUME NEW S \in SUBSET Nat, S # {}
  PROVE  Min(S) \in S /\ Trap!Min(S) = Min(S) /\ \A k \in S : Min(S) <= k
  BY Least DEF Min, Trap!Min

\* A number no member is below, and that is one, is the least.
LEMMA MinAt ==
  ASSUME NEW S \in SUBSET Nat, NEW m \in S, \A k \in S : m <= k
  PROVE  Min(S) = m
<1>1. Min(S) \in S /\ \A k \in S : Min(S) <= k
  BY MinIs
<1>2. Min(S) \in Nat /\ m \in Nat /\ Min(S) <= m /\ m <= Min(S)
  BY <1>1
<1> QED
  BY <1>2

\* A sequence and its indices.
LEMMA SeqDomain ==
  ASSUME NEW s, IsSeq(s)
  PROVE  Len(s) \in Nat /\ DOMAIN s = 1 .. Len(s)
  BY SeqOfOwn DEF IsSeq

\* What is left of a line without the blanks around it.
Within(s, a, b) ==
  /\ a \in 1 .. Len(s) /\ b \in a .. Len(s) /\ s[a] # Gap /\ s[b] # Gap
  /\ \A i \in 1 .. Len(s) : i < a \/ i > b => s[i] = Gap

\* What stripping leaves: nothing, or all from the first that is no blank to the last.
LEMMA Strips ==
  ASSUME NEW s, IsSeq(s)
  PROVE  \/ Strip(s) = <<>> /\ \A i \in 1 .. Len(s) : s[i] = Gap
         \/ \E a, b \in Int : Within(s, a, b) /\ Strip(s) = SubSeq(s, a, b)
<1> DEFINE solid == {i \in DOMAIN s : s[i] # Gap}
           n == Len(s)
<1>1. n \in Nat /\ DOMAIN s = 1 .. n
  BY SeqDomain
<1>2. Strip(s) = IF solid = {} THEN <<>> ELSE SubSeq(s, Min(solid), Max(solid))
  BY Zenon DEF Strip, Gap
<1> HIDE DEF n
<1>3. CASE solid = {}
  BY <1>1, <1>2, <1>3 DEF n
<1>4. CASE solid # {}
  <2> DEFINE a == Min(solid)
             b == Max(solid)
  <2>1. solid \in SUBSET Nat /\ solid \in SUBSET (0 .. n)
    BY <1>1
  <2>2. a \in solid /\ \A k \in solid : a <= k
    <3> HIDE DEF solid
    <3> QED
      BY <1>4, <2>1, MinIs
  <2>3. b \in solid /\ \A k \in solid : k <= b
    <3> HIDE DEF solid
    <3> QED
      BY <1>1, <1>4, <2>1, Greatest
  <2>4. Strip(s) = SubSeq(s, a, b)
    BY <1>2, <1>4
  <2> HIDE DEF a, b
  <2>5. Within(s, a, b)
    BY <1>1, <2>2, <2>3 DEF Within, n
  <2> QED
    BY <2>4, <2>5, <1>1, <2>2, <2>3
<1> QED
  BY <1>3, <1>4

\* All of a sequence is the sequence.
LEMMA PartIs ==
  ASSUME NEW s, IsSeq(s)
  PROVE  SubSeq(s, 1, Len(s)) = s
<1>1. IsSeq(SubSeq(s, 1, Len(s))) /\ Len(s) \in Nat
  BY Part, SeqDomain
<1>2. Len(SubSeq(s, 1, Len(s))) = Len(s) /\ \A i \in 1 .. Len(s) : SubSeq(s, 1, Len(s))[i] = s[i]
  BY <1>1, Part
<1> QED
  BY <1>1, <1>2, SameSeq

\* What is left is a sequence that has no blanks at its ends, and stays as it is.
LEMMA Stripped ==
  ASSUME NEW s, IsSeq(s)
  PROVE  /\ IsSeq(Strip(s))
         /\ Strip(s) # <<>> =>
              Len(Strip(s)) \in Nat \ {0} /\ Strip(s)[1] # Gap /\ Strip(s)[Len(Strip(s))] # Gap
<1>1. CASE Strip(s) = <<>>
  BY <1>1, Empty
<1>2. ASSUME NEW a \in Int, NEW b \in Int, Within(s, a, b), Strip(s) = SubSeq(s, a, b)
      PROVE  IsSeq(Strip(s)) /\ Len(Strip(s)) \in Nat \ {0} /\ Strip(s)[1] # Gap /\ Strip(s)[Len(Strip(s))] # Gap
  <2>1. a <= b /\ s[a] # Gap /\ s[b] # Gap
    BY <1>2, SeqDomain DEF Within
  <2>2. IsSeq(Strip(s)) /\ Len(Strip(s)) = b - a + 1 /\ \A i \in 1 .. b - a + 1 : Strip(s)[i] = s[a + i - 1]
    BY <1>2, <2>1, Part
  <2>3. Strip(s)[1] = s[a] /\ Strip(s)[b - a + 1] = s[b]
    BY <2>1, <2>2
  <2> QED
    BY <2>1, <2>2, <2>3
<1> QED
  BY <1>1, <1>2, Strips

\* What begins and ends without a blank is not stripped.
LEMMA Bounded ==
  ASSUME NEW s, IsSeq(s), Len(s) > 0, s[1] # Gap, s[Len(s)] # Gap
  PROVE  Strip(s) = s
<1>1. Len(s) \in Nat
  BY SeqDomain
<1>2. PICK a \in Int, b \in Int : Within(s, a, b) /\ Strip(s) = SubSeq(s, a, b)
  BY <1>1, Strips
<1>3. a = 1 /\ b = Len(s)
  BY <1>1, <1>2 DEF Within
<1> QED
  BY <1>2, <1>3, PartIs

\* Nothing is left of nothing.
LEMMA StripEmpty == Strip(<<>>) = <<>>
<1>1. IsSeq(<<>>) /\ Len(<<>>) = 0
  BY Empty
<1>2. ~\E a, b \in Int : Within(<<>>, a, b)
  BY <1>1 DEF Within
<1> QED
  BY <1>1, <1>2, Strips

\* Capitals: the same length, the same marks.
LEMMA Capitals ==
  ASSUME NEW s, IsSeq(s)
  PROVE  /\ IsSeq(upper(s)) /\ Len(upper(s)) = Len(s)
         /\ \A i \in 1 .. Len(s) : \A c \in Marks : upper(s)[i] = c <=> s[i] = c
         /\ \A i \in 1 .. Len(s) : upper(s)[i] = upper(<<s[i]>>)[1]
<1>1. Len(s) \in Nat /\ DOMAIN s = 1 .. Len(s)
  BY SeqDomain
<1> DEFINE Great(t) == IF t \in DOMAIN Upper THEN Upper[t] ELSE t
<1>2. upper(s) = [i \in 1 .. Len(s) |-> Great(s[i])]
  BY <1>1 DEF upper
<1>3. \A t : upper(<<t>>)[1] = Great(t)
  <2>1. \A t : DOMAIN <<t>> = 1 .. 1 /\ <<t>>[1] = t
    OBVIOUS
  <2> QED
    BY <2>1 DEF upper
<1>4. \A t, c : c \in Marks => (Great(t) = c <=> t = c)
  BY MarksAssumption
<1> HIDE DEF Great
<1>5. IsSeq(upper(s)) /\ Len(upper(s)) = Len(s)
  <2>1. upper(s) = [i \in 1 .. Len(s) |-> upper(s)[i]]
    BY <1>2
  <2> QED
    BY <1>1, <2>1, FunctionIsSeq
<1> QED
  BY <1>1, <1>2, <1>3, <1>4, <1>5

\* The characters with names are the marks of the language.
LEMMA NamesAreMarks ==
  /\ Gap \in Marks /\ Comma \in Marks /\ Semicolon \in Marks /\ Colon \in Marks /\ Tick \in Marks
  /\ Double \in Marks /\ Backslash \in Marks /\ "+" \in Marks /\ "-" \in Marks
  BY Zenon DEF Marks, Gap, Comma, Semicolon, Colon, Tick, Double, Backslash

-----------------------------------------------------------------------------
(***************************************************************************)
(* Quotes and comments.  Both assemblers agree where quotes are calm.      *)
(***************************************************************************)
\* The scanner of TRAPCPU, with the characters named.
LEMMA QuoteStepIs ==
  ASSUME NEW scan, NEW c
  PROVE  Trap!QuoteStep(scan, c) =
           CASE scan.escaped -> [scan EXCEPT !.escaped = FALSE, !.free = Append(@, FALSE)]
             [] ~scan.escaped /\ c = Backslash /\ scan.quote # NoQuote ->
                  [scan EXCEPT !.escaped = TRUE, !.free = Append(@, FALSE)]
             [] ~scan.escaped /\ c # Backslash /\ scan.quote # NoQuote ->
                  [scan EXCEPT !.quote = IF c = @ THEN NoQuote ELSE @, !.free = Append(@, FALSE)]
             [] ~scan.escaped /\ scan.quote = NoQuote /\ c \in {Tick, Double} ->
                  [scan EXCEPT !.quote = c, !.free = Append(@, FALSE)]
             [] OTHER -> [scan EXCEPT !.free = Append(@, TRUE)]
  BY Zenon DEF Trap!QuoteStep, Trap!Backslash, Trap!Quote, Backslash, NoQuote, Tick, Double

\* What the scanner knows: the quote it is in, whether the last character escapes this one,
\* and which of the characters before are free of quotes.
ScanState == [quote : {NoQuote, Tick, Double}, escaped : BOOLEAN, free : Seq(BOOLEAN)]

\* A step keeps that form, and what it said of the characters before.
LEMMA QuoteStepTypes ==
  ASSUME NEW scan \in ScanState, NEW c
  PROVE  /\ Trap!QuoteStep(scan, c) \in ScanState
         /\ Len(Trap!QuoteStep(scan, c).free) = Len(scan.free) + 1
         /\ \A i \in 1 .. Len(scan.free) : Trap!QuoteStep(scan, c).free[i] = scan.free[i]
<1> DEFINE next == Trap!QuoteStep(scan, c)
<1>1. \A b \in BOOLEAN : /\ Append(scan.free, b) \in Seq(BOOLEAN) /\ Len(Append(scan.free, b)) = Len(scan.free) + 1
                         /\ \A i \in 1 .. Len(scan.free) : Append(scan.free, b)[i] = scan.free[i]
  BY DEF ScanState
<1>2. /\ next = [quote |-> next.quote, escaped |-> next.escaped, free |-> next.free]
      /\ next.quote \in {NoQuote, Tick, Double} /\ next.escaped \in BOOLEAN
      /\ \E b \in BOOLEAN : next.free = Append(scan.free, b)
  BY QuoteStepIs DEF ScanState
<1> QED
  BY <1>1, <1>2 DEF ScanState

\* The scanner, one character after the other.
LEMMA ScanRuns ==
  ASSUME NEW s, IsSeq(s)
  PROVE  \E f : /\ f[0] = Trap!Unscanned /\ f[Len(s)] = Trap!Scan(s)
                /\ \A k \in 0 .. Len(s) : f[k] \in ScanState
                /\ \A k \in 1 .. Len(s) : f[k] = Trap!QuoteStep(f[k - 1], s[k])
<1> DEFINE n == Len(s)
           On(f, i) == IF i = 0 THEN Trap!Unscanned ELSE Trap!QuoteStep(f[i - 1], s[i])
           Runs(f) == f = [i \in 0 .. n |-> On(f, i)]
           G == [k \in 1 .. n |-> [x \in ScanState |-> Trap!QuoteStep(x, s[k])]]
           p == CHOOSE f : Runs(f)
<1>1. n \in Nat
  BY SeqDomain
<1>2. Trap!Scan(s) = p[n]
  BY Zenon DEF Trap!Scan
<1>3. Trap!Unscanned \in ScanState
  <2>1. Trap!Unscanned = [quote |-> NoQuote, escaped |-> FALSE, free |-> <<>>]
    BY Zenon DEF Trap!Unscanned, NoQuote
  <2> QED
    BY <2>1 DEF ScanState
<1> HIDE DEF n
<1>4. G \in [1 .. n -> [ScanState -> ScanState]]
  BY QuoteStepTypes
<1>5. \A k \in 1 .. n, x \in ScanState : G[k][x] = Trap!QuoteStep(x, s[k])
  OBVIOUS
<1> HIDE DEF G
<1>6. PICK f : Unrolled(f, n, ScanState, Trap!Unscanned, G)
  BY <1>1, <1>3, <1>4, Recursion, Zenon
<1>7. f \in [0 .. n -> ScanState] /\ f[0] = Trap!Unscanned /\ \A k \in 1 .. n : f[k] = G[k][f[k - 1]]
  BY <1>6 DEF Unrolled
<1>8. \A k \in 1 .. n : f[k] = Trap!QuoteStep(f[k - 1], s[k]) /\ k - 1 \in 0 .. n
  BY <1>1, <1>5, <1>7
<1>9. Runs(f)
  <2>1. \A i \in 0 .. n : f[i] = On(f, i)
    BY <1>1, <1>7, <1>8
  <2>2. f = [i \in 0 .. n |-> f[i]]
    BY <1>7
  <2> HIDE DEF On
  <2> QED
    BY <2>1, <2>2
<1>10. Runs(p)
  <2> HIDE DEF Runs
  <2> QED
    BY <1>9, Zenon
<1> HIDE DEF p
<1>11. \A i \in 0 .. n : p[i] = On(p, i)
  <2> HIDE DEF On
  <2> QED
    BY <1>10, Zenon
<1>12. p[0] = Trap!Unscanned /\ \A k \in 1 .. n : p[k] = Trap!QuoteStep(p[k - 1], s[k])
  <2>1. 0 \in 0 .. n /\ \A k \in 1 .. n : k \in 0 .. n /\ k # 0
    BY <1>1
  <2> QED
    BY <1>11, <2>1, Zenon
<1> DEFINE K == {k \in 0 .. n : p[k] \in ScanState}
<1>13. 0 \in K
  BY <1>1, <1>3, <1>12
<1>14. ASSUME NEW k \in 0 .. n - 1, k \in K PROVE k + 1 \in K
  <2>1. k + 1 \in 1 .. n /\ k + 1 \in 0 .. n /\ (k + 1) - 1 = k /\ p[k] \in ScanState
    BY <1>1, <1>14
  <2>2. p[k + 1] = Trap!QuoteStep(p[k], s[k + 1])
    BY <1>12, <2>1
  <2> QED
    BY <2>1, <2>2, QuoteStepTypes
<1> HIDE DEF K
<1>15. \A k \in 0 .. n : k \in K
  BY <1>1, <1>13, <1>14, Induction
<1> QED
  BY <1>2, <1>12, <1>15 DEF K, n

\* Nothing quoted up to m but for a character literal at b, if b is positive.
Calm(s, m, b) ==
  /\ b \in Int /\ (b < -1 \/ b \in 1 .. m - 2)
  /\ \A i \in 1 .. m :
       /\ i = b \/ i = b + 2 => s[i] = Tick
       /\ i = b + 1 => s[i] # Tick /\ s[i] # Backslash
       /\ i \notin {b, b + 1, b + 2} => s[i] # Tick /\ s[i] # Double /\ s[i] # Backslash

\* There the scanner is outside quotes everywhere else, and at the end.
LEMMA CalmScan ==
  ASSUME NEW s, IsSeq(s), NEW m \in 0 .. Len(s), NEW b, Calm(s, m, b)
  PROVE  /\ \A i \in 1 .. m : Trap!Scan(s).free[i] <=> i \notin {b, b + 1, b + 2}
         /\ m = Len(s) => Trap!Scan(s).quote = NoQuote
         /\ m < Len(s) /\ s[m + 1] \notin {Tick, Double} => Trap!Scan(s).free[m + 1]
<1> DEFINE n == Len(s)
<1>1. n \in Nat /\ b \in Int /\ m \in 0 .. n
  BY SeqDomain DEF Calm
<1>2. PICK f : /\ f[0] = Trap!Unscanned /\ f[n] = Trap!Scan(s)
               /\ \A k \in 0 .. n : f[k] \in ScanState
               /\ \A k \in 1 .. n : f[k] = Trap!QuoteStep(f[k - 1], s[k])
  BY ScanRuns
<1> HIDE DEF n
<1>3. Trap!Unscanned = [quote |-> NoQuote, escaped |-> FALSE, free |-> <<>>]
  BY Zenon DEF Trap!Unscanned, NoQuote
\* How long the list is, and that it only grows.
<1> DEFINE K1 == {k \in 0 .. n :
                   /\ Len(f[k].free) = k
                   /\ \A j \in 0 .. k : \A i \in 1 .. j : f[k].free[i] = f[j].free[i]}
<1>4. 0 \in K1
  BY <1>1, <1>2, <1>3
<1>5. ASSUME NEW k \in 0 .. n - 1, k \in K1 PROVE k + 1 \in K1
  <2>1. k + 1 \in 1 .. n /\ k + 1 \in 0 .. n /\ (k + 1) - 1 = k /\ k \in 0 .. n /\ k \in Nat
    BY <1>1
  <2>2. f[k + 1] = Trap!QuoteStep(f[k], s[k + 1]) /\ f[k] \in ScanState /\ Len(f[k].free) = k
    BY <1>2, <1>5, <2>1
  <2>3. Len(f[k + 1].free) = k + 1 /\ \A i \in 1 .. k : f[k + 1].free[i] = f[k].free[i]
    BY <2>2, QuoteStepTypes
  <2>4. ASSUME NEW j \in 0 .. k + 1, NEW i \in 1 .. j PROVE f[k + 1].free[i] = f[j].free[i]
    <3>1. CASE j = k + 1
      BY <3>1
    <3>2. CASE j # k + 1
      <4>1. j \in 0 .. k /\ i \in 1 .. k
        BY <2>1, <3>2
      <4> QED
        BY <1>5, <2>3, <4>1
    <3> QED
      BY <3>1, <3>2
  <2> QED
    BY <2>1, <2>3, <2>4
<1> HIDE DEF K1
<1>6. \A k \in 0 .. n : k \in K1
  BY <1>1, <1>4, <1>5, Induction
<1>7. \A k \in 0 .. n : Len(f[k].free) = k
  BY <1>6 DEF K1
<1>8. \A i \in 1 .. n : Trap!Scan(s).free[i] = f[i].free[i]
  <2>1. n \in K1 /\ \A i \in 1 .. n : i \in 0 .. n /\ i \in 1 .. i
    BY <1>1, <1>6
  <2> QED
    BY <1>2, <2>1 DEF K1
\* What is looked at last.
<1>9. ASSUME NEW k \in 1 .. n
      PROVE  LET scan == f[k - 1]
                 c == s[k]
             IN ~scan.escaped =>
               /\ scan.quote = NoQuote /\ c \notin {Tick, Double} =>
                    f[k].free[k] = TRUE /\ ~f[k].escaped /\ f[k].quote = NoQuote
               /\ scan.quote = NoQuote /\ c \in {Tick, Double} =>
                    f[k].free[k] = FALSE /\ ~f[k].escaped /\ f[k].quote = c
               /\ scan.quote # NoQuote /\ c # Backslash =>
                    /\ f[k].free[k] = FALSE /\ ~f[k].escaped
                    /\ f[k].quote = IF c = scan.quote THEN NoQuote ELSE scan.quote
  <2> DEFINE scan == f[k - 1]
             c == s[k]
  <2>1. k - 1 \in 0 .. n /\ k \in Nat
    BY <1>1
  <2>2. scan \in ScanState /\ f[k] = Trap!QuoteStep(scan, c) /\ Len(scan.free) = k - 1
    BY <1>2, <1>7, <2>1
  <2>3. scan.free \in Seq(BOOLEAN)
    BY <2>2 DEF ScanState
  <2>4. \A v \in BOOLEAN : Append(scan.free, v)[k] = v
    BY <2>1, <2>2, <2>3
  <2> HIDE DEF scan, c
  <2>5. ASSUME ~scan.escaped, scan.quote = NoQuote, c \notin {Tick, Double}
        PROVE  f[k].free[k] = TRUE /\ ~f[k].escaped /\ f[k].quote = NoQuote
    <3>1. f[k] = [scan EXCEPT !.free = Append(@, TRUE)]
      BY <2>2, <2>5, QuoteStepIs
    <3> QED
      BY <2>2, <2>4, <2>5, <3>1 DEF ScanState
  <2>6. ASSUME ~scan.escaped, scan.quote = NoQuote, c \in {Tick, Double}
        PROVE  f[k].free[k] = FALSE /\ ~f[k].escaped /\ f[k].quote = c
    <3>1. f[k] = [scan EXCEPT !.quote = c, !.free = Append(@, FALSE)]
      BY <2>2, <2>6, QuoteStepIs
    <3> QED
      BY <2>2, <2>4, <2>6, <3>1 DEF ScanState
  <2>7. ASSUME ~scan.escaped, scan.quote # NoQuote, c # Backslash
        PROVE  /\ f[k].free[k] = FALSE /\ ~f[k].escaped
               /\ f[k].quote = IF c = scan.quote THEN NoQuote ELSE scan.quote
    <3>1. f[k] = [scan EXCEPT !.quote = IF c = @ THEN NoQuote ELSE @, !.free = Append(@, FALSE)]
      BY <2>2, <2>7, QuoteStepIs
    <3> QED
      BY <2>2, <2>4, <2>7, <3>1 DEF ScanState
  <2> QED
    BY <2>5, <2>6, <2>7 DEF scan, c
<1> DEFINE Quoting(k) == IF k \in {b, b + 1} THEN Tick ELSE NoQuote
           K2 == {k \in 0 .. m :
                    /\ ~f[k].escaped /\ f[k].quote = Quoting(k)
                    /\ k > 0 => (f[k].free[k] <=> k \notin {b, b + 1, b + 2})}
<1>10. 0 \in K2
  <2>1. 0 \notin {b, b + 1}
    BY <1>1 DEF Calm
  <2> QED
    BY <1>1, <1>2, <1>3, <2>1
<1>11. ASSUME NEW k \in 0 .. m - 1, k \in K2 PROVE k + 1 \in K2
  <2>1. k + 1 \in 1 .. n /\ k + 1 \in 1 .. m /\ k + 1 \in 0 .. m /\ (k + 1) - 1 = k /\ k \in Nat /\ b \in Int
    BY <1>1
  <2> DEFINE scan == f[k]
             c == s[k + 1]
             next == f[k + 1]
  <2>2. ~scan.escaped /\ scan.quote = Quoting(k)
    BY <1>11, Zenon
  <2>3. /\ k + 1 = b \/ k + 1 = b + 2 => c = Tick
        /\ k + 1 = b + 1 => c # Tick /\ c # Backslash
        /\ k + 1 \notin {b, b + 1, b + 2} => c # Tick /\ c # Double /\ c # Backslash
    BY <2>1 DEF Calm
  <2>4. /\ scan.quote = NoQuote /\ c \notin {Tick, Double} =>
             next.free[k + 1] = TRUE /\ ~next.escaped /\ next.quote = NoQuote
        /\ scan.quote = NoQuote /\ c \in {Tick, Double} =>
             next.free[k + 1] = FALSE /\ ~next.escaped /\ next.quote = c
        /\ scan.quote # NoQuote /\ c # Backslash =>
             /\ next.free[k + 1] = FALSE /\ ~next.escaped
             /\ next.quote = IF c = scan.quote THEN NoQuote ELSE scan.quote
    BY <1>9, <2>1, <2>2
  <2> HIDE DEF scan, c, next
  <2>5. CASE k + 1 = b
    BY <2>1, <2>2, <2>3, <2>4, <2>5, MarksDiffer DEF next
  <2>6. CASE k + 1 = b + 1
    BY <2>1, <2>2, <2>3, <2>4, <2>6, MarksDiffer DEF next
  <2>7. CASE k + 1 = b + 2
    BY <2>1, <2>2, <2>3, <2>4, <2>7, MarksDiffer DEF next
  <2>8. CASE k + 1 \notin {b, b + 1, b + 2}
    <3>1. k \notin {b, b + 1}
      BY <2>1, <2>8
    <3> QED
      BY <2>1, <2>2, <2>3, <2>4, <2>8, <3>1, MarksDiffer DEF next
  <2> QED
    BY <2>5, <2>6, <2>7, <2>8
<1> HIDE DEF K2
<1>12. m \in Nat
  BY <1>1
<1>13. \A k \in 0 .. m : k \in K2
  BY <1>10, <1>11, <1>12, Induction
<1>14. \A i \in 1 .. m : f[i].free[i] <=> i \notin {b, b + 1, b + 2}
  <2>1. \A i \in 1 .. m : i \in K2 /\ i > 0
    BY <1>12, <1>13
  <2> QED
    BY <2>1, Zenon DEF K2
<1>15. ~f[m].escaped /\ f[m].quote = NoQuote
  <2>1. m \in K2
    BY <1>12, <1>13
  <2>2. m \notin {b, b + 1}
    BY <1>1, <1>12 DEF Calm
  <2>3. ~f[m].escaped /\ f[m].quote = Quoting(m)
    BY <2>1, Zenon DEF K2
  <2> QED
    BY <2>2, <2>3
<1>16. ASSUME m < n, s[m + 1] \notin {Tick, Double} PROVE Trap!Scan(s).free[m + 1]
  <2>1. m + 1 \in 1 .. n /\ (m + 1) - 1 = m
    BY <1>1, <1>16
  <2>2. f[m + 1].free[m + 1] = TRUE
    BY <1>9, <1>15, <1>16, <2>1
  <2> QED
    BY <1>8, <2>1, <2>2
<1>17. ASSUME NEW i \in 1 .. m PROVE Trap!Scan(s).free[i] <=> i \notin {b, b + 1, b + 2}
  <2>1. i \in 1 .. n
    BY <1>1
  <2>2. Trap!Scan(s).free[i] = f[i].free[i]
    BY <1>8, <2>1
  <2> QED
    BY <1>14, <2>2
<1> QED
  BY <1>2, <1>15, <1>16, <1>17 DEF n

\* Both assemblers cut, strip and spell words alike.
LEMMA TrapText ==
  ASSUME NEW s
  PROVE  /\ Trap!Strip(s) = Strip(s) /\ Trap!upper(s) = upper(s)
         /\ \A i : Trap!Before(s, i) = SubSeq(s, 1, i - 1) /\ Before(s, i) = SubSeq(s, 1, i - 1)
         /\ \A i : Trap!After(s, i) = SubSeq(s, i + 1, Len(s)) /\ After(s, i) = SubSeq(s, i + 1, Len(s))
<1>1. Trap!Strip(s) = Strip(s)
  BY Zenon DEF Trap!Strip, Strip, Min, Trap!Min, Max, Trap!Max
<1>2. Trap!upper(s) = upper(s)
  BY Zenon DEF Trap!upper, upper
<1> QED
  BY <1>1, <1>2, Zenon DEF Trap!Before, Before, Trap!After, After

\* A text in which a quote is only a literal of one character.
IsCalm(s) == \E b : Calm(s, Len(s), b)

\* What begins a text and is calm is calm in the text.
LEMMA CalmPrefix ==
  ASSUME NEW s, IsSeq(s), NEW m \in 0 .. Len(s), IsCalm(SubSeq(s, 1, m))
  PROVE  \E b : Calm(s, m, b)
<1> DEFINE t == SubSeq(s, 1, m)
<1>1. Len(s) \in Nat /\ m \in Int
  BY SeqDomain
<1>2. Len(t) = m /\ \A i \in 1 .. m : t[i] = s[i]
  <2>1. Len(t) = (IF 1 <= m THEN m - 1 + 1 ELSE 0) /\ \A i \in 1 .. m - 1 + 1 : t[i] = s[1 + i - 1]
    BY <1>1, Part
  <2> HIDE DEF t
  <2> QED
    BY <1>1, <2>1
<1>3. PICK b : Calm(t, Len(t), b)
  BY DEF IsCalm
<1> HIDE DEF t
<1> QED
  BY <1>1, <1>2, <1>3 DEF Calm

\* Blanks around it do not matter,
LEMMA CalmStrip ==
  ASSUME NEW s, IsSeq(s), IsCalm(Strip(s))
  PROVE  IsCalm(s)
<1>1. Len(s) \in Nat
  BY SeqDomain
<1>2. PICK b : Calm(Strip(s), Len(Strip(s)), b)
  BY DEF IsCalm
<1>3. CASE Strip(s) = <<>> /\ \A i \in 1 .. Len(s) : s[i] = Gap
  <2>1. Calm(s, Len(s), -2)
    BY <1>1, <1>3, MarksDiffer DEF Calm
  <2> QED
    BY <2>1 DEF IsCalm
<1>4. ASSUME NEW x \in Int, NEW y \in Int, Within(s, x, y), Strip(s) = SubSeq(s, x, y) PROVE IsCalm(s)
  <2> DEFINE t == Strip(s)
             d == IF b < -1 THEN b ELSE b + x - 1
  <2>1. x >= 1 /\ x <= y /\ y <= Len(s) /\ \A i \in 1 .. Len(s) : i < x \/ i > y => s[i] = Gap
    BY <1>1, <1>4 DEF Within
  <2>2. Len(t) = y - x + 1 /\ \A i \in 1 .. y - x + 1 : t[i] = s[x + i - 1]
    BY <1>4, <2>1, Part
  <2> HIDE DEF t
  <2>0. Calm(t, y - x + 1, b)
    BY <1>2, <2>2, Zenon DEF t
  <2>3. Calm(t, y - x + 1, b) /\ b \in Int /\ d \in Int
    BY <1>4, <2>0 DEF Calm
  <2>4. d < -1 \/ d \in 1 .. Len(s) - 2
    BY <1>1, <2>1, <2>3 DEF Calm
  <2>5. \A j \in 1 .. Len(s) : j >= x /\ j <= y => j - x + 1 \in 1 .. y - x + 1 /\ t[j - x + 1] = s[j]
    BY <1>1, <2>1, <2>2
  <2>6. ASSUME NEW j \in 1 .. Len(s)
        PROVE  /\ j = d \/ j = d + 2 => s[j] = Tick
               /\ j = d + 1 => s[j] # Tick /\ s[j] # Backslash
               /\ j \notin {d, d + 1, d + 2} => s[j] # Tick /\ s[j] # Double /\ s[j] # Backslash
    <3>1. CASE j >= x /\ j <= y
      <4> DEFINE i == j - x + 1
      <4>1. i \in 1 .. y - x + 1 /\ t[i] = s[j]
        BY <2>5, <3>1
      <4>2. /\ i = b \/ i = b + 2 => t[i] = Tick
            /\ i = b + 1 => t[i] # Tick /\ t[i] # Backslash
            /\ i \notin {b, b + 1, b + 2} => t[i] # Tick /\ t[i] # Double /\ t[i] # Backslash
        BY <2>3, <4>1 DEF Calm
      <4>3. CASE b < -1
        BY <1>1, <2>1, <2>3, <3>1, <4>1, <4>2, <4>3
      <4>4. CASE ~(b < -1)
        BY <1>1, <2>1, <2>3, <3>1, <4>1, <4>2, <4>4
      <4> QED
        BY <4>3, <4>4
    <3>2. CASE ~(j >= x /\ j <= y)
      <4>1. s[j] = Gap
        BY <1>1, <2>1, <3>2
      <4>2. j \notin {d, d + 1, d + 2}
        BY <1>1, <2>1, <2>3, <3>2 DEF Calm
      <4> QED
        BY <4>1, <4>2, MarksDiffer
    <3> QED
      BY <3>1, <3>2
  <2> HIDE DEF d
  <2>7. Calm(s, Len(s), d)
    BY <2>3, <2>4, <2>6 DEF Calm
  <2> QED
    BY <2>7 DEF IsCalm
<1> QED
  BY <1>3, <1>4, Strips

\* and neither does a label before it.
LEMMA CalmJoin ==
  ASSUME NEW s, IsSeq(s), NEW p \in 1 .. Len(s), s[p] = Colon,
         \A i \in 1 .. p - 1 : s[i] # Tick /\ s[i] # Double /\ s[i] # Backslash,
         IsCalm(SubSeq(s, p + 1, Len(s)))
  PROVE  IsCalm(s)
<1> DEFINE n == Len(s)
           t == SubSeq(s, p + 1, n)
<1>1. n \in Nat /\ p \in Int /\ p >= 1 /\ p <= n
  BY SeqDomain
<1>2. PICK b : Calm(t, Len(t), b)
  BY DEF IsCalm
<1>3. Len(t) = n - p /\ \A i \in 1 .. n - p : t[i] = s[p + i]
  <2>1. /\ Len(t) = IF p + 1 <= n THEN n - (p + 1) + 1 ELSE 0
        /\ \A i \in 1 .. n - (p + 1) + 1 : t[i] = s[(p + 1) + i - 1]
    BY <1>1, Part
  <2> HIDE DEF t, n
  <2> QED
    BY <1>1, <2>1
<1> DEFINE d == IF b < -1 THEN b ELSE b + p
<1> HIDE DEF t, n
<1>4. Calm(t, n - p, b) /\ b \in Int /\ d \in Int
  BY <1>1, <1>2, <1>3 DEF Calm
<1>5. d < -1 \/ d \in 1 .. n - 2
  BY <1>1, <1>4 DEF Calm
<1>6. ASSUME NEW j \in 1 .. n
      PROVE  /\ j = d \/ j = d + 2 => s[j] = Tick
             /\ j = d + 1 => s[j] # Tick /\ s[j] # Backslash
             /\ j \notin {d, d + 1, d + 2} => s[j] # Tick /\ s[j] # Double /\ s[j] # Backslash
  <2>1. CASE j > p
    <3> DEFINE i == j - p
    <3>0. i \in 1 .. n - p /\ p + i = j
      BY <1>1, <2>1
    <3> HIDE DEF i
    <3>1. i \in 1 .. n - p /\ t[i] = s[j]
      BY <1>3, <3>0
    <3>2. /\ i = b \/ i = b + 2 => t[i] = Tick
          /\ i = b + 1 => t[i] # Tick /\ t[i] # Backslash
          /\ i \notin {b, b + 1, b + 2} => t[i] # Tick /\ t[i] # Double /\ t[i] # Backslash
      BY <1>4, <3>1 DEF Calm
    <3>3. CASE b < -1
      BY <1>1, <1>4, <3>0, <3>1, <3>2, <3>3
    <3>4. CASE ~(b < -1)
      BY <1>1, <1>4, <3>0, <3>1, <3>2, <3>4
    <3> QED
      BY <3>3, <3>4
  <2>2. CASE ~(j > p)
    <3>1. s[j] # Tick /\ s[j] # Double /\ s[j] # Backslash
      <4>1. CASE j = p
        BY <4>1, MarksDiffer
      <4>2. CASE j # p
        <5>1. j \in 1 .. p - 1
          BY <1>1, <2>2, <4>2
        <5> QED
          BY <5>1
      <4> QED
        BY <4>1, <4>2
    <3>2. j \notin {d, d + 1, d + 2}
      BY <1>1, <1>4, <2>2 DEF Calm
    <3> QED
      BY <3>1, <3>2
  <2> QED
    BY <2>1, <2>2
<1> HIDE DEF d
<1>7. Calm(s, n, d)
  BY <1>4, <1>5, <1>6 DEF Calm
<1> QED
  BY <1>7 DEF IsCalm, n

\* Where both look for a comment or a colon.
LEMMA MarkFound ==
  ASSUME NEW s, IsSeq(s), NEW c, c \notin {Tick, Double}
  PROVE  /\ Places(s, c) \in SUBSET (1 .. Len(s)) /\ Len(s) \in Nat
         /\ Places(s, c) = {} => Trap!Unquoted(s, c) = {}
         /\ Places(s, c) # {} =>
              LET p == Min(Places(s, c))
              IN /\ p \in 1 .. Len(s) /\ s[p] = c /\ \A i \in 1 .. p - 1 : s[i] # c
                 /\ IsCalm(SubSeq(s, 1, p - 1)) =>
                      Trap!Unquoted(s, c) # {} /\ Trap!Min(Trap!Unquoted(s, c)) = p
<1> DEFINE free == Trap!Scan(s).free
           P == Places(s, c)
           U == Trap!Unquoted(s, c)
           n == Len(s)
<1>1. n \in Nat /\ DOMAIN s = 1 .. n
  BY SeqDomain
<1>2. P = {i \in 1 .. n : s[i] = c}
  BY <1>1 DEF Places
<1>3. U = {i \in 1 .. n : free[i] /\ s[i] = c}
  BY <1>1 DEF Trap!Unquoted
<1> HIDE DEF P, U, n, free
<1>4. P \in SUBSET (1 .. n) /\ P \in SUBSET Nat /\ (P = {} => U = {})
  BY <1>1, <1>2, <1>3
<1>5. ASSUME P # {}
      PROVE  LET p == Min(P)
             IN /\ p \in 1 .. n /\ s[p] = c /\ \A i \in 1 .. p - 1 : s[i] # c
                /\ IsCalm(SubSeq(s, 1, p - 1)) => U # {} /\ Trap!Min(U) = p
  <2> DEFINE p == Min(P)
  <2>1. p \in P /\ \A k \in P : p <= k
    BY <1>4, <1>5, MinIs
  <2> HIDE DEF p
  <2>2. p \in 1 .. n /\ s[p] = c
    BY <1>2, <2>1
  <2>3. \A i \in 1 .. p - 1 : s[i] # c
    BY <1>1, <1>2, <2>1, <2>2
  <2>4. ASSUME IsCalm(SubSeq(s, 1, p - 1)) PROVE U # {} /\ Trap!Min(U) = p
    <3>1. p - 1 \in 0 .. n /\ p - 1 < n /\ (p - 1) + 1 = p
      BY <1>1, <2>2
    <3>2. PICK b : Calm(s, p - 1, b)
      BY <2>4, <3>1, CalmPrefix DEF n
    <3>3. free[p]
      BY <2>2, <3>1, <3>2, CalmScan DEF free, n
    <3>4. p \in U /\ U \in SUBSET Nat /\ \A k \in U : k \in P
      BY <1>1, <1>2, <1>3, <2>2, <3>3
    <3>5. Min(U) = p /\ Trap!Min(U) = Min(U)
      BY <2>1, <3>4, MinAt, MinIs
    <3> QED
      BY <3>4, <3>5
  <2> QED
    BY <2>2, <2>3, <2>4 DEF p
<1> QED
  BY <1>1, <1>4, <1>5 DEF P, U, n

\* What both leave of a line without its comment.
LEMMA CodeIs ==
  ASSUME NEW raw
  PROVE  /\ Code(raw) = Strip(IF Places(raw, Semicolon) = {} THEN raw
                              ELSE SubSeq(raw, 1, Min(Places(raw, Semicolon)) - 1))
         /\ Trap!Bare(raw) = Strip(IF Trap!Unquoted(raw, Semicolon) = {} THEN raw
                              ELSE SubSeq(raw, 1, Trap!Min(Trap!Unquoted(raw, Semicolon)) - 1))
<1>1. Code(raw) = Strip(IF Places(raw, Semicolon) = {} THEN raw
                        ELSE SubSeq(raw, 1, Min(Places(raw, Semicolon)) - 1))
  BY Zenon DEF Code, Before, Semicolon
<1>2. Trap!Bare(raw) = Trap!Strip(IF Trap!Unquoted(raw, Semicolon) = {} THEN raw
                              ELSE SubSeq(raw, 1, Trap!Min(Trap!Unquoted(raw, Semicolon)) - 1))
  BY Zenon DEF Trap!Bare, Trap!strip_comment, Trap!Before, Semicolon
<1> QED
  BY <1>1, <1>2, TrapText, Zenon

\* What is left of a line without its comment has no blanks around it.
LEMMA CodeSeq ==
  ASSUME NEW raw, IsSeq(raw)
  PROVE  /\ IsSeq(Code(raw))
         /\ Code(raw) # <<>> => /\ Len(Code(raw)) \in Nat \ {0} /\ Code(raw)[1] # Gap
                                /\ Code(raw)[Len(Code(raw))] # Gap /\ Strip(Code(raw)) = Code(raw)
<1>1. PICK body : IsSeq(body) /\ Code(raw) = Strip(body)
  <2>1. CASE Places(raw, Semicolon) = {}
    BY <2>1, CodeIs
  <2>2. CASE Places(raw, Semicolon) # {}
    <3>1. Min(Places(raw, Semicolon)) \in Int
      BY <2>2, MarkFound, MarksDiffer
    <3>2. IsSeq(SubSeq(raw, 1, Min(Places(raw, Semicolon)) - 1))
      BY <3>1, Part
    <3> QED
      BY <2>2, <3>2, CodeIs
  <2> QED
    BY <2>1, <2>2
<1>2. IsSeq(Code(raw))
  BY <1>1, Stripped
<1>3. ASSUME Code(raw) # <<>>
      PROVE /\ Len(Code(raw)) \in Nat \ {0} /\ Code(raw)[1] # Gap
            /\ Code(raw)[Len(Code(raw))] # Gap /\ Strip(Code(raw)) = Code(raw)
  <2>1. Len(Code(raw)) \in Nat \ {0} /\ Code(raw)[1] # Gap /\ Code(raw)[Len(Code(raw))] # Gap
    BY <1>1, <1>3, Stripped
  <2> QED
    BY <1>2, <2>1, Bounded
<1> QED
  BY <1>2, <1>3

\* Where quotes are calm, both take the same for a comment.
LEMMA Comments ==
  ASSUME NEW raw, IsSeq(raw), IsCalm(Code(raw))
  PROVE  Trap!Bare(raw) = Code(raw)
<1>1. CASE Places(raw, Semicolon) = {}
  BY <1>1, CodeIs, MarkFound, MarksDiffer
<1>2. CASE Places(raw, Semicolon) # {}
  <2> DEFINE p == Min(Places(raw, Semicolon))
             body == SubSeq(raw, 1, p - 1)
  <2>1. p \in Int
    BY <1>2, MarkFound, MarksDiffer
  <2>2. IsSeq(body)
    BY <2>1, Part
  <2>3. Code(raw) = Strip(body)
    BY <1>2, CodeIs
  <2>4. IsCalm(body)
    <3> HIDE DEF body
    <3> QED
      BY <2>2, <2>3, CalmStrip
  <2>5. Trap!Unquoted(raw, Semicolon) # {} /\ Trap!Min(Trap!Unquoted(raw, Semicolon)) = p
    BY <1>2, <2>4, MarkFound, MarksDiffer
  <2> QED
    BY <2>3, <2>5, CodeIs
<1> QED
  BY <1>1, <1>2

\* Without quotes a text is calm.
LEMMA PlainIsCalm ==
  ASSUME NEW s, IsSeq(s), \A i \in 1 .. Len(s) : s[i] # Tick /\ s[i] # Double /\ s[i] # Backslash
  PROVE  IsCalm(s)
<1>1. Calm(s, Len(s), -2)
  BY SeqDomain DEF Calm
<1> QED
  BY <1>1 DEF IsCalm

\* A line is parted at the same colon.
LEMMA Colons ==
  ASSUME NEW line, IsSeq(line)
  PROVE  /\ Places(line, Colon) = {} =>
              /\ Unlabelled(line) = line
              /\ Trap!split_label(line) = <<Trap!NoLabel, Strip(line)>>
         /\ Places(line, Colon) # {} =>
              LET p == Min(Places(line, Colon))
                  name == Strip(SubSeq(line, 1, p - 1))
              IN /\ p \in 1 .. Len(line) /\ line[p] = Colon /\ IsSeq(name)
                 /\ LabelOf(line) = upper(name)
                 /\ Unlabelled(line) = Strip(SubSeq(line, p + 1, Len(line)))
                 /\ IsCalm(name) => Trap!split_label(line) = <<name, Unlabelled(line)>>
<1> DEFINE P == Places(line, Colon)
           U == Trap!Unquoted(line, Colon)
           p == Min(P)
<1>1. Unlabelled(line) = IF P = {} THEN line ELSE Strip(SubSeq(line, p + 1, Len(line)))
  BY Zenon DEF Unlabelled, Colon, After
<1>2. LabelOf(line) = upper(Strip(SubSeq(line, 1, p - 1)))
  BY Zenon DEF LabelOf, Colon, Before
<1>3. Trap!split_label(line) =
        IF U = {} THEN <<Trap!NoLabel, Strip(line)>>
        ELSE <<Strip(SubSeq(line, 1, Trap!Min(U) - 1)), Strip(SubSeq(line, Trap!Min(U) + 1, Len(line)))>>
  <2>1. Trap!split_label(line) =
        IF U = {} THEN <<Trap!NoLabel, Trap!Strip(line)>>
        ELSE <<Trap!Strip(Trap!Before(line, Trap!Min(U))), Trap!Strip(Trap!After(line, Trap!Min(U)))>>
    BY Zenon DEF Trap!split_label, Colon
  <2> QED
    BY <2>1, TrapText, Zenon
<1>4. CASE P = {}
  <2>1. U = {}
    BY <1>4, MarkFound, MarksDiffer
  <2> QED
    BY <1>1, <1>3, <1>4, <2>1
<1>5. CASE P # {}
  <2> DEFINE before == SubSeq(line, 1, p - 1)
  <2>1. p \in 1 .. Len(line) /\ line[p] = Colon /\ Len(line) \in Nat
    BY <1>5, MarkFound, MarksDiffer
  <2>2. IsSeq(before)
    BY <2>1, Part
  <2>3. IsSeq(Strip(before))
    BY <2>2, Stripped
  <2>4. ASSUME IsCalm(Strip(before)) PROVE U # {} /\ Trap!Min(U) = p
    <3>1. IsCalm(before)
      <4> HIDE DEF before
      <4> QED
        BY <2>2, <2>4, CalmStrip
    <3> QED
      BY <1>5, <3>1, MarkFound, MarksDiffer
  <2> HIDE DEF p, P, U
  <2>5. IsCalm(Strip(before)) => Trap!split_label(line) = <<Strip(before), Unlabelled(line)>>
    BY <1>1, <1>3, <1>5, <2>4
  <2> QED
    BY <1>1, <1>2, <1>5, <2>1, <2>3, <2>5 DEF p, P
<1> QED
  BY <1>4, <1>5

-----------------------------------------------------------------------------
(***************************************************************************)
(* Words.                                                                  *)
(***************************************************************************)
\* The words of the first tokens, one token after the other.
WordStep(words, line, i) ==
  CASE line[i] \in {Gap, Comma} -> words
    [] line[i] \notin {Gap, Comma} /\ (i = 1 \/ line[i - 1] \in {Gap, Comma}) -> Append(words, <<line[i]>>)
    [] OTHER -> [words EXCEPT ![Len(words)] = Append(@, line[i])]

\* The words of a line, one character after the other.
LEMMA WordsRun ==
  ASSUME NEW line, IsSeq(line)
  PROVE  \E f : /\ f[0] = <<>> /\ f[Len(line)] = Words(line)
                /\ \A k \in 1 .. Len(line) : f[k] = WordStep(f[k - 1], line, k)
<1> DEFINE n == Len(line)
           T == {line[i] : i \in 1 .. n}
           X == Seq(Seq(T))
           On(f, i) == CASE i = 0 -> <<>>
                         [] i > 0 /\ line[i] \in {Gap, Comma} -> f[i - 1]
                         [] i > 0 /\ ~(line[i] \in {Gap, Comma}) /\ (i = 1 \/ line[i - 1] \in {Gap, Comma}) ->
                              Append(f[i - 1], <<line[i]>>)
                         [] OTHER -> [f[i - 1] EXCEPT ![Len(f[i - 1])] = Append(@, line[i])]
           Runs(f) == f = [i \in 0 .. n |-> On(f, i)]
           G == [k \in 1 .. n |-> [x \in X |-> WordStep(x, line, k)]]
           p == CHOOSE f : Runs(f)
<1>1. n \in Nat
  BY SeqDomain
<1>2. Words(line) = p[n]
  BY Zenon DEF Words, Gap, Comma
<1>3. ASSUME NEW k \in 1 .. n, NEW x \in X PROVE WordStep(x, line, k) \in X
  <2>0. line[k] \in T
    OBVIOUS
  <2> HIDE DEF T
  <2>1. <<line[k]>> \in Seq(T) /\ Append(x, <<line[k]>>) \in X
    BY <2>0
  <2>2. [x EXCEPT ![Len(x)] = Append(@, line[k])] \in X
    <3>1. CASE x = <<>>
      <4> DEFINE m == Len(x)
                 v == Append(x[m], line[k])
                 y == [x EXCEPT ![m] = v]
      <4> HIDE DEF m, v
      <4>1. DOMAIN y = 1 .. 0 /\ y = [i \in 1 .. 0 |-> y[i]]
        BY <3>1
      <4> HIDE DEF y
      <4>2. IsSeq(y) /\ Len(y) = 0
        BY <4>1, FunctionIsSeq
      <4>3. y = <<>>
        BY <4>2, Empty, SameSeq
      <4>4. y \in Seq(Seq(T))
        BY <4>3
      <4> QED
        BY <4>4 DEF y, v, m
    <3>2. CASE x # <<>>
      <4>1. Len(x) \in 1 .. Len(x) /\ x[Len(x)] \in Seq(T)
        BY <3>2
      <4>2. Append(x[Len(x)], line[k]) \in Seq(T)
        BY <2>0, <4>1
      <4> QED
        BY <4>1, <4>2
    <3> QED
      BY <3>1, <3>2
  <2> QED
    BY <2>1, <2>2 DEF WordStep
<1> HIDE DEF n
<1>4. G \in [1 .. n -> [X -> X]] /\ <<>> \in X
  <2> HIDE DEF T
  <2>1. <<>> \in X
    OBVIOUS
  <2> HIDE DEF X
  <2> QED
    BY <1>3, <2>1
<1> HIDE DEF X
<1>5. \A k \in 1 .. n, x \in X : G[k][x] = WordStep(x, line, k)
  OBVIOUS
<1> HIDE DEF G
<1>6. PICK f : Unrolled(f, n, X, <<>>, G)
  BY <1>1, <1>4, Recursion, Zenon
<1>7. f \in [0 .. n -> X] /\ f[0] = <<>> /\ \A k \in 1 .. n : f[k] = G[k][f[k - 1]]
  BY <1>6 DEF Unrolled
<1>8. \A k \in 1 .. n : f[k] = WordStep(f[k - 1], line, k) /\ k - 1 \in 0 .. n
  BY <1>1, <1>5, <1>7
<1>9. \A g, k : k \in 1 .. n => On(g, k) = WordStep(g[k - 1], line, k)
  BY <1>1 DEF WordStep
<1>10. \A g : On(g, 0) = <<>>
  OBVIOUS
<1> HIDE DEF On
<1>11. Runs(f)
  <2>1. \A i \in 0 .. n : f[i] = On(f, i)
    BY <1>1, <1>7, <1>8, <1>9, <1>10
  <2>2. f = [i \in 0 .. n |-> f[i]]
    BY <1>7
  <2> QED
    BY <2>1, <2>2
<1>12. Runs(p)
  <2> HIDE DEF Runs
  <2> QED
    BY <1>11, Zenon
<1> HIDE DEF p
<1>13. \A i \in 0 .. n : p[i] = On(p, i)
  BY <1>12, Zenon
<1>14. p[0] = <<>> /\ \A k \in 1 .. n : p[k] = WordStep(p[k - 1], line, k)
  <2>1. 0 \in 0 .. n /\ \A k \in 1 .. n : k \in 0 .. n
    BY <1>1
  <2> QED
    BY <1>9, <1>10, <1>13, <2>1, Zenon
<1> QED
  BY <1>2, <1>14, Zenon DEF n

\* A pair, by its elements.
LEMMA Pair == ASSUME NEW a, NEW b PROVE Append(<<a>>, b) = <<a, b>> /\ <<a, b>>[1] = a /\ <<a, b>>[2] = b
<1>1. <<a, b>> \in Seq({a, b}) /\ Len(<<a, b>>) = 2 /\ <<a, b>>[1] = a /\ <<a, b>>[2] = b
  OBVIOUS
<1>2. IsSeq(<<a, b>>)
  BY <1>1, SeqIsSeq
<1>3. IsSeq(<<a>>) /\ Len(<<a>>) = 1 /\ <<a>>[1] = a
  BY One
<1> DEFINE s == <<a>>
           t == <<a, b>>
<1>4. IsSeq(Append(s, b)) /\ Len(Append(s, b)) = 2 /\ Append(s, b)[1] = a /\ Append(s, b)[2] = b
  <2> HIDE DEF s
  <2> QED
    BY <1>3, Appended DEF s
<1>5. \A i \in 1 .. 2 : Append(s, b)[i] = t[i]
  BY <1>1, <1>4
<1>6. Append(s, b) = t
  <2> HIDE DEF s, t
  <2> QED
    BY <1>1, <1>2, <1>4, <1>5, SameSeq DEF t
<1> QED
  BY <1>1, <1>6

\* The words of a line without blanks at its ends and without commas: if there
\* are one or two of them, that is what they are.
LEMMA OneOrTwoWords ==
  ASSUME NEW line, IsSeq(line), Len(line) > 0, line[1] # Gap, line[Len(line)] # Gap,
         \A i \in 1 .. Len(line) : line[i] # Comma
  PROVE  /\ IsSeq(Words(line)) /\ Len(Words(line)) > 0
         /\ Len(Words(line)) = 1 =>
              Words(line)[1] = line /\ \A i \in 1 .. Len(line) : line[i] # Gap
         /\ Len(Words(line)) = 2 =>
              \E p, q \in 1 .. Len(line) :
                /\ p < q /\ 1 < p /\ line[p] = Gap /\ (\A i \in 1 .. p - 1 : line[i] # Gap)
                /\ (\A i \in p .. q - 1 : line[i] = Gap) /\ (\A i \in q .. Len(line) : line[i] # Gap)
                /\ Words(line)[1] = SubSeq(line, 1, p - 1)
                /\ Words(line)[2] = SubSeq(line, q, Len(line))
<1> DEFINE n == Len(line)
<1>1. n \in Nat /\ n > 0 /\ line[1] # Gap /\ line[n] # Gap /\ \A i \in 1 .. n : line[i] # Comma
  BY SeqDomain
<1>2. PICK f : /\ f[0] = <<>> /\ f[n] = Words(line)
               /\ \A k \in 1 .. n : f[k] = WordStep(f[k - 1], line, k)
  BY WordsRun
<1> HIDE DEF n
<1>3. ASSUME NEW k \in 1 .. n
      PROVE  /\ line[k] = Gap => f[k] = f[k - 1]
             /\ line[k] # Gap /\ (k = 1 \/ line[k - 1] = Gap) => f[k] = Append(f[k - 1], <<line[k]>>)
             /\ line[k] # Gap /\ k # 1 /\ line[k - 1] # Gap =>
                  f[k] = [f[k - 1] EXCEPT ![Len(f[k - 1])] = Append(f[k - 1][Len(f[k - 1])], line[k])]
  <2>1. line[k] # Comma /\ (k # 1 => line[k - 1] # Comma)
    BY <1>1
  <2>2. f[k] = WordStep(f[k - 1], line, k)
    BY <1>2
  <2> QED
    BY <2>1, <2>2 DEF WordStep
\* Where the first word, the blanks behind it, and the second word end.
<1>4. PICK p \in 1 .. n + 1 : /\ \A i \in 1 .. p - 1 : line[i] # Gap
                              /\ p # n + 1 => line[p] = Gap
  <2> DEFINE S == {i \in 1 .. n + 1 : i = n + 1 \/ line[i] = Gap}
  <2>1. S \in SUBSET Nat /\ n + 1 \in S
    BY <1>1
  <2>2. PICK p \in S : \A k \in S : p <= k
    BY <2>1, Least, Zenon
  <2>3. p \in 1 .. n + 1 /\ (p # n + 1 => line[p] = Gap)
    BY <2>2
  <2>4. \A i \in 1 .. p - 1 : line[i] # Gap
    BY <1>1, <2>2, <2>3
  <2> QED
    BY <2>3, <2>4
<1>5. p > 1 /\ p \in Nat
  BY <1>1, <1>4
<1>6. PICK q \in 1 .. n + 1 : /\ p <= q /\ \A i \in p .. q - 1 : line[i] = Gap
                              /\ q # n + 1 => line[q] # Gap
  <2> DEFINE S == {i \in 1 .. n + 1 : i >= p /\ (i = n + 1 \/ line[i] # Gap)}
  <2>1. S \in SUBSET Nat /\ n + 1 \in S
    BY <1>1
  <2>2. PICK q \in S : \A k \in S : q <= k
    BY <2>1, Least, Zenon
  <2>3. q \in 1 .. n + 1 /\ (q # n + 1 => line[q] # Gap) /\ p <= q
    BY <2>2
  <2>4. \A i \in p .. q - 1 : line[i] = Gap
    BY <1>1, <1>5, <2>2, <2>3
  <2> QED
    BY <2>3, <2>4
<1>7. PICK r \in 1 .. n + 1 : /\ q <= r /\ \A i \in q .. r - 1 : line[i] # Gap
                              /\ r # n + 1 => line[r] = Gap
  <2> DEFINE S == {i \in 1 .. n + 1 : i >= q /\ (i = n + 1 \/ line[i] = Gap)}
  <2>1. S \in SUBSET Nat /\ n + 1 \in S
    BY <1>1
  <2>2. PICK r \in S : \A k \in S : r <= k
    BY <2>1, Least, Zenon
  <2>3. r \in 1 .. n + 1 /\ (r # n + 1 => line[r] = Gap) /\ q <= r
    BY <2>2
  <2>4. \A i \in q .. r - 1 : line[i] # Gap
    BY <1>1, <1>6, <2>2, <2>3
  <2> QED
    BY <2>3, <2>4
<1>8. p # n + 1 => p < q /\ q <= n
  <2>1. CASE p # n + 1
    <3>1. p <= n /\ line[p] = Gap
      BY <1>1, <1>4, <2>1
    <3>2. p # q
      BY <1>1, <1>5, <1>6, <3>1
    <3>3. q # n + 1
      <4>1. CASE q = n + 1
        <5>1. n \in p .. q - 1
          BY <1>1, <1>5, <3>1, <4>1
        <5> QED
          BY <1>1, <1>6, <5>1
      <4> QED
        BY <4>1
    <3> QED
      BY <1>1, <1>5, <1>6, <3>1, <3>2, <3>3
  <2> QED
    BY <2>1
<1>9. r # n + 1 => r < n
  BY <1>1, <1>7
<1> DEFINE w == SubSeq(line, 1, p - 1)
           Claim(k) == /\ k < p => f[k] = <<SubSeq(line, 1, k)>>
                       /\ p <= k /\ k < q => f[k] = <<w>>
                       /\ p < q /\ q <= k /\ k < r => f[k] = <<w, SubSeq(line, q, k)>>
                       /\ r <= k => /\ IsSeq(f[k]) /\ Len(f[k]) >= 2
                                    /\ line[k] # Gap => Len(f[k]) >= 3
<1>10. ASSUME NEW a \in 1 .. n, NEW k \in 1 .. n
       PROVE  /\ SubSeq(line, a, a) = <<line[a]>>
              /\ a < k => SubSeq(line, a, k) = Append(SubSeq(line, a, k - 1), line[k])
  <2>1. a \in Int /\ k \in Int /\ k - 1 \in Int
    BY <1>1
  <2>2. SubSeq(line, a, a) = <<line[a]>>
    <3>1. IsSeq(SubSeq(line, a, a)) /\ Len(SubSeq(line, a, a)) = 1 /\ SubSeq(line, a, a)[1] = line[a]
      <4>1. /\ IsSeq(SubSeq(line, a, a)) /\ Len(SubSeq(line, a, a)) = (IF a <= a THEN a - a + 1 ELSE 0)
            /\ \A i \in 1 .. a - a + 1 : SubSeq(line, a, a)[i] = line[a + i - 1]
        BY <2>1, Part
      <4> DEFINE t == SubSeq(line, a, a)
      <4> HIDE DEF t
      <4>2. Len(t) = 1 /\ t[1] = line[a]
        BY <2>1, <4>1 DEF t
      <4> QED
        BY <4>1, <4>2 DEF t
    <3> DEFINE t == SubSeq(line, a, a)
               u == <<line[a]>>
    <3>2. IsSeq(u) /\ Len(u) = 1 /\ u[1] = line[a]
      BY One
    <3>3. IsSeq(t) /\ Len(t) = 1 /\ t[1] = line[a]
      BY <3>1
    <3> HIDE DEF t, u
    <3>4. t = u
      BY <3>2, <3>3, SameSeq
    <3> QED
      BY <3>4 DEF t, u
  <2>3. ASSUME a < k PROVE SubSeq(line, a, k) = Append(SubSeq(line, a, k - 1), line[k])
    <3> DEFINE s == SubSeq(line, a, k - 1)
               t == SubSeq(line, a, k)
    <3>1. /\ IsSeq(s) /\ Len(s) = (IF a <= k - 1 THEN (k - 1) - a + 1 ELSE 0)
          /\ \A i \in 1 .. (k - 1) - a + 1 : s[i] = line[a + i - 1]
      BY <2>1, Part
    <3>2. /\ IsSeq(t) /\ Len(t) = (IF a <= k THEN k - a + 1 ELSE 0)
          /\ \A i \in 1 .. k - a + 1 : t[i] = line[a + i - 1]
      BY <2>1, Part
    <3> HIDE DEF s, t
    <3>3. Len(s) = k - a /\ \A i \in 1 .. k - a : s[i] = line[a + i - 1]
      BY <2>1, <2>3, <3>1
    <3>4. Len(t) = k - a + 1 /\ \A i \in 1 .. k - a : t[i] = line[a + i - 1]
      BY <2>1, <2>3, <3>2
    <3>5. t[k - a + 1] = line[k]
      <4>1. k - a + 1 \in 1 .. k - a + 1 /\ a + (k - a + 1) - 1 = k
        BY <2>1, <2>3
      <4> QED
        BY <3>2, <4>1
    <3>6. /\ IsSeq(Append(s, line[k])) /\ Len(Append(s, line[k])) = k - a + 1
          /\ \A i \in 1 .. k - a : Append(s, line[k])[i] = s[i]
          /\ Append(s, line[k])[k - a + 1] = line[k]
      BY <3>1, <3>3, Appended, SMTT(30)
    <3>7. \A i \in 1 .. k - a + 1 : i \in 1 .. k - a \/ i = k - a + 1
      BY <2>1
    <3>8. \A i \in 1 .. k - a + 1 : t[i] = Append(s, line[k])[i]
      BY <3>3, <3>4, <3>5, <3>6, <3>7
    <3> QED
      BY <3>2, <3>4, <3>6, <3>8, SameSeq DEF s, t
  <2> QED
    BY <2>2, <2>3
<1> DEFINE K == {k \in 0 .. n : k = 0 \/ Claim(k)}
<1>11. 0 \in K
  BY <1>1
<1>12. ASSUME NEW j \in 0 .. n - 1, j \in K PROVE j + 1 \in K
  <2> DEFINE k == j + 1
             c == line[k]
  <2>0. /\ k \in 1 .. n /\ k - 1 = j /\ k = j + 1 /\ (k = 1 <=> j = 0)
        /\ j \in Nat /\ (j # 0 => j \in 1 .. n)
    BY <1>1
  <2> HIDE DEF k
  <2>1. /\ c = Gap => f[k] = f[j]
        /\ c # Gap /\ (j = 0 \/ line[j] = Gap) => f[k] = Append(f[j], <<c>>)
        /\ c # Gap /\ j # 0 /\ line[j] # Gap => f[k] = [f[j] EXCEPT ![Len(f[j])] = Append(f[j][Len(f[j])], c)]
    <3>1. /\ c = Gap => f[k] = f[k - 1]
          /\ c # Gap /\ (k = 1 \/ line[k - 1] = Gap) => f[k] = Append(f[k - 1], <<c>>)
          /\ c # Gap /\ k # 1 /\ line[k - 1] # Gap =>
               f[k] = [f[k - 1] EXCEPT ![Len(f[k - 1])] = Append(f[k - 1][Len(f[k - 1])], c)]
      BY <1>3, <2>0
    <3> HIDE DEF c
    <3> QED
      BY <2>0, <3>1, Zenon
  <2>2. j # 0 => Claim(j)
    BY <1>12
  <2>3. /\ SubSeq(line, k, k) = <<c>>
        /\ j # 0 => SubSeq(line, 1, k) = Append(SubSeq(line, 1, j), c)
        /\ \A a \in 1 .. n : a < k => SubSeq(line, a, k) = Append(SubSeq(line, a, j), c)
    BY <1>1, <1>10, <2>0
  <2> HIDE DEF c
  <2>4. ASSUME k < p PROVE f[k] = <<SubSeq(line, 1, k)>>
    <3>1. c # Gap /\ (j # 0 => line[j] # Gap)
      BY <1>4, <1>5, <2>0, <2>4 DEF c
    <3>2. CASE j = 0
      <4>1. f[j] = <<>> /\ f[k] = Append(f[j], <<c>>) /\ SubSeq(line, 1, k) = <<c>>
        <5>1. k = 1
          BY <2>0, <3>2
        <5> QED
          BY <1>2, <2>1, <2>3, <3>1, <3>2, <5>1
      <4>2. f[k] = <<<<c>>>>
        BY <4>1
      <4> QED
        BY <4>1, <4>2
    <3>3. CASE j # 0
      <4>1. f[j] = <<SubSeq(line, 1, j)>>
        BY <1>5, <2>0, <2>2, <2>4, <3>3
      <4>2. f[k] = [f[j] EXCEPT ![Len(f[j])] = Append(f[j][Len(f[j])], c)]
        BY <2>1, <3>1, <3>3
      <4>3. SubSeq(line, 1, k) = Append(SubSeq(line, 1, j), c)
        BY <2>3, <3>3
      <4> DEFINE u == SubSeq(line, 1, j)
      <4> HIDE DEF u
      <4>4. f[j] = <<u>> /\ f[k] = [f[j] EXCEPT ![Len(f[j])] = Append(f[j][Len(f[j])], c)]
        BY <4>1, <4>2 DEF u
      <4>5. f[k] = <<Append(u, c)>>
        BY <4>4
      <4> QED
        BY <4>3, <4>5 DEF u
    <3> QED
      BY <3>2, <3>3
  <2>5. ASSUME p <= k, k < q PROVE f[k] = <<w>>
    <3>1. c = Gap /\ j # 0
      BY <1>5, <1>6, <2>0, <2>5 DEF c
    <3>2. f[j] = <<w>>
      <4>1. CASE k = p
        <5>1. j < p /\ j = p - 1
          BY <1>5, <2>0, <4>1
        <5> QED
          BY <2>2, <3>1, <5>1
      <4>2. CASE k # p
        BY <1>5, <1>6, <2>0, <2>2, <2>5, <3>1, <4>2
      <4> QED
        BY <4>1, <4>2
    <3> QED
      BY <2>1, <3>1, <3>2
  <2>6. ASSUME p < q, q <= k, k < r PROVE f[k] = <<w, SubSeq(line, q, k)>>
    <3>1. c # Gap /\ j # 0 /\ q \in 1 .. n
      <4>1. q \in 1 .. n /\ k \in q .. r - 1 /\ j # 0
        BY <1>1, <1>5, <1>6, <1>7, <2>0, <2>6
      <4> QED
        BY <1>7, <4>1 DEF c
    <3>2. CASE k = q
      <4>1. j \in p .. q - 1
        BY <1>5, <1>6, <2>0, <2>6, <3>2
      <4>2. line[j] = Gap /\ f[j] = <<w>>
        BY <1>5, <1>6, <2>0, <2>2, <2>6, <3>1, <3>2, <4>1
      <4>3. f[k] = Append(<<w>>, <<c>>) /\ SubSeq(line, q, k) = <<c>>
        BY <2>1, <2>3, <3>1, <3>2, <4>2
      <4> DEFINE v == <<c>>
      <4> HIDE DEF w, v
      <4>4. f[k] = Append(<<w>>, v)
        BY <4>3 DEF v
      <4>5. f[k] = <<w, v>>
        BY <4>4, Pair, Zenon
      <4> QED
        BY <4>3, <4>5 DEF v
    <3>3. CASE k # q
      <4>1. j \in q .. r - 1 /\ q <= j /\ j < r /\ q < k
        BY <1>5, <1>6, <1>7, <2>0, <2>6, <3>3
      <4>2. line[j] # Gap /\ f[j] = <<w, SubSeq(line, q, j)>>
        BY <1>7, <2>2, <2>6, <3>1, <4>1
      <4>3. f[k] = [f[j] EXCEPT ![Len(f[j])] = Append(f[j][Len(f[j])], c)]
        BY <2>1, <3>1, <4>2
      <4>4. SubSeq(line, q, k) = Append(SubSeq(line, q, j), c)
        BY <2>3, <3>1, <4>1
      <4> HIDE DEF w
      <4> QED
        BY <4>2, <4>3, <4>4
    <3> QED
      BY <3>2, <3>3
  <2>7. ASSUME r <= k
        PROVE  IsSeq(f[k]) /\ Len(f[k]) >= 2 /\ (c # Gap => Len(f[k]) >= 3)
    <3>0. k <= n /\ r <= n /\ q <= r /\ p < q /\ r \in Nat /\ q \in Nat
      BY <1>1, <1>5, <1>6, <1>7, <1>8, <2>0, <2>7
    <3>1. CASE k = r
      <4>1. c = Gap
        <5>1. r # n + 1
          BY <1>1, <3>0
        <5> QED
          BY <1>7, <3>1, <5>1 DEF c
      <4>2. j # 0 /\ q # r
        <5>1. q # n + 1 /\ r # n + 1 /\ k # 1
          BY <1>1, <1>5, <3>0, <3>1
        <5> QED
          BY <1>6, <1>7, <2>0, <5>1
      <4>3. f[j] = <<w, SubSeq(line, q, j)>>
        BY <2>0, <2>2, <3>0, <3>1, <4>2
      <4>4. f[k] = f[j]
        BY <2>1, <4>1
      <4>5. IsSeq(f[j]) /\ Len(f[j]) = 2
        <5> HIDE DEF w
        <5>1. f[j] = Append(<<w>>, SubSeq(line, q, j))
          BY <4>3
        <5>2. IsSeq(<<w>>) /\ Len(<<w>>) = 1
          BY One
        <5> QED
          BY <5>1, <5>2, Appended
      <4> QED
        BY <4>1, <4>4, <4>5
    <3>2. CASE k # r
      <4>1. r <= j /\ j # 0
        BY <2>0, <2>7, <3>0, <3>2
      <4>2. IsSeq(f[j]) /\ Len(f[j]) >= 2 /\ (line[j] # Gap => Len(f[j]) >= 3)
        BY <2>2, <4>1
      <4>3. CASE c = Gap
        BY <2>1, <4>2, <4>3
      <4>4. CASE c # Gap /\ line[j] = Gap
        <5>1. f[k] = Append(f[j], <<c>>)
          BY <2>1, <4>4
        <5>2. IsSeq(f[k]) /\ Len(f[k]) = Len(f[j]) + 1 /\ Len(f[j]) \in Nat
          BY <4>2, <5>1, Appended, SeqDomain
        <5> QED
          BY <4>2, <5>2
      <4>5. CASE c # Gap /\ line[j] # Gap
        <5> DEFINE g == f[j]
                   m == Len(g)
                   v == Append(g[m], c)
        <5>1. f[k] = [g EXCEPT ![m] = v]
          BY <2>1, <4>1, <4>5
        <5>2. g = [i \in 1 .. m |-> g[i]] /\ m \in Nat /\ m >= 3
          BY <4>2, <4>5 DEF IsSeq
        <5> HIDE DEF g, m, v
        <5>3. DOMAIN f[k] = 1 .. m /\ f[k] = [i \in 1 .. m |-> f[k][i]]
          BY <5>1, <5>2
        <5>4. IsSeq(f[k]) /\ Len(f[k]) = m
          BY <5>2, <5>3, FunctionIsSeq
        <5> QED
          BY <5>2, <5>4
      <4> QED
        BY <4>3, <4>4, <4>5
    <3> QED
      BY <3>1, <3>2
  <2>8. Claim(k)
    BY <2>4, <2>5, <2>6, <2>7 DEF c
  <2> QED
    BY <2>0, <2>8
<1> HIDE DEF K
<1>13. \A k \in 0 .. n : k \in K
  BY <1>1, <1>11, <1>12, Induction
<1>14. Claim(n)
  BY <1>1, <1>13 DEF K
<1> DEFINE Parted(x, y) ==
             /\ x < y /\ 1 < x /\ line[x] = Gap /\ (\A i \in 1 .. x - 1 : line[i] # Gap)
             /\ (\A i \in x .. y - 1 : line[i] = Gap) /\ (\A i \in y .. n : line[i] # Gap)
             /\ f[n][1] = SubSeq(line, 1, x - 1) /\ f[n][2] = SubSeq(line, y, n)
           Goal == /\ IsSeq(f[n]) /\ Len(f[n]) > 0
                   /\ Len(f[n]) = 1 => f[n][1] = line /\ \A i \in 1 .. n : line[i] # Gap
                   /\ Len(f[n]) = 2 => \E x, y \in 1 .. n : Parted(x, y)
<1>15. ASSUME p = n + 1 PROVE Goal
  <2>1. f[n] = <<line>>
    <3>1. n < p
      BY <1>1, <1>15
    <3>2. SubSeq(line, 1, n) = line
      BY PartIs DEF n
    <3> QED
      BY <1>14, <3>1, <3>2
  <2>2. Len(f[n]) = 1 /\ IsSeq(f[n]) /\ f[n][1] = line
    BY <2>1, One
  <2>3. \A i \in 1 .. n : line[i] # Gap
    BY <1>1, <1>4, <1>15
  <2> HIDE DEF Parted
  <2> QED
    BY <2>2, <2>3
<1>16. ASSUME p # n + 1 /\ r = n + 1 PROVE Goal
  <2> DEFINE u == SubSeq(line, q, n)
  <2>1. p < q /\ q <= n /\ n < r
    BY <1>1, <1>8, <1>16
  <2>2. f[n] = <<w, u>>
    BY <1>14, <2>1
  <2>3. IsSeq(f[n]) /\ Len(f[n]) = 2 /\ f[n][1] = w /\ f[n][2] = u
    <3> HIDE DEF w, u
    <3>1. f[n] = Append(<<w>>, u) /\ f[n][1] = w /\ f[n][2] = u
      BY <2>2
    <3>2. IsSeq(<<w>>) /\ Len(<<w>>) = 1
      BY One
    <3> QED
      BY <3>1, <3>2, Appended
  <2>4. /\ p \in 1 .. n /\ q \in 1 .. n /\ line[p] = Gap /\ (\A i \in 1 .. p - 1 : line[i] # Gap)
        /\ (\A i \in p .. q - 1 : line[i] = Gap) /\ (\A i \in q .. n : line[i] # Gap)
    BY <1>1, <1>4, <1>5, <1>6, <1>7, <1>16, <2>1
  <2>5. Parted(p, q)
    BY <1>5, <2>1, <2>3, <2>4
  <2> HIDE DEF Parted
  <2> QED
    BY <2>3, <2>4, <2>5
<1>17. ASSUME p # n + 1 /\ r # n + 1 PROVE Goal
  <2>1. r <= n
    BY <1>1, <1>9, <1>17
  <2>2. IsSeq(f[n]) /\ Len(f[n]) >= 3
    BY <1>1, <1>14, <2>1
  <2>3. Len(f[n]) \in Nat
    BY <2>2, SeqDomain
  <2> HIDE DEF Parted
  <2>4. \A l \in Nat : l >= 3 => l > 0 /\ l # 1 /\ l # 2
    OBVIOUS
  <2> QED
    BY <2>2, <2>3, <2>4, Zenon
<1>18. Goal
  <2> HIDE DEF Goal
  <2> QED
    BY <1>15, <1>16, <1>17
<1> QED
  BY <1>2, <1>18, Zenon DEF n

\* The forms of the words of a line, by the number of them.
LEMMA WordForms ==
  ASSUME NEW w, IsSeq(w)
  PROVE  /\ IsPlain(w) <=> \A i \in 1 .. Len(w) : w[i] # Tick /\ w[i] # Double /\ w[i] # Backslash /\ w[i] # Comma
         /\ IsLiteral(w) <=> Len(w) = 3 /\ w[1] = Tick /\ w[3] = Tick /\ w[2] # Tick /\ w[2] # Backslash
<1>1. DOMAIN w = 1 .. Len(w)
  BY SeqDomain
<1>2. IsPlain(w) <=> \A i \in DOMAIN w : w[i] \notin {Tick, Double, Backslash, Comma}
  BY Zenon DEF IsPlain, Tick, Double, Comma
<1>3. IsLiteral(w) <=> Len(w) = 3 /\ w[1] = Tick /\ w[3] = Tick /\ w[2] \notin {Tick, Backslash}
  BY Zenon DEF IsLiteral, Tick
<1> QED
  BY <1>1, <1>2, <1>3

\* What is asked of a portable line.
LEMMA LineForm ==
  ASSUME NEW line, PortableLine(line)
  PROVE  /\ \A i \in DOMAIN Words(line) : IsPlain(Words(line)[i]) \/ IsLiteral(Words(line)[i])
         /\ Places(line, Comma) = {} /\ Places(line, Colon) = {}
         /\ Len(Words(line)) = (IF Size(Operation(Words(line))) = 1 THEN 1 ELSE 2)
         /\ Operation(Words(line)) \in ARG8_OPS => number(Words(line)[2]) \in Byte
  BY Zenon DEF PortableLine, Comma, Colon

\* A line of both assemblers: an instruction, with an operand or without.
Operandless(rest, op) == IsSeq(rest) /\ Len(rest) = 1 /\ upper(<<rest[1]>>)[1] = op /\ rest[1] # Gap
WithOperand(rest, op, q) ==
  /\ q \in 3 .. Len(rest) /\ rest[1] # Gap /\ upper(<<rest[1]>>)[1] = op
  /\ (\A i \in 2 .. q - 1 : rest[i] = Gap) /\ (\A i \in q .. Len(rest) : rest[i] # Gap)

\* A portable line is an operation without operands, or one and a plain word or a literal.
LEMMA LineParts ==
  ASSUME NEW rest, IsSeq(rest), Len(rest) > 0, rest[1] # Gap, rest[Len(rest)] # Gap,
         PortableLine(rest), Operation(Words(rest)) # Error
  PROVE  LET op == Operation(Words(rest))
         IN /\ op \in DOMAIN OPS /\ IsCalm(rest)
            /\ \A i \in 1 .. Len(rest) : rest[i] # Comma /\ rest[i] # Colon
            /\ Size(op) = 1 => Operandless(rest, op) /\ Len(Words(rest)) = 1
            /\ Size(op) # 1 =>
                 /\ Len(Words(rest)) = 2
                 /\ \E q \in 3 .. Len(rest) :
                      /\ WithOperand(rest, op, q) /\ Words(rest)[2] = SubSeq(rest, q, Len(rest))
                      /\ IsPlain(Words(rest)[2]) \/ IsLiteral(Words(rest)[2])
<1> DEFINE n == Len(rest)
           words == Words(rest)
           op == Operation(words)
<1>1. n \in Nat /\ n > 0 /\ DOMAIN rest = 1 .. n
  BY SeqDomain
<1>2. op \in DOMAIN OPS /\ Len(words[1]) = 1 /\ op = upper(words[1])[1]
  BY DEF Operation
<1>3. \A i \in 1 .. n : rest[i] # Comma /\ rest[i] # Colon
  <2>1. Places(rest, Comma) = {} /\ Places(rest, Colon) = {}
    BY LineForm
  <2> QED
    BY <1>1, <2>1 DEF Places
<1>4. /\ IsSeq(words) /\ Len(words) > 0
      /\ Len(words) = 1 => words[1] = rest /\ \A i \in 1 .. n : rest[i] # Gap
      /\ Len(words) = 2 =>
           \E p, q \in 1 .. n :
             /\ p < q /\ 1 < p /\ rest[p] = Gap /\ (\A i \in 1 .. p - 1 : rest[i] # Gap)
             /\ (\A i \in p .. q - 1 : rest[i] = Gap) /\ (\A i \in q .. n : rest[i] # Gap)
             /\ words[1] = SubSeq(rest, 1, p - 1)
             /\ words[2] = SubSeq(rest, q, n)
  BY <1>3, OneOrTwoWords
<1>5. Len(words) = (IF Size(op) = 1 THEN 1 ELSE 2) /\ \A i \in 1 .. Len(words) : IsPlain(words[i]) \/ IsLiteral(words[i])
  <2>1. DOMAIN words = 1 .. Len(words)
    BY <1>4, SeqDomain
  <2> QED
    BY <2>1, LineForm
<1> HIDE DEF n, words, op
<1> DEFINE Good == /\ IsCalm(rest)
                   /\ Size(op) = 1 => Operandless(rest, op) /\ Len(words) = 1
                   /\ Size(op) # 1 =>
                        /\ Len(words) = 2
                        /\ \E q \in 3 .. n :
                             /\ WithOperand(rest, op, q) /\ words[2] = SubSeq(rest, q, n)
                             /\ IsPlain(words[2]) \/ IsLiteral(words[2])
<1>6. ASSUME Size(op) = 1 PROVE Good
  <2>1. Len(words) = 1 /\ words[1] = rest /\ Len(rest) = 1 /\ n = 1
    BY <1>2, <1>4, <1>5, <1>6 DEF n
  <2>2. IsPlain(rest)
    <3>1. IsPlain(rest) \/ IsLiteral(rest)
      BY <1>5, <2>1
    <3> QED
      BY <2>1, <3>1, WordForms
  <2>3. IsCalm(rest)
    BY <2>2, WordForms, PlainIsCalm
  <2>4. upper(<<rest[1]>>)[1] = op
    <3>1. upper(rest)[1] = upper(<<rest[1]>>)[1]
      BY <2>1, Capitals
    <3> QED
      BY <1>2, <2>1, <3>1
  <2> QED
    BY <1>6, <2>1, <2>3, <2>4 DEF Operandless
<1>7. ASSUME Size(op) # 1 PROVE Good
  <2>1. Len(words) = 2
    BY <1>5, <1>7
  <2>2. PICK p, q \in 1 .. n :
             /\ p < q /\ 1 < p /\ rest[p] = Gap /\ (\A i \in 1 .. p - 1 : rest[i] # Gap)
             /\ (\A i \in p .. q - 1 : rest[i] = Gap) /\ (\A i \in q .. n : rest[i] # Gap)
             /\ words[1] = SubSeq(rest, 1, p - 1)
             /\ words[2] = SubSeq(rest, q, n)
    BY <1>4, <2>1
  <2>3. p \in Int /\ q \in Int
    OBVIOUS
  <2> DEFINE v == SubSeq(rest, 1, p - 1)
             w == SubSeq(rest, q, n)
  <2>4. /\ IsSeq(v) /\ Len(v) = (IF 1 <= p - 1 THEN (p - 1) - 1 + 1 ELSE 0)
        /\ \A i \in 1 .. (p - 1) - 1 + 1 : v[i] = rest[1 + i - 1]
    BY <2>3, Part
  <2>5. /\ IsSeq(w) /\ Len(w) = (IF q <= n THEN n - q + 1 ELSE 0)
        /\ \A i \in 1 .. n - q + 1 : w[i] = rest[q + i - 1]
    BY <1>1, <2>3, Part
  <2>6. words[1] = v /\ words[2] = w
    BY <2>2
  <2> HIDE DEF v, w
  <2>7. p = 2 /\ Len(v) = 1 /\ v[1] = rest[1]
    BY <1>2, <2>2, <2>3, <2>4, <2>6
  <2>8. q \in 3 .. n /\ Len(w) = n - q + 1
    BY <1>1, <2>2, <2>3, <2>5, <2>7
  <2>9. /\ IsPlain(v) \/ IsLiteral(v)
        /\ IsPlain(w) \/ IsLiteral(w)
    BY <1>5, <2>1, <2>6
  <2>10. rest[1] # Tick /\ rest[1] # Double /\ rest[1] # Backslash
    BY <2>4, <2>7, <2>9, WordForms
  <2>11. \A i \in 2 .. q - 1 : rest[i] # Tick /\ rest[i] # Double /\ rest[i] # Backslash
    BY <2>2, <2>7, MarksDiffer
  <2>12. IsCalm(rest)
    <3>1. CASE IsPlain(w)
      <4>1. \A i \in 1 .. n - q + 1 : w[i] # Tick /\ w[i] # Double /\ w[i] # Backslash
        BY <2>5, <2>8, <3>1, WordForms
      <4>2. ASSUME NEW i \in 1 .. n PROVE rest[i] # Tick /\ rest[i] # Double /\ rest[i] # Backslash
        <5>1. CASE i >= q
          <6> DEFINE j == i - q + 1
          <6>1. j \in 1 .. n - q + 1 /\ q + j - 1 = i
            BY <1>1, <2>3, <5>1
          <6> HIDE DEF j
          <6> QED
            BY <2>5, <4>1, <6>1
        <5>2. CASE i < q /\ i # 1
          BY <1>1, <2>3, <2>11, <5>2
        <5>3. CASE i = 1
          BY <2>10, <5>3
        <5> QED
          BY <1>1, <2>3, <5>1, <5>2, <5>3
      <4> QED
        BY <4>2, PlainIsCalm DEF n
    <3>2. CASE IsLiteral(w)
      <4>0. Len(w) = 3 /\ w[1] = Tick /\ w[3] = Tick /\ w[2] # Tick /\ w[2] # Backslash
        BY <2>5, <3>2, WordForms
      <4>5. n - q + 1 = 3
        BY <2>8, <4>0
      <4>6. n \in Int /\ q \in Int
        BY <1>1, <2>3
      <4>1. n = q + 2
        BY <4>5, <4>6
      <4>2. rest[q] = Tick /\ rest[q + 1] # Tick /\ rest[q + 1] # Backslash /\ rest[q + 2] = Tick
        <5>1. w[1] = rest[q] /\ w[2] = rest[q + 1] /\ w[3] = rest[q + 2]
          BY <1>1, <2>3, <2>5, <4>1
        <5> QED
          BY <4>0, <5>1
      <4>3. \A i \in 1 .. n : i \notin {q, q + 1, q + 2} => i = 1 \/ i \in 2 .. q - 1
        BY <1>1, <2>3, <4>1
      <4>4. Calm(rest, n, q)
        BY <1>1, <2>3, <2>8, <2>10, <2>11, <4>1, <4>2, <4>3 DEF Calm
      <4> QED
        BY <4>4 DEF IsCalm, n
    <3> QED
      BY <2>9, <3>1, <3>2
  <2>13. upper(<<rest[1]>>)[1] = op
    <3>1. upper(v)[1] = upper(<<v[1]>>)[1]
      BY <2>4, <2>7, Capitals
    <3> QED
      BY <1>2, <2>6, <2>7, <3>1
  <2>14. WithOperand(rest, op, q)
    BY <2>2, <2>7, <2>8, <2>13 DEF WithOperand, n
  <2> QED
    BY <1>7, <2>1, <2>2, <2>6, <2>8, <2>9, <2>12, <2>14
<1>8. Good
  <2> HIDE DEF Good
  <2> QED
    BY <1>6, <1>7
<1> QED
  BY <1>2, <1>3, <1>8 DEF n, words, op

\* A name both take: it has no marks but blanks, and is no numeral and no directive.
LEMMA NameForm ==
  ASSUME NEW name, IsSeq(name), PortableName(upper(name))
  PROVE  /\ Len(name) \in Nat \ {0} /\ upper(<<name[1]>>)[1] # ".INCLUDE" /\ ~IsNumeral(upper(name))
         /\ \A i \in 1 .. Len(name) :
              /\ name[i] # Tick /\ name[i] # Double /\ name[i] # Backslash
              /\ name[i] # "+" /\ name[i] # "-"
<1> DEFINE u == upper(name)
<1>1. /\ u # <<>> /\ u[1] # ".INCLUDE" /\ ~IsNumeral(u) /\ IsPlain(u)
      /\ Places(u, "+") \cup Places(u, "-") = {}
  BY DEF PortableName
<1>2. /\ IsSeq(u) /\ Len(u) = Len(name)
      /\ \A i \in 1 .. Len(name) : \A c \in Marks : u[i] = c <=> name[i] = c
      /\ \A i \in 1 .. Len(name) : u[i] = upper(<<name[i]>>)[1]
  BY Capitals
<1> HIDE DEF u
<1>3. Len(name) \in Nat /\ Len(name) # 0 /\ DOMAIN u = 1 .. Len(name)
  <2>1. Len(u) \in Nat /\ DOMAIN u = 1 .. Len(u)
    BY <1>2, SeqDomain
  <2>2. Len(u) # 0
    BY <1>1, <1>2, Empty, SameSeq
  <2> QED
    BY <1>2, <2>1, <2>2
<1>4. ASSUME NEW i \in 1 .. Len(name)
      PROVE  /\ name[i] # Tick /\ name[i] # Double /\ name[i] # Backslash
             /\ name[i] # "+" /\ name[i] # "-"
  <2>1. u[i] # Tick /\ u[i] # Double /\ u[i] # Backslash
    BY <1>1, <1>2, WordForms
  <2>2. u[i] # "+" /\ u[i] # "-"
    BY <1>1, <1>3 DEF Places
  <2>3. \A c \in Marks : u[i] = c <=> name[i] = c
    BY <1>2
  <2> QED
    BY <2>1, <2>2, <2>3, NamesAreMarks, Zenon
<1> QED
  BY <1>1, <1>2, <1>3, <1>4 DEF u

\* The blanks around a text are no quotes.
LEMMA QuotesStay ==
  ASSUME NEW s, IsSeq(s),
         \A i \in 1 .. Len(Strip(s)) : Strip(s)[i] # Tick /\ Strip(s)[i] # Double /\ Strip(s)[i] # Backslash
  PROVE  \A i \in 1 .. Len(s) : s[i] # Tick /\ s[i] # Double /\ s[i] # Backslash
<1> DEFINE t == Strip(s)
<1>1. Len(s) \in Nat
  BY SeqDomain
<1>2. ASSUME \A i \in 1 .. Len(s) : s[i] = Gap
      PROVE  \A i \in 1 .. Len(s) : s[i] # Tick /\ s[i] # Double /\ s[i] # Backslash
  BY <1>2, MarksDiffer
<1>3. ASSUME NEW a \in Int, NEW b \in Int, Within(s, a, b), t = SubSeq(s, a, b), NEW i \in 1 .. Len(s)
      PROVE  s[i] # Tick /\ s[i] # Double /\ s[i] # Backslash
  <2>1. a <= b /\ \A k \in 1 .. Len(s) : k < a \/ k > b => s[k] = Gap
    BY <1>3, SeqDomain DEF Within
  <2>2. Len(t) = b - a + 1 /\ \A k \in 1 .. b - a + 1 : t[k] = s[a + k - 1]
    BY <1>3, <2>1, Part
  <2> HIDE DEF t
  <2>3. CASE i < a \/ i > b
    BY <2>1, <2>3, MarksDiffer
  <2>4. CASE ~(i < a \/ i > b)
    <3> DEFINE k == i - a + 1
    <3>1. k \in 1 .. b - a + 1 /\ a + k - 1 = i
      BY <1>1, <2>1, <2>4
    <3> HIDE DEF k
    <3>2. t[k] = s[i] /\ k \in 1 .. Len(t)
      BY <2>2, <3>1
    <3> QED
      BY <3>2 DEF t
  <2> QED
    BY <2>3, <2>4
<1> QED
  BY <1>2, <1>3, Strips

\* A line that means the same to both assemblers.
Readable(raw) ==
  LET line == Code(raw)
      rest == Unlabelled(line)
  IN /\ IsSeq(raw)
     /\ Places(line, Colon) # {} => PortableName(LabelOf(line))
     /\ rest # <<>> => PortableLine(rest) /\ Operation(Words(rest)) # Error

\* What stands behind the label.
LEMMA RestForm ==
  ASSUME NEW raw, Readable(raw)
  PROVE  LET rest == Unlabelled(Code(raw))
         IN /\ IsSeq(rest) /\ IsCalm(rest)
            /\ rest # <<>> => Len(rest) > 0 /\ rest[1] # Gap /\ rest[Len(rest)] # Gap
<1> DEFINE line == Code(raw)
           rest == Unlabelled(line)
<1>1. IsSeq(line) /\ (line # <<>> => Len(line) \in Nat \ {0} /\ line[1] # Gap /\ line[Len(line)] # Gap)
  BY CodeSeq DEF Readable
<1>2. rest = line \/ \E t : IsSeq(t) /\ rest = Strip(t)
  <2>1. CASE Places(line, Colon) = {}
    BY <1>1, <2>1, Colons
  <2>2. CASE Places(line, Colon) # {}
    <3>1. Min(Places(line, Colon)) \in 1 .. Len(line) /\ Len(line) \in Nat
      BY <1>1, <2>2, Colons, SeqDomain
    <3>2. IsSeq(SubSeq(line, Min(Places(line, Colon)) + 1, Len(line)))
      BY <3>1, Part
    <3> QED
      BY <1>1, <2>2, <3>2, Colons
  <2> QED
    BY <2>1, <2>2
<1>3. IsSeq(rest) /\ (rest # <<>> => Len(rest) > 0 /\ rest[1] # Gap /\ rest[Len(rest)] # Gap)
  BY <1>1, <1>2, Stripped
<1>4. IsCalm(rest)
  <2>1. CASE rest = <<>>
    BY <2>1, Empty, PlainIsCalm
  <2>2. CASE rest # <<>>
    <3>1. PortableLine(rest) /\ Operation(Words(rest)) # Error
      BY <2>2 DEF Readable
    <3> QED
      BY <1>3, <2>2, <3>1, LineParts
  <2> QED
    BY <2>1, <2>2
<1> QED
  BY <1>3, <1>4

\* Of a line both can read, both take the same for the comment.
LEMMA ReadsCalmly ==
  ASSUME NEW raw, Readable(raw)
  PROVE  IsCalm(Code(raw)) /\ Trap!Bare(raw) = Code(raw)
<1> DEFINE line == Code(raw)
           rest == Unlabelled(line)
           p == Min(Places(line, Colon))
           before == SubSeq(line, 1, p - 1)
           after == SubSeq(line, p + 1, Len(line))
<1>1. IsSeq(raw) /\ IsSeq(line) /\ IsSeq(rest) /\ IsCalm(rest)
  BY CodeSeq, RestForm DEF Readable
<1>2. ASSUME Places(line, Colon) = {} PROVE IsCalm(line)
  BY <1>1, <1>2, Colons
<1>3. ASSUME Places(line, Colon) # {} PROVE IsCalm(line)
  <2>1. /\ p \in 1 .. Len(line) /\ line[p] = Colon /\ IsSeq(Strip(before)) /\ Len(line) \in Nat
        /\ LabelOf(line) = upper(Strip(before)) /\ rest = Strip(after)
    BY <1>1, <1>3, Colons, SeqDomain
  <2>2. IsSeq(before) /\ IsSeq(after) /\ Len(before) = p - 1 /\ \A i \in 1 .. p - 1 : before[i] = line[i]
    <3>1. IsSeq(before) /\ IsSeq(after)
      BY <2>1, Part
    <3>2. /\ Len(before) = IF 1 <= p - 1 THEN p - 1 - 1 + 1 ELSE 0
          /\ \A i \in 1 .. p - 1 - 1 + 1 : before[i] = line[1 + i - 1]
      BY <2>1, Part
    <3> HIDE DEF before, after
    <3> QED
      BY <2>1, <3>1, <3>2
  <2>3. PortableName(LabelOf(line))
    BY <1>3 DEF Readable
  <2>4. IsCalm(after)
    <3> HIDE DEF after
    <3> QED
      BY <1>1, <2>1, <2>2, CalmStrip
  <2>5. \A i \in 1 .. Len(Strip(before)) : /\ Strip(before)[i] # Tick /\ Strip(before)[i] # Double
                                          /\ Strip(before)[i] # Backslash
    <3> HIDE DEF before
    <3> QED
      BY <2>1, <2>3, NameForm
  <2>6. \A i \in 1 .. p - 1 : line[i] # Tick /\ line[i] # Double /\ line[i] # Backslash
    <3>1. \A i \in 1 .. Len(before) : before[i] # Tick /\ before[i] # Double /\ before[i] # Backslash
      <4> HIDE DEF before
      <4> QED
        BY <2>2, <2>5, QuotesStay
    <3> HIDE DEF before, p
    <3> QED
      BY <2>2, <3>1
  <2>7. IsCalm(line)
    BY <1>1, <2>1, <2>4, <2>6, CalmJoin
  <2> QED
    BY <2>7
<1>4. IsCalm(line)
  BY <1>2, <1>3
<1> QED
  BY <1>1, <1>4, Comments

-----------------------------------------------------------------------------
(***************************************************************************)
(* Statements: the label, the operation and its operands.                  *)
(***************************************************************************)
\* Sets are counted alike.
LEMMA TrapCounts == ASSUME NEW S PROVE Trap!Cardinality(S) = Cardinality(S)
  BY DEF Trap!Cardinality, Cardinality

\* No positions in order.
LEMMA AscendingNone == Trap!Ascending({}) = <<>>
<1>1. Trap!Cardinality({}) = 0
  BY TrapCounts, FS_EmptySet
<1> DEFINE s == Trap!Ascending({})
<1>2. s = [k \in 1 .. 0 |-> s[k]]
  BY <1>1 DEF Trap!Ascending
<1> HIDE DEF s
<1>3. IsSeq(s) /\ Len(s) = 0
  BY <1>2, FunctionIsSeq
<1>4. s = <<>>
  BY <1>3, Empty, SameSeq
<1> QED
  BY <1>4 DEF s

\* Without commas, an operand is what it is.
LEMMA Operands ==
  ASSUME ErrorIsAlone, NEW w, IsSeq(w), IsCalm(w), Places(w, Comma) = {}
  PROVE  Trap!split_operands(w) = IF Strip(w) = <<>> THEN <<>> ELSE <<Strip(w)>>
<1> DEFINE cuts == <<>> \o <<Len(w) + 1>>
           pieces == Trap!Pieces(w, cuts)
<1>1. Trap!split_operands(w) =
        IF Trap!Scan(w).quote # NoQuote THEN Error
        ELSE Trap!NoEmptyEnd(Trap!Pieces(w, Trap!Ascending(Trap!Unquoted(w, Comma)) \o <<Len(w) + 1>>))
  BY Zenon DEF Trap!split_operands, NoQuote, Comma
<1>2. Trap!Scan(w).quote = NoQuote
  <2>1. PICK b : Calm(w, Len(w), b)
    BY DEF IsCalm
  <2>2. Len(w) \in 0 .. Len(w)
    BY SeqDomain
  <2> QED
    BY <2>1, <2>2, CalmScan
<1>3. Trap!Unquoted(w, Comma) = {}
  BY MarkFound, MarksDiffer
<1>4. Trap!split_operands(w) = Trap!NoEmptyEnd(pieces)
  BY <1>1, <1>2, <1>3, AscendingNone
<1>5. cuts = <<Len(w) + 1>>
  OBVIOUS
<1>6. DOMAIN cuts = 1 .. 1 /\ cuts[1] = Len(w) + 1
  BY <1>5
<1>7. IsSeq(pieces) /\ Len(pieces) = 1 /\ pieces[1] = Strip(w)
  <2>1. pieces = [k \in 1 .. 1 |-> Trap!Strip(SubSeq(w, IF k = 1 THEN 1 ELSE cuts[k - 1] + 1, cuts[k] - 1))]
    BY <1>6 DEF Trap!Pieces
  <2>2. pieces = [k \in 1 .. 1 |-> pieces[k]] /\ pieces[1] = Trap!Strip(SubSeq(w, 1, Len(w)))
    <3>1. Len(w) + 1 - 1 = Len(w)
      BY SeqDomain
    <3> HIDE DEF cuts
    <3> QED
      BY <1>6, <2>1, <3>1
  <2> HIDE DEF pieces
  <2> QED
    BY <2>2, FunctionIsSeq, PartIs, TrapText
<1> HIDE DEF cuts, pieces
<1>8. Trap!NoEmptyEnd(pieces) = IF pieces[1] = <<>> THEN SubSeq(pieces, 1, 0) ELSE pieces
  BY <1>7 DEF Trap!NoEmptyEnd, Trap!Last, Trap!Front
<1>9. SubSeq(pieces, 1, 0) = <<>>
  <2>1. IsSeq(SubSeq(pieces, 1, 0)) /\ Len(SubSeq(pieces, 1, 0)) = 0
    BY Part
  <2> QED
    BY <2>1, Empty, SameSeq
<1>10. pieces = <<Strip(w)>>
  <2> DEFINE one == <<Strip(w)>>
  <2>1. IsSeq(one) /\ Len(one) = 1 /\ one[1] = Strip(w)
    BY One
  <2> HIDE DEF one
  <2>2. pieces = one
    BY <1>7, <2>1, SameSeq
  <2> QED
    BY <2>2 DEF one
<1> QED
  BY <1>4, <1>7, <1>8, <1>9, <1>10

\* The first word of a line that is one token, or begins with one.
LEMMA FirstWord ==
  ASSUME NEW s, IsSeq(s)
  PROVE  /\ Len(s) = 0 => Trap!Word1(s) = <<s, <<>>>>
         /\ Len(s) = 1 /\ s[1] # Gap => Trap!Word1(s) = <<s, <<>>>>
         /\ Len(s) > 1 /\ s[1] # Gap /\ s[2] = Gap =>
              Trap!Word1(s) = <<SubSeq(s, 1, 1), Strip(SubSeq(s, 3, Len(s)))>>
         /\ Trap!Word1(s)[1] = <<>> \/ Trap!Word1(s)[1][1] = s[1]
<1> DEFINE B == {i \in DOMAIN s : s[i] = Gap}
<1>1. Len(s) \in Nat /\ DOMAIN s = 1 .. Len(s)
  BY SeqDomain
<1>2. Trap!Word1(s) = IF B = {} THEN <<s, <<>>>>
                      ELSE <<SubSeq(s, 1, Trap!Min(B) - 1), Strip(SubSeq(s, Trap!Min(B) + 1, Len(s)))>>
  <2>1. Trap!Word1(s) = IF B = {} THEN <<s, <<>>>>
                        ELSE <<Trap!Before(s, Trap!Min(B)), Trap!Strip(Trap!After(s, Trap!Min(B)))>>
    BY Zenon DEF Trap!Word1, Gap
  <2> QED
    BY <2>1, TrapText, Zenon
<1>3. B \in SUBSET Nat
  BY <1>1
<1>4. Len(s) = 0 => B = {}
  BY <1>1
<1>5. Len(s) = 1 /\ s[1] # Gap => B = {}
  BY <1>1
<1>6. Len(s) > 1 /\ s[1] # Gap /\ s[2] = Gap => B # {} /\ Trap!Min(B) = 2
  <2> SUFFICES ASSUME Len(s) > 1, s[1] # Gap, s[2] = Gap PROVE B # {} /\ Trap!Min(B) = 2
    OBVIOUS
  <2>1. 2 \in B /\ \A k \in B : 2 <= k
    BY <1>1
  <2> HIDE DEF B
  <2> QED
    BY <1>3, <2>1, MinIs, MinAt
<1>7. Trap!Word1(s)[1] = <<>> \/ Trap!Word1(s)[1][1] = s[1]
  <2>1. CASE B = {}
    <3>1. Trap!Word1(s)[1] = s
      BY <1>2, <2>1
    <3> QED
      BY <3>1
  <2>2. CASE B # {}
    <3> DEFINE m == Trap!Min(B)
               t == SubSeq(s, 1, m - 1)
    <3>1. m \in B
      <4> HIDE DEF B
      <4> QED
        BY <1>3, <2>2, MinIs
    <3>2. Trap!Word1(s)[1] = t
      <4> DEFINE u == Strip(SubSeq(s, m + 1, Len(s)))
      <4>1. Trap!Word1(s) = <<t, u>>
        BY <1>2, <2>2
      <4> HIDE DEF t, u
      <4> QED
        BY <4>1
    <3>3. m \in Int /\ m >= 1
      BY <1>1, <3>1
    <3>4. IsSeq(t) /\ Len(t) = (IF 1 <= m - 1 THEN m - 1 - 1 + 1 ELSE 0) /\ \A i \in 1 .. m - 1 - 1 + 1 : t[i] = s[1 + i - 1]
      BY <3>3, Part
    <3> HIDE DEF t, m
    <3>5. CASE m = 1
      BY <3>2, <3>4, <3>5, Empty, SameSeq
    <3>6. CASE m # 1
      BY <3>2, <3>3, <3>4, <3>6
    <3> QED
      BY <3>5, <3>6
  <2> QED
    BY <2>1, <2>2
<1>8. ASSUME Len(s) > 1, s[1] # Gap, s[2] = Gap
      PROVE  Trap!Word1(s) = <<SubSeq(s, 1, 1), Strip(SubSeq(s, 3, Len(s)))>>
  <2>1. B # {} /\ Trap!Min(B) = 2
    BY <1>6, <1>8
  <2>2. Trap!Min(B) - 1 = 1 /\ Trap!Min(B) + 1 = 3
    BY <2>1
  <2> HIDE DEF B
  <2> QED
    BY <1>2, <2>1, <2>2
<1> HIDE DEF B
<1> QED
  BY <1>2, <1>4, <1>5, <1>7, <1>8

\* The operation and the operands of a line that both take.
OpOf(rest) == IF rest = <<>> THEN NoQuote ELSE Operation(Words(rest))
Given(rest) == IF rest = <<>> \/ Size(Operation(Words(rest))) = 1 THEN <<>> ELSE <<Words(rest)[2]>>

\* A word is calm, and nothing is to be stripped from it.
LEMMA WordStays ==
  ASSUME NEW w, IsSeq(w), Len(w) > 0, IsPlain(w) \/ IsLiteral(w), w[1] # Gap, w[Len(w)] # Gap,
         \A i \in 1 .. Len(w) : w[i] # Comma
  PROVE  IsCalm(w) /\ Strip(w) = w /\ Places(w, Comma) = {}
<1>1. Len(w) \in Nat /\ DOMAIN w = 1 .. Len(w)
  BY SeqDomain
<1>2. Places(w, Comma) = {}
  BY <1>1 DEF Places
<1>3. IsCalm(w)
  <2>1. ASSUME IsPlain(w) PROVE IsCalm(w)
    BY <2>1, WordForms, PlainIsCalm
  <2>2. ASSUME IsLiteral(w) PROVE IsCalm(w)
    <3>1. Len(w) = 3 /\ w[1] = Tick /\ w[3] = Tick /\ w[2] # Tick /\ w[2] # Backslash
      BY <2>2, WordForms
    <3>2. Calm(w, 3, 1)
      BY <3>1 DEF Calm
    <3> QED
      BY <3>1, <3>2 DEF IsCalm
  <2> QED
    BY <2>1, <2>2
<1> QED
  BY <1>2, <1>3, Bounded

\* How the statement comes out.
LEMMA StatementIs ==
  ASSUME ErrorIsAlone, NEW label, label # <<>>, NEW op, NEW operands, IsSeq(operands)
  PROVE  Trap!Statement(label, op, operands) =
           [label |-> upper(label), operands |-> operands,
            op |-> CASE op = <<>> -> NoQuote [] Len(op) = 1 -> upper(op)[1] [] OTHER -> "unknown"]
<1>1. operands # Error
  BY NoError
<1>2. Trap!Statement(label, op, operands) =
           [label |-> Trap!upper(label), operands |-> operands,
            op |-> CASE op = <<>> -> NoQuote [] Len(op) = 1 -> Trap!upper(op)[1] [] OTHER -> "unknown"]
  BY <1>1, Zenon DEF Trap!Statement, NoQuote
<1>3. Trap!upper(label) = upper(label) /\ Trap!upper(op) = upper(op)
  BY TrapText
<1> QED
  BY <1>2, <1>3

\* A line without its label is parted into the operation and the operands.
LEMMA RestParted ==
  ASSUME ErrorIsAlone, NEW raw, Readable(raw), NEW label, label # <<>>
  PROVE  LET rest == Unlabelled(Code(raw))
         IN Trap!Parted(label, Trap!Word1(rest)) =
              [label |-> upper(label), operands |-> Given(rest), op |-> OpOf(rest)]
<1> DEFINE rest == Unlabelled(Code(raw))
           op == Operation(Words(rest))
           n == Len(rest)
<1>1. IsSeq(rest) /\ (rest # <<>> => Len(rest) > 0 /\ rest[1] # Gap /\ rest[Len(rest)] # Gap)
  BY RestForm
<1>2. rest # <<>> => PortableLine(rest) /\ op # Error
  BY DEF Readable
<1> HIDE DEF rest
<1>3. ASSUME NEW a, NEW b, Trap!Word1(rest) = <<a, b>>
      PROVE  Trap!Parted(label, Trap!Word1(rest)) = Trap!Statement(label, a, Trap!split_operands(b))
  <2>1. <<a, b>>[1] = a /\ <<a, b>>[2] = b
    OBVIOUS
  <2> QED
    BY <1>3, <2>1, Zenon DEF Trap!Parted
<1>4. Trap!split_operands(<<>>) = <<>>
  <2>1. IsSeq(<<>>) /\ Len(<<>>) = 0
    BY Empty
  <2>2. IsCalm(<<>>) /\ Places(<<>>, Comma) = {}
    BY <2>1, PlainIsCalm, SeqDomain DEF Places
  <2> QED
    BY <2>1, <2>2, Operands, StripEmpty
<1>5. CASE rest = <<>>
  <2>1. Trap!Word1(rest) = <<<<>>, <<>>>>
    BY <1>1, <1>5, Empty, FirstWord
  <2>2. Trap!Parted(label, Trap!Word1(rest)) = Trap!Statement(label, <<>>, <<>>)
    BY <1>3, <1>4, <2>1
  <2>3. Trap!Statement(label, <<>>, <<>>) = [label |-> upper(label), operands |-> <<>>, op |-> NoQuote]
    BY Empty, StatementIs
  <2>4. Given(rest) = <<>> /\ OpOf(rest) = NoQuote
    BY <1>5 DEF Given, OpOf
  <2> QED
    BY <2>2, <2>3, <2>4 DEF rest
<1>6. CASE rest # <<>>
  <2>1. /\ op \in DOMAIN OPS
        /\ \A i \in 1 .. Len(rest) : rest[i] # Comma /\ rest[i] # Colon
        /\ Size(op) = 1 => Operandless(rest, op) /\ Len(Words(rest)) = 1
        /\ Size(op) # 1 =>
             /\ Len(Words(rest)) = 2
             /\ \E q \in 3 .. Len(rest) :
                  /\ WithOperand(rest, op, q) /\ Words(rest)[2] = SubSeq(rest, q, Len(rest))
                  /\ IsPlain(Words(rest)[2]) \/ IsLiteral(Words(rest)[2])
    BY <1>1, <1>2, <1>6, LineParts
  <2>2. OpOf(rest) = op
    BY <1>6 DEF OpOf
  <2>3. CASE Size(op) = 1
    <3>1. Len(rest) = 1 /\ upper(<<rest[1]>>)[1] = op /\ rest[1] # Gap
      BY <2>1, <2>3 DEF Operandless
    <3>2. Trap!Word1(rest) = <<rest, <<>>>>
      BY <1>1, <3>1, FirstWord
    <3>3. Trap!Parted(label, Trap!Word1(rest)) = Trap!Statement(label, rest, <<>>)
      BY <1>3, <1>4, <3>2
    <3>4. upper(rest)[1] = op
      BY <1>1, <3>1, Capitals
    <3>5. Trap!Statement(label, rest, <<>>) = [label |-> upper(label), operands |-> <<>>, op |-> op]
      BY <1>6, <3>1, <3>4, Empty, StatementIs
    <3>6. Given(rest) = <<>>
      BY <2>3 DEF Given
    <3> QED
      BY <2>2, <3>3, <3>5, <3>6 DEF rest
  <2>4. CASE Size(op) # 1
    <3>1. PICK q \in 3 .. n : /\ WithOperand(rest, op, q) /\ Words(rest)[2] = SubSeq(rest, q, n)
                              /\ IsPlain(Words(rest)[2]) \/ IsLiteral(Words(rest)[2])
      BY <2>1, <2>4
    <3>2. /\ rest[1] # Gap /\ upper(<<rest[1]>>)[1] = op /\ q \in 3 .. n
          /\ (\A i \in 2 .. q - 1 : rest[i] = Gap) /\ (\A i \in q .. n : rest[i] # Gap)
      BY <3>1 DEF WithOperand
    <3>3. n \in Nat /\ n > 1 /\ rest[2] = Gap /\ q \in Int /\ 3 <= q /\ q <= n
      BY <1>1, <3>2, SeqDomain
    <3> DEFINE w == SubSeq(rest, q, n)
               v == SubSeq(rest, 1, 1)
               tail == SubSeq(rest, 3, n)
    <3>4. /\ IsSeq(w) /\ Len(w) = (IF q <= n THEN n - q + 1 ELSE 0)
          /\ \A i \in 1 .. n - q + 1 : w[i] = rest[q + i - 1]
      BY <3>3, Part
    <3>5. /\ IsSeq(v) /\ Len(v) = 1 /\ v[1] = rest[1]
      BY Part
    <3>6. /\ IsSeq(tail) /\ Len(tail) = (IF 3 <= n THEN n - 3 + 1 ELSE 0)
          /\ \A i \in 1 .. n - 3 + 1 : tail[i] = rest[3 + i - 1]
      BY <3>3, Part
    <3>7. Trap!Word1(rest) = <<v, Strip(tail)>>
      BY <1>1, <3>2, <3>3, FirstWord
    <3>8. Strip(tail) = w
      <4> HIDE DEF w, tail, n
      <4>1. PICK a \in Int, b \in Int : Within(tail, a, b) /\ Strip(tail) = SubSeq(tail, a, b)
        <5>1. tail[n - 2] = rest[n] /\ n - 2 \in 1 .. Len(tail)
          BY <3>3, <3>6
        <5>2. rest[n] # Gap
          BY <3>2, <3>3
        <5> QED
          BY <3>6, <5>1, <5>2, Strips
      <4>2. /\ a \in 1 .. Len(tail) /\ b \in a .. Len(tail) /\ tail[a] # Gap /\ tail[b] # Gap
            /\ \A i \in 1 .. Len(tail) : i < a \/ i > b => tail[i] = Gap
        BY <4>1 DEF Within
      <4>3. a = q - 2 /\ b = n - 2
        <5>1. tail[n - 2] # Gap /\ n - 2 \in 1 .. Len(tail)
          BY <3>2, <3>3, <3>6
        <5>2. tail[q - 2] # Gap /\ q - 2 \in 1 .. Len(tail)
          BY <3>2, <3>3, <3>6
        <5>3. \A i \in 1 .. q - 3 : tail[i] = Gap
          BY <3>2, <3>3, <3>6
        <5> QED
          BY <3>3, <3>6, <4>2, <5>1, <5>2, <5>3
      <4>4. /\ IsSeq(SubSeq(tail, a, b)) /\ Len(SubSeq(tail, a, b)) = (IF a <= b THEN b - a + 1 ELSE 0)
            /\ \A i \in 1 .. b - a + 1 : SubSeq(tail, a, b)[i] = tail[a + i - 1]
        BY Part
      <4>5. Len(w) = Len(Strip(tail)) /\ IsSeq(Strip(tail))
        BY <3>3, <3>4, <4>1, <4>3, <4>4
      <4>6. \A i \in 1 .. Len(w) : w[i] = Strip(tail)[i]
        <5>1. b - a + 1 = n - q + 1 /\ Len(w) = n - q + 1
          BY <3>3, <3>4, <4>3
        <5> SUFFICES ASSUME NEW i \in 1 .. n - q + 1 PROVE w[i] = Strip(tail)[i]
          BY <5>1
        <5>2. Strip(tail)[i] = tail[a + i - 1] /\ w[i] = rest[q + i - 1]
          BY <3>4, <4>1, <4>4, <5>1
        <5>3. a + i - 1 \in 1 .. n - 3 + 1 /\ 3 + (a + i - 1) - 1 = q + i - 1
          BY <3>3, <4>3
        <5>4. tail[a + i - 1] = rest[q + i - 1]
          BY <3>6, <5>3
        <5> QED
          BY <5>2, <5>4
      <4> QED
        BY <3>4, <4>5, <4>6, SameSeq
    <3> HIDE DEF w, v, tail
    <3>9. IsCalm(w) /\ Strip(w) = w /\ Places(w, Comma) = {} /\ w # <<>>
      <4>1. IsPlain(w) \/ IsLiteral(w)
        BY <3>1 DEF w
      <4>2. Len(w) = n - q + 1 /\ Len(w) > 0 /\ w[1] = rest[q] /\ w[Len(w)] = rest[n]
        BY <3>3, <3>4
      <4>3. w[1] # Gap /\ w[Len(w)] # Gap
        BY <3>2, <3>3, <4>2
      <4>4. \A i \in 1 .. Len(w) : w[i] # Comma
        BY <2>1, <3>3, <3>4, <4>2
      <4> QED
        BY <3>4, <4>1, <4>2, <4>3, <4>4, WordStays, Empty
    <3>10. Trap!split_operands(w) = <<w>>
      BY <3>4, <3>9, Operands
    <3>11. Trap!Parted(label, Trap!Word1(rest)) = Trap!Statement(label, v, <<w>>)
      BY <1>3, <3>7, <3>8, <3>10
    <3>12. upper(v)[1] = op /\ v # <<>>
      BY <3>2, <3>5, Capitals, Empty
    <3>13. Trap!Statement(label, v, <<w>>) = [label |-> upper(label), operands |-> <<w>>, op |-> op]
      <4>1. IsSeq(<<w>>)
        BY One
      <4> QED
        BY <3>5, <3>12, <4>1, StatementIs
    <3>14. Given(rest) = <<w>>
      BY <1>6, <2>4, <3>1 DEF Given, w
    <3> QED
      BY <2>2, <3>11, <3>13, <3>14 DEF rest
  <2> QED
    BY <2>3, <2>4
<1> QED
  BY <1>5, <1>6

\* The label of a line, or what stands for none.
Tag(raw) == IF Places(Code(raw), Colon) = {} THEN Trap!NoLabel ELSE LabelOf(Code(raw))

\* A line that does not begin with a blank begins as its text does.
LEMMA HeadStays ==
  ASSUME NEW s, IsSeq(s), Len(s) > 0, s[1] # Gap
  PROVE  Strip(s)[1] = s[1]
<1>1. Len(s) \in Nat
  BY SeqDomain
<1>2. PICK a \in Int, b \in Int : Within(s, a, b) /\ Strip(s) = SubSeq(s, a, b)
  BY <1>1, Strips
<1>3. a = 1 /\ b >= 1
  BY <1>1, <1>2 DEF Within
<1>4. SubSeq(s, a, b)[1] = s[1]
  <2>1. \A i \in 1 .. b - a + 1 : SubSeq(s, a, b)[i] = s[a + i - 1]
    BY Part
  <2> QED
    BY <1>3, <2>1
<1> QED
  BY <1>2, <1>4

\* Both take the same label off a line.
LEMMA LabelForm ==
  ASSUME NEW raw, Readable(raw), Places(Code(raw), Colon) # {}
  PROVE  LET line == Code(raw)
         IN \E name : /\ IsSeq(name) /\ name # <<>> /\ upper(name) = LabelOf(line) /\ PortableName(LabelOf(line))
                      /\ upper(<<name[1]>>)[1] # ".INCLUDE" /\ name[1] = line[1] /\ line # <<>>
                      /\ Trap!split_label(line) = <<name, Unlabelled(line)>>
<1> DEFINE line == Code(raw)
           p == Min(Places(line, Colon))
           before == SubSeq(line, 1, p - 1)
           name == Strip(before)
<1>1. IsSeq(line) /\ (line # <<>> => line[1] # Gap)
  BY CodeSeq DEF Readable
<1>2. /\ p \in 1 .. Len(line) /\ IsSeq(name) /\ LabelOf(line) = upper(name) /\ Len(line) \in Nat
      /\ IsCalm(name) => Trap!split_label(line) = <<name, Unlabelled(line)>>
  BY <1>1, Colons, SeqDomain
<1>3. PortableName(upper(name))
  BY <1>2 DEF Readable
<1>4. /\ Len(name) \in Nat \ {0} /\ upper(<<name[1]>>)[1] # ".INCLUDE"
      /\ \A i \in 1 .. Len(name) : name[i] # Tick /\ name[i] # Double /\ name[i] # Backslash
  <2> HIDE DEF name
  <2> QED
    BY <1>2, <1>3, NameForm
<1>5. IsCalm(name)
  <2> HIDE DEF name
  <2> QED
    BY <1>2, <1>4, PlainIsCalm
<1>6. line # <<>>
  BY <1>2, Empty
<1>7. IsSeq(before) /\ Len(before) = (IF 1 <= p - 1 THEN p - 1 - 1 + 1 ELSE 0)
      /\ \A i \in 1 .. p - 1 - 1 + 1 : before[i] = line[1 + i - 1]
  BY <1>2, Part
<1>8. p # 1
  <2>1. ASSUME p = 1 PROVE before = <<>>
    <3> HIDE DEF before
    <3> QED
      BY <1>7, <2>1, Empty, SameSeq
  <2>2. ASSUME p = 1 PROVE name = <<>>
    BY <2>1, <2>2, StripEmpty
  <2> QED
    BY <1>4, <2>2, Empty
<1>9. Len(before) > 0 /\ before[1] = line[1]
  <2> HIDE DEF before, p
  <2> QED
    BY <1>2, <1>7, <1>8
<1>10. name[1] = line[1]
  <2> HIDE DEF before
  <2> QED
    BY <1>1, <1>6, <1>7, <1>9, HeadStays
<1>11. name # <<>>
  BY <1>4, Empty
<1> HIDE DEF name
<1> QED
  BY <1>2, <1>3, <1>4, <1>5, <1>6, <1>10, <1>11

\* A line that both take is to TRAPCPU what it is to the original.
LEMMA RecordIs ==
  ASSUME ErrorIsAlone, NEW raw, Readable(raw)
  PROVE  LET rest == Unlabelled(Code(raw))
         IN Trap!Record(raw) = [label |-> Tag(raw), operands |-> Given(rest), op |-> OpOf(rest)]
<1> DEFINE line == Code(raw)
           rest == Unlabelled(line)
<1>1. Trap!Bare(raw) = line
  BY ReadsCalmly
<1>2. ASSUME NEW label, Trap!split_label(line) = <<label, rest>>
      PROVE  Trap!Record(raw) = Trap!Parted(label, Trap!Word1(rest))
  <2>1. <<label, rest>>[1] = label /\ <<label, rest>>[2] = rest
    OBVIOUS
  <2> HIDE DEF line, rest
  <2> QED
    BY <1>1, <1>2, <2>1, Zenon DEF Trap!Record
<1>3. CASE Places(line, Colon) = {}
  <2>1. IsSeq(line)
    BY CodeSeq DEF Readable
  <2>2. rest = line /\ Trap!split_label(line) = <<Trap!NoLabel, Strip(line)>>
    BY <1>3, <2>1, Colons
  <2>3. Strip(line) = line
    BY <2>1, CodeSeq, StripEmpty DEF Readable
  <2>4. Trap!NoLabel = <<Gap>>
    BY Zenon DEF Trap!NoLabel, Gap
  <2>5. upper(Trap!NoLabel) = Trap!NoLabel /\ Trap!NoLabel # <<>>
    <3> DEFINE none == <<Gap>>
    <3>1. IsSeq(none) /\ Len(none) = 1 /\ none[1] = Gap
      BY One
    <3> HIDE DEF none
    <3>2. IsSeq(upper(none)) /\ Len(upper(none)) = 1 /\ upper(none)[1] = Gap
      BY <3>1, Capitals, NamesAreMarks
    <3>3. upper(none) = none
      BY <3>1, <3>2, SameSeq
    <3>4. none # <<>>
      BY <3>1, Empty
    <3> QED
      BY <2>4, <3>3, <3>4 DEF none
  <2>6. Trap!Record(raw) = Trap!Parted(Trap!NoLabel, Trap!Word1(rest))
    BY <1>2, <2>2, <2>3
  <2>7. Tag(raw) = Trap!NoLabel
    BY <1>3 DEF Tag
  <2> QED
    BY <2>5, <2>6, <2>7, RestParted
<1>4. CASE Places(line, Colon) # {}
  <2>1. PICK name : name # <<>> /\ upper(name) = LabelOf(line) /\ Trap!split_label(line) = <<name, rest>>
    BY <1>4, LabelForm
  <2>2. Trap!Record(raw) = Trap!Parted(name, Trap!Word1(rest))
    BY <1>2, <2>1
  <2>3. Tag(raw) = upper(name)
    BY <1>4, <2>1 DEF Tag
  <2> QED
    BY <2>1, <2>2, <2>3, RestParted
<1> QED
  BY <1>3, <1>4

\* No such line includes a file.
LEMMA IncludesNothing ==
  ASSUME NEW raw, Readable(raw), NEW unit, unit.line = raw
  PROVE  ~Trap!IsInclude(unit)
<1> DEFINE line == Code(raw)
           w == Trap!Word1(line)[1]
<1>1. Trap!IsInclude(unit) <=> upper(w) = <<".INCLUDE">>
  <2>1. Trap!IsInclude(unit) <=> Trap!upper(Trap!Word1(Trap!Bare(raw))[1]) = <<".INCLUDE">>
    BY DEF Trap!IsInclude
  <2> QED
    BY <2>1, ReadsCalmly, TrapText
<1>2. IsSeq(line) /\ (line # <<>> => Len(line) \in Nat \ {0} /\ line[1] # Gap /\ line[Len(line)] # Gap)
  BY CodeSeq DEF Readable
<1>3. w = <<>> \/ w[1] = line[1]
  BY <1>2, FirstWord
<1>4. line = <<>> => w = <<>>
  <2> SUFFICES ASSUME line = <<>> PROVE w = <<>>
    OBVIOUS
  <2>1. Trap!Word1(line) = <<line, <<>>>>
    BY <1>2, Empty, FirstWord
  <2> QED
    BY <2>1
<1> HIDE DEF w
<1> SUFFICES ASSUME upper(w) = <<".INCLUDE">> PROVE FALSE
  BY <1>1
<1>5. DOMAIN upper(w) = DOMAIN w /\ DOMAIN upper(w) = 1 .. 1 /\ upper(w)[1] = ".INCLUDE"
  BY DEF upper
<1>6. upper(<<w[1]>>)[1] = ".INCLUDE"
  <2>1. 1 \in DOMAIN w
    BY <1>5
  <2>2. DOMAIN <<w[1]>> = 1 .. 1 /\ <<w[1]>>[1] = w[1]
    OBVIOUS
  <2> QED
    BY <1>5, <2>1, <2>2 DEF upper
<1>7. w # <<>>
  <2>1. DOMAIN <<>> = 1 .. 0 /\ 1 \in DOMAIN w
    BY <1>5, Empty, SeqDomain
  <2> QED
    BY <2>1
<1>8. upper(<<line[1]>>)[1] = ".INCLUDE" /\ line # <<>>
  BY <1>3, <1>4, <1>6, <1>7
<1>9. CASE Places(line, Colon) # {}
  <2>1. PICK name : upper(<<name[1]>>)[1] # ".INCLUDE" /\ name[1] = line[1]
    BY <1>9, LabelForm
  <2> QED
    BY <1>8, <2>1
<1>10. CASE Places(line, Colon) = {}
  <2>1. Unlabelled(line) = line
    BY <1>2, <1>10, Colons
  <2>2. PortableLine(line) /\ Operation(Words(line)) # Error
    BY <1>8, <2>1 DEF Readable
  <2>3. upper(<<line[1]>>)[1] \in DOMAIN OPS
    <3> HIDE DEF line
    <3> QED
      BY <1>2, <1>8, <2>2, LineParts DEF Operandless, WithOperand
  <2>4. ".INCLUDE" \notin DOMAIN OPS
    BY Opcodes, NamesAre DEF Names
  <2> QED
    BY <1>8, <2>3, <2>4
<1> QED
  BY <1>9, <1>10

-----------------------------------------------------------------------------
(***************************************************************************)
(* Expressions.                                                            *)
(***************************************************************************)
\* What is read of an expression when it ends.
Read(e) ==
  LET read[i \in 0 .. Len(e)] == IF i = 0 THEN Trap!NoTerms ELSE Trap!TermStep(read[i - 1], e[i])
  IN read[Len(e)]

\* The terms of the first tokens, one token after the other.
LEMMA TermsRun ==
  ASSUME NEW e, IsSeq(e)
  PROVE  \E f : /\ f[0] = Trap!NoTerms /\ f[Len(e)] = Read(e)
                /\ \A k \in 1 .. Len(e) : f[k] = Trap!TermStep(f[k - 1], e[k])
<1> DEFINE n == Len(e)
           Follows(f, m) == f[0] = Trap!NoTerms /\ \A k \in 1 .. m : f[k] = Trap!TermStep(f[k - 1], e[k])
           On(f, i) == IF i = 0 THEN Trap!NoTerms ELSE Trap!TermStep(f[i - 1], e[i])
           Runs(f) == f = [i \in 0 .. n |-> On(f, i)]
           K == {m \in 0 .. n : \E f : Follows(f, m)}
<1>1. n \in Nat
  BY SeqDomain
<1>2. Read(e) = (CHOOSE f : Runs(f))[n]
  BY DEF Read
<1> HIDE DEF n
<1>0. \A f : On(f, 0) = Trap!NoTerms /\ \A i \in 1 .. n : On(f, i) = Trap!TermStep(f[i - 1], e[i])
  BY <1>1
<1>3. 0 \in K
  <2> DEFINE f == [i \in 0 .. 0 |-> Trap!NoTerms]
  <2>1. f[0] = Trap!NoTerms /\ 1 .. 0 = {} /\ 0 \in 0 .. n
    BY <1>1
  <2> HIDE DEF f
  <2> QED
    BY <2>1
<1>4. ASSUME NEW m \in 0 .. n - 1, m \in K PROVE m + 1 \in K
  <2>1. PICK f : Follows(f, m)
    BY <1>4
  <2> DEFINE last == Trap!TermStep(f[m], e[(m + 1)])
  <2> HIDE DEF last
  <2> DEFINE g == [i \in 0 .. m + 1 |-> IF i <= m THEN f[i] ELSE last]
  <2>2. (\A i \in 0 .. m : g[i] = f[i]) /\ g[m + 1] = last /\ m + 1 \in 0 .. n
    BY <1>1
  <2> HIDE DEF g
  <2>3. ASSUME NEW k \in 1 .. m + 1 PROVE g[k] = Trap!TermStep(g[k - 1], e[k])
    <3>1. CASE k = m + 1
      <4>1. g[k - 1] = f[m] /\ g[k] = last
        BY <1>1, <2>2, <3>1
      <4> QED
        BY <3>1, <4>1 DEF last
    <3>2. CASE k # m + 1
      <4>1. g[k - 1] = f[k - 1] /\ g[k] = f[k] /\ k \in 1 .. m
        BY <1>1, <2>2, <3>2
      <4> QED
        BY <2>1, <4>1, Zenon
    <3> QED
      BY <3>1, <3>2
  <2>4. g[0] = Trap!NoTerms
    BY <1>1, <2>1, <2>2
  <2>5. Follows(g, m + 1)
    BY <2>3, <2>4, Zenon
  <2> QED
    BY <2>2, <2>5, Zenon
<1> HIDE DEF K
<1>5. \A k \in 0 .. n : k \in K
  BY <1>1, <1>3, <1>4, Induction
<1>6. PICK f : Follows(f, n)
  <2>1. n \in K
    BY <1>1, <1>5
  <2> HIDE DEF Follows
  <2> QED
    BY <2>1 DEF K
<1> DEFINE h == [i \in 0 .. n |-> f[i]]
<1>7. Runs(h)
  <2>1. \A i \in 0 .. n : h[i] = f[i]
    OBVIOUS
  <2>2. h = [i \in 0 .. n |-> h[i]]
    OBVIOUS
  <2> HIDE DEF h, On
  <2>3. ASSUME NEW i \in 0 .. n PROVE h[i] = On(h, i)
    <3>1. CASE i = 0
      BY <1>0, <1>6, <2>1, <3>1
    <3>2. CASE i # 0
      <4>1. i \in 1 .. n /\ i - 1 \in 0 .. n
        BY <1>1, <3>2
      <4>2. h[i] = Trap!TermStep(h[i - 1], e[i])
        BY <1>6, <2>1, <4>1, Zenon
      <4> QED
        BY <1>0, <4>1, <4>2, Zenon
    <3> QED
      BY <3>1, <3>2
  <2>4. [i \in 0 .. n |-> h[i]] = [i \in 0 .. n |-> On(h, i)]
    BY <2>3, Zenon
  <2> QED
    BY <2>2, <2>4, Zenon
<1> HIDE DEF h
<1> DEFINE p == CHOOSE g : Runs(g)
<1>8. Runs(p)
  <2> HIDE DEF Runs
  <2> QED
    BY <1>7, Zenon
<1>9. p[n] = Read(e)
  BY <1>2
<1> HIDE DEF p, On
<1>10. \A i \in 0 .. n : p[i] = On(p, i)
  BY <1>8
<1>11. p[0] = Trap!NoTerms /\ \A k \in 1 .. n : p[k] = Trap!TermStep(p[k - 1], e[k])
  <2>1. 0 \in 0 .. n /\ \A k \in 1 .. n : k \in 0 .. n
    BY <1>1
  <2> QED
    BY <1>0, <1>10, <2>1, Zenon
<1> QED
  BY <1>9, <1>11, Zenon DEF n

\* The sum of the first terms, one after the other.
LEMMA SumsRun ==
  ASSUME NEW terms, IsSeq(terms), NEW known
  PROVE  \E f : /\ f[0] = 0 /\ f[Len(terms)] = Trap!Total(terms, known)
                /\ \A k \in 1 .. Len(terms) : f[k] = Trap!Plus(f[k - 1], terms[k].sign, Trap!Value(terms[k].term, known))
<1> DEFINE n == Len(terms)
           Follows(f, m) == /\ f[0] = 0
                            /\ \A k \in 1 .. m : f[k] = Trap!Plus(f[k - 1], terms[k].sign, Trap!Value(terms[k].term, known))
           On(f, i) == IF i = 0
                       THEN 0
                       ELSE Trap!Plus(f[i - 1], terms[i].sign, Trap!Value(terms[i].term, known))
           Runs(f) == f = [i \in 0 .. n |-> On(f, i)]
           K == {m \in 0 .. n : \E f : Follows(f, m)}
<1>1. n \in Nat
  BY SeqDomain
<1>2. Trap!Total(terms, known) = (CHOOSE f : Runs(f))[n]
  BY DEF Trap!Total
<1> HIDE DEF n
<1>0. \A f : On(f, 0) = 0 /\ \A i \in 1 .. n : On(f, i) = Trap!Plus(f[i - 1], terms[i].sign, Trap!Value(terms[i].term, known))
  BY <1>1
<1>3. 0 \in K
  <2> DEFINE f == [i \in 0 .. 0 |-> 0]
  <2>1. f[0] = 0 /\ 1 .. 0 = {} /\ 0 \in 0 .. n
    BY <1>1
  <2> HIDE DEF f
  <2> QED
    BY <2>1
<1>4. ASSUME NEW m \in 0 .. n - 1, m \in K PROVE m + 1 \in K
  <2>1. PICK f : Follows(f, m)
    BY <1>4
  <2> DEFINE last == Trap!Plus(f[m], terms[(m + 1)].sign, Trap!Value(terms[(m + 1)].term, known))
  <2> HIDE DEF last
  <2> DEFINE g == [i \in 0 .. m + 1 |-> IF i <= m THEN f[i] ELSE last]
  <2>2. (\A i \in 0 .. m : g[i] = f[i]) /\ g[m + 1] = last /\ m + 1 \in 0 .. n
    BY <1>1
  <2> HIDE DEF g
  <2>3. ASSUME NEW k \in 1 .. m + 1 PROVE g[k] = Trap!Plus(g[k - 1], terms[k].sign, Trap!Value(terms[k].term, known))
    <3>1. CASE k = m + 1
      <4>1. g[k - 1] = f[m] /\ g[k] = last
        BY <1>1, <2>2, <3>1
      <4> QED
        BY <3>1, <4>1 DEF last
    <3>2. CASE k # m + 1
      <4>1. g[k - 1] = f[k - 1] /\ g[k] = f[k] /\ k \in 1 .. m
        BY <1>1, <2>2, <3>2
      <4> QED
        BY <2>1, <4>1, Zenon
    <3> QED
      BY <3>1, <3>2
  <2>4. g[0] = 0
    BY <1>1, <2>1, <2>2
  <2>5. Follows(g, m + 1)
    BY <2>3, <2>4, Zenon
  <2> QED
    BY <2>2, <2>5, Zenon
<1> HIDE DEF K
<1>5. \A k \in 0 .. n : k \in K
  BY <1>1, <1>3, <1>4, Induction
<1>6. PICK f : Follows(f, n)
  <2>1. n \in K
    BY <1>1, <1>5
  <2> HIDE DEF Follows
  <2> QED
    BY <2>1 DEF K
<1> DEFINE h == [i \in 0 .. n |-> f[i]]
<1>7. Runs(h)
  <2>1. \A i \in 0 .. n : h[i] = f[i]
    OBVIOUS
  <2>2. h = [i \in 0 .. n |-> h[i]]
    OBVIOUS
  <2> HIDE DEF h, On
  <2>3. ASSUME NEW i \in 0 .. n PROVE h[i] = On(h, i)
    <3>1. CASE i = 0
      BY <1>0, <1>6, <2>1, <3>1
    <3>2. CASE i # 0
      <4>1. i \in 1 .. n /\ i - 1 \in 0 .. n
        BY <1>1, <3>2
      <4>2. h[i] = Trap!Plus(h[i - 1], terms[i].sign, Trap!Value(terms[i].term, known))
        BY <1>6, <2>1, <4>1, Zenon
      <4> QED
        BY <1>0, <4>1, <4>2, Zenon
    <3> QED
      BY <3>1, <3>2
  <2>4. [i \in 0 .. n |-> h[i]] = [i \in 0 .. n |-> On(h, i)]
    BY <2>3, Zenon
  <2> QED
    BY <2>2, <2>4, Zenon
<1> HIDE DEF h
<1> DEFINE p == CHOOSE g : Runs(g)
<1>8. Runs(p)
  <2> HIDE DEF Runs
  <2> QED
    BY <1>7, Zenon
<1>9. p[n] = Trap!Total(terms, known)
  BY <1>2
<1> HIDE DEF p, On
<1>10. \A i \in 0 .. n : p[i] = On(p, i)
  BY <1>8
<1>11. /\ p[0] = 0
       /\ \A k \in 1 .. n : p[k] = Trap!Plus(p[k - 1], terms[k].sign, Trap!Value(terms[k].term, known))
  <2>1. 0 \in 0 .. n /\ \A k \in 1 .. n : k \in 0 .. n
    BY <1>1
  <2> QED
    BY <1>0, <1>10, <2>1, Zenon
<1> QED
  BY <1>9, <1>11, Zenon DEF n

\* What is read of an escaped text when it ends.
Unread == [escape |-> FALSE, out |-> <<>>]
Raw(literal) ==
  LET read[i \in 0 .. Len(literal)] ==
        IF i = 0 THEN Unread ELSE Trap!UnescapeStep(read[i - 1], literal[i])
  IN read[Len(literal)]

\* An escaped text, one token after the other.
LEMMA UnescapeRuns ==
  ASSUME NEW literal, IsSeq(literal)
  PROVE  \E f : /\ f[0] = Unread /\ f[Len(literal)] = Raw(literal)
                /\ \A k \in 1 .. Len(literal) : f[k] = Trap!UnescapeStep(f[k - 1], literal[k])
<1> DEFINE n == Len(literal)
           Follows(f, m) == f[0] = Unread /\ \A k \in 1 .. m : f[k] = Trap!UnescapeStep(f[k - 1], literal[k])
           On(f, i) == IF i = 0 THEN Unread ELSE Trap!UnescapeStep(f[i - 1], literal[i])
           Runs(f) == f = [i \in 0 .. n |-> On(f, i)]
           K == {m \in 0 .. n : \E f : Follows(f, m)}
<1>1. n \in Nat
  BY SeqDomain
<1>2. Raw(literal) = (CHOOSE f : Runs(f))[n]
  BY DEF Raw
<1> HIDE DEF n
<1>0. \A f : On(f, 0) = Unread /\ \A i \in 1 .. n : On(f, i) = Trap!UnescapeStep(f[i - 1], literal[i])
  BY <1>1
<1>3. 0 \in K
  <2> DEFINE f == [i \in 0 .. 0 |-> Unread]
  <2>1. f[0] = Unread /\ 1 .. 0 = {} /\ 0 \in 0 .. n
    BY <1>1
  <2> HIDE DEF f
  <2> QED
    BY <2>1
<1>4. ASSUME NEW m \in 0 .. n - 1, m \in K PROVE m + 1 \in K
  <2>1. PICK f : Follows(f, m)
    BY <1>4
  <2> DEFINE last == Trap!UnescapeStep(f[m], literal[(m + 1)])
  <2> HIDE DEF last
  <2> DEFINE g == [i \in 0 .. m + 1 |-> IF i <= m THEN f[i] ELSE last]
  <2>2. (\A i \in 0 .. m : g[i] = f[i]) /\ g[m + 1] = last /\ m + 1 \in 0 .. n
    BY <1>1
  <2> HIDE DEF g
  <2>3. ASSUME NEW k \in 1 .. m + 1 PROVE g[k] = Trap!UnescapeStep(g[k - 1], literal[k])
    <3>1. CASE k = m + 1
      <4>1. g[k - 1] = f[m] /\ g[k] = last
        BY <1>1, <2>2, <3>1
      <4> QED
        BY <3>1, <4>1 DEF last
    <3>2. CASE k # m + 1
      <4>1. g[k - 1] = f[k - 1] /\ g[k] = f[k] /\ k \in 1 .. m
        BY <1>1, <2>2, <3>2
      <4> QED
        BY <2>1, <4>1, Zenon
    <3> QED
      BY <3>1, <3>2
  <2>4. g[0] = Unread
    BY <1>1, <2>1, <2>2
  <2>5. Follows(g, m + 1)
    BY <2>3, <2>4, Zenon
  <2> QED
    BY <2>2, <2>5, Zenon
<1> HIDE DEF K
<1>5. \A k \in 0 .. n : k \in K
  BY <1>1, <1>3, <1>4, Induction
<1>6. PICK f : Follows(f, n)
  <2>1. n \in K
    BY <1>1, <1>5
  <2> HIDE DEF Follows
  <2> QED
    BY <2>1 DEF K
<1> DEFINE h == [i \in 0 .. n |-> f[i]]
<1>7. Runs(h)
  <2>1. \A i \in 0 .. n : h[i] = f[i]
    OBVIOUS
  <2>2. h = [i \in 0 .. n |-> h[i]]
    OBVIOUS
  <2> HIDE DEF h, On
  <2>3. ASSUME NEW i \in 0 .. n PROVE h[i] = On(h, i)
    <3>1. CASE i = 0
      BY <1>0, <1>6, <2>1, <3>1
    <3>2. CASE i # 0
      <4>1. i \in 1 .. n /\ i - 1 \in 0 .. n
        BY <1>1, <3>2
      <4>2. h[i] = Trap!UnescapeStep(h[i - 1], literal[i])
        BY <1>6, <2>1, <4>1, Zenon
      <4> QED
        BY <1>0, <4>1, <4>2, Zenon
    <3> QED
      BY <3>1, <3>2
  <2>4. [i \in 0 .. n |-> h[i]] = [i \in 0 .. n |-> On(h, i)]
    BY <2>3, Zenon
  <2> QED
    BY <2>2, <2>4, Zenon
<1> HIDE DEF h
<1> DEFINE p == CHOOSE g : Runs(g)
<1>8. Runs(p)
  <2> HIDE DEF Runs
  <2> QED
    BY <1>7, Zenon
<1>9. p[n] = Raw(literal)
  BY <1>2
<1> HIDE DEF p, On
<1>10. \A i \in 0 .. n : p[i] = On(p, i)
  BY <1>8
<1>11. p[0] = Unread /\ \A k \in 1 .. n : p[k] = Trap!UnescapeStep(p[k - 1], literal[k])
  <2>1. 0 \in 0 .. n /\ \A k \in 1 .. n : k \in 0 .. n
    BY <1>1
  <2> QED
    BY <1>0, <1>10, <2>1, Zenon
<1> QED
  BY <1>9, <1>11, Zenon DEF n

\* The signs, by name.
Positive == "+"
Negative == "-"

\* They are none of the other characters.
LEMMA SignsDiffer ==
  /\ Positive # Negative /\ Positive # Tick /\ Positive # Backslash /\ Positive # Gap
  /\ Negative # Tick /\ Negative # Backslash /\ Negative # Gap
  BY Zenon DEF Positive, Negative, Tick, Backslash, Gap

\* A term that is being read.
Reading(current, sign, quote) ==
  [terms |-> <<>>, current |-> current, sign |-> sign, quote |-> quote, escaped |-> FALSE]

\* The reader of expressions, with the characters named.
LEMMA TermStepIs ==
  ASSUME NEW acc, NEW c
  PROVE  Trap!TermStep(acc, c) =
    CASE acc.quote ->
           [acc EXCEPT !.current = Append(@, c),
                       !.escaped = ~@ /\ c = Backslash,
                       !.quote = acc.escaped \/ c # Tick]
      [] ~acc.quote /\ c = Tick -> [acc EXCEPT !.quote = TRUE, !.current = Append(@, c)]
      [] ~acc.quote /\ c \in {Positive, Negative} /\ Trap!Strip(acc.current) # <<>> ->
           [acc EXCEPT !.terms = Trap!Close(acc), !.current = <<>>,
                       !.sign = IF c = Positive THEN 1 ELSE -1]
      [] ~acc.quote /\ c \in {Positive, Negative} /\ Trap!Strip(acc.current) = <<>> ->
           [acc EXCEPT !.current = <<>>, !.sign = IF c = Negative THEN -@ ELSE @]
      [] OTHER -> [acc EXCEPT !.current = Append(@, c)]
  BY Zenon DEF Trap!TermStep, Trap!Backslash, Backslash, Tick, Positive, Negative

\* What it does with one character more, in the states it can be in.
LEMMA TermSteps ==
  ASSUME NEW current, NEW sign, NEW c
  PROVE  /\ c \notin {Tick, Positive, Negative} =>
              Trap!TermStep(Reading(current, sign, FALSE), c) = Reading(Append(current, c), sign, FALSE)
         /\ Trap!TermStep(Reading(current, sign, FALSE), Tick) = Reading(Append(current, Tick), sign, TRUE)
         /\ c \notin {Tick, Backslash} =>
              Trap!TermStep(Reading(current, sign, TRUE), c) = Reading(Append(current, c), sign, TRUE)
         /\ Trap!TermStep(Reading(current, sign, TRUE), Tick) = Reading(Append(current, Tick), sign, FALSE)
         /\ c \in {Positive, Negative} =>
              Trap!TermStep(Reading(<<>>, 1, FALSE), c) = Reading(<<>>, IF c = Negative THEN -1 ELSE 1, FALSE)
<1>1. c \notin {Tick, Positive, Negative} =>
        Trap!TermStep(Reading(current, sign, FALSE), c) = Reading(Append(current, c), sign, FALSE)
  BY TermStepIs DEF Reading
<1>2. Trap!TermStep(Reading(current, sign, FALSE), Tick) = Reading(Append(current, Tick), sign, TRUE)
  BY TermStepIs, SignsDiffer DEF Reading
<1>3. c \notin {Tick, Backslash} =>
        Trap!TermStep(Reading(current, sign, TRUE), c) = Reading(Append(current, c), sign, TRUE)
  BY TermStepIs DEF Reading
<1>4. Trap!TermStep(Reading(current, sign, TRUE), Tick) = Reading(Append(current, Tick), sign, FALSE)
  BY TermStepIs, MarksDiffer DEF Reading
<1>5. c \in {Positive, Negative} =>
        Trap!TermStep(Reading(<<>>, 1, FALSE), c) = Reading(<<>>, IF c = Negative THEN -1 ELSE 1, FALSE)
  <2> SUFFICES ASSUME c \in {Positive, Negative}
               PROVE  Trap!TermStep(Reading(<<>>, 1, FALSE), c) = Reading(<<>>, IF c = Negative
                                                                                THEN -1
                                                                                ELSE 1, FALSE)
    OBVIOUS
  <2>1. Trap!Strip(<<>>) = <<>>
    BY StripEmpty, TrapText
  <2>2. c # Tick
    BY SignsDiffer
  <2> QED
    BY <2>1, <2>2, TermStepIs DEF Reading
<1> QED
  BY <1>1, <1>2, <1>3, <1>4, <1>5

\* A token more of a text.
LEMMA PartGrows ==
  ASSUME NEW s, IsSeq(s), NEW k \in 1 .. Len(s)
  PROVE  Append(SubSeq(s, 1, k - 1), s[k]) = SubSeq(s, 1, k)
<1> DEFINE t == SubSeq(s, 1, k - 1)
           u == SubSeq(s, 1, k)
           v == Append(t, s[k])
<1>1. /\ IsSeq(t) /\ Len(t) = (IF 1 <= k - 1 THEN k - 1 - 1 + 1 ELSE 0)
      /\ \A i \in 1 .. k - 1 - 1 + 1 : t[i] = s[1 + i - 1]
  BY Part
<1>2. /\ IsSeq(u) /\ Len(u) = (IF 1 <= k THEN k - 1 + 1 ELSE 0)
      /\ \A i \in 1 .. k - 1 + 1 : u[i] = s[1 + i - 1]
  BY Part
<1> HIDE DEF t, u
<1>3. /\ IsSeq(v) /\ Len(v) = Len(t) + 1 /\ (\A i \in 1 .. Len(t) : v[i] = t[i]) /\ v[Len(t) + 1] = s[k]
  BY <1>1, Appended
<1> HIDE DEF v
<1>4. Len(v) = Len(u) /\ \A i \in 1 .. Len(v) : v[i] = u[i]
  BY <1>1, <1>2, <1>3
<1>5. v = u
  BY <1>2, <1>3, <1>4, SameSeq
<1> QED
  BY <1>5 DEF v, u, t

\* A word without signs and quotes is one term.
LEMMA PlainTerm ==
  ASSUME NEW w, IsSeq(w), \A i \in 1 .. Len(w) : w[i] \notin {Tick, Positive, Negative}
  PROVE  Read(w) = Reading(w, 1, FALSE)
<1> DEFINE n == Len(w)
<1>1. n \in Nat
  BY SeqDomain
<1>2. PICK f : /\ f[0] = Trap!NoTerms /\ f[n] = Read(w)
               /\ \A k \in 1 .. n : f[k] = Trap!TermStep(f[k - 1], w[k])
  BY TermsRun
<1> DEFINE K == {k \in 0 .. n : f[k] = Reading(SubSeq(w, 1, k), 1, FALSE)}
<1>3. 0 \in K
  <2>1. SubSeq(w, 1, 0) = <<>>
    <3>1. IsSeq(SubSeq(w, 1, 0)) /\ Len(SubSeq(w, 1, 0)) = 0
      BY Part
    <3> QED
      BY <3>1, Empty, SameSeq
  <2>2. Trap!NoTerms = Reading(<<>>, 1, FALSE)
    BY DEF Trap!NoTerms, Reading
  <2>3. f[0] = Reading(SubSeq(w, 1, 0), 1, FALSE)
    BY <1>2, <2>1, <2>2, Zenon
  <2>4. 0 \in 0 .. n
    BY <1>1
  <2> QED
    BY <2>3, <2>4
<1>4. ASSUME NEW k \in 0 .. n - 1, k \in K PROVE k + 1 \in K
  <2>1. k + 1 \in 1 .. n /\ k + 1 - 1 = k /\ k + 1 \in 0 .. n
    BY <1>1
  <2>2. f[k + 1] = Trap!TermStep(f[k], w[k + 1])
    BY <1>2, <2>1
  <2>3. f[k + 1] = Reading(Append(SubSeq(w, 1, k), w[k + 1]), 1, FALSE)
    <3>1. f[k] = Reading(SubSeq(w, 1, k), 1, FALSE)
      BY <1>4
    <3>2. w[k + 1] \notin {Tick, Positive, Negative}
      BY <2>1
    <3> DEFINE t == SubSeq(w, 1, k)
    <3> HIDE DEF K, t
    <3>3. Trap!TermStep(Reading(t, 1, FALSE), w[k + 1]) = Reading(Append(t, w[k + 1]), 1, FALSE)
      BY <3>2, TermSteps
    <3> QED
      BY <2>2, <3>1, <3>3, Zenon DEF t
  <2>4. Append(SubSeq(w, 1, k), w[k + 1]) = SubSeq(w, 1, k + 1)
    BY <2>1, PartGrows
  <2> QED
    BY <2>1, <2>3, <2>4
<1> HIDE DEF K
<1>5. n \in K
  BY <1>1, <1>3, <1>4, Induction, SMTT(30)
<1> QED
  BY <1>2, <1>5, PartIs DEF K

\* An expression of one term.
LEMMA OneTerm ==
  ASSUME ErrorIsAlone, NEW e, Strip(e) # <<>>, NEW term, term # <<>>, Strip(term) = term,
         NEW sign \in {1, -1}, Read(e) = Reading(term, sign, FALSE),
         NEW known, Trap!Value(term, known) \in Int
  PROVE  Trap!evaluate(e, known) = sign * Trap!Value(term, known)
<1> DEFINE it == [sign |-> sign, term |-> term]
           terms == <<it>>
           v == Trap!Value(term, known)
<1>1. Trap!_tokenize_expression(e) = terms
  <2>1. Trap!_tokenize_expression(e) = Trap!Close(Reading(term, sign, FALSE))
    BY DEF Trap!_tokenize_expression, Read
  <2>2. Trap!Strip(term) = term
    BY TrapText
  <2>3. Trap!Close(Reading(term, sign, FALSE)) = Append(<<>>, it)
    BY <2>2 DEF Trap!Close, Reading
  <2> HIDE DEF it
  <2>4. Append(<<>>, it) = terms
    OBVIOUS
  <2> QED
    BY <2>1, <2>3, <2>4
<1>2. Trap!evaluate(e, known) = Trap!Total(terms, known)
  <2>1. Trap!Strip(e) # <<>>
    BY TrapText
  <2> HIDE DEF terms
  <2> QED
    BY <1>1, <2>1 DEF Trap!evaluate
<1>3. IsSeq(terms) /\ Len(terms) = 1 /\ terms[1] = it
  BY One
<1>4. terms[1].sign = sign /\ terms[1].term = term
  BY <1>3
<1> HIDE DEF terms, v
<1>5. PICK f : /\ f[0] = 0 /\ f[1] = Trap!Total(terms, known)
               /\ \A k \in 1 .. 1 : f[k] = Trap!Plus(f[k - 1], terms[k].sign, Trap!Value(terms[k].term, known))
  BY <1>3, SumsRun
<1>6. f[1] = Trap!Plus(0, sign, v)
  <2>1. 1 \in 1 .. 1 /\ 1 - 1 = 0
    OBVIOUS
  <2> QED
    BY <1>4, <1>5, <2>1 DEF v
<1>7. Trap!Plus(0, sign, v) = sign * v
  <2>1. v \in Int /\ 0 # Error /\ v # Error
    BY NoError DEF v
  <2>2. Trap!Plus(0, sign, v) = 0 + sign * v
    BY <2>1 DEF Trap!Plus
  <2>3. sign * v \in Int
    BY <2>1
  <2> QED
    BY <2>2, <2>3
<1> QED
  BY <1>2, <1>5, <1>6, <1>7 DEF v

\* What a term is read as: a numeral, a literal of one character, or nothing.
LEMMA ParseIs ==
  ASSUME NEW term
  PROVE  Trap!parse_number(term) =
           IF Len(term) = 1 /\ term[1] \in DOMAIN Numeral THEN {Numeral[term[1]]}
           ELSE IF Len(term) >= 3 /\ Trap!IsQuoted(term, Tick) THEN {Trap!Character(Trap!unescape(Trap!Body(term)))}
           ELSE {}
  BY Zenon DEF Trap!parse_number, Tick

\* Numerals and names.
LEMMA PlainValues ==
  ASSUME NEW w, IsSeq(w), NEW known
  PROVE  /\ Len(w) = 1 /\ w[1] \in DOMAIN Numeral => Trap!Value(w, known) = Numeral[w[1]]
         /\ Len(w) > 0 /\ w[1] # Tick /\ ~(Len(w) = 1 /\ w[1] \in DOMAIN Numeral) /\ upper(w) \in DOMAIN known =>
              Trap!Value(w, known) = known[upper(w)]
<1>1. ASSUME Len(w) = 1, w[1] \in DOMAIN Numeral PROVE Trap!Value(w, known) = Numeral[w[1]]
  <2>1. Trap!parse_number(w) = {Numeral[w[1]]}
    BY <1>1, ParseIs
  <2>2. Trap!Value(w, known) = CHOOSE n \in {Numeral[w[1]]} : TRUE
    BY <2>1 DEF Trap!Value, Trap!Resolve
  <2> QED
    BY <2>2
<1>2. ASSUME Len(w) > 0, w[1] # Tick, ~(Len(w) = 1 /\ w[1] \in DOMAIN Numeral), upper(w) \in DOMAIN known
      PROVE  Trap!Value(w, known) = known[upper(w)]
  <2>1. Head(w) = w[1]
    BY SeqOfOwn
  <2>2. ~Trap!IsQuoted(w, Tick)
    BY <1>2, <2>1 DEF Trap!IsQuoted
  <2>3. Trap!parse_number(w) = {}
    BY <1>2, <2>2, ParseIs
  <2>4. Trap!upper(w) = upper(w)
    BY TrapText
  <2> QED
    BY <1>2, <2>3, <2>4 DEF Trap!Value, Trap!Resolve
<1> QED
  BY <1>1, <1>2

\* The text of a literal is its character.
LEMMA LiteralValue ==
  ASSUME ErrorIsAlone, NEW w, IsSeq(w), IsLiteral(w), w[2] \in DOMAIN ord, NEW known
  PROVE  Trap!Value(w, known) = ord[w[2]]
<1> DEFINE x == w[2]
           body == Trap!Body(w)
<1>1. Len(w) = 3 /\ w[1] = Tick /\ w[3] = Tick /\ x # Tick /\ x # Backslash
  BY WordForms
<1>2. IsSeq(body) /\ Len(body) = 1 /\ body[1] = x
  <2>1. body = SubSeq(w, 2, 2)
    BY <1>1 DEF Trap!Body
  <2> HIDE DEF body
  <2>2. IsSeq(SubSeq(w, 2, 2)) /\ Len(SubSeq(w, 2, 2)) = 1 /\ SubSeq(w, 2, 2)[1] = w[2]
    BY Part
  <2> QED
    BY <2>1, <2>2
<1> HIDE DEF body, x
<1>3. Trap!unescape(body) = <<x>>
  <2>1. PICK f : /\ f[0] = Unread /\ f[1] = Raw(body)
                 /\ \A k \in 1 .. 1 : f[k] = Trap!UnescapeStep(f[k - 1], body[k])
    BY <1>2, UnescapeRuns
  <2>2. f[1] = Trap!UnescapeStep(Unread, x)
    <3>1. 1 \in 1 .. 1 /\ 1 - 1 = 0
      OBVIOUS
    <3> QED
      BY <1>2, <2>1, <3>1
  <2>3. Unread # Error
    <3> DEFINE u == Unread
    <3>1. u = [i \in DOMAIN u |-> u[i]]
      BY DEF Unread
    <3> HIDE DEF u
    <3> QED
      BY <3>1 DEF ErrorIsAlone, u
  <2>4. Trap!UnescapeStep(Unread, x) = [escape |-> FALSE, out |-> Append(<<>>, x)]
    <3>1. Trap!Backslash = Backslash
      BY DEF Trap!Backslash, Backslash
    <3> QED
      BY <1>1, <2>3, <3>1 DEF Trap!UnescapeStep, Unread
  <2>5. Append(<<>>, x) = <<x>>
    OBVIOUS
  <2>6. Raw(body) = [escape |-> FALSE, out |-> <<x>>]
    BY <2>1, <2>2, <2>4, <2>5
  <2>7. Trap!unescape(body) = Trap!Unescaped(Raw(body))
    BY Zenon DEF Trap!unescape, Raw, Unread
  <2>8. [escape |-> FALSE, out |-> <<x>>] # Error
    <3> DEFINE u == [escape |-> FALSE, out |-> <<x>>]
    <3>1. u = [i \in DOMAIN u |-> u[i]]
      OBVIOUS
    <3> HIDE DEF u
    <3>2. u # Error
      BY <3>1 DEF ErrorIsAlone
    <3> QED
      BY <3>2 DEF u
  <2> QED
    BY <2>6, <2>7, <2>8 DEF Trap!Unescaped
<1>4. Trap!Character(<<x>>) = ord[x]
  <2> DEFINE one == <<x>>
  <2>1. IsSeq(one) /\ Len(one) = 1 /\ one[1] = x
    BY One
  <2> HIDE DEF one
  <2>2. one # Error
    BY <2>1, NoError
  <2>3. Trap!Character(one) = ord[x]
    BY <2>1, <2>2 DEF Trap!Character, x
  <2> QED
    BY <2>3 DEF one
<1>5. Trap!IsQuoted(w, Tick)
  BY <1>1, SeqOfOwn DEF Trap!IsQuoted, Trap!Last
<1>6. Trap!parse_number(w) = {ord[x]}
  BY <1>1, <1>3, <1>4, <1>5, ParseIs DEF body
<1>7. Trap!Value(w, known) = CHOOSE n \in {ord[x]} : TRUE
  BY <1>6 DEF Trap!Value, Trap!Resolve
<1> QED
  BY <1>7 DEF x

\* A sequence with one element more, and a term with one token more.
More(t, s, a) == t = Append(s, a)

\* Such a sequence has the elements of the first, and one more.
LEMMA Appends ==
  ASSUME NEW s, IsSeq(s), NEW a, NEW t, More(t, s, a)
  PROVE  /\ IsSeq(t) /\ Len(t) = Len(s) + 1
         /\ \A i \in 1 .. Len(s) : t[i] = s[i]
         /\ t[Len(s) + 1] = a
<1>1. /\ IsSeq(Append(s, a)) /\ Len(Append(s, a)) = Len(s) + 1
      /\ \A i \in 1 .. Len(s) : Append(s, a)[i] = s[i]
      /\ Append(s, a)[Len(s) + 1] = a
  BY Appended
<1>2. t = Append(s, a)
  BY DEF More
<1> QED
  BY <1>1, <1>2, Zenon

\* A character that is none of the marks goes to the term.
LEMMA TermGrows ==
  ASSUME NEW current, NEW sign, NEW c, c # Tick, c # Positive, c # Negative, NEW next, next = Append(current, c)
  PROVE  Trap!TermStep(Reading(current, sign, FALSE), c) = Reading(next, sign, FALSE)
  BY TermSteps

\* What the original reads a word as.
LEMMA NumberIs ==
  ASSUME NEW w
  PROVE  LET signed == Len(w) = 2 /\ w[1] \in {Positive, Negative} /\ w[2] \in Decimal
         IN number(w) = CASE Len(w) = 1 /\ w[1] \in DOMAIN Numeral -> Numeral[w[1]]
                          [] Len(w) = 3 /\ w[1] = Tick /\ w[3] = Tick /\ w[2] \in DOMAIN ord -> ord[w[2]]
                          [] signed -> IF w[1] = Negative THEN -Numeral[w[2]] ELSE Numeral[w[2]]
                          [] OTHER -> Error
  BY Zenon DEF number, Tick, Positive, Negative

\* A numeral is none of the marks.
LEMMA NumeralsAreWords ==
  ASSUME NEW t \in DOMAIN Numeral
  PROVE  t # Tick /\ t # Positive /\ t # Negative /\ t # Gap
<1>1. Tick \in Marks /\ Positive \in Marks /\ Negative \in Marks /\ Gap \in Marks
  BY NamesAreMarks, Zenon DEF Positive, Negative
<1> HIDE DEF Tick, Positive, Negative, Gap, Marks
<1> QED
  BY <1>1, MarksAssumption

\* A literal is read as one term,
LEMMA ReadsLiteral ==
  ASSUME NEW w, IsSeq(w), IsLiteral(w)
  PROVE  Read(w) = Reading(w, 1, FALSE)
<1>1. Len(w) = 3 /\ w[1] = Tick /\ w[3] = Tick /\ w[2] # Tick /\ w[2] # Backslash
  BY WordForms
<1>2. PICK f : /\ f[0] = Trap!NoTerms /\ f[3] = Read(w)
               /\ \A k \in 1 .. 3 : f[k] = Trap!TermStep(f[k - 1], w[k])
  BY <1>1, TermsRun
<1>3. f[0] = Reading(<<>>, 1, FALSE)
  BY <1>2 DEF Trap!NoTerms, Reading
<1>4. f[1] = Trap!TermStep(f[0], Tick) /\ f[2] = Trap!TermStep(f[1], w[2]) /\ f[3] = Trap!TermStep(f[2], Tick)
  <2>1. /\ 1 \in 1 .. 3 /\ 2 \in 1 .. 3 /\ 3 \in 1 .. 3
        /\ 1 - 1 = 0 /\ 2 - 1 = 1 /\ 3 - 1 = 2
    OBVIOUS
  <2> QED
    BY <1>1, <1>2, <2>1
<1> DEFINE x == w[2]
           a == Append(<<>>, Tick)
           b == Append(a, x)
           c == Append(b, Tick)
<1>12. x \notin {Tick, Backslash} /\ f[2] = Trap!TermStep(f[1], x)
  BY <1>1, <1>4
<1> HIDE DEF x
<1>5. f[1] = Reading(a, 1, TRUE)
  BY <1>3, <1>4, TermSteps
<1>8. IsSeq(a) /\ Len(a) = 1 /\ a[1] = Tick
  <2>1. IsSeq(<<>>) /\ Len(<<>>) = 0
    BY Empty
  <2>2. IsSeq(a) /\ Len(a) = Len(<<>>) + 1 /\ a[Len(<<>>) + 1] = Tick
    BY <2>1, Appended
  <2> QED
    BY <2>1, <2>2
<1> HIDE DEF a
<1>6. f[2] = Reading(b, 1, TRUE)
  <2>1. Trap!TermStep(Reading(a, 1, TRUE), x) = Reading(b, 1, TRUE)
    <3>1. \A current, sign, y : y \notin {Tick, Backslash} =>
            Trap!TermStep(Reading(current, sign, TRUE), y) = Reading(Append(current, y), sign, TRUE)
      BY TermSteps
    <3> QED
      BY <1>12, <3>1, Zenon
  <2> QED
    BY <1>5, <1>12, <2>1, Zenon
<1>9. IsSeq(b) /\ Len(b) = 2 /\ b[1] = Tick /\ b[2] = w[2]
  <2>1. IsSeq(b) /\ Len(b) = Len(a) + 1 /\ (\A i \in 1 .. Len(a) : b[i] = a[i]) /\ b[Len(a) + 1] = x
    BY <1>8, Appended
  <2> HIDE DEF b
  <2> QED
    BY <1>8, <2>1 DEF x
<1> HIDE DEF b
<1>7. f[3] = Reading(c, 1, FALSE)
  <2>1. Trap!TermStep(Reading(b, 1, TRUE), Tick) = Reading(c, 1, FALSE)
    BY TermSteps
  <2> QED
    BY <1>4, <1>6, <2>1, Zenon
<1>10. IsSeq(c) /\ Len(c) = 3 /\ c[1] = Tick /\ c[2] = w[2] /\ c[3] = Tick
  <2>1. IsSeq(c) /\ Len(c) = Len(b) + 1 /\ (\A i \in 1 .. Len(b) : c[i] = b[i]) /\ c[Len(b) + 1] = Tick
    <3>1. More(c, b, Tick)
      BY DEF More
    <3>2. IsSeq(b)
      BY <1>9
    <3> HIDE DEF c
    <3> QED
      BY <3>1, <3>2, Appends
  <2> HIDE DEF c
  <2> QED
    BY <1>9, <2>1
<1> HIDE DEF c
<1>11. c = w
  <2>1. \A i \in 1 .. 3 : c[i] = w[i]
    BY <1>1, <1>10
  <2> QED
    BY <1>1, <1>10, <2>1, SameSeq
<1> QED
  BY <1>2, <1>7, <1>11

\* and a numeral with a sign as one term with that sign.
LEMMA ReadsSigned ==
  ASSUME NEW w, IsSeq(w), Len(w) = 2, w[1] \in {Positive, Negative}, w[2] \in DOMAIN Numeral
  PROVE  Read(w) = Reading(<<w[2]>>, IF w[1] = Negative THEN -1 ELSE 1, FALSE)
<1> DEFINE s == IF w[1] = Negative THEN -1 ELSE 1
<1>2. PICK f : /\ f[0] = Trap!NoTerms /\ f[2] = Read(w)
               /\ \A k \in 1 .. 2 : f[k] = Trap!TermStep(f[k - 1], w[k])
  BY TermsRun
<1>3. f[0] = Reading(<<>>, 1, FALSE)
  BY <1>2 DEF Trap!NoTerms, Reading
<1>4. f[1] = Trap!TermStep(f[0], w[1]) /\ f[2] = Trap!TermStep(f[1], w[2])
  <2>1. 1 \in 1 .. 2 /\ 2 \in 1 .. 2 /\ 1 - 1 = 0 /\ 2 - 1 = 1
    OBVIOUS
  <2> QED
    BY <1>2, <2>1
<1>5. f[1] = Reading(<<>>, s, FALSE)
  BY <1>3, <1>4, TermSteps
<1> HIDE DEF s
<1>6. f[2] = Reading(Append(<<>>, w[2]), s, FALSE)
  <2>1. w[2] \notin {Tick, Positive, Negative}
    BY NumeralsAreWords
  <2> DEFINE x == w[2]
  <2>2. x \notin {Tick, Positive, Negative} /\ f[2] = Trap!TermStep(f[1], x)
    BY <1>4, <2>1
  <2> HIDE DEF x
  <2> DEFINE next == Append(<<>>, x)
  <2>3. next = Append(<<>>, x)
    OBVIOUS
  <2> HIDE DEF next
  <2>4. Trap!TermStep(Reading(<<>>, s, FALSE), x) = Reading(next, s, FALSE)
    <3> DEFINE none == <<>>
    <3>1. next = Append(none, x)
      BY <2>3
    <3>2. x # Tick /\ x # Positive /\ x # Negative
      BY <2>2
    <3> HIDE DEF none
    <3>3. Trap!TermStep(Reading(none, s, FALSE), x) = Reading(next, s, FALSE)
      BY <3>1, <3>2, TermGrows
    <3> QED
      BY <3>3 DEF none
  <2> QED
    BY <1>5, <2>2, <2>3, <2>4, Zenon DEF x
<1>7. Append(<<>>, w[2]) = <<w[2]>>
  OBVIOUS
<1> QED
  BY <1>2, <1>6, <1>7 DEF s

\* An operand of the original has for TRAPCPU the value it had.
LEMMA Evaluates ==
  ASSUME ErrorIsAlone, NEW w, IsSeq(w), Len(w) > 0, IsPlain(w) \/ IsLiteral(w), \A i \in 1 .. Len(w) : w[i] # Gap,
         NEW known, NEW value \in Int,
         \/ value = number(w)
         \/ upper(w) \in DOMAIN known /\ PortableName(upper(w)) /\ value = known[upper(w)]
  PROVE  Trap!evaluate(w, known) = value
<1>1. Len(w) \in Nat /\ Strip(w) = w /\ w # <<>>
  BY SeqDomain, Bounded, Empty
<1>2. Error \notin Int
  BY DEF ErrorIsAlone
<1>3. ASSUME \A i \in 1 .. Len(w) : w[i] \notin {Tick, Positive, Negative}, Trap!Value(w, known) = value
      PROVE  Trap!evaluate(w, known) = value
  <2>1. Read(w) = Reading(w, 1, FALSE)
    BY <1>3, PlainTerm
  <2>2. Trap!evaluate(w, known) = 1 * value
    BY <1>1, <1>3, <2>1, OneTerm
  <2> QED
    BY <2>2
<1>4. CASE Len(w) = 1 /\ w[1] \in DOMAIN Numeral /\ value = number(w)
  <2>1. value = Numeral[w[1]]
    BY <1>4, NumberIs
  <2>2. Trap!Value(w, known) = value
    BY <1>4, <2>1, PlainValues
  <2>3. \A i \in 1 .. Len(w) : w[i] \notin {Tick, Positive, Negative}
    BY <1>4, NumeralsAreWords
  <2> QED
    BY <1>3, <2>2, <2>3
<1>5. CASE Len(w) = 3 /\ w[1] = Tick /\ w[3] = Tick /\ w[2] \in DOMAIN ord /\ value = number(w)
  <2>1. value = ord[w[2]]
    BY <1>5, NumberIs
  <2>2. IsLiteral(w)
    BY <1>5, WordForms
  <2>3. Trap!Value(w, known) = value
    BY <1>5, <2>1, <2>2, LiteralValue
  <2>4. Read(w) = Reading(w, 1, FALSE)
    BY <2>2, ReadsLiteral
  <2>5. Trap!evaluate(w, known) = 1 * value
    BY <1>1, <2>3, <2>4, OneTerm
  <2> QED
    BY <2>5
<1>6. CASE Len(w) = 2 /\ w[1] \in {Positive, Negative} /\ w[2] \in Decimal /\ value = number(w)
  <2>1. value = IF w[1] = Negative THEN -Numeral[w[2]] ELSE Numeral[w[2]]
    BY <1>6, NumberIs
  <2>2. w[2] \in DOMAIN Numeral /\ Numeral[w[2]] \in Nat
    BY <1>6, NumeralsAssumption
  <2> DEFINE one == <<w[2]>>
             s == IF w[1] = Negative THEN -1 ELSE 1
  <2>3. Read(w) = Reading(one, s, FALSE)
    BY <1>6, <2>2, ReadsSigned
  <2>4. IsSeq(one) /\ Len(one) = 1 /\ one[1] = w[2]
    BY One
  <2>5. s \in {1, -1}
    OBVIOUS
  <2> HIDE DEF one
  <2>6. Trap!Value(one, known) = Numeral[w[2]]
    BY <2>2, <2>4, PlainValues
  <2>7. one # <<>> /\ Strip(one) = one
    <3>1. one[1] # Gap
      BY <2>2, <2>4, NumeralsAreWords
    <3> QED
      BY <2>4, <3>1, Bounded, Empty
  <2>8. Trap!Value(one, known) \in Int
    BY <2>2, <2>6
  <2>9. ASSUME w[1] = Negative PROVE Trap!evaluate(w, known) = value
    <3>1. Read(w) = Reading(one, -1, FALSE)
      BY <2>3, <2>9
    <3>2. Trap!evaluate(w, known) = (-1) * Trap!Value(one, known)
      BY <1>1, <2>7, <2>8, <3>1, OneTerm
    <3> QED
      BY <2>1, <2>2, <2>6, <2>9, <3>2
  <2>10. ASSUME w[1] # Negative PROVE Trap!evaluate(w, known) = value
    <3>1. Read(w) = Reading(one, 1, FALSE)
      BY <2>3, <2>10
    <3>2. Trap!evaluate(w, known) = 1 * Trap!Value(one, known)
      BY <1>1, <2>7, <2>8, <3>1, OneTerm
    <3> QED
      BY <2>1, <2>2, <2>6, <2>10, <3>2
  <2> QED
    BY <2>9, <2>10
<1>7. CASE upper(w) \in DOMAIN known /\ PortableName(upper(w)) /\ value = known[upper(w)]
  <2>1. /\ ~IsNumeral(upper(w))
        /\ \A i \in 1 .. Len(w) : w[i] # Tick /\ w[i] # Positive /\ w[i] # Negative
    <3>1. /\ ~IsNumeral(upper(w))
          /\ \A i \in 1 .. Len(w) : w[i] # Tick /\ w[i] # "+" /\ w[i] # "-"
      BY <1>7, NameForm
    <3> QED
      BY <3>1, Zenon DEF Positive, Negative
  <2>2. ~(Len(w) = 1 /\ w[1] \in DOMAIN Numeral)
    <3> SUFFICES ASSUME Len(w) = 1, w[1] \in DOMAIN Numeral PROVE FALSE
      OBVIOUS
    <3> DEFINE one == <<w[1]>>
    <3>1. IsSeq(one) /\ Len(one) = 1 /\ one[1] = w[1]
      BY One
    <3> HIDE DEF one
    <3>2. w = one
      BY <3>1, SameSeq
    <3> QED
      BY <2>1, <3>2, Zenon DEF IsNumeral, one
  <2>3. w[1] # Tick
    BY <1>1, <2>1
  <2>4. Trap!Value(w, known) = value
    BY <1>7, <2>2, <2>3, PlainValues
  <2> QED
    BY <1>3, <2>1, <2>4
<1>8. value = number(w) => \/ Len(w) = 1 /\ w[1] \in DOMAIN Numeral
                           \/ Len(w) = 3 /\ w[1] = Tick /\ w[3] = Tick /\ w[2] \in DOMAIN ord
                           \/ Len(w) = 2 /\ w[1] \in {Positive, Negative} /\ w[2] \in Decimal
  BY <1>2, NumberIs
<1> QED
  BY <1>4, <1>5, <1>6, <1>7, <1>8

-----------------------------------------------------------------------------
(***************************************************************************)
(* The bytes of a line.                                                    *)
(***************************************************************************)
\* The instructions of the original have the opcodes they had.
LEMMA TrapOpcodes ==
  ASSUME NEW op \in DOMAIN OPS
  PROVE  /\ op \in DOMAIN Trap!OPS /\ Trap!OPS[op] = OPS[op] /\ OPS[op] \in Byte
         /\ op \in Names /\ Trap!width(op) = Size(op) /\ Size(op) \in {1, 2, 3}
         /\ op \in Trap!ARG8_OPS <=> Size(op) = 2
         /\ op \in Trap!ARG16_OPS <=> Size(op) = 3
         /\ op \in ARG8_OPS <=> Size(op) = 2
         /\ op \in ARG16_OPS <=> Size(op) = 3
<1>1. OPS[op] \in 0 .. 33 /\ OPS[op] \in Byte /\ Mnemonics[OPS[op] + 1] = op /\ op \in Names
  BY Opcodes DEF Names
<1>2. \A i \in 1 .. 34, j \in 1 .. 64 : Trap!Mnemonics[i] = Trap!Mnemonics[j] => i = j
  BY SMTT(60) DEF Trap!Mnemonics
<1>3. DOMAIN Trap!Mnemonics = 1 .. 64
  BY DEF Trap!Mnemonics
<1>4. op \in DOMAIN Trap!OPS /\ Trap!OPS[op] = OPS[op]
  <2> DEFINE m == OPS[op] + 1
             j == CHOOSE i \in 1 .. 64 : Trap!Mnemonics[i] = op
  <2>1. m \in 1 .. 34 /\ m \in 1 .. 64 /\ Trap!Mnemonics[m] = op /\ m - 1 = OPS[op]
    BY <1>1, TrapNames
  <2> HIDE DEF m
  <2>2. j \in 1 .. 64 /\ Trap!Mnemonics[j] = op
    BY <2>1
  <2>3. op \in DOMAIN Trap!OPS /\ Trap!OPS[op] = j - 1
    BY <1>3, <2>1 DEF Trap!OPS
  <2> HIDE DEF j
  <2>4. m = j
    BY <1>2, <2>1, <2>2
  <2> QED
    BY <2>1, <2>3, <2>4
<1>5. Trap!width(op) = Size(op)
  BY <1>1, TrapNames
<1>6. /\ op \in Trap!ARG8_OPS <=> Size(op) = 2
      /\ op \in Trap!ARG16_OPS <=> Size(op) = 3
      /\ op \in ARG8_OPS <=> Size(op) = 2
      /\ op \in ARG16_OPS <=> Size(op) = 3
      /\ Size(op) \in {1, 2, 3}
  BY <1>1, NamesAre DEF Size, ARG8_OPS, ARG16_OPS, Trap!ARG8_OPS, Trap!ARG16_OPS
<1> QED
  BY <1>1, <1>4, <1>5, <1>6

\* One piece, and two.
LEMMA FlattenTwo ==
  ASSUME NEW S, NEW a \in Seq(S), NEW b \in Seq(S)
  PROVE  FlattenSeq(<<a>> \o <<b>>) = a \o b
<1> DEFINE aa == <<a>>
           bb == <<b>>
<1>1. aa \in Seq(Seq(S)) /\ bb \in Seq(Seq(S))
  OBVIOUS
<1>2. FlattenSeq(aa) = a /\ FlattenSeq(bb) = b
  BY FlattenOne
<1> HIDE DEF aa, bb
<1>3. FlattenSeq(aa \o bb) = FlattenSeq(aa) \o FlattenSeq(bb)
  BY <1>1, FlattenConcat
<1> QED
  BY <1>2, <1>3 DEF aa, bb

\* Both join pieces alike.
LEMMA TrapFlatten == \A pieces : Trap!FlattenSeq(pieces) = FlattenSeq(pieces)
  BY DEF Trap!FlattenSeq, FlattenSeq

\* One piece and none, or two, joined.
LEMMA TrapJoins ==
  ASSUME ErrorIsAlone, NEW a \in Seq(Byte), NEW b \in Seq(Byte)
  PROVE  Trap!Joined(<<a>> \o <<>>) = a /\ Trap!Joined(<<a>> \o <<b>>) = a \o b
<1>1. a # Error /\ b # Error
  BY SeqIsSeq, NoError
<1>2. Trap!Joined(<<a>> \o <<>>) = a
  <2> DEFINE aa == <<a>>
  <2>1. aa \o <<>> = aa /\ DOMAIN aa = 1 .. 1 /\ aa[1] = a
    OBVIOUS
  <2>2. FlattenSeq(aa) = a
    BY FlattenOne
  <2> HIDE DEF aa
  <2>3. Trap!Joined(aa) = Trap!FlattenSeq(aa)
    BY <1>1, <2>1 DEF Trap!Joined
  <2>4. Trap!Joined(aa \o <<>>) = a
    BY <2>1, <2>2, <2>3, TrapFlatten
  <2> QED
    BY <2>4 DEF aa
<1>3. Trap!Joined(<<a>> \o <<b>>) = a \o b
  <2> DEFINE ab == <<a>> \o <<b>>
  <2>1. DOMAIN ab = 1 .. 2 /\ ab[1] = a /\ ab[2] = b
    OBVIOUS
  <2>2. FlattenSeq(ab) = a \o b
    BY FlattenTwo
  <2> HIDE DEF ab
  <2>3. Trap!Joined(ab) = Trap!FlattenSeq(ab)
    BY <1>1, <2>1 DEF Trap!Joined
  <2>4. Trap!Joined(ab) = a \o b
    BY <2>2, <2>3, TrapFlatten
  <2> QED
    BY <2>4 DEF ab
<1> QED
  BY <1>2, <1>3

\* What TRAPCPU makes of an instruction of the original.
LEMMA TrapEmits ==
  ASSUME ErrorIsAlone, NEW line, NEW op \in DOMAIN OPS, line.op = op, NEW known
  PROVE  /\ Size(op) = 1 /\ line.operands = <<>> => Trap!Emitted(line, known) = <<OPS[op]>>
         /\ \A w, v : line.operands = <<w>> /\ v = Trap!evaluate(w, known) /\ v \in Int =>
              /\ Size(op) = 2 /\ v \in Byte => Trap!Emitted(line, known) = <<OPS[op]>> \o <<v>>
              /\ Size(op) = 3 => Trap!Emitted(line, known) = <<OPS[op]>> \o Bytes16(Wrap(v))
<1> DEFINE value == [i \in DOMAIN line.operands |-> Trap!evaluate(line.operands[i], known)]
           bytes == [i \in DOMAIN value |-> Trap!InByte(value[i])]
           words == [i \in DOMAIN value |-> Trap!InWord(value[i])]
           parts == CASE line.op \in Trap!ARG8_OPS -> bytes
                      [] line.op \in Trap!ARG16_OPS -> words
                      [] OTHER -> <<>>
           code == <<Trap!OPS[line.op]>>
<1>1. /\ op \in DOMAIN Trap!OPS /\ Trap!OPS[op] = OPS[op] /\ OPS[op] \in Byte
      /\ op \in Names /\ Trap!width(op) = Size(op)
      /\ op \in Trap!ARG8_OPS <=> Size(op) = 2
      /\ op \in Trap!ARG16_OPS <=> Size(op) = 3
  BY TrapOpcodes
<1>2. op \notin {".DB", ".DW", ".ASCII", ".ASCIIZ", ".RESB"}
  BY <1>1, NamesAre
<1>3. Trap!Emitted(line, known) =
        IF Len(line.operands) # (IF Trap!width(op) = 1 THEN 0 ELSE 1) THEN Error
        ELSE Trap!Joined(<<code>> \o parts)
  <2> HIDE DEF value, bytes, words, parts, code
  <2>1. Trap!Emitted(line, known) =
          CASE line.op = ".DB" -> Trap!Joined(bytes)
            [] line.op = ".DW" -> Trap!Joined(words)
            [] line.op = ".ASCII" -> Trap!StringBytes(line.operands)
            [] line.op = ".ASCIIZ" -> Append(Trap!StringBytes(line.operands), 0)
            [] line.op = ".RESB" -> <<>>
            [] line.op \in DOMAIN Trap!OPS ->
                 IF Len(line.operands) # (IF Trap!width(line.op) = 1 THEN 0 ELSE 1) THEN Error
                 ELSE Trap!Joined(<<code>> \o parts)
    BY Zenon DEF Trap!Emitted, value, bytes, words, parts, code
  <2> QED
    BY <1>1, <1>2, <2>1
<1>4. code \in Seq(Byte) /\ code = <<OPS[op]>>
  BY <1>1
<1> HIDE DEF code
<1>5. Size(op) = 1 /\ line.operands = <<>> => Trap!Emitted(line, known) = <<OPS[op]>>
  <2> SUFFICES ASSUME Size(op) = 1, line.operands = <<>> PROVE Trap!Emitted(line, known) = <<OPS[op]>>
    OBVIOUS
  <2>1. parts = <<>>
    BY <1>1
  <2>2. Len(line.operands) = 0
    BY Empty
  <2> HIDE DEF parts
  <2>3. Trap!Emitted(line, known) = Trap!Joined(<<code>> \o <<>>)
    BY <1>1, <1>3, <2>1, <2>2
  <2> QED
    BY <1>4, <2>3, TrapJoins
<1>6. ASSUME NEW w, NEW v, line.operands = <<w>>, v = Trap!evaluate(w, known), v \in Int
      PROVE  /\ Size(op) = 2 /\ v \in Byte => Trap!Emitted(line, known) = <<OPS[op]>> \o <<v>>
             /\ Size(op) = 3 => Trap!Emitted(line, known) = <<OPS[op]>> \o Bytes16(Wrap(v))
  <2>1. Len(line.operands) = 1 /\ DOMAIN line.operands = 1 .. 1 /\ line.operands[1] = w
    BY <1>6
  <2>2. DOMAIN value = 1 .. 1 /\ value[1] = v
    BY <1>6, <2>1
  <2>3. v # Error
    BY <1>6 DEF ErrorIsAlone
  <2>4. ASSUME Size(op) = 2, v \in Byte PROVE Trap!Emitted(line, known) = <<OPS[op]>> \o <<v>>
    <3> DEFINE one == <<v>>
    <3>1. Trap!InByte(v) = one
      BY <2>3, <2>4 DEF Trap!InByte, Trap!Byte, Byte
    <3> HIDE DEF value, one
    <3>2. bytes = [i \in 1 .. 1 |-> bytes[i]] /\ bytes[1] = one
      BY <2>2, <3>1
    <3> HIDE DEF bytes
    <3>3. bytes = <<one>>
      BY <3>2
    <3>4. parts = <<one>>
      BY <1>1, <2>4, <3>3
    <3> HIDE DEF parts
    <3>5. Trap!Emitted(line, known) = Trap!Joined(<<code>> \o <<one>>)
      BY <1>1, <1>3, <2>1, <2>4, <3>4
    <3>6. one \in Seq(Byte)
      BY <2>4 DEF one
    <3> QED
      BY <1>4, <3>5, <3>6, TrapJoins DEF one
  <2>5. ASSUME Size(op) = 3 PROVE Trap!Emitted(line, known) = <<OPS[op]>> \o Bytes16(Wrap(v))
    <3> DEFINE two == Bytes16(Wrap(v))
    <3>1. Trap!InWord(v) = two
      BY <2>3 DEF Trap!InWord, Trap!Bytes16, Trap!Low, Trap!High, Trap!WordSize, Bytes16, Low, High,
         WordSize, Wrap
    <3>6. two \in Seq(Byte)
      <4>1. Wrap(v) \in Int
        BY <1>6, BytesOfWords, WordRange
      <4>2. Low(Wrap(v)) \in Byte /\ High(Wrap(v)) \in Byte
        BY <4>1, BytesOfWords
      <4> QED
        BY <4>2 DEF Bytes16
    <3> HIDE DEF value, two
    <3>2. words = [i \in 1 .. 1 |-> words[i]] /\ words[1] = two
      BY <2>2, <3>1
    <3> HIDE DEF words
    <3>3. words = <<two>>
      BY <3>2
    <3>4. parts = <<two>>
      BY <1>1, <2>5, <3>3
    <3> HIDE DEF parts
    <3>5. Trap!Emitted(line, known) = Trap!Joined(<<code>> \o <<two>>)
      BY <1>1, <1>3, <2>1, <2>5, <3>4
    <3> QED
      BY <1>4, <3>5, <3>6, TrapJoins DEF two
  <2> QED
    BY <2>4, <2>5
<1> HIDE DEF parts, value
<1> QED
  BY <1>5, <1>6

\* A byte is its own low byte.
LEMMA LowOfByte == \A b \in Byte : Low(b) = b
  BY DEF Low, Byte

\* One item after another.
LEMMA TwoInARow == ASSUME NEW a, NEW b PROVE <<a>> \o <<b>> = <<a, b>>
<1> DEFINE x == <<a>> \o <<b>>
           y == <<a, b>>
<1>1. x = [i \in 1 .. 2 |-> x[i]] /\ x[1] = a /\ x[2] = b
  OBVIOUS
<1>2. y = [i \in 1 .. 2 |-> y[i]] /\ y[1] = a /\ y[2] = b
  OBVIOUS
<1> HIDE DEF x, y
<1>3. x = y
  BY <1>1, <1>2
<1> QED
  BY <1>3 DEF x, y

\* Both assemblers make the same bytes of a line.
LEMMA EmittedAlike ==
  ASSUME ErrorIsAlone, NEW rest, IsSeq(rest), Len(rest) > 0, rest[1] # Gap, rest[Len(rest)] # Gap,
         PortableLine(rest),
         NEW labels, \A l \in DOMAIN labels : labels[l] \in Nat /\ PortableName(l),
         NEW known, DOMAIN known = DOMAIN labels, \A l \in DOMAIN labels : known[l] = labels[l],
         Emitted(rest, labels) # Error,
         NEW line, line.op = OpOf(rest), line.operands = Given(rest)
  PROVE  Trap!Emitted(line, known) = Emitted(rest, labels)
<1> DEFINE op == Operation(Words(rest))
           w == Words(rest)[2]
           v == Argument(op, Words(rest), labels)
<1>0. rest # <<>>
  BY Empty
<1>1. Unlabelled(rest) = rest
  BY LineForm, Colons
<1>2. Emitted(rest, labels) = Encoded(op, v)
  BY <1>0, <1>1 DEF Emitted, Instruction
<1> HIDE DEF v, w
<1>3. op # Error
  BY <1>2 DEF Encoded
<1>4. op \in DOMAIN OPS
  BY <1>3, LineParts
<1>5. line.op = op
  BY <1>0 DEF OpOf
<1>6. /\ Size(op) \in {1, 2, 3} /\ OPS[op] \in Byte
      /\ op \in ARG8_OPS <=> Size(op) = 2
      /\ op \in ARG16_OPS <=> Size(op) = 3
  BY <1>4, TrapOpcodes
<1>7. ASSUME Size(op) = 1 PROVE Trap!Emitted(line, known) = Emitted(rest, labels)
  <2>1. line.operands = <<>>
    BY <1>7 DEF Given
  <2>2. Encoded(op, v) = <<OPS[op]>>
    BY <1>3, <1>7 DEF Encoded
  <2> HIDE DEF op
  <2> QED
    BY <1>2, <1>4, <1>5, <1>7, <2>1, <2>2, TrapEmits
<1>8. ASSUME Size(op) # 1 PROVE Trap!Emitted(line, known) = Emitted(rest, labels)
  <2>1. line.operands = <<w>>
    BY <1>0, <1>8 DEF Given, w
  <2>2. /\ Len(Words(rest)) = 2
        /\ \E q \in 3 .. Len(rest) : WithOperand(rest, op, q) /\ w = SubSeq(rest, q, Len(rest))
        /\ IsPlain(w) \/ IsLiteral(w)
    BY <1>3, <1>8, LineParts DEF w
  <2>3. PICK q \in 3 .. Len(rest) : WithOperand(rest, op, q) /\ w = SubSeq(rest, q, Len(rest))
    BY <2>2
  <2>4. Len(rest) \in Nat /\ DOMAIN rest = 1 .. Len(rest)
    BY SeqDomain
  <2>5. /\ IsSeq(w) /\ Len(w) > 0 /\ \A i \in 1 .. Len(w) : w[i] # Gap
    <3>1. \A i \in q .. Len(rest) : rest[i] # Gap
      BY <2>3 DEF WithOperand
    <3>2. Len(w) = Len(rest) - q + 1 /\ \A i \in 1 .. Len(w) : w[i] = rest[q + i - 1]
      BY <2>3, <2>4
    <3>3. w = [i \in 1 .. Len(w) |-> w[i]] /\ Len(w) \in Nat
      BY <2>3, <2>4
    <3> QED
      BY <2>4, <3>1, <3>2, <3>3 DEF IsSeq
  <2>6. v # Error /\ v \in Int
    <3>1. v # Error
      BY <1>2, <1>3, <1>6, <1>8 DEF Encoded
    <3> QED
      BY <3>1, Arguments DEF v
  <2>7. \/ v = number(w)
        \/ Size(op) = 3 /\ upper(w) \in DOMAIN labels /\ v = labels[upper(w)]
    BY <1>6, <2>2 DEF Argument, v, w
  <2>8. Trap!evaluate(w, known) = v
    <3>1. \/ v = number(w)
          \/ upper(w) \in DOMAIN known /\ PortableName(upper(w)) /\ v = known[upper(w)]
      BY <2>7
    <3> QED
      BY <2>2, <2>5, <2>6, <3>1, Evaluates
  <2>11. /\ Size(op) = 2 /\ v \in Byte => Trap!Emitted(line, known) = <<OPS[op]>> \o <<v>>
         /\ Size(op) = 3 => Trap!Emitted(line, known) = <<OPS[op]>> \o Bytes16(Wrap(v))
    <3> HIDE DEF op
    <3>1. \A x, y : line.operands = <<x>> /\ y = Trap!evaluate(x, known) /\ y \in Int =>
              /\ Size(op) = 2 /\ y \in Byte => Trap!Emitted(line, known) = <<OPS[op]>> \o <<y>>
              /\ Size(op) = 3 => Trap!Emitted(line, known) = <<OPS[op]>> \o Bytes16(Wrap(y))
      BY <1>4, <1>5, TrapEmits, SMTT(30)
    <3> QED
      BY <2>1, <2>6, <2>8, <3>1, Zenon
  <2>9. ASSUME Size(op) = 2 PROVE Trap!Emitted(line, known) = Emitted(rest, labels)
    <3>0. number(w) \in Byte
      BY <1>6, <2>9, LineForm DEF w
    <3>1. v = number(w) /\ v \in Byte
      <4>1. Size(op) # 3
        BY <2>9
      <4> QED
        BY <2>7, <3>0, <4>1, Zenon
    <3>2. Low(v) = v
      BY <3>1, LowOfByte
    <3>3. Encoded(op, v) = <<OPS[op], v>>
      <4> HIDE DEF op
      <4>1. Size(op) > 1 /\ Size(op) # 1 /\ Size(op) # 3
        BY <2>9
      <4> QED
        BY <1>3, <2>6, <2>9, <3>2, <4>1, Zenon DEF Encoded
    <3>4. <<OPS[op]>> \o <<v>> = <<OPS[op], v>>
      BY TwoInARow
    <3>5. Trap!Emitted(line, known) = <<OPS[op]>> \o <<v>>
      BY <2>9, <2>11, <3>1
    <3> QED
      BY <1>2, <3>3, <3>4, <3>5
  <2>10. ASSUME Size(op) = 3 PROVE Trap!Emitted(line, known) = Emitted(rest, labels)
    <3>1. Encoded(op, v) = <<OPS[op]>> \o Bytes16(Wrap(v))
      BY <1>3, <2>6, <2>10 DEF Encoded
    <3>2. Trap!Emitted(line, known) = <<OPS[op]>> \o Bytes16(Wrap(v))
      BY <2>10, <2>11
    <3> QED
      BY <1>2, <3>1, <3>2
  <2> QED
    BY <1>6, <1>8, <2>9, <2>10
<1> QED
  BY <1>7, <1>8

-----------------------------------------------------------------------------
(***************************************************************************)
(* Includes, symbols, and the lines one after the other.                   *)
(***************************************************************************)
\* Where every round leaves the lines as they are, so do all of them.
LEMMA RoundsStay ==
  ASSUME NEW units, Trap!AllSpread(units) = units, NEW lines, Trap!Units(lines, {}) = units
  PROVE  LET Round[n \in 0 .. Trap!MAX_INCLUDE_DEPTH] ==
               IF n = 0 THEN Trap!Units(lines, {}) ELSE Trap!AllSpread(Round[n - 1])
         IN Round[Trap!MAX_INCLUDE_DEPTH] = units
<1> DEFINE first == Trap!Units(lines, {})
           d == Trap!MAX_INCLUDE_DEPTH
           On(f, n) == IF n = 0 THEN first ELSE Trap!AllSpread(f[n - 1])
           Runs(f) == f = [n \in 0 .. d |-> On(f, n)]
           c == [n \in 0 .. d |-> units]
           p == CHOOSE f : Runs(f)
<1>0. d = 8 /\ first = units
  BY DEF Trap!MAX_INCLUDE_DEPTH
<1> HIDE DEF first
<1>1. Runs(c)
  <2>1. \A n \in 0 .. d : On(c, n) = units
    <3>1. \A n \in 0 .. d : n = 0 \/ n - 1 \in 0 .. d
      BY <1>0
    <3>2. \A n \in 0 .. d : n # 0 => c[n - 1] = units
      BY <3>1
    <3> HIDE DEF c
    <3> QED
      BY <1>0, <3>2
  <2> HIDE DEF On
  <2> QED
    BY <2>1
<1>2. Runs(p)
  <2> HIDE DEF Runs, c
  <2> QED
    BY <1>1, Zenon
<1> HIDE DEF p, c
<1>3. p[0] = units /\ \A n \in 1 .. 8 : p[n] = Trap!AllSpread(p[n - 1])
  <2>1. \A n \in 0 .. 8 : p[n] = On(p, n)
    BY <1>0, <1>2
  <2> QED
    BY <1>0, <2>1
<1> DEFINE S == {n \in 0 .. 8 : p[n] = units}
<1>4. \A n \in 0 .. 8 : n \in S
  <2>1. 0 \in S
    BY <1>3
  <2>2. \A n \in 0 .. 8 - 1 : n \in S => n + 1 \in S
    BY <1>3
  <2> HIDE DEF S
  <2> QED
    BY <2>1, <2>2, Induction
<1>5. p[d] = units
  BY <1>0, <1>4
<1> QED
  BY <1>5, Zenon DEF p, first

\* The texts of the original include nothing.
LEMMA NothingSpreads ==
  ASSUME ErrorIsAlone, NEW S, NEW text \in Seq(S), \A i \in 1 .. Len(text) : Readable(text[i])
  PROVE  LET units == Trap!Units(text, {})
         IN /\ units = [i \in 1 .. Len(text) |-> [line |-> text[i], stack |-> {}]]
            /\ Len(units) = Len(text) /\ ~Trap!Contains(units, Error)
            /\ Trap!AllSpread(units) = units
            /\ \A i \in 1 .. Len(text) : ~Trap!IsInclude(units[i])
<1> DEFINE units == Trap!Units(text, {})
           unit(i) == [line |-> text[i], stack |-> {}]
           n == Len(text)
<1>1. n \in Nat /\ DOMAIN text = 1 .. n
  OBVIOUS
<1>2. units = [i \in 1 .. n |-> unit(i)]
  BY <1>1 DEF Trap!Units
<1>3. \A i \in 1 .. n : unit(i).line = text[i] /\ unit(i) # Error
  <2> TAKE i \in 1 .. n
  <2>1. unit(i) = [x \in DOMAIN unit(i) |-> unit(i)[x]]
    OBVIOUS
  <2> DEFINE u == unit(i)
  <2>2. u = [x \in DOMAIN u |-> u[x]] /\ u.line = text[i]
    BY <2>1
  <2> HIDE DEF u
  <2>3. u # Error
    BY <2>2 DEF ErrorIsAlone
  <2> QED
    BY <2>2, <2>3 DEF u
<1> HIDE DEF unit
<1>4. Len(units) = n /\ \A i \in 1 .. n : units[i] = unit(i)
  <2>1. units \in [1 .. n -> {unit(i) : i \in 1 .. n}]
    BY <1>2
  <2> QED
    BY <1>1, <1>2, <2>1
<1> HIDE DEF units
<1>5. ~Trap!Contains(units, Error)
  BY <1>3, <1>4 DEF Trap!Contains
<1>6. \A i \in 1 .. n : ~Trap!IsInclude(units[i])
  BY <1>3, <1>4, IncludesNothing
<1>7. Trap!AllSpread(units) = units
  <2>1. DOMAIN units = 1 .. n
    BY <1>2
  <2>2. \A i \in 1 .. n : Trap!Spread(units[i]) = <<unit(i)>>
    BY <1>4, <1>6 DEF Trap!Spread
  <2>3. Trap!AllSpread(units) = FlattenSeq([i \in 1 .. n |-> Trap!Spread(units[i])])
    BY <1>5, <2>1, TrapFlatten DEF Trap!AllSpread
  <2>4. [i \in 1 .. n |-> Trap!Spread(units[i])] = [i \in 1 .. n |-> <<unit(i)>>]
    BY <2>2
  <2> DEFINE A == {unit(i) : i \in 1 .. n}
             x == [i \in 1 .. n |-> unit(i)]
  <2>5. x \in [1 .. n -> A] /\ \A i \in 1 .. n : x[i] = unit(i)
    OBVIOUS
  <2> HIDE DEF A, x
  <2>6. FlattenSeq([i \in 1 .. n |-> <<x[i]>>]) = x
    BY <1>1, <2>5, FlattenSingles
  <2>7. [i \in 1 .. n |-> <<x[i]>>] = [i \in 1 .. n |-> <<unit(i)>>]
    BY <2>5
  <2> QED
    BY <1>2, <2>3, <2>4, <2>6, <2>7 DEF x
<1> QED
  BY <1>2, <1>4, <1>5, <1>6, <1>7 DEF unit, units

\* So they are read as they stand.
LEMMA NothingIncluded ==
  ASSUME ErrorIsAlone, NEW S, NEW text \in Seq(S), \A i \in 1 .. Len(text) : Readable(text[i])
  PROVE  Trap!expand_includes(text) = text
<1> DEFINE units == Trap!Units(text, {})
<1>1. /\ units = [i \in 1 .. Len(text) |-> [line |-> text[i], stack |-> {}]]
      /\ Len(units) = Len(text) /\ ~Trap!Contains(units, Error)
      /\ Trap!AllSpread(units) = units
      /\ \A i \in 1 .. Len(text) : ~Trap!IsInclude(units[i])
  BY NothingSpreads
<1> HIDE DEF units
<1>2. DOMAIN units = 1 .. Len(text) /\ \A i \in 1 .. Len(text) : units[i].line = text[i]
  BY <1>1
<1> DEFINE all == LET Round[n \in 0 .. Trap!MAX_INCLUDE_DEPTH] ==
                        IF n = 0 THEN Trap!Units(text, {}) ELSE Trap!AllSpread(Round[n - 1])
                  IN Round[Trap!MAX_INCLUDE_DEPTH]
<1>3. all = units
  BY <1>1, RoundsStay DEF units
<1>4. Trap!expand_includes(text) =
        IF Trap!Contains(all, Error) THEN Error
        ELSE IF \E i \in DOMAIN all : Trap!IsInclude(all[i]) THEN Error
        ELSE [i \in DOMAIN all |-> all[i].line]
  BY Zenon DEF Trap!expand_includes
<1> HIDE DEF all
<1>5. Trap!expand_includes(text) = [i \in 1 .. Len(text) |-> units[i].line]
  BY <1>1, <1>2, <1>3, <1>4
<1>6. [i \in 1 .. Len(text) |-> units[i].line] = [i \in 1 .. Len(text) |-> text[i]]
  BY <1>2
<1> QED
  BY <1>5, <1>6

\* The symbols of a program of the original.
Symbols(labels) == [l \in DOMAIN labels |-> Trap!Number(labels[l])]

\* A round finds nothing more where nothing is open.
LEMMA NothingOpen ==
  ASSUME NEW values, values = [l \in DOMAIN values |-> values[l]], NEW open, DOMAIN open = {}
  PROVE  Trap!Beyond(values, Trap!Defined(open)) = values
<1> DEFINE none == Trap!Defined(open)
<1>1. DOMAIN none = {}
  BY DEF Trap!Defined
<1> HIDE DEF none
<1>2. Trap!Beyond(values, none) = [name \in DOMAIN values |-> values[name]]
  BY <1>1 DEF Trap!Beyond
<1> QED
  BY <1>2 DEF none

\* The values of labels are what they stand for.
LEMMA ValuesAre ==
  ASSUME NEW labels, IsFiniteSet(DOMAIN labels)
  PROVE  Trap!Values(Symbols(labels)) = [l \in DOMAIN labels |-> labels[l]]
<1> DEFINE symbols == Symbols(labels)
           values == [l \in DOMAIN labels |-> labels[l]]
           first == [name \in {s \in DOMAIN symbols : ~symbols[s].deferred} |-> symbols[name].is]
           Open(known) == [s \in DOMAIN symbols \ DOMAIN known |-> Trap!evaluate(symbols[s].is, known)]
           Later(known) == Trap!Beyond(known, Trap!Defined(Open(known)))
           d == Trap!Cardinality(DOMAIN symbols)
           On(f, n) == IF n = 0 THEN first ELSE Later(f[n - 1])
           Runs(f) == f = [n \in 0 .. d |-> On(f, n)]
           c == [n \in 0 .. d |-> values]
           p == CHOOSE f : Runs(f)
<1>1. DOMAIN symbols = DOMAIN labels /\ \A l \in DOMAIN labels : ~symbols[l].deferred /\ symbols[l].is = labels[l]
  BY DEF Symbols, Trap!Number
<1>2. first = values
  <2> HIDE DEF symbols
  <2>1. {s \in DOMAIN symbols : ~symbols[s].deferred} = DOMAIN labels
    BY <1>1
  <2> QED
    BY <1>1, <2>1
<1>3. d \in Nat
  BY <1>1, TrapCounts, FS_CardinalityType
<1>4. DOMAIN symbols = DOMAIN values /\ values = [l \in DOMAIN values |-> values[l]]
  BY <1>1
<1> HIDE DEF values, first, symbols
<1>5. Later(values) = values
  <2> DEFINE open == Open(values)
  <2>1. DOMAIN open = {}
    BY <1>4
  <2> HIDE DEF open
  <2>2. Trap!Beyond(values, Trap!Defined(open)) = values
    BY <1>4, <2>1, NothingOpen
  <2> QED
    BY <2>2 DEF open
<1>6. Trap!Values(symbols) = p[d]
  BY Zenon DEF Trap!Values, first
<1> HIDE DEF Later, d
<1>7. Runs(c)
  <2>1. \A n \in 0 .. d : On(c, n) = values
    <3>1. \A n \in 0 .. d : n = 0 \/ n - 1 \in 0 .. d
      BY <1>3
    <3>2. \A n \in 0 .. d : n # 0 => c[n - 1] = values
      BY <3>1
    <3> HIDE DEF c
    <3> QED
      BY <1>2, <1>5, <3>2
  <2> HIDE DEF On
  <2> QED
    BY <2>1
<1>8. Runs(p)
  <2> HIDE DEF Runs, c
  <2> QED
    BY <1>7, Zenon
<1> HIDE DEF p, c
<1>9. p[0] = values /\ \A n \in 1 .. d : p[n] = Later(p[n - 1])
  <2>1. \A n \in 0 .. d : p[n] = On(p, n)
    BY <1>3, <1>8
  <2> QED
    BY <1>2, <1>3, <2>1
<1> DEFINE S == {n \in 0 .. d : p[n] = values}
<1>10. \A n \in 0 .. d : n \in S
  <2>1. 0 \in S
    BY <1>3, <1>9
  <2>2. ASSUME NEW n \in 0 .. d - 1, n \in S PROVE n + 1 \in S
    <3>1. n + 1 \in 0 .. d /\ n + 1 \in 1 .. d /\ (n + 1) - 1 = n /\ p[n] = values
      BY <1>3, <2>2
    <3>2. p[n + 1] = Later(p[n])
      BY <1>9, <3>1
    <3> QED
      BY <1>5, <3>1, <3>2
  <2> HIDE DEF S
  <2> QED
    BY <1>3, <2>1, <2>2, Induction
<1>11. p[d] = values
  BY <1>3, <1>10
<1> QED
  BY <1>6, <1>11 DEF values, symbols

\* The records of the first lines, one line after the other.
LEMMA RecordsRun ==
  ASSUME NEW lines, IsSeq(lines)
  PROVE  \E f : /\ f[0] = <<>> /\ f[Len(lines)] = Trap!_parse_source(lines)
                /\ \A k \in 1 .. Len(lines) : f[k] = IF Trap!Bare(lines[k]) = <<>>
                                                     THEN f[k - 1]
                                                     ELSE Append(f[k - 1], Trap!Record(lines[k]))
<1> DEFINE n == Len(lines)
           Follows(f, m) == /\ f[0] = <<>>
                            /\ \A k \in 1 .. m : f[k] = IF Trap!Bare(lines[k]) = <<>>
                                                        THEN f[k - 1]
                                                        ELSE Append(f[k - 1], Trap!Record(lines[k]))
           On(f, i) == CASE i = 0 -> <<>>
                         [] i > 0 /\ Trap!Bare(lines[i]) = <<>> -> f[i - 1]
                         [] OTHER -> Append(f[i - 1], Trap!Record(lines[i]))
           Runs(f) == f = [i \in 0 .. n |-> On(f, i)]
           K == {m \in 0 .. n : \E f : Follows(f, m)}
<1>1. n \in Nat
  BY SeqDomain
<1>2. Trap!_parse_source(lines) = (CHOOSE f : Runs(f))[n]
  BY DEF Trap!_parse_source
<1> HIDE DEF n
<1>0. \A f : On(f, 0) = <<>> /\ \A i \in 1 .. n : On(f, i) = IF Trap!Bare(lines[i]) = <<>>
                                                             THEN f[i - 1]
                                                             ELSE Append(f[i - 1], Trap!Record(lines[i]))
  BY <1>1
<1>3. 0 \in K
  <2> DEFINE f == [i \in 0 .. 0 |-> <<>>]
  <2>1. f[0] = <<>> /\ 1 .. 0 = {} /\ 0 \in 0 .. n
    BY <1>1
  <2> HIDE DEF f
  <2> QED
    BY <2>1
<1>4. ASSUME NEW m \in 0 .. n - 1, m \in K PROVE m + 1 \in K
  <2>1. PICK f : Follows(f, m)
    BY <1>4
  <2> DEFINE last == IF Trap!Bare(lines[(m + 1)]) = <<>>
                     THEN f[m]
                     ELSE Append(f[m], Trap!Record(lines[(m + 1)]))
  <2> HIDE DEF last
  <2> DEFINE g == [i \in 0 .. m + 1 |-> IF i <= m THEN f[i] ELSE last]
  <2>2. (\A i \in 0 .. m : g[i] = f[i]) /\ g[m + 1] = last /\ m + 1 \in 0 .. n
    BY <1>1
  <2> HIDE DEF g
  <2>3. ASSUME NEW k \in 1 .. m + 1 PROVE g[k] = IF Trap!Bare(lines[k]) = <<>>
                                                 THEN g[k - 1]
                                                 ELSE Append(g[k - 1], Trap!Record(lines[k]))
    <3>1. CASE k = m + 1
      <4>1. g[k - 1] = f[m] /\ g[k] = last
        BY <1>1, <2>2, <3>1
      <4> QED
        BY <3>1, <4>1 DEF last
    <3>2. CASE k # m + 1
      <4>1. g[k - 1] = f[k - 1] /\ g[k] = f[k] /\ k \in 1 .. m
        BY <1>1, <2>2, <3>2
      <4> QED
        BY <2>1, <4>1, Zenon
    <3> QED
      BY <3>1, <3>2
  <2>4. g[0] = <<>>
    BY <1>1, <2>1, <2>2
  <2>5. Follows(g, m + 1)
    BY <2>3, <2>4, Zenon
  <2> QED
    BY <2>2, <2>5, Zenon
<1> HIDE DEF K
<1>5. \A k \in 0 .. n : k \in K
  BY <1>1, <1>3, <1>4, Induction
<1>6. PICK f : Follows(f, n)
  <2>1. n \in K
    BY <1>1, <1>5
  <2> HIDE DEF Follows
  <2> QED
    BY <2>1 DEF K
<1> DEFINE h == [i \in 0 .. n |-> f[i]]
<1>7. Runs(h)
  <2>1. \A i \in 0 .. n : h[i] = f[i]
    OBVIOUS
  <2>2. h = [i \in 0 .. n |-> h[i]]
    OBVIOUS
  <2> HIDE DEF h, On
  <2>3. ASSUME NEW i \in 0 .. n PROVE h[i] = On(h, i)
    <3>1. CASE i = 0
      BY <1>0, <1>6, <2>1, <3>1
    <3>2. CASE i # 0
      <4>1. i \in 1 .. n /\ i - 1 \in 0 .. n
        BY <1>1, <3>2
      <4>2. h[i] = IF Trap!Bare(lines[i]) = <<>> THEN h[i - 1] ELSE Append(h[i - 1], Trap!Record(lines[i]))
        BY <1>6, <2>1, <4>1, Zenon
      <4> QED
        BY <1>0, <4>1, <4>2, Zenon
    <3> QED
      BY <3>1, <3>2
  <2>4. [i \in 0 .. n |-> h[i]] = [i \in 0 .. n |-> On(h, i)]
    BY <2>3, Zenon
  <2> QED
    BY <2>2, <2>4, Zenon
<1> HIDE DEF h
<1> DEFINE p == CHOOSE g : Runs(g)
<1>8. Runs(p)
  <2> HIDE DEF Runs
  <2> QED
    BY <1>7, Zenon
<1>9. p[n] = Trap!_parse_source(lines)
  BY <1>2
<1> HIDE DEF p, On
<1>10. \A i \in 0 .. n : p[i] = On(p, i)
  BY <1>8
<1>11. /\ p[0] = <<>>
       /\ \A k \in 1 .. n : p[k] = IF Trap!Bare(lines[k]) = <<>>
                                   THEN p[k - 1]
                                   ELSE Append(p[k - 1], Trap!Record(lines[k]))
  <2>1. 0 \in 0 .. n /\ \A k \in 1 .. n : k \in 0 .. n
    BY <1>1
  <2> QED
    BY <1>0, <1>10, <2>1, Zenon
<1> QED
  BY <1>9, <1>11, Zenon DEF n

\* The first pass, one record after the other.
LEMMA RecordsPass ==
  ASSUME NEW records, IsSeq(records)
  PROVE  \E f : /\ f[0] = Trap!Unpassed /\ f[Len(records)] = Trap!PassOne(records)
                /\ \A k \in 1 .. Len(records) : f[k] = Trap!PassOneStep(f[k - 1], records[k])
<1> DEFINE n == Len(records)
           Follows(f, m) == /\ f[0] = Trap!Unpassed
                            /\ \A k \in 1 .. m : f[k] = Trap!PassOneStep(f[k - 1], records[k])
           On(f, i) == IF i = 0 THEN Trap!Unpassed ELSE Trap!PassOneStep(f[i - 1], records[i])
           Runs(f) == f = [i \in 0 .. n |-> On(f, i)]
           K == {m \in 0 .. n : \E f : Follows(f, m)}
<1>1. n \in Nat
  BY SeqDomain
<1>2. Trap!PassOne(records) = (CHOOSE f : Runs(f))[n]
  BY DEF Trap!PassOne
<1> HIDE DEF n
<1>0. \A f : On(f, 0) = Trap!Unpassed /\ \A i \in 1 .. n : On(f, i) = Trap!PassOneStep(f[i - 1], records[i])
  BY <1>1
<1>3. 0 \in K
  <2> DEFINE f == [i \in 0 .. 0 |-> Trap!Unpassed]
  <2>1. f[0] = Trap!Unpassed /\ 1 .. 0 = {} /\ 0 \in 0 .. n
    BY <1>1
  <2> HIDE DEF f
  <2> QED
    BY <2>1
<1>4. ASSUME NEW m \in 0 .. n - 1, m \in K PROVE m + 1 \in K
  <2>1. PICK f : Follows(f, m)
    BY <1>4
  <2> DEFINE last == Trap!PassOneStep(f[m], records[(m + 1)])
  <2> HIDE DEF last
  <2> DEFINE g == [i \in 0 .. m + 1 |-> IF i <= m THEN f[i] ELSE last]
  <2>2. (\A i \in 0 .. m : g[i] = f[i]) /\ g[m + 1] = last /\ m + 1 \in 0 .. n
    BY <1>1
  <2> HIDE DEF g
  <2>3. ASSUME NEW k \in 1 .. m + 1 PROVE g[k] = Trap!PassOneStep(g[k - 1], records[k])
    <3>1. CASE k = m + 1
      <4>1. g[k - 1] = f[m] /\ g[k] = last
        BY <1>1, <2>2, <3>1
      <4> QED
        BY <3>1, <4>1 DEF last
    <3>2. CASE k # m + 1
      <4>1. g[k - 1] = f[k - 1] /\ g[k] = f[k] /\ k \in 1 .. m
        BY <1>1, <2>2, <3>2
      <4> QED
        BY <2>1, <4>1, Zenon
    <3> QED
      BY <3>1, <3>2
  <2>4. g[0] = Trap!Unpassed
    BY <1>1, <2>1, <2>2
  <2>5. Follows(g, m + 1)
    BY <2>3, <2>4, Zenon
  <2> QED
    BY <2>2, <2>5, Zenon
<1> HIDE DEF K
<1>5. \A k \in 0 .. n : k \in K
  BY <1>1, <1>3, <1>4, Induction
<1>6. PICK f : Follows(f, n)
  <2>1. n \in K
    BY <1>1, <1>5
  <2> HIDE DEF Follows
  <2> QED
    BY <2>1 DEF K
<1> DEFINE h == [i \in 0 .. n |-> f[i]]
<1>7. Runs(h)
  <2>1. \A i \in 0 .. n : h[i] = f[i]
    OBVIOUS
  <2>2. h = [i \in 0 .. n |-> h[i]]
    OBVIOUS
  <2> HIDE DEF h, On
  <2>3. ASSUME NEW i \in 0 .. n PROVE h[i] = On(h, i)
    <3>1. CASE i = 0
      BY <1>0, <1>6, <2>1, <3>1
    <3>2. CASE i # 0
      <4>1. i \in 1 .. n /\ i - 1 \in 0 .. n
        BY <1>1, <3>2
      <4>2. h[i] = Trap!PassOneStep(h[i - 1], records[i])
        BY <1>6, <2>1, <4>1, Zenon
      <4> QED
        BY <1>0, <4>1, <4>2, Zenon
    <3> QED
      BY <3>1, <3>2
  <2>4. [i \in 0 .. n |-> h[i]] = [i \in 0 .. n |-> On(h, i)]
    BY <2>3, Zenon
  <2> QED
    BY <2>2, <2>4, Zenon
<1> HIDE DEF h
<1> DEFINE p == CHOOSE g : Runs(g)
<1>8. Runs(p)
  <2> HIDE DEF Runs
  <2> QED
    BY <1>7, Zenon
<1>9. p[n] = Trap!PassOne(records)
  BY <1>2
<1> HIDE DEF p, On
<1>10. \A i \in 0 .. n : p[i] = On(p, i)
  BY <1>8
<1>11. p[0] = Trap!Unpassed /\ \A k \in 1 .. n : p[k] = Trap!PassOneStep(p[k - 1], records[k])
  <2>1. 0 \in 0 .. n /\ \A k \in 1 .. n : k \in 0 .. n
    BY <1>1
  <2> QED
    BY <1>0, <1>10, <2>1, Zenon
<1> QED
  BY <1>9, <1>11, Zenon DEF n

\* The segments of a section, one placed line after the other.
LEMMA SegmentsRun ==
  ASSUME NEW layout, IsSeq(layout), NEW known, NEW section
  PROVE  \E f : /\ f[0] = <<>> /\ f[Len(layout)] = Trap!PassTwo(layout, known, section)
                /\ \A k \in 1 .. Len(layout) : f[k] = IF layout[k].section = section
                                                      THEN Trap!Emit(f[k - 1], layout[k].address, Trap!Emitted(layout[k], known))
                                                      ELSE f[k - 1]
<1> DEFINE n == Len(layout)
           Follows(f, m) == /\ f[0] = <<>>
                            /\ \A k \in 1 .. m : f[k] = IF layout[k].section = section
                                                        THEN Trap!Emit(f[k - 1], layout[k].address, Trap!Emitted(layout[k], known))
                                                        ELSE f[k - 1]
           On(f, i) == CASE i = 0 -> <<>>
                         [] i > 0 /\ layout[i].section = section -> Trap!Emit(f[i - 1], layout[i].address, Trap!Emitted(layout[i], known))
                         [] OTHER -> f[i - 1]
           Runs(f) == f = [i \in 0 .. n |-> On(f, i)]
           K == {m \in 0 .. n : \E f : Follows(f, m)}
<1>1. n \in Nat
  BY SeqDomain
<1>2. Trap!PassTwo(layout, known, section) = (CHOOSE f : Runs(f))[n]
  BY DEF Trap!PassTwo
<1> HIDE DEF n
<1>0. \A f : On(f, 0) = <<>> /\ \A i \in 1 .. n : On(f, i) = IF layout[i].section = section
                                                             THEN Trap!Emit(f[i - 1], layout[i].address, Trap!Emitted(layout[i], known))
                                                             ELSE f[i - 1]
  BY <1>1
<1>3. 0 \in K
  <2> DEFINE f == [i \in 0 .. 0 |-> <<>>]
  <2>1. f[0] = <<>> /\ 1 .. 0 = {} /\ 0 \in 0 .. n
    BY <1>1
  <2> HIDE DEF f
  <2> QED
    BY <2>1
<1>4. ASSUME NEW m \in 0 .. n - 1, m \in K PROVE m + 1 \in K
  <2>1. PICK f : Follows(f, m)
    BY <1>4
  <2> DEFINE last == IF layout[(m + 1)].section = section
                     THEN Trap!Emit(f[m], layout[(m + 1)].address, Trap!Emitted(layout[(m + 1)], known))
                     ELSE f[m]
  <2> HIDE DEF last
  <2> DEFINE g == [i \in 0 .. m + 1 |-> IF i <= m THEN f[i] ELSE last]
  <2>2. (\A i \in 0 .. m : g[i] = f[i]) /\ g[m + 1] = last /\ m + 1 \in 0 .. n
    BY <1>1
  <2> HIDE DEF g
  <2>3. ASSUME NEW k \in 1 .. m + 1 PROVE g[k] = IF layout[k].section = section
                                                 THEN Trap!Emit(g[k - 1], layout[k].address, Trap!Emitted(layout[k], known))
                                                 ELSE g[k - 1]
    <3>1. CASE k = m + 1
      <4>1. g[k - 1] = f[m] /\ g[k] = last
        BY <1>1, <2>2, <3>1
      <4> QED
        BY <3>1, <4>1 DEF last
    <3>2. CASE k # m + 1
      <4>1. g[k - 1] = f[k - 1] /\ g[k] = f[k] /\ k \in 1 .. m
        BY <1>1, <2>2, <3>2
      <4> QED
        BY <2>1, <4>1, Zenon
    <3> QED
      BY <3>1, <3>2
  <2>4. g[0] = <<>>
    BY <1>1, <2>1, <2>2
  <2>5. Follows(g, m + 1)
    BY <2>3, <2>4, Zenon
  <2> QED
    BY <2>2, <2>5, Zenon
<1> HIDE DEF K
<1>5. \A k \in 0 .. n : k \in K
  BY <1>1, <1>3, <1>4, Induction
<1>6. PICK f : Follows(f, n)
  <2>1. n \in K
    BY <1>1, <1>5
  <2> HIDE DEF Follows
  <2> QED
    BY <2>1 DEF K
<1> DEFINE h == [i \in 0 .. n |-> f[i]]
<1>7. Runs(h)
  <2>1. \A i \in 0 .. n : h[i] = f[i]
    OBVIOUS
  <2>2. h = [i \in 0 .. n |-> h[i]]
    OBVIOUS
  <2> HIDE DEF h, On
  <2>3. ASSUME NEW i \in 0 .. n PROVE h[i] = On(h, i)
    <3>1. CASE i = 0
      BY <1>0, <1>6, <2>1, <3>1
    <3>2. CASE i # 0
      <4>1. i \in 1 .. n /\ i - 1 \in 0 .. n
        BY <1>1, <3>2
      <4>2. h[i] = IF layout[i].section = section
                   THEN Trap!Emit(h[i - 1], layout[i].address, Trap!Emitted(layout[i], known))
                   ELSE h[i - 1]
        BY <1>6, <2>1, <4>1, Zenon
      <4> QED
        BY <1>0, <4>1, <4>2, Zenon
    <3> QED
      BY <3>1, <3>2
  <2>4. [i \in 0 .. n |-> h[i]] = [i \in 0 .. n |-> On(h, i)]
    BY <2>3, Zenon
  <2> QED
    BY <2>2, <2>4, Zenon
<1> HIDE DEF h
<1> DEFINE p == CHOOSE g : Runs(g)
<1>8. Runs(p)
  <2> HIDE DEF Runs
  <2> QED
    BY <1>7, Zenon
<1>9. p[n] = Trap!PassTwo(layout, known, section)
  BY <1>2
<1> HIDE DEF p, On
<1>10. \A i \in 0 .. n : p[i] = On(p, i)
  BY <1>8
<1>11. /\ p[0] = <<>>
       /\ \A k \in 1 .. n : p[k] = IF layout[k].section = section
                                   THEN Trap!Emit(p[k - 1], layout[k].address, Trap!Emitted(layout[k], known))
                                   ELSE p[k - 1]
  <2>1. 0 \in 0 .. n /\ \A k \in 1 .. n : k \in 0 .. n
    BY <1>1
  <2> QED
    BY <1>0, <1>10, <2>1, Zenon
<1> QED
  BY <1>9, <1>11, Zenon DEF n

-----------------------------------------------------------------------------
(***************************************************************************)
(* The first passes, side by side.                                         *)
(***************************************************************************)
\* One record more is one step more.
LEMMA PassOneMore ==
  ASSUME NEW records, IsSeq(records), NEW r, NEW more, More(more, records, r)
  PROVE  Trap!PassOne(more) = Trap!PassOneStep(Trap!PassOne(records), r)
<1> DEFINE n == Len(records)
<1>1. n \in Nat
  BY DEF IsSeq
<1>2. IsSeq(more) /\ Len(more) = n + 1 /\ (\A i \in 1 .. n : more[i] = records[i]) /\ more[n + 1] = r
  BY Appends
<1>3. PICK f : f[n] = Trap!PassOne(records) /\ f[0] = Trap!Unpassed
               /\ \A k \in 1 .. n : f[k] = Trap!PassOneStep(f[k - 1], records[k])
  BY RecordsPass
<1>4. PICK g : g[n + 1] = Trap!PassOne(more) /\ g[0] = Trap!Unpassed
               /\ \A k \in 1 .. n + 1 : g[k] = Trap!PassOneStep(g[k - 1], more[k])
  BY <1>2, RecordsPass
<1> HIDE DEF n
<1> DEFINE S == {k \in 0 .. n : f[k] = g[k]}
<1>5. \A k \in 0 .. n : k \in S
  <2>1. 0 \in S
    BY <1>1, <1>3, <1>4
  <2>2. ASSUME NEW k \in 0 .. n - 1, k \in S PROVE k + 1 \in S
    <3>1. k + 1 \in 1 .. n /\ k + 1 \in 1 .. n + 1 /\ (k + 1) - 1 = k /\ f[k] = g[k] /\ k + 1 \in 0 .. n
      BY <1>1, <2>2
    <3>2. f[k + 1] = Trap!PassOneStep(f[k], records[k + 1])
      BY <1>3, <3>1
    <3>3. g[k + 1] = Trap!PassOneStep(g[k], more[k + 1])
      BY <1>4, <3>1
    <3>4. f[k + 1] = g[k + 1]
      BY <1>2, <3>1, <3>2, <3>3
    <3> QED
      BY <3>1, <3>4
  <2> HIDE DEF S
  <2> QED
    BY <1>1, <2>1, <2>2, Induction
<1>6. f[n] = g[n]
  BY <1>1, <1>5
<1>7. n + 1 \in 1 .. n + 1 /\ (n + 1) - 1 = n
  BY <1>1
<1>8. g[n + 1] = Trap!PassOneStep(g[n], more[n + 1])
  BY <1>4, <1>7
<1> QED
  BY <1>2, <1>3, <1>4, <1>6, <1>8

\* A text is read and placed line after line.
LEMMA PassByLines ==
  ASSUME NEW lines, IsSeq(lines)
  PROVE  \E t : /\ t[0] = Trap!Unpassed /\ t[Len(lines)] = Trap!PassOne(Trap!_parse_source(lines))
                /\ \A k \in 1 .. Len(lines) :
                     t[k] = IF Trap!Bare(lines[k]) = <<>> THEN t[k - 1]
                            ELSE Trap!PassOneStep(t[k - 1], Trap!Record(lines[k]))
<1> DEFINE n == Len(lines)
<1>1. n \in Nat
  BY DEF IsSeq
<1>2. PICK f : f[0] = <<>> /\ f[n] = Trap!_parse_source(lines)
               /\ \A k \in 1 .. n : f[k] = IF Trap!Bare(lines[k]) = <<>> THEN f[k - 1]
                                           ELSE Append(f[k - 1], Trap!Record(lines[k]))
  BY RecordsRun
<1> HIDE DEF n
<1> DEFINE S == {k \in 0 .. n : IsSeq(f[k])}
<1>3. \A k \in 0 .. n : k \in S
  <2>1. 0 \in S
    <3>1. IsSeq(<<>>)
      BY SeqIsSeq, EmptySeq
    <3> QED
      BY <1>1, <1>2, <3>1
  <2>2. ASSUME NEW k \in 0 .. n - 1, k \in S PROVE k + 1 \in S
    <3>1. k + 1 \in 1 .. n /\ (k + 1) - 1 = k /\ IsSeq(f[k]) /\ k + 1 \in 0 .. n
      BY <1>1, <2>2
    <3> DEFINE r == Trap!Record(lines[k + 1])
               longer == Append(f[k], r)
    <3>2. f[k + 1] = f[k] \/ f[k + 1] = longer
      BY <1>2, <3>1
    <3>3. More(longer, f[k], r)
      BY DEF More
    <3> HIDE DEF longer, r
    <3>4. IsSeq(longer)
      BY <3>1, <3>3, Appends
    <3> QED
      BY <3>1, <3>2, <3>4
  <2> HIDE DEF S
  <2> QED
    BY <1>1, <2>1, <2>2, Induction
<1> DEFINE t == [k \in 0 .. n |-> Trap!PassOne(f[k])]
<1>4. t[0] = Trap!Unpassed
  <2>1. IsSeq(<<>>) /\ Len(<<>>) = 0
    BY SeqIsSeq, EmptySeq
  <2>2. Trap!PassOne(<<>>) = Trap!Unpassed
    BY <2>1, RecordsPass
  <2> QED
    BY <1>1, <1>2, <2>2
<1>5. t[n] = Trap!PassOne(Trap!_parse_source(lines))
  BY <1>1, <1>2
<1>6. ASSUME NEW k \in 1 .. n
      PROVE  t[k] = IF Trap!Bare(lines[k]) = <<>> THEN t[k - 1]
                    ELSE Trap!PassOneStep(t[k - 1], Trap!Record(lines[k]))
  <2>1. k \in 0 .. n /\ k - 1 \in 0 .. n
    BY <1>1
  <2>2. t[k] = Trap!PassOne(f[k]) /\ t[k - 1] = Trap!PassOne(f[k - 1])
    BY <2>1
  <2> HIDE DEF t
  <2>3. CASE Trap!Bare(lines[k]) = <<>>
    BY <1>2, <2>2, <2>3
  <2>4. CASE Trap!Bare(lines[k]) # <<>>
    <3> DEFINE r == Trap!Record(lines[k])
               longer == Append(f[k - 1], r)
    <3>1. f[k] = longer
      BY <1>2, <2>4
    <3>2. More(longer, f[k - 1], r) /\ IsSeq(f[k - 1])
      BY <1>3, <2>1 DEF More
    <3> HIDE DEF longer, r
    <3>3. Trap!PassOne(longer) = Trap!PassOneStep(Trap!PassOne(f[k - 1]), r)
      BY <3>2, PassOneMore
    <3> QED
      BY <2>2, <2>4, <3>1, <3>3 DEF r
  <2> QED
    BY <2>3, <2>4
<1> HIDE DEF t
<1> QED
  BY <1>4, <1>5, <1>6 DEF n

\* What a statement without an operation does, and one with an instruction.
LEMMA DirectiveIs ==
  ASSUME NEW pass, NEW r, NEW known
  PROVE  /\ r.op = NoQuote => Trap!Directive(pass, r, known) = pass
         /\ r.op \in Names => Trap!Directive(pass, r, known) = Trap!Place(pass, r, known)
<1>1. Trap!Directive(pass, r, known) =
        CASE r.op = NoQuote -> pass
          [] r.op = ".CODE" -> [pass EXCEPT !.section = "CODE"]
          [] r.op = ".DATA" -> [pass EXCEPT !.section = "DATA"]
          [] r.op = ".ORG" -> Trap!Org(pass, r, known)
          [] r.op = ".EQU" -> Trap!Equ(pass, r, known)
          [] r.op = ".ALIGN" -> Trap!Align(pass, r, known)
          [] OTHER -> Trap!Place(pass, r, known)
  BY Zenon DEF Trap!Directive, NoQuote
<1>2. NoQuote \notin {".CODE", ".DATA", ".ORG", ".EQU", ".ALIGN"}
  BY Zenon DEF NoQuote
<1>3. NoQuote \notin Names
  BY Zenon, NamesAre DEF NoQuote
<1>4. \A op \in Names : op \notin {".CODE", ".DATA", ".ORG", ".EQU", ".ALIGN"}
  BY NamesAre
<1>5. ASSUME r.op = NoQuote PROVE Trap!Directive(pass, r, known) = pass
  BY <1>1, <1>2, <1>5, Zenon
<1>6. ASSUME r.op \in Names PROVE Trap!Directive(pass, r, known) = Trap!Place(pass, r, known)
  <2>1. r.op # NoQuote /\ r.op \notin {".CODE", ".DATA", ".ORG", ".EQU", ".ALIGN"}
    BY <1>3, <1>4, <1>6, Zenon
  <2> QED
    BY <1>1, <2>1, Zenon
<1> QED
  BY <1>5, <1>6

\* What TRAPCPU has read of a program of the original.
Reached(labels, address, layout) ==
  [symbols |-> Symbols(labels), address |-> address, section |-> "CODE", layout |-> layout]

\* A label is defined once.
LEMMA LabelGoes ==
  ASSUME ErrorIsAlone, NEW labels, NEW address, NEW layout, NEW raw, Readable(raw), NEW r, r.label = Tag(raw),
         Places(Code(raw), Colon) # {} => LabelOf(Code(raw)) \notin DOMAIN labels
  PROVE  Trap!Label(Reached(labels, address, layout), r) =
           Reached(IF Places(Code(raw), Colon) = {} THEN labels
                   ELSE With(labels, LabelOf(Code(raw)), address["CODE"]), address, layout)
<1> DEFINE t == Reached(labels, address, layout)
           name == LabelOf(Code(raw))
<1>1. /\ t.symbols = Symbols(labels) /\ t.address = address /\ t.section = "CODE" /\ t.layout = layout
      /\ DOMAIN t.symbols = DOMAIN labels
  BY DEF Reached, Symbols
<1> HIDE DEF t
<1>2. CASE Places(Code(raw), Colon) = {}
  <2>1. r.label = Trap!NoLabel
    BY <1>2 DEF Tag
  <2> QED
    BY <1>2, <2>1, Zenon DEF Trap!Label, t
<1>3. CASE Places(Code(raw), Colon) # {}
  <2>1. r.label = name /\ name \notin DOMAIN labels
    BY <1>3 DEF Tag
  <2>2. name # Trap!NoLabel
    <3>1. PICK s : IsSeq(s) /\ s # <<>> /\ upper(s) = name /\ s[1] = Code(raw)[1] /\ Code(raw) # <<>>
      BY <1>3, LabelForm
    <3>2. s[1] # Gap
      BY <3>1, CodeSeq DEF Readable
    <3>3. 1 \in 1 .. Len(s)
      BY <3>1, Empty DEF IsSeq
    <3>4. name[1] # Gap
      BY <3>1, <3>2, <3>3, Capitals, NamesAreMarks
    <3>5. Trap!NoLabel = <<Gap>>
      BY Zenon DEF Trap!NoLabel, Gap
    <3>6. Trap!NoLabel[1] = Gap
      BY <3>5
    <3> QED
      BY <3>4, <3>6
  <2>3. Trap!Label(t, r) = [t EXCEPT !.symbols = With(t.symbols, name, Trap!Number(address["CODE"]))]
    BY <1>1, <2>1, <2>2, TrapArithmetic DEF Trap!Label, Trap!Define, Trap!Here
  <2> DEFINE more == With(labels, name, address["CODE"])
             symbols == With(t.symbols, name, Trap!Number(address["CODE"]))
  <2>4. Symbols(more) = symbols
    <3>1. DOMAIN more = DOMAIN labels \cup {name} /\ DOMAIN symbols = DOMAIN labels \cup {name}
      BY <1>1 DEF With
    <3>2. symbols = [l \in DOMAIN labels \cup {name} |-> IF l = name
                                                         THEN Trap!Number(address["CODE"])
                                                         ELSE Trap!Number(labels[l])]
      BY <1>1 DEF With, Symbols
    <3>3. Symbols(more) = [l \in DOMAIN labels \cup {name} |-> Trap!Number(more[l])]
      BY <3>1 DEF Symbols
    <3>4. \A l \in DOMAIN labels \cup {name} :
            more[l] = IF l = name THEN address["CODE"] ELSE labels[l]
      BY DEF With
    <3> HIDE DEF more, symbols
    <3>5. \A l \in DOMAIN labels \cup {name} :
            Trap!Number(more[l]) = IF l = name THEN Trap!Number(address["CODE"]) ELSE Trap!Number(labels[l])
      BY <3>4
    <3> QED
      BY <3>2, <3>3, <3>5
  <2> HIDE DEF symbols
  <2>5. [t EXCEPT !.symbols = symbols] = [symbols |-> symbols, address |-> address, section |-> "CODE", layout |-> layout]
    BY DEF t, Reached
  <2>6. Trap!Label(t, r) = Reached(more, address, layout)
    BY <2>3, <2>4, <2>5, Zenon DEF Reached, symbols
  <2> QED
    BY <1>3, <2>6, Zenon DEF t
<1> QED
  BY <1>2, <1>3

\* What an instruction of the original takes.
Placing(address, op, operands) ==
  [section |-> "CODE", address |-> address, op |-> op, operands |-> operands]

\* The next address in the code lies n bytes further.
Further(moved, address, n) == moved = [address EXCEPT !["CODE"] = @ + n]

\* An instruction takes its place.
LEMMA PlaceGoes ==
  ASSUME ErrorIsAlone, NEW labels, NEW address, NEW layout, NEW op \in DOMAIN OPS, NEW operands,
         NEW r, r.op = op, r.operands = operands, NEW known,
         NEW moved, Further(moved, address, Size(op)),
         NEW more, More(more, layout, Placing(address["CODE"], op, operands))
  PROVE  Trap!Place(Reached(labels, address, layout), r, known) = Reached(labels, moved, more)
<1> DEFINE t == Reached(labels, address, layout)
<1>1. /\ t.symbols = Symbols(labels) /\ t.address = address /\ t.section = "CODE" /\ t.layout = layout
      /\ t = [symbols |-> t.symbols, address |-> t.address, section |-> t.section, layout |-> t.layout]
  BY DEF Reached
<1> HIDE DEF t
<1>2. op \in DOMAIN Trap!OPS /\ Trap!width(op) = Size(op) /\ op \in Names /\ Size(op) \in {1, 2, 3}
  BY TrapOpcodes
<1>3. Trap!_sizeof(op, operands, known) = Size(op)
  <2>1. op \notin {".DB", ".DW", ".ASCII", ".ASCIIZ", ".RESB"}
    BY <1>2, NamesAre
  <2> QED
    BY <1>2, <2>1, Zenon DEF Trap!_sizeof
<1>4. Size(op) # Error
  BY <1>2, NoError
<1> DEFINE entry == Placing(address["CODE"], op, operands)
<1>5. Trap!Place(t, r, known) =
        [t EXCEPT !.layout = Append(layout, entry), !.address["CODE"] = @ + Size(op)]
  BY <1>1, <1>3, <1>4, Zenon DEF Trap!Place, Trap!Take, Trap!Here, Placing
<1> DEFINE longer == Append(layout, entry)
           on == [address EXCEPT !["CODE"] = @ + Size(op)]
<1>6. [t EXCEPT !.layout = longer, !.address["CODE"] = @ + Size(op)] =
        [symbols |-> t.symbols, address |-> on, section |-> "CODE", layout |-> longer]
  <2> DEFINE x == t.symbols
             y == t.layout
             z == t.section
  <2>1. t = [symbols |-> x, address |-> address, section |-> z, layout |-> y] /\ z = "CODE"
    BY <1>1
  <2> HIDE DEF longer, x, y, z
  <2> DEFINE u == [t EXCEPT !.layout = longer]
  <2>2. u = [symbols |-> x, address |-> address, section |-> z, layout |-> longer]
    BY <2>1
  <2>3. [t EXCEPT !.layout = longer, !.address["CODE"] = @ + Size(op)] = [u EXCEPT !.address = on]
    BY <2>1
  <2> HIDE DEF u, on
  <2>4. [u EXCEPT !.address = on] = [symbols |-> x, address |-> on, section |-> z, layout |-> longer]
    BY <2>2
  <2> QED
    BY <2>1, <2>3, <2>4 DEF x, on
<1> QED
  BY <1>1, <1>5, <1>6, Zenon DEF Reached, More, Further, t

\* What a line does to the pass of the original.
LEMMA PassMoves ==
  ASSUME NEW pass, DOMAIN pass = PassFields, NEW raw, PassOneStep(pass, raw) # Error
  PROVE  LET next == PassOneStep(pass, raw)
             line == Code(raw)
             rest == Unlabelled(line)
             op == Operation(Words(rest))
         IN /\ next.labels = IF Places(line, Colon) = {} THEN pass.labels
                             ELSE With(pass.labels, LabelOf(line), pass.pc)
            /\ next.pc = IF rest = <<>> THEN pass.pc ELSE pass.pc + Size(op)
            /\ next.lines = IF rest = <<>> THEN pass.lines ELSE Append(pass.lines, rest)
            /\ rest # <<>> => op # Error
  BY PassGoes, Zenon DEF Colon

\* A line that a portable program has.
Solid(line) ==
  /\ IsSeq(line) /\ Len(line) > 0 /\ line[1] # Gap /\ line[Len(line)] # Gap
  /\ PortableLine(line) /\ Operation(Words(line)) # Error

\* The lines are placed one after the other.
Placed(lines, layout, pc) ==
  /\ IsSeq(layout) /\ IsSeq(lines) /\ Len(layout) = Len(lines)
  /\ \A i \in 1 .. Len(lines) :
       /\ Solid(lines[i])
       /\ layout[i] = Placing(layout[i].address, OpOf(lines[i]), Given(lines[i]))
  /\ \A i \in 1 .. Len(lines) + 1 :
       (IF i = Len(lines) + 1 THEN pc ELSE layout[i].address) =
         IF i = 1 THEN 0 ELSE layout[i - 1].address + Size(OpOf(lines[i - 1]))

\* Another line behind them.
LEMMA PlacedOn ==
  ASSUME NEW lines, NEW layout, NEW pc, Placed(lines, layout, pc), NEW rest, Solid(rest),
         NEW more, More(more, lines, rest),
         NEW longer, More(longer, layout, Placing(pc, OpOf(rest), Given(rest)))
  PROVE  Placed(more, longer, pc + Size(OpOf(rest)))
<1> DEFINE n == Len(lines)
           entry == Placing(pc, OpOf(rest), Given(rest))
<1>1. n \in Nat /\ Len(layout) = n
  BY DEF Placed, IsSeq
<1>2. IsSeq(more) /\ Len(more) = n + 1 /\ (\A i \in 1 .. n : more[i] = lines[i]) /\ more[n + 1] = rest
  BY Appends DEF Placed
<1>3. IsSeq(longer) /\ Len(longer) = n + 1 /\ (\A i \in 1 .. n : longer[i] = layout[i]) /\ longer[n + 1] = entry
  BY <1>1, Appends DEF Placed
<1>4. entry.address = pc /\ entry = Placing(entry.address, OpOf(rest), Given(rest))
  BY DEF Placing
<1> HIDE DEF entry
<1>5. \A i \in 1 .. n : Solid(lines[i]) /\ layout[i] = Placing(layout[i].address, OpOf(lines[i]), Given(lines[i]))
  BY DEF Placed
<1>6. \A i \in 1 .. n + 1 :
        (IF i = n + 1 THEN pc ELSE layout[i].address) =
          IF i = 1 THEN 0 ELSE layout[i - 1].address + Size(OpOf(lines[i - 1]))
  BY DEF Placed
<1> HIDE DEF n
<1>7. ASSUME NEW i \in 1 .. n + 1
      PROVE  Solid(more[i]) /\ longer[i] = Placing(longer[i].address, OpOf(more[i]), Given(more[i]))
  <2>1. CASE i = n + 1
    BY <1>2, <1>3, <1>4, <2>1, Zenon
  <2>2. CASE i # n + 1
    <3>1. i \in 1 .. n
      BY <1>1, <2>2
    <3> QED
      BY <1>2, <1>3, <1>5, <3>1, Zenon
  <2> QED
    BY <2>1, <2>2
<1>8. ASSUME NEW i \in 1 .. n + 2
      PROVE  (IF i = n + 2 THEN pc + Size(OpOf(rest)) ELSE longer[i].address) =
               IF i = 1 THEN 0 ELSE longer[i - 1].address + Size(OpOf(more[i - 1]))
  <2>1. CASE i = n + 2
    <3>1. i - 1 = n + 1 /\ i # 1
      BY <1>1, <2>1
    <3> QED
      BY <1>2, <1>3, <1>4, <2>1, <3>1
  <2>2. CASE i = n + 1
    <3>1. longer[i].address = pc /\ i # n + 2 /\ i \in 1 .. n + 1
      BY <1>1, <1>3, <1>4, <2>2
    <3>2. CASE i = 1
      BY <1>6, <2>2, <3>1, <3>2
    <3>3. CASE i # 1
      <4>1. i - 1 \in 1 .. n
        BY <1>1, <2>2, <3>3
      <4>2. longer[i - 1] = layout[i - 1] /\ more[i - 1] = lines[i - 1]
        BY <1>2, <1>3, <4>1
      <4>3. pc = layout[i - 1].address + Size(OpOf(lines[i - 1]))
        BY <1>6, <2>2, <3>1, <3>3
      <4> QED
        BY <3>1, <3>3, <4>2, <4>3
    <3> QED
      BY <3>2, <3>3
  <2>3. CASE i \in 1 .. n
    <3>1. longer[i] = layout[i] /\ i # n + 2 /\ i # n + 1 /\ i \in 1 .. n + 1
      BY <1>1, <1>3, <2>3
    <3>2. CASE i = 1
      BY <1>6, <3>1, <3>2
    <3>3. CASE i # 1
      <4>1. i - 1 \in 1 .. n
        BY <1>1, <2>3, <3>3
      <4>2. longer[i - 1] = layout[i - 1] /\ more[i - 1] = lines[i - 1]
        BY <1>2, <1>3, <4>1
      <4>3. layout[i].address = layout[i - 1].address + Size(OpOf(lines[i - 1]))
        BY <1>6, <3>1, <3>3
      <4> QED
        BY <3>1, <3>3, <4>2, <4>3
    <3> QED
      BY <3>2, <3>3
  <2> QED
    BY <1>1, <2>1, <2>2, <2>3
<1>9. Len(more) + 1 = n + 2
  BY <1>1, <1>2
<1> QED
  BY <1>2, <1>3, <1>7, <1>8, <1>9 DEF Placed

\* Both assemblers have read the same lines and given them the same addresses.
AlikePass(pass, t) ==
  \E address, layout :
    /\ t = Reached(pass.labels, address, layout)
    /\ "CODE" \in DOMAIN address /\ address["CODE"] = pass.pc
    /\ Placed(pass.lines, layout, pass.pc)

\* A line that is left after its label is one of the program's.
LEMMA RestIsSolid ==
  ASSUME NEW raw, Readable(raw), Unlabelled(Code(raw)) # <<>>
  PROVE  LET rest == Unlabelled(Code(raw))
         IN Solid(rest) /\ OpOf(rest) \in DOMAIN OPS /\ OpOf(rest) = Operation(Words(rest))
<1> DEFINE rest == Unlabelled(Code(raw))
<1>1. IsSeq(rest) /\ Len(rest) > 0 /\ rest[1] # Gap /\ rest[Len(rest)] # Gap
  BY RestForm
<1>2. PortableLine(rest) /\ Operation(Words(rest)) # Error /\ rest # <<>>
  BY DEF Readable
<1> HIDE DEF rest
<1>3. Operation(Words(rest)) \in DOMAIN OPS
  BY <1>1, <1>2, LineParts
<1>4. OpOf(rest) = Operation(Words(rest))
  BY <1>2 DEF OpOf
<1> QED
  BY <1>1, <1>2, <1>3, <1>4 DEF Solid, rest

\* A line takes both on.
LEMMA PassesAlike ==
  ASSUME ErrorIsAlone, NEW pass, TypedPass(pass), NEW t, AlikePass(pass, t), NEW raw, Readable(raw),
         PassOneStep(pass, raw) # Error,
         Places(Code(raw), Colon) # {} => LabelOf(Code(raw)) \notin DOMAIN pass.labels
  PROVE  AlikePass(PassOneStep(pass, raw),
                   IF Trap!Bare(raw) = <<>> THEN t ELSE Trap!PassOneStep(t, Trap!Record(raw)))
<1> DEFINE line == Code(raw)
           rest == Unlabelled(line)
           next == PassOneStep(pass, raw)
           r == Trap!Record(raw)
           on == IF Trap!Bare(raw) = <<>> THEN t ELSE Trap!PassOneStep(t, r)
<1>1. PICK address, layout :
        /\ t = Reached(pass.labels, address, layout)
        /\ "CODE" \in DOMAIN address /\ address["CODE"] = pass.pc
        /\ Placed(pass.lines, layout, pass.pc)
  BY DEF AlikePass
<1>2. /\ next.labels = IF Places(line, Colon) = {}
                       THEN pass.labels
                       ELSE With(pass.labels, LabelOf(line), pass.pc)
      /\ next.pc = IF rest = <<>> THEN pass.pc ELSE pass.pc + Size(Operation(Words(rest)))
      /\ next.lines = IF rest = <<>> THEN pass.lines ELSE Append(pass.lines, rest)
  BY PassMoves DEF TypedPass
<1>3. Trap!Bare(raw) = line
  BY ReadsCalmly
<1>4. line = <<>> => Places(line, Colon) = {} /\ rest = <<>>
  <2> SUFFICES ASSUME line = <<>> PROVE Places(line, Colon) = {} /\ rest = <<>>
    OBVIOUS
  <2>1. Places(<<>>, Colon) = {} /\ IsSeq(<<>>)
    <3>1. IsSeq(<<>>)
      BY SeqIsSeq, EmptySeq
    <3>2. DOMAIN <<>> = {}
      OBVIOUS
    <3> QED
      BY <3>1, <3>2 DEF Places
  <2>2. Unlabelled(<<>>) = <<>>
    BY <2>1, Colons
  <2> HIDE DEF line
  <2> QED
    BY <2>1, <2>2
<1>5. r = [label |-> Tag(raw), operands |-> Given(rest), op |-> OpOf(rest)]
  BY RecordIs
<1>6. r.label = Tag(raw) /\ r.operands = Given(rest) /\ r.op = OpOf(rest) /\ r # Error
  <2>1. r = [x \in DOMAIN r |-> r[x]]
    BY <1>5
  <2> HIDE DEF r
  <2> QED
    BY <1>5, <2>1 DEF ErrorIsAlone
<1> HIDE DEF next, r
<1>7. Trap!Label(t, r) = Reached(next.labels, address, layout)
  <2> HIDE DEF line
  <2>1. Trap!Label(t, r) = Reached(IF Places(Code(raw), Colon) = {} THEN pass.labels
                   ELSE With(pass.labels, LabelOf(Code(raw)), address["CODE"]), address, layout)
    BY <1>1, <1>6, LabelGoes
  <2> QED
    BY <1>1, <1>2, <2>1, Zenon DEF line
<1>8. \A labels, a, l : Reached(labels, a, l) # Error
  <2> TAKE labels, a, l
  <2> DEFINE q == Reached(labels, a, l)
  <2>1. q = [x \in DOMAIN q |-> q[x]]
    BY DEF Reached
  <2> HIDE DEF q
  <2>2. q # Error
    BY <2>1 DEF ErrorIsAlone
  <2> QED
    BY <2>2 DEF q
<1> DEFINE tl == Reached(next.labels, address, layout)
<1>9. Trap!PassOneStep(t, r) = Trap!Directive(tl, r, Trap!Values(tl.symbols))
  BY <1>1, <1>6, <1>7, <1>8, Zenon DEF Trap!PassOneStep, Trap!Labelled
<1>10. CASE rest = <<>>
  <2>1. on = tl
    <3>1. CASE line = <<>>
      <4>1. next.labels = pass.labels
        BY <1>2, <1>4, <3>1
      <4> QED
        BY <1>1, <1>3, <3>1, <4>1
    <3>2. CASE line # <<>>
      <4>1. r.op = NoQuote
        BY <1>6, <1>10 DEF OpOf
      <4>2. Trap!PassOneStep(t, r) = tl
        <5> HIDE DEF tl
        <5> QED
          BY <1>9, <4>1, DirectiveIs
      <4> QED
        BY <1>3, <3>2, <4>2
    <3> QED
      BY <3>1, <3>2
  <2>2. next.pc = pass.pc /\ next.lines = pass.lines
    BY <1>2, <1>10
  <2> HIDE DEF on
  <2>3. AlikePass(next, on)
    BY <1>1, <2>1, <2>2 DEF AlikePass
  <2> QED
    BY <2>3 DEF on, next, r
<1>11. CASE rest # <<>>
  <2> DEFINE op == OpOf(rest)
             entry == Placing(pass.pc, op, Given(rest))
             longer == Append(layout, entry)
             more == Append(pass.lines, rest)
             moved == [address EXCEPT !["CODE"] = @ + Size(op)]
  <2>1. Solid(rest) /\ op \in DOMAIN OPS /\ op = Operation(Words(rest))
    BY <1>11, RestIsSolid
  <2>2. line # <<>>
    BY <1>4, <1>11
  <2>3. on = Trap!PassOneStep(t, r)
    BY <1>3, <2>2
  <2> HIDE DEF rest, on
  <2>4. op \in Names
    BY <2>1, TrapOpcodes
  <2>5. on = Trap!Place(tl, r, Trap!Values(tl.symbols))
    <3> HIDE DEF tl, op
    <3>1. r.op \in Names
      BY <1>6, <2>4 DEF op
    <3> QED
      BY <1>9, <2>3, <3>1, DirectiveIs
  <2>6. on = Reached(next.labels, moved, longer)
    <3>1. More(longer, layout, Placing(address["CODE"], op, Given(rest)))
      <4> HIDE DEF op
      <4> QED
        BY <1>1, Zenon DEF longer, entry, More
    <3> DEFINE known == Trap!Values(tl.symbols)
    <3>2. r.op = op /\ r.operands = Given(rest) /\ op \in DOMAIN OPS
      BY <1>6, <2>1 DEF op
    <3>3. Further(moved, address, Size(op))
      BY DEF Further
    <3> HIDE DEF known, op, longer, entry, moved, r
    <3>4. Trap!Place(Reached(next.labels, address, layout), r, known) = Reached(next.labels, moved, longer)
      BY <3>1, <3>2, <3>3, PlaceGoes
    <3> QED
      BY <2>5, <3>4, Zenon DEF known
  <2>7. More(more, pass.lines, rest) /\ More(longer, layout, entry)
    BY DEF More
  <2>8. next.lines = more /\ next.pc = pass.pc + Size(op)
    BY <1>2, <1>11, <2>1 DEF rest
  <2>9. "CODE" \in DOMAIN moved /\ moved["CODE"] = pass.pc + Size(op)
    BY <1>1
  <2> HIDE DEF more, longer, moved
  <2>10. Placed(more, longer, pass.pc + Size(op))
    BY <1>1, <2>1, <2>7, PlacedOn
  <2>11. AlikePass(next, on)
    <3> HIDE DEF op
    <3> QED
      BY <2>6, <2>8, <2>9, <2>10, Zenon DEF AlikePass
  <2> QED
    BY <2>11 DEF on, next, r
<1> QED
  BY <1>10, <1>11

\* A program that one line stopped stays stopped.
LEMMA ErrorStays ==
  ASSUME NEW S, NEW text \in Seq(S), NEW f, f[Len(text)] # Error,
         \A k \in 1 .. Len(text) : f[k] = PassOneStep(f[k - 1], text[k])
  PROVE  \A k \in 0 .. Len(text) : f[k] # Error
<1> DEFINE n == Len(text)
           K == {k \in 0 .. n : f[n - k] # Error}
<1>1. n \in Nat
  OBVIOUS
<1>2. \A raw : PassOneStep(Error, raw) = Error
  BY Zenon DEF PassOneStep
<1> HIDE DEF n
<1>3. 0 \in K
  BY <1>1 DEF n
<1>4. ASSUME NEW k \in 0 .. n - 1, k \in K PROVE k + 1 \in K
  <2>1. n - k \in 1 .. n /\ f[n - k] # Error /\ k + 1 \in 0 .. n /\ n - (k + 1) = (n - k) - 1
    BY <1>1, <1>4
  <2>2. f[n - k] = PassOneStep(f[(n - k) - 1], text[n - k])
    BY <2>1 DEF n
  <2>3. f[(n - k) - 1] # Error
    BY <1>2, <2>1, <2>2
  <2> QED
    BY <2>1, <2>3
<1> HIDE DEF K
<1>5. \A k \in 0 .. n : k \in K
  BY <1>1, <1>3, <1>4, Induction
<1> QED
  <2> SUFFICES ASSUME NEW k \in 0 .. n PROVE f[k] # Error
    BY DEF n
  <2>1. n - k \in 0 .. n /\ n - (n - k) = k
    BY <1>1
  <2> QED
    BY <1>5, <2>1 DEF K

\* Neither a label nor a line is lost.
LEMMA NothingLost ==
  ASSUME NEW S, NEW text \in Seq(S), NEW f,
         \A k \in 0 .. Len(text) : f[k] # Error /\ TypedPass(f[k]),
         \A k \in 1 .. Len(text) : f[k] = PassOneStep(f[k - 1], text[k])
  PROVE  \A k \in 0 .. Len(text) :
           /\ DOMAIN f[k].labels \subseteq DOMAIN f[Len(text)].labels
           /\ ToSet(f[k].lines) \subseteq ToSet(f[Len(text)].lines)
<1> DEFINE n == Len(text)
           Among(k) == /\ DOMAIN f[k].labels \subseteq DOMAIN f[n].labels
                       /\ ToSet(f[k].lines) \subseteq ToSet(f[n].lines)
           K == {k \in 0 .. n : Among(n - k)}
<1>1. n \in Nat
  OBVIOUS
<1> HIDE DEF n
<1>3. 0 \in K
  BY <1>1
<1>4. ASSUME NEW k \in 0 .. n - 1, k \in K PROVE k + 1 \in K
  <2> DEFINE m == n - k
             last == f[m - 1]
             rest == Unlabelled(Code(text[m]))
             more == Append(last.lines, rest)
  <2>1. m \in 1 .. n /\ m \in 0 .. n /\ m - 1 \in 0 .. n /\ Among(m) /\ k + 1 \in 0 .. n /\ n - (k + 1) = m - 1
    BY <1>1, <1>4
  <2> HIDE DEF m
  <2>2. f[m] = PassOneStep(last, text[m]) /\ f[m] # Error /\ TypedPass(last)
    BY <2>1 DEF n
  <2>3. /\ f[m].labels = IF Places(Code(text[m]), Colon) = {} THEN last.labels
                         ELSE With(last.labels, LabelOf(Code(text[m])), last.pc)
        /\ f[m].lines = IF rest = <<>> THEN last.lines ELSE more
    BY <2>2, PassMoves DEF TypedPass
  <2>4. DOMAIN last.labels \subseteq DOMAIN f[m].labels
    BY <2>3 DEF With
  <2>5. ToSet(last.lines) \subseteq ToSet(f[m].lines)
    <3>1. IsSeq(last.lines)
      BY <2>2 DEF TypedPass
    <3>2. More(more, last.lines, rest)
      BY DEF More
    <3> HIDE DEF more, rest, last
    <3>3. IsSeq(more) /\ Len(more) = Len(last.lines) + 1 /\ \A i \in 1 .. Len(last.lines) : more[i] = last.lines[i]
      BY <3>1, <3>2, Appends
    <3>4. DOMAIN more = 1 .. Len(more) /\ DOMAIN last.lines = 1 .. Len(last.lines) /\ Len(last.lines) \in Nat
      BY <3>1, <3>3, SeqDomain
    <3>5. ToSet(last.lines) \subseteq ToSet(more)
      BY <3>3, <3>4 DEF ToSet
    <3> QED
      BY <2>3, <3>5
  <2>6. Among(m - 1)
    BY <2>1, <2>4, <2>5
  <2> HIDE DEF Among
  <2> QED
    BY <2>1, <2>6
<1> HIDE DEF K, Among
<1>5. \A k \in 0 .. n : k \in K
  BY <1>1, <1>3, <1>4, Induction
<1> QED
  <2> SUFFICES ASSUME NEW k \in 0 .. n PROVE Among(k)
    BY Zenon DEF n, Among
  <2>1. n - k \in 0 .. n /\ n - (n - k) = k
    BY <1>1
  <2> QED
    BY <1>5, <2>1 DEF K

\* What it is for a text to be portable.
LEMMA PortableIs ==
  ASSUME NEW text, Portable(text)
  PROVE  /\ \A line \in ToSet(PassOne(text).lines) : PortableLine(line)
         /\ \A name \in DOMAIN PassOne(text).labels : PortableName(name)
         /\ \A i, j \in DOMAIN text :
              /\ Places(Code(text[i]), Colon) # {} /\ Places(Code(text[j]), Colon) # {}
              /\ LabelOf(Code(text[i])) = LabelOf(Code(text[j]))
              => i = j
  BY Zenon DEF Portable, Labelled, Colon

\* The passes over a portable program that the original assembles.
Passes(text, f) ==
  /\ f[0] = Unpassed /\ f[Len(text)] = PassOne(text)
  /\ \A k \in 1 .. Len(text) : f[k] = PassOneStep(f[k - 1], text[k])
  /\ \A k \in 0 .. Len(text) : f[k] # Error /\ TypedPass(f[k])

\* There are such passes of whatever is assembled.
LEMMA PassesExist ==
  ASSUME NEW S, NEW text \in Seq(S), assemble(text) # Error
  PROVE  \E f : Passes(text, f)
<1>1. PICK f : /\ f[0] = Unpassed /\ f[Len(text)] = PassOne(text)
               /\ \A k \in 1 .. Len(text) : f[k] = PassOneStep(f[k - 1], text[k])
  BY PassOneRuns
<1>2. PassOne(text) # Error
  BY DEF assemble, PassTwo
<1>3. \A k \in 0 .. Len(text) : f[k] # Error
  BY <1>1, <1>2, ErrorStays
<1>4. \A k \in 0 .. Len(text) : TypedPass(f[k])
  BY <1>1, <1>3, PassTypes
<1> QED
  BY <1>1, <1>3, <1>4, Zenon DEF Passes

\* Every line of it is one that both assemblers read alike.
LEMMA LinesReadable ==
  ASSUME NEW S, NEW text \in Seq(S), \A i \in 1 .. Len(text) : IsSeq(text[i]), Portable(text),
         NEW f, Passes(text, f)
  PROVE  \A k \in 1 .. Len(text) : Readable(text[k])
<1> SUFFICES ASSUME NEW k \in 1 .. Len(text) PROVE Readable(text[k])
  OBVIOUS
<1> DEFINE line == Code(text[k])
           rest == Unlabelled(line)
           last == f[k - 1]
           more == Append(last.lines, rest)
<1>0. Len(text) \in Nat /\ k \in 0 .. Len(text) /\ k - 1 \in 0 .. Len(text) /\ IsSeq(text[k])
  BY LenProperties
<1>1. f[k] = PassOneStep(last, text[k]) /\ f[k] # Error /\ TypedPass(last)
  BY <1>0 DEF Passes
<1>2. /\ DOMAIN f[k].labels \subseteq DOMAIN PassOne(text).labels
      /\ ToSet(f[k].lines) \subseteq ToSet(PassOne(text).lines)
  <2>1. \A i \in 0 .. Len(text) :
           /\ DOMAIN f[i].labels \subseteq DOMAIN f[Len(text)].labels
           /\ ToSet(f[i].lines) \subseteq ToSet(f[Len(text)].lines)
    BY NothingLost DEF Passes
  <2> QED
    BY <1>0, <2>1 DEF Passes
<1>3. /\ f[k].labels = IF Places(line, Colon) = {}
                       THEN last.labels
                       ELSE With(last.labels, LabelOf(line), last.pc)
      /\ f[k].lines = IF rest = <<>> THEN last.lines ELSE more
      /\ rest # <<>> => Operation(Words(rest)) # Error
  BY <1>1, PassMoves DEF TypedPass
<1> HIDE DEF line
<1>4. ASSUME Places(line, Colon) # {} PROVE PortableName(LabelOf(line))
  <2>1. LabelOf(line) \in DOMAIN f[k].labels
    BY <1>3, <1>4 DEF With
  <2> QED
    BY <1>2, <2>1, PortableIs
<1>5. ASSUME rest # <<>> PROVE PortableLine(rest)
  <2>1. IsSeq(last.lines) /\ More(more, last.lines, rest) /\ f[k].lines = more
    BY <1>1, <1>3, <1>5 DEF TypedPass, More
  <2> HIDE DEF more, last, rest
  <2>2. IsSeq(more) /\ Len(more) = Len(last.lines) + 1 /\ more[Len(last.lines) + 1] = rest
    BY <2>1, Appends
  <2>3. Len(more) \in DOMAIN more
    BY <2>1, <2>2, SeqDomain
  <2>4. rest \in ToSet(more)
    BY <2>2, <2>3 DEF ToSet
  <2> QED
    BY <1>2, <2>1, <2>4, PortableIs
<1> QED
  BY <1>0, <1>3, <1>4, <1>5 DEF Readable, line

\* The labels of the first lines were found at one of them.
LEMMA LabelsSeen ==
  ASSUME NEW S, NEW text \in Seq(S), NEW f, Passes(text, f)
  PROVE  \A k \in 0 .. Len(text) :
           /\ IsFiniteSet(DOMAIN f[k].labels)
           /\ \A l \in DOMAIN f[k].labels :
                \E j \in 1 .. k : Places(Code(text[j]), Colon) # {} /\ LabelOf(Code(text[j])) = l
<1> DEFINE n == Len(text)
           Found(l, j) == Places(Code(text[j]), Colon) # {} /\ LabelOf(Code(text[j])) = l
           Seen(k) == /\ IsFiniteSet(DOMAIN f[k].labels)
                      /\ \A l \in DOMAIN f[k].labels : \E j \in 1 .. k : Found(l, j)
           K == {k \in 0 .. n : Seen(k)}
<1>1. n \in Nat
  OBVIOUS
<1> HIDE DEF n
<1>2. 0 \in K
  <2>1. DOMAIN f[0].labels = {}
    BY DEF Passes, Unpassed
  <2> HIDE DEF Found
  <2>2. Seen(0)
    BY <2>1, FS_EmptySet
  <2> HIDE DEF Seen
  <2> QED
    BY <1>1, <2>2
<1>3. ASSUME NEW k \in 0 .. n - 1, k \in K PROVE k + 1 \in K
  <2> DEFINE m == k + 1
             name == LabelOf(Code(text[m]))
  <2>1. m \in 1 .. n /\ m \in 0 .. n /\ k \in 0 .. n /\ m - 1 = k /\ Seen(k)
    <3> HIDE DEF Seen
    <3> QED
      BY <1>1, <1>3
  <2>2. f[m] = PassOneStep(f[k], text[m]) /\ f[m] # Error /\ TypedPass(f[k])
    BY <2>1 DEF n, Passes
  <2>3. f[m].labels = IF Places(Code(text[m]), Colon) = {} THEN f[k].labels
                      ELSE With(f[k].labels, name, f[k].pc)
    BY <2>2, PassMoves DEF TypedPass
  <2>4. \/ DOMAIN f[m].labels = DOMAIN f[k].labels
        \/ DOMAIN f[m].labels = DOMAIN f[k].labels \cup {name} /\ Found(name, m)
    BY <2>3 DEF With
  <2>5. m \in 1 .. m /\ \A j \in 1 .. k : j \in 1 .. m
    BY <1>1
  <2> HIDE DEF m, Found
  <2>6. IsFiniteSet(DOMAIN f[m].labels)
    <3> DEFINE D == DOMAIN f[k].labels
    <3>1. IsFiniteSet(D)
      BY <2>1, Zenon
    <3> HIDE DEF D
    <3>2. IsFiniteSet(D \cup {name})
      BY <3>1, FS_AddElement
    <3> QED
      BY <2>4, <3>1, <3>2, Zenon DEF D
  <2>7. \A l \in DOMAIN f[m].labels : \E j \in 1 .. m : Found(l, j)
    BY <2>1, <2>4, <2>5, Zenon
  <2>8. Seen(m)
    BY <2>6, <2>7
  <2> HIDE DEF Seen
  <2> QED
    BY <2>1, <2>8 DEF m
<1> HIDE DEF K, Seen
<1>4. \A k \in 0 .. n : k \in K
  BY <1>1, <1>2, <1>3, Induction
<1> QED
  BY <1>4, Zenon DEF K, Seen, n

\* Before the first line.
LEMMA AlikeAtFirst == AlikePass(Unpassed, Trap!Unpassed)
<1> DEFINE address == [s \in Trap!Section |-> 0]
<1>1. "CODE" \in DOMAIN address /\ address["CODE"] = 0
  BY DEF Trap!Section
<1> HIDE DEF address
<1>2. Trap!Unpassed = [symbols |-> <<>>, address |-> address, section |-> "CODE", layout |-> <<>>]
  BY Zenon DEF Trap!Unpassed, address
<1>3. Symbols(<<>>) = <<>>
  <2>1. DOMAIN <<>> = {}
    OBVIOUS
  <2>2. Symbols(<<>>) = [l \in {} |-> Trap!Number(<<>>[l])]
    BY <2>1 DEF Symbols
  <2>3. <<>> = [l \in {} |-> Trap!Number(<<>>[l])]
    <3>1. <<>> = [l \in 1 .. 0 |-> <<>>[l]]
      BY Empty DEF IsSeq
    <3>2. 1 .. 0 = {}
      OBVIOUS
    <3> QED
      BY <3>1, <3>2
  <2> QED
    BY <2>2, <2>3
<1>4. Placed(<<>>, <<>>, 0)
  <2>1. Len(<<>>) = 0 /\ IsSeq(<<>>)
    BY Empty
  <2>2. 1 .. 0 = {} /\ 1 .. 0 + 1 = {1}
    OBVIOUS
  <2> QED
    BY <2>1, <2>2 DEF Placed
<1>5. Unpassed.labels = <<>> /\ Unpassed.pc = 0 /\ Unpassed.lines = <<>>
  BY DEF Unpassed
<1>6. Trap!Unpassed = Reached(<<>>, address, <<>>)
  BY <1>2, <1>3, Zenon DEF Reached
<1> QED
  BY <1>1, <1>4, <1>5, <1>6 DEF AlikePass

\* After all lines.
LEMMA TextsAlike ==
  ASSUME ErrorIsAlone, NEW S, NEW text \in Seq(S), \A i \in 1 .. Len(text) : IsSeq(text[i]),
         assemble(text) # Error, Portable(text)
  PROVE  /\ PassOne(text) # Error /\ TypedPass(PassOne(text))
         /\ IsFiniteSet(DOMAIN PassOne(text).labels)
         /\ \A l \in DOMAIN PassOne(text).labels : PortableName(l)
         /\ AlikePass(PassOne(text), Trap!LaidOut(Trap!expand_includes(text)))
<1> DEFINE n == Len(text)
<1>1. PICK f : Passes(text, f)
  BY PassesExist
<1>2. n \in Nat /\ DOMAIN text = 1 .. n
  OBVIOUS
<1>3. /\ f[0] = Unpassed /\ f[n] = PassOne(text)
      /\ \A k \in 1 .. n : f[k] = PassOneStep(f[k - 1], text[k])
      /\ \A k \in 0 .. n : f[k] # Error /\ TypedPass(f[k])
  BY <1>1 DEF Passes
<1>4. \A k \in 1 .. n : Readable(text[k])
  BY <1>1, LinesReadable
<1>5. \A k \in 0 .. n :
         /\ IsFiniteSet(DOMAIN f[k].labels)
         /\ \A l \in DOMAIN f[k].labels :
              \E j \in 1 .. k : Places(Code(text[j]), Colon) # {} /\ LabelOf(Code(text[j])) = l
  BY <1>1, LabelsSeen
<1>6. PICK t : /\ t[0] = Trap!Unpassed /\ t[n] = Trap!PassOne(Trap!_parse_source(text))
               /\ \A k \in 1 .. n :
                    t[k] = IF Trap!Bare(text[k]) = <<>> THEN t[k - 1]
                           ELSE Trap!PassOneStep(t[k - 1], Trap!Record(text[k]))
  BY PassByLines, SeqIsSeq
<1>7. Trap!LaidOut(Trap!expand_includes(text)) = t[n]
  <2>1. Trap!expand_includes(text) = text /\ text # Error
    BY <1>4, NothingIncluded, NoError, SeqIsSeq
  <2> QED
    BY <1>6, <2>1 DEF Trap!LaidOut
<1> HIDE DEF n
<1> DEFINE K == {k \in 0 .. n : AlikePass(f[k], t[k])}
<1>8. 0 \in K
  BY <1>2, <1>3, <1>6, AlikeAtFirst
<1>9. ASSUME NEW k \in 0 .. n - 1, k \in K PROVE k + 1 \in K
  <2> DEFINE m == k + 1
             raw == text[m]
             next == IF Trap!Bare(raw) = <<>> THEN t[k] ELSE Trap!PassOneStep(t[k], Trap!Record(raw))
  <2>1. m \in 1 .. n /\ m \in 0 .. n /\ k \in 0 .. n /\ m - 1 = k /\ AlikePass(f[k], t[k])
    BY <1>2, <1>9
  <2> HIDE DEF m
  <2>2. f[m] = PassOneStep(f[k], raw) /\ f[m] # Error /\ TypedPass(f[k])
    BY <1>3, <2>1
  <2>3. Readable(raw)
    BY <1>4, <2>1
  <2>4. t[m] = next
    BY <1>6, <2>1
  <2>5. ASSUME Places(Code(raw), Colon) # {}, LabelOf(Code(raw)) \in DOMAIN f[k].labels PROVE FALSE
    <3>1. PICK j \in 1 .. k : Places(Code(text[j]), Colon) # {} /\ LabelOf(Code(text[j])) = LabelOf(Code(raw))
      BY <1>5, <2>1, <2>5
    <3>2. j \in DOMAIN text /\ m \in DOMAIN text /\ j # m
      BY <1>2, <2>1 DEF m
    <3>3. \A i, h \in DOMAIN text :
              /\ Places(Code(text[i]), Colon) # {} /\ Places(Code(text[h]), Colon) # {}
              /\ LabelOf(Code(text[i])) = LabelOf(Code(text[h]))
              => i = h
      BY PortableIs
    <3> QED
      BY <2>5, <3>1, <3>2, <3>3
  <2> HIDE DEF raw
  <2>6. AlikePass(PassOneStep(f[k], raw), IF Trap!Bare(raw) = <<>>
                                          THEN t[k]
                                          ELSE Trap!PassOneStep(t[k], Trap!Record(raw)))
    <3> DEFINE pass == f[k]
               other == t[k]
    <3>1. /\ TypedPass(pass) /\ AlikePass(pass, other) /\ PassOneStep(pass, raw) # Error
          /\ Places(Code(raw), Colon) # {} => LabelOf(Code(raw)) \notin DOMAIN pass.labels
      BY <2>1, <2>2, <2>5
    <3> HIDE DEF pass, other
    <3>2. AlikePass(PassOneStep(pass, raw), IF Trap!Bare(raw) = <<>>
                                            THEN other
                                            ELSE Trap!PassOneStep(other, Trap!Record(raw)))
      BY <2>3, <3>1, PassesAlike
    <3> QED
      BY <3>2 DEF pass, other
  <2>7. AlikePass(f[m], t[m])
    BY <2>2, <2>4, <2>6
  <2> QED
    BY <2>1, <2>7 DEF m
<1>10. \A k \in 0 .. n : k \in K
  <2> HIDE DEF K
  <2> QED
    BY <1>2, <1>8, <1>9, Induction
<1>11. n \in 0 .. n /\ AlikePass(f[n], t[n]) /\ IsFiniteSet(DOMAIN f[n].labels)
  BY <1>2, <1>5, <1>10
<1> QED
  BY <1>3, <1>7, <1>11, PortableIs

-----------------------------------------------------------------------------
(***************************************************************************)
(* The second passes, side by side.                                        *)
(***************************************************************************)
\* A segment from the beginning of the memory.
Whole(bytes) == <<[base |-> 0, blob |-> bytes]>>

\* The first bytes open a segment.
LEMMA EmitsFirst ==
  ASSUME NEW data, data # <<>>
  PROVE  Trap!Emit(<<>>, 0, data) = Whole(data)
  BY DEF Trap!Emit, Whole

\* Bytes that follow a segment lengthen it.
LEMMA EmitsMore ==
  ASSUME NEW bytes, IsSeq(bytes), NEW data, data # <<>>
  PROVE  Trap!Emit(Whole(bytes), Len(bytes), data) = Whole(bytes \o data)
<1> DEFINE segment == [base |-> 0, blob |-> bytes]
           segments == <<segment>>
           longer == bytes \o data
<1>1. Len(bytes) \in Nat
  BY DEF IsSeq
<1>2. segment.base = 0 /\ segment.blob = bytes /\ segment = [base |-> 0, blob |-> segment.blob]
  OBVIOUS
<1> HIDE DEF segment, longer
<1>3. Trap!End(segment) = Len(bytes)
  BY <1>1, <1>2 DEF Trap!End
<1>4. segments # <<>> /\ Len(segments) = 1 /\ segments[1] = segment /\ segments = [i \in 1 .. 1 |-> segments[i]]
  <2>1. Len(segments) = 1 /\ segments[1] = segment /\ segments = [i \in 1 .. 1 |-> segments[i]]
    OBVIOUS
  <2> HIDE DEF segments
  <2> QED
    BY <2>1, Empty
<1> HIDE DEF segments
<1>5. Trap!Last(segments) = segment
  BY <1>4 DEF Trap!Last
<1>6. Trap!Emit(segments, Len(bytes), data) = [segments EXCEPT ![1].blob = bytes \o data]
  BY <1>2, <1>3, <1>4, <1>5, Zenon DEF Trap!Emit
<1>7. [segment EXCEPT !.blob = longer] = [base |-> 0, blob |-> longer]
  BY <1>2
<1>8. [segments EXCEPT ![1].blob = longer] = <<[base |-> 0, blob |-> longer]>>
  <2> DEFINE changed == [segment EXCEPT !.blob = longer]
  <2>1. [segments EXCEPT ![1].blob = longer] = [segments EXCEPT ![1] = changed]
    BY <1>4
  <2> HIDE DEF changed
  <2>2. [segments EXCEPT ![1] = changed] = <<changed>>
    BY <1>4
  <2> QED
    BY <1>7, <2>1, <2>2, Zenon DEF changed
<1> QED
  BY <1>6, <1>8, Zenon DEF segments, segment, longer, Whole

\* The memory that holds it.
LEMMA StoredWhole ==
  ASSUME NEW bytes, IsSeq(bytes)
  PROVE  Trap!Stored(Whole(bytes)) = [a \in 0 .. Len(bytes) - 1 |-> bytes[a + 1]]
<1> DEFINE segment == [base |-> 0, blob |-> bytes]
           segments == <<segment>>
           n == Len(bytes)
           within(a) == {i \in DOMAIN segments : a \in Trap!Stretch(segments[i])}
           holder(a) == segments[Trap!Max(within(a))]
           all == UNION {Trap!Stretch(segments[i]) : i \in DOMAIN segments}
<1>1. n \in Nat
  BY DEF IsSeq
<1>2. segment.base = 0 /\ segment.blob = bytes
  OBVIOUS
<1> HIDE DEF segment
<1>3. Trap!Stretch(segment) = 0 .. n - 1
  BY <1>1, <1>2 DEF Trap!Stretch, Trap!End
<1>4. DOMAIN segments = {1} /\ segments[1] = segment
  OBVIOUS
<1> HIDE DEF segments, n
<1>5. all = 0 .. n - 1
  BY <1>3, <1>4
<1>6. \A a \in 0 .. n - 1 : within(a) = {1}
  BY <1>3, <1>4
<1>7. Trap!Max({1}) = 1
  BY DEF Trap!Max
<1>8. \A a \in 0 .. n - 1 : holder(a) = segment
  BY <1>4, <1>6, <1>7
<1>9. Trap!Stored(segments) = [a \in all |-> holder(a).blob[a - holder(a).base + 1]]
  BY Zenon DEF Trap!Stored
<1> HIDE DEF all, holder
<1>10. \A a \in 0 .. n - 1 : holder(a).blob[a - holder(a).base + 1] = bytes[a + 1]
  BY <1>1, <1>2, <1>8
<1>11. Trap!Stored(segments) = [a \in 0 .. n - 1 |-> bytes[a + 1]]
  BY <1>5, <1>9, <1>10
<1> QED
  BY <1>11, Zenon DEF segments, segment, n, Whole

\* Nothing is stored where there are no segments.
LEMMA StoredNothing == Trap!Stored(<<>>) = [a \in 0 .. Len(<<>>) - 1 |-> <<>>[a + 1]]
<1> DEFINE none == <<>>
           Byte1(a) == LET holder == none[Trap!Max({i \in DOMAIN none : a \in Trap!Stretch(none[i])})]
                       IN holder.blob[a - holder.base + 1]
           all == UNION {Trap!Stretch(none[i]) : i \in DOMAIN none}
<1>1. DOMAIN none = {} /\ Len(none) = 0
  BY Empty
<1> HIDE DEF none
<1>2. all = {} /\ 0 .. Len(none) - 1 = {}
  BY <1>1
<1>3. Trap!Stored(none) = [a \in all |-> Byte1(a)]
  BY Zenon DEF Trap!Stored
<1> HIDE DEF all, Byte1
<1>4. Trap!Stored(none) = [a \in 0 .. Len(none) - 1 |-> none[a + 1]]
  BY <1>2, <1>3
<1> QED
  BY <1>4 DEF none

\* The segments of a section after every placed line.
SegmentsGo(g, layout, known, section) ==
  /\ g[0] = <<>> /\ g[Len(layout)] = Trap!PassTwo(layout, known, section)
  /\ \A k \in 1 .. Len(layout) :
       g[k] = IF layout[k].section = section
              THEN Trap!Emit(g[k - 1], layout[k].address, Trap!Emitted(layout[k], known))
              ELSE g[k - 1]

\* There are such segments.
LEMMA SegmentsExist ==
  ASSUME NEW layout, IsSeq(layout), NEW known, NEW section
  PROVE  \E g : SegmentsGo(g, layout, known, section)
<1>1. PICK g : /\ g[0] = <<>> /\ g[Len(layout)] = Trap!PassTwo(layout, known, section)
               /\ \A k \in 1 .. Len(layout) : g[k] = IF layout[k].section = section
                                                     THEN Trap!Emit(g[k - 1], layout[k].address, Trap!Emitted(layout[k], known))
                                                     ELSE g[k - 1]
  BY SegmentsRun
<1>2. SegmentsGo(g, layout, known, section)
  BY <1>1, Zenon DEF SegmentsGo
<1> QED
  BY <1>2, Zenon

\* The lines placed one after the other make one segment of the code.
LEMMA CodeIsWhole ==
  ASSUME NEW lines, NEW layout, NEW pc, Placed(lines, layout, pc), NEW known,
         NEW made \in Seq(Seq(Byte)), Len(made) = Len(lines),
         \A i \in 1 .. Len(lines) :
           /\ Trap!Emitted(layout[i], known) = made[i]
           /\ Len(made[i]) = Size(OpOf(lines[i])) /\ Len(made[i]) > 0
  PROVE  Trap!PassTwo(layout, known, "CODE") =
           IF Len(lines) = 0 THEN <<>> ELSE Whole(FlattenSeq(made))
<1> DEFINE n == Len(lines)
           at(i) == IF i = n + 1 THEN pc ELSE layout[i].address
<1>1. n \in Nat /\ IsSeq(layout) /\ Len(layout) = n /\ Len(made) = n
  BY DEF Placed, IsSeq
<1>2. PICK f \in [0 .. n -> Seq(Byte)] :
        f[0] = <<>> /\ f[n] = FlattenSeq(made) /\ \A k \in 0 .. n - 1 : f[k + 1] = f[k] \o made[k + 1]
  <2> HIDE DEF n
  <2>1. PICK f \in [0 .. Len(made) -> Seq(Byte)] :
          /\ f[0] = <<>> /\ f[Len(made)] = FlattenSeq(made)
          /\ \A k \in 0 .. Len(made) - 1 : f[k + 1] = f[k] \o made[k + 1]
    BY FlattenUnrolls
  <2> QED
    BY <1>1, <2>1
<1>3. PICK g : /\ g[0] = <<>> /\ g[n] = Trap!PassTwo(layout, known, "CODE")
               /\ \A k \in 1 .. n : g[k] = IF layout[k].section = "CODE"
                                           THEN Trap!Emit(g[k - 1], layout[k].address, Trap!Emitted(layout[k], known))
                                           ELSE g[k - 1]
  <2> HIDE DEF n
  <2>1. PICK g : SegmentsGo(g, layout, known, "CODE")
    BY <1>1, SegmentsExist
  <2> QED
    BY <1>1, <2>1, Zenon DEF SegmentsGo
<1>4. \A k \in 1 .. n : layout[k].section = "CODE"
  <2>1. \A a, o, p : Placing(a, o, p).section = "CODE"
    BY DEF Placing
  <2> TAKE k \in 1 .. n
  <2>2. layout[k] = Placing(layout[k].address, OpOf(lines[k]), Given(lines[k]))
    BY DEF Placed
  <2>3. Placing(layout[k].address, OpOf(lines[k]), Given(lines[k])).section = "CODE"
    BY <2>1, Zenon
  <2> QED
    BY <2>2, <2>3, Zenon
<1>5. \A i \in 1 .. n + 1 : at(i) = IF i = 1 THEN 0 ELSE layout[i - 1].address + Size(OpOf(lines[i - 1]))
  BY DEF Placed
<1>6. \A k \in 1 .. n : made[k] \in Seq(Byte) /\ Len(made[k]) > 0 /\ Len(made[k]) = Size(OpOf(lines[k]))
  BY <1>1
<1>7. \A k \in 1 .. n : g[k] = Trap!Emit(g[k - 1], layout[k].address, made[k])
  BY <1>3, <1>4
<1> HIDE DEF n
<1> DEFINE Right(k) == Len(f[k]) = at(k + 1) /\ g[k] = IF k = 0 THEN <<>> ELSE Whole(f[k])
           K == {k \in 0 .. n : Right(k)}
<1>8. 0 \in K
  <2>1. 1 \in 1 .. n + 1 /\ 0 \in 0 .. n /\ 0 + 1 = 1
    BY <1>1
  <2>2. at(1) = 0
    BY <1>5, <2>1
  <2> HIDE DEF at
  <2>3. Right(0)
    BY <1>2, <1>3, <2>1, <2>2, Empty
  <2> HIDE DEF Right
  <2> QED
    BY <2>1, <2>3
<1>9. ASSUME NEW k \in 0 .. n - 1, k \in K PROVE k + 1 \in K
  <2> DEFINE m == k + 1
             longer == f[k] \o made[m]
  <2>1. m \in 1 .. n /\ m \in 0 .. n /\ k \in 0 .. n /\ m - 1 = k /\ m \in 1 .. n + 1 /\ m + 1 \in 1 .. n + 1
        /\ m # n + 1 /\ m + 1 # 1 /\ (m + 1) - 1 = m /\ m # 0
    BY <1>1
  <2>2. Len(f[k]) = at(m) /\ g[k] = IF k = 0 THEN <<>> ELSE Whole(f[k])
    <3> HIDE DEF at
    <3> QED
      BY <1>9
  <2>3. f[m] = longer /\ f[k] \in Seq(Byte) /\ made[m] \in Seq(Byte) /\ Len(made[m]) > 0
    BY <1>2, <1>6, <2>1
  <2> HIDE DEF m, longer
  <2>4. layout[m].address = at(m)
    BY <2>1
  <2>5. at(m + 1) = layout[m].address + Size(OpOf(lines[m]))
    BY <1>5, <2>1
  <2> HIDE DEF at
  <2>6. Len(f[m]) = at(m + 1)
    <3>1. Len(longer) = Len(f[k]) + Len(made[m])
      BY <2>3 DEF longer
    <3>2. Len(made[m]) = Size(OpOf(lines[m]))
      BY <1>6, <2>1
    <3> QED
      BY <2>2, <2>3, <2>4, <2>5, <3>1, <3>2
  <2>7. made[m] # <<>>
    BY <2>3, Empty
  <2>8. g[m] = Trap!Emit(g[k], Len(f[k]), made[m])
    BY <1>7, <2>1, <2>2, <2>4
  <2>9. g[m] = Whole(f[m])
    <3>1. CASE k = 0
      <4>1. Len(f[k]) = 0 /\ f[m] = made[m]
        <5>1. f[k] = <<>> /\ <<>> \o made[m] = made[m]
          BY <1>2, <2>3, <3>1
        <5> QED
          BY <2>3, <5>1, Empty DEF longer
      <4> QED
        BY <2>2, <2>7, <2>8, <3>1, <4>1, EmitsFirst
    <3>2. CASE k # 0
      <4>1. IsSeq(f[k])
        BY <2>3, SeqIsSeq
      <4>2. Trap!Emit(Whole(f[k]), Len(f[k]), made[m]) = Whole(f[k] \o made[m])
        BY <2>7, <4>1, EmitsMore
      <4> QED
        BY <2>2, <2>3, <2>8, <3>2, <4>2, Zenon DEF longer
    <3> QED
      BY <3>1, <3>2
  <2>10. Right(m)
    BY <2>1, <2>6, <2>9
  <2> HIDE DEF Right
  <2> QED
    BY <2>1, <2>10 DEF m
<1>10. \A k \in 0 .. n : k \in K
  <2> HIDE DEF K
  <2> QED
    BY <1>1, <1>8, <1>9, Induction
<1>11. g[n] = IF n = 0 THEN <<>> ELSE Whole(f[n])
  BY <1>1, <1>10
<1> QED
  BY <1>2, <1>3, <1>11 DEF n

\* And none of the data.
LEMMA NoData ==
  ASSUME NEW lines, NEW layout, NEW pc, Placed(lines, layout, pc), NEW known
  PROVE  Trap!PassTwo(layout, known, "DATA") = <<>>
<1> DEFINE n == Len(lines)
<1>1. n \in Nat /\ IsSeq(layout) /\ Len(layout) = n
  BY DEF Placed, IsSeq
<1>2. PICK g : /\ g[0] = <<>> /\ g[n] = Trap!PassTwo(layout, known, "DATA")
               /\ \A k \in 1 .. n : g[k] = IF layout[k].section = "DATA"
                                           THEN Trap!Emit(g[k - 1], layout[k].address, Trap!Emitted(layout[k], known))
                                           ELSE g[k - 1]
  <2> HIDE DEF n
  <2>1. PICK g : SegmentsGo(g, layout, known, "DATA")
    BY <1>1, SegmentsExist
  <2> QED
    BY <1>1, <2>1, Zenon DEF SegmentsGo
<1>3. \A k \in 1 .. n : layout[k].section = "CODE"
  <2>1. \A a, o, p : Placing(a, o, p).section = "CODE"
    BY DEF Placing
  <2> TAKE k \in 1 .. n
  <2>2. layout[k] = Placing(layout[k].address, OpOf(lines[k]), Given(lines[k]))
    BY DEF Placed
  <2>3. Placing(layout[k].address, OpOf(lines[k]), Given(lines[k])).section = "CODE"
    BY <2>1, Zenon
  <2> QED
    BY <2>2, <2>3, Zenon
<1>4. \A k \in 1 .. n : g[k] = g[k - 1]
  BY <1>2, <1>3
<1> HIDE DEF n
<1> DEFINE K == {k \in 0 .. n : g[k] = <<>>}
<1>5. 0 \in K
  BY <1>1, <1>2
<1>6. ASSUME NEW k \in 0 .. n - 1, k \in K PROVE k + 1 \in K
  <2>1. k + 1 \in 1 .. n /\ k + 1 \in 0 .. n /\ (k + 1) - 1 = k /\ g[k] = <<>>
    BY <1>1, <1>6
  <2>2. g[k + 1] = g[k]
    BY <1>4, <2>1
  <2> QED
    BY <2>1, <2>2
<1>7. \A k \in 0 .. n : k \in K
  <2> HIDE DEF K
  <2> QED
    BY <1>1, <1>5, <1>6, Induction
<1> QED
  BY <1>1, <1>2, <1>7

\* The bytes of a line are as many as its instruction has.
LEMMA EmittedLength ==
  ASSUME NEW line, Solid(line), NEW labels, \A l \in DOMAIN labels : labels[l] \in Nat,
         Emitted(line, labels) # Error
  PROVE  Len(Emitted(line, labels)) = Size(OpOf(line)) /\ Len(Emitted(line, labels)) > 0
<1> DEFINE op == Operation(Words(line))
           v == Argument(op, Words(line), labels)
<1>1. Unlabelled(line) = line /\ line # <<>>
  BY LineForm, Colons, Empty DEF Solid
<1>2. Emitted(line, labels) = Encoded(op, v)
  BY <1>1 DEF Emitted, Instruction
<1>3. op \in DOMAIN OPS
  BY LineParts DEF Solid
<1>4. v = Error \/ v \in Int
  BY Arguments
<1>5. OpOf(line) = op
  BY <1>1 DEF OpOf
<1> HIDE DEF op, v
<1>6. Len(Encoded(op, v)) = Size(op)
  BY <1>2, <1>3, <1>4, EncodedBytes
<1>7. Size(op) \in {1, 2, 3}
  BY <1>3, TrapOpcodes
<1> QED
  BY <1>2, <1>5, <1>6, <1>7

\* A placed line has the bytes of the line it was made from.
LEMMA LineAlike ==
  ASSUME ErrorIsAlone, NEW line, Solid(line),
         NEW labels, \A l \in DOMAIN labels : labels[l] \in Nat /\ PortableName(l),
         NEW known, DOMAIN known = DOMAIN labels, \A l \in DOMAIN labels : known[l] = labels[l],
         Emitted(line, labels) # Error,
         NEW placed, placed = Placing(placed.address, OpOf(line), Given(line))
  PROVE  Trap!Emitted(placed, known) = Emitted(line, labels)
<1>1. placed.op = OpOf(line) /\ placed.operands = Given(line)
  <2>1. ASSUME NEW a, NEW o, NEW p PROVE Placing(a, o, p).op = o /\ Placing(a, o, p).operands = p
    BY DEF Placing
  <2>2. PICK a : placed = Placing(a, OpOf(line), Given(line))
    OBVIOUS
  <2> QED
    BY <2>1, <2>2, SMT
<1>2. IsSeq(line) /\ Len(line) > 0 /\ line[1] # Gap /\ line[Len(line)] # Gap /\ PortableLine(line)
  BY DEF Solid
<1> QED
  BY <1>1, <1>2, EmittedAlike

\* The bytes that TRAPCPU makes of the lines are the original's.
LEMMA BytesAlike ==
  ASSUME ErrorIsAlone, NEW pass, TypedPass(pass), \A l \in DOMAIN pass.labels : PortableName(l),
         PassTwo(pass) # Error, NEW layout, Placed(pass.lines, layout, pass.pc),
         NEW known, known = [l \in DOMAIN pass.labels |-> pass.labels[l]]
  PROVE  /\ Made(pass) \in Seq(Seq(Byte)) /\ Len(Made(pass)) = Len(pass.lines)
         /\ PassTwo(pass) = FlattenSeq(Made(pass))
         /\ \A i \in 1 .. Len(pass.lines) :
              /\ Trap!Emitted(layout[i], known) = Made(pass)[i] /\ Made(pass)[i] # Error
              /\ Len(Made(pass)[i]) = Size(OpOf(pass.lines[i])) /\ Len(Made(pass)[i]) > 0
<1> DEFINE lines == pass.lines
           labels == pass.labels
           made == Made(pass)
<1>1. /\ made \in Seq(Seq(Byte)) /\ DOMAIN made = DOMAIN lines
      /\ \A i \in DOMAIN lines : Emitted(lines[i], labels) # Error
      /\ PassTwo(pass) = FlattenSeq(made)
  BY PassTwoMakes
<1>2. \A i \in DOMAIN lines : made[i] = Emitted(lines[i], labels)
  BY DEF Made
<1>3. \A l \in DOMAIN labels : labels[l] \in Nat /\ PortableName(l)
  BY DEF TypedPass
<1>4. DOMAIN known = DOMAIN labels /\ \A l \in DOMAIN labels : known[l] = labels[l]
  OBVIOUS
<1>5. DOMAIN lines = 1 .. Len(lines) /\ Len(lines) \in Nat /\ IsSeq(made)
  BY <1>1, SeqDomain, SeqIsSeq DEF TypedPass
<1>6. Len(made) = Len(lines)
  <2>1. DOMAIN made = 1 .. Len(made) /\ Len(made) \in Nat
    BY <1>5, SeqDomain
  <2> HIDE DEF made, lines
  <2> QED
    BY <1>1, <1>5, <2>1
<1>7. \A i \in 1 .. Len(lines) : Solid(lines[i]) /\ layout[i] = Placing(layout[i].address, OpOf(lines[i]), Given(lines[i]))
  BY DEF Placed
<1> HIDE DEF made, lines, labels
<1>8. ASSUME NEW i \in 1 .. Len(lines)
      PROVE  /\ Trap!Emitted(layout[i], known) = made[i] /\ made[i] # Error
             /\ Len(made[i]) = Size(OpOf(lines[i])) /\ Len(made[i]) > 0
  <2> DEFINE line == lines[i]
             placed == layout[i]
  <2>1. Solid(line) /\ placed = Placing(placed.address, OpOf(line), Given(line))
    BY <1>7
  <2>2. Emitted(line, labels) # Error /\ made[i] = Emitted(line, labels)
    BY <1>1, <1>2, <1>5
  <2> HIDE DEF line, placed
  <2>4. Trap!Emitted(placed, known) = Emitted(line, labels)
    BY <1>3, <1>4, <2>1, <2>2, LineAlike
  <2>5. Len(Emitted(line, labels)) = Size(OpOf(line)) /\ Len(Emitted(line, labels)) > 0
    BY <1>3, <2>1, <2>2, EmittedLength
  <2> QED
    BY <2>2, <2>4, <2>5 DEF line, placed
<1> QED
  BY <1>1, <1>6, <1>8 DEF made, lines

\* A portable program becomes the same bytes.
LEMMA AssemblesAlike ==
  ASSUME ErrorIsAlone, NEW S, NEW text \in Seq(S), \A i \in 1 .. Len(text) : IsSeq(text[i]),
         assemble(text) # Error, Portable(text)
  PROVE  SameImage(assemble(text), Trap!assemble(text))
<1> DEFINE pass == PassOne(text)
           t == Trap!LaidOut(Trap!expand_includes(text))
           made == Made(pass)
           n == Len(pass.lines)
           old == assemble(text)
<1>1. /\ TypedPass(pass) /\ IsFiniteSet(DOMAIN pass.labels)
      /\ \A l \in DOMAIN pass.labels : PortableName(l)
      /\ AlikePass(pass, t)
  BY TextsAlike
<1>2. PICK address, layout : t = Reached(pass.labels, address, layout) /\ Placed(pass.lines, layout, pass.pc)
  BY <1>1 DEF AlikePass
<1> DEFINE known == Trap!Values(t.symbols)
<1>3. old = PassTwo(pass) /\ old # Error
  BY DEF assemble
<1>4. Trap!assemble(text) = Trap!Linked(t)
  BY DEF Trap!assemble
<1> HIDE DEF pass, t, old, made
<1>5. /\ t.symbols = Symbols(pass.labels) /\ t.layout = layout /\ t = [x \in DOMAIN t |-> t[x]]
  BY <1>2 DEF Reached
<1>6. t # Error
  BY <1>5 DEF ErrorIsAlone
<1>7. known = [l \in DOMAIN pass.labels |-> pass.labels[l]] /\ DOMAIN known = DOMAIN t.symbols
  <2>1. known = [l \in DOMAIN pass.labels |-> pass.labels[l]]
    BY <1>1, <1>5, ValuesAre
  <2>2. DOMAIN t.symbols = DOMAIN pass.labels
    BY <1>5 DEF Symbols
  <2> HIDE DEF known
  <2> QED
    BY <2>1, <2>2
<1> HIDE DEF known
<1>8. /\ made \in Seq(Seq(Byte)) /\ Len(made) = n
      /\ old = FlattenSeq(made)
      /\ \A i \in 1 .. n :
           /\ Trap!Emitted(layout[i], known) = made[i] /\ made[i] # Error
           /\ Len(made[i]) = Size(OpOf(pass.lines[i])) /\ Len(made[i]) > 0
  BY <1>1, <1>2, <1>3, <1>7, BytesAlike DEF made
<1> DEFINE code == Trap!PassTwo(layout, known, "CODE")
           data == Trap!PassTwo(layout, known, "DATA")
           new == [code |-> code, data |-> data, symbols |-> known, layout |-> layout]
<1>9. Trap!assemble(text) = new
  <2>1. DOMAIN layout = 1 .. n
    BY <1>2, SeqDomain DEF Placed
  <2>2. \A i \in DOMAIN layout : Trap!Emitted(layout[i], known) # Error
    BY <1>8, <2>1
  <2>3. Trap!assemble(text) = Trap!Link(t, known)
    BY <1>4, <1>6 DEF Trap!Linked, known
  <2> QED
    BY <1>5, <1>7, <2>2, <2>3, Zenon DEF Trap!Link
<1>10. code = IF n = 0 THEN <<>> ELSE Whole(old)
  BY <1>2, <1>8, CodeIsWhole
<1>11. data = <<>>
  BY <1>2, NoData
<1> HIDE DEF code, data
<1>12. new # Error /\ new.code = code /\ new.data = data
  <2>1. new = [x \in DOMAIN new |-> new[x]] /\ new.code = code /\ new.data = data
    OBVIOUS
  <2> HIDE DEF new
  <2> QED
    BY <2>1 DEF ErrorIsAlone
<1>13. Trap!Stored(code) = [a \in 0 .. Len(old) - 1 |-> old[a + 1]]
  <2>1. CASE n = 0
    <3>1. PICK f \in [0 .. Len(made) -> Seq(Byte)] : f[0] = <<>> /\ f[Len(made)] = FlattenSeq(made)
      BY <1>8, FlattenUnrolls
    <3>2. old = <<>>
      BY <1>8, <2>1, <3>1
    <3> QED
      BY <1>10, <2>1, <3>2, StoredNothing
  <2>2. CASE n # 0
    <3>1. IsSeq(old)
      BY <1>8, Flattened, SeqIsSeq
    <3>2. code = Whole(old)
      BY <1>10, <2>2
    <3> QED
      BY <3>1, <3>2, StoredWhole
  <2> QED
    BY <2>1, <2>2
<1> HIDE DEF new
<1>14. SameImage(old, new)
  BY <1>11, <1>12, <1>13 DEF SameImage
<1> QED
  BY <1>9, <1>14 DEF old

-----------------------------------------------------------------------------
(***************************************************************************)
(* The same programs, and what follows for their runs.                     *)
(***************************************************************************)
\* The invariant says enough of the texts for the assemblers to agree on them.
LEMMA InvAssembles == ErrorIsAlone /\ MiniInv => OldProgramsAssemble
<1> SUFFICES ASSUME ErrorIsAlone, MiniInv, NEW text \in Programs, assemble(text) # Error, Portable(text)
             PROVE  SameImage(assemble(text), Trap!assemble(text))
  BY DEF OldProgramsAssemble, Programs
<1>1. text \in SourceText
  BY SessionsAssumption DEF MiniInv, Texts, Programs
<1> DEFINE S == Seq(STRING)
<1>2. text \in Seq(S)
  BY <1>1 DEF SourceText
<1>3. \A i \in 1 .. Len(text) : text[i] \in S
  <2> HIDE DEF S
  <2> QED
    BY <1>2
<1>4. \A i \in 1 .. Len(text) : IsSeq(text[i])
  BY <1>3, SeqIsSeq
<1> HIDE DEF S
<1> QED
  BY <1>2, <1>4, AssemblesAlike

\* A portable program that the original assembles, TRAPCPU assembles to the same
\* bytes at the same addresses, whatever labels and literals it has, in sessions
\* of any length and on any disk.
THEOREM OldProgramsAssembleAlike == ErrorIsAlone => (Spec => []OldProgramsAssemble)
<1> SUFFICES ASSUME ErrorIsAlone PROVE Spec => []OldProgramsAssemble
  OBVIOUS
<1>1. Spec => []MiniInv
  BY InvInit, InvNext, PTL DEF Spec
<1>2. MiniInv => OldProgramsAssemble
  BY InvAssembles
<1> QED
  BY <1>1, <1>2, PTL

\* And it runs on TRAPCPU as it did, instruction by instruction: nothing is left
\* to assume of the assemblers.
THEOREM OldProgramsStillRun == ErrorIsAlone => (Spec => []OldProgramsRun)
<1> SUFFICES ASSUME ErrorIsAlone PROVE Spec => []OldProgramsRun
  OBVIOUS
<1>1. Spec => []OldProgramsAssemble
  BY OldProgramsAssembleAlike
<1> QED
  BY <1>1, OldProgramsRunAlike, PTL
=============================================================================
