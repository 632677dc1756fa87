-------------------------- MODULE Snapshot_proofs --------------------------
(* What a mount promises, proved of every transcript that one line at most has
   been lost from, or mangled in.

   First, what is parsed from one frame, whole or with one line missing or
   mangled.  The parser is a fold over the lines, so every fact about it is an
   induction; the library's induction theorems take an operator as a parameter,
   which the provers cannot instantiate, so the claims are sets of numbers
   (Induction, in Lists_proofs).  The induction is over the lines of a body:
   Reading says what the snapshot holds after line t when line r is the damaged
   one.  Up to r that is what the machine held; after it the snapshot holds
   nothing that the machine did not (Parse).  From Parse follow RestoreExact,
   WholeIsClean, DamageIsNoticed and SectorsAccounted, on which the rest builds.
   Long arithmetic leaves hide the names they do not need: the places of the
   lines are defined by the machine's own data.

   Then the transcript.  The inductive invariant says that a ledger can be kept:
   a record of which lines of the transcript belong to which dump, and of the
   damaged one.  The model has no such record and the code has none either; the
   proof needs it to know, from the lines alone, where each frame begins and
   ends, what is parsed from it, and which frame is selected. *)
EXTENDS Snapshot, Lists_proofs

-----------------------------------------------------------------------------
(***************************************************************************)
(* The two definitions that rest on an existence: the addresses of a map   *)
(* in their order, and the parse of a frame.                               *)
(***************************************************************************)
\* The lines of a map name every address of it, and no other.
LEMMA MapLists ==
  ASSUME NEW S \in SUBSET Sector
  PROVE  /\ Cardinality(S) \in Nat
         /\ Ascending(S) = [i \in 1 .. Cardinality(S) |-> Ascending(S)[i]]
         /\ \A i \in 1 .. Cardinality(S) : Ascending(S)[i] \in S
         /\ \A a \in S : \E i \in 1 .. Cardinality(S) : Ascending(S)[i] = a
<1>1. IsFiniteSet(S) /\ S \subseteq Nat
  BY ImageAssumption, FS_Subset
<1> QED
  BY <1>1, AscendingLists

\* The parse of a frame reads its lines one after the other.
LEMMA ParsedReads ==
  ASSUME NEW body, Len(body) \in Nat
  PROVE  /\ Parsed(body)[0] = ParsedSnapshot
         /\ \A i \in 1 .. Len(body) :
              Parsed(body)[i] = ReadLine(Parsed(body)[i - 1], body[i])
<1> DEFINE n == Len(body)
           Reads(g, k) ==
             g = [i \in 0 .. k |->
                   IF i = 0 THEN ParsedSnapshot ELSE ReadLine(g[i - 1], body[i])]
           K == {k \in Nat : \E g : Reads(g, k)}
<1>1. 0 \in K
  <2> DEFINE g == [i \in 0 .. 0 |-> ParsedSnapshot]
  <2>1. Reads(g, 0)
    OBVIOUS
  <2> QED
    BY <2>1
<1>2. ASSUME NEW k \in Nat, k \in K PROVE k + 1 \in K
  <2>1. PICK g : Reads(g, k)
    BY <1>2
  <2> DEFINE h == [i \in 0 .. k + 1 |-> IF i <= k THEN g[i] ELSE ReadLine(g[k], body[k + 1])]
  <2>2. \A i \in 0 .. k : h[i] = g[i]
    OBVIOUS
  <2>3. h[k + 1] = ReadLine(h[k], body[k + 1])
    BY <2>2
  <2>4. ASSUME NEW i \in 0 .. k + 1
        PROVE  h[i] = IF i = 0 THEN ParsedSnapshot ELSE ReadLine(h[i - 1], body[i])
    <3>1. CASE i = k + 1
      BY <3>1, <2>3
    <3>2. CASE i \in 1 .. k
      <4>1. h[i] = g[i] /\ h[i - 1] = g[i - 1] /\ i - 1 \in 0 .. k
        BY <3>2, <2>2
      <4>2. g[i] = ReadLine(g[i - 1], body[i])
        BY <2>1, <3>2
      <4> QED
        BY <4>1, <4>2, <3>2
    <3>3. CASE i = 0
      BY <3>3, <2>1
    <3> QED
      BY <3>1, <3>2, <3>3
  <2>5. Reads(h, k + 1)
    <3> HIDE DEF Reads
    <3>1. h = [i \in 0 .. k + 1 |-> h[i]]
      OBVIOUS
    <3> HIDE DEF h
    <3>2. h = [i \in 0 .. k + 1 |->
                IF i = 0 THEN ParsedSnapshot ELSE ReadLine(h[i - 1], body[i])]
      BY <3>1, <2>4
    <3> QED
      BY <3>2 DEF Reads
  <2> HIDE DEF Reads, h
  <2>6. \E f : Reads(f, k + 1)
    BY <2>5
  <2> QED
    BY <2>6
<1> HIDE DEF K
<1>3. n \in K
  <2>1. \A k \in 0 .. n - 1 : k \in K => k + 1 \in K
    BY <1>2
  <2>2. n \in Nat
    OBVIOUS
  <2> HIDE DEF n
  <2>3. \A k \in 0 .. n : k \in K
    BY <1>1, <2>1, <2>2, Induction
  <2> QED
    BY <2>2, <2>3
<1>4. PICK g : Reads(g, n)
  BY <1>3 DEF K
<1>5. Reads(Parsed(body), n)
  <2>1. Parsed(body) = CHOOSE f : Reads(f, n)
    BY DEF Parsed
  <2> DEFINE chosen == CHOOSE f : Reads(f, n)
  <2> HIDE DEF Reads
  <2>2. Reads(chosen, n)
    BY <1>4
  <2> HIDE DEF chosen
  <2>3. Parsed(body) = chosen
    BY <2>1 DEF chosen
  <2> QED
    BY <2>2, <2>3
<1> DEFINE p == Parsed(body)
<1>6. p = [i \in 0 .. n |->
            IF i = 0 THEN ParsedSnapshot ELSE ReadLine(p[i - 1], body[i])]
  BY <1>5
<1> HIDE DEF p
<1>7. \A i \in 0 .. n : p[i] = IF i = 0 THEN ParsedSnapshot ELSE ReadLine(p[i - 1], body[i])
  BY <1>6
<1> QED
  BY <1>7 DEF p

-----------------------------------------------------------------------------
(***************************************************************************)
(* What a frame is: where its lines are.                                   *)
(***************************************************************************)
\* No line of a prompt ends a prompt or a frame.
Markers == {"BEGIN", "END", "PROMPT_CLOSE", "APROMPT_CLOSE"}
\* The requests and the machines that a frame can describe.
Asking ==
  [channel : {"SYNC", "ASYNC"}, prompt : [lines : Seq(Kind \ Markers), ends : Ends]]
Machine ==
  [state : {"READY", "RUNNING", "TRAPPED", "HALTED", "FAULT"},
   pending : Asking \cup {None}, async_pending : Asking \cup {None},
   irq : {0, 1}, used : {0, 1},
   memory : [rom : [Sector -> Content], ram : [Sector -> Content], exec : BOOLEAN]]

\* The machines that are ever dumped; what a damaged frame restores is one too.
Sound(d) == d \in Machine /\ OneSlot(d)

\* The request that a frame carries, and whether its prompt is text.
Sent(d) == IF d.pending # None THEN d.pending ELSE d.async_pending
Asks(d) == Sent(d) # None
Plain(d) == Asks(d) => Sent(d).prompt.lines \in Seq({"TEXT"})

\* Where the lines of a body are: the last header, the line that opens the
\* prompt, the last line of the request, and the lines around both memories.
HeadEnd(d) == IF d.memory.exec THEN 6 ELSE 5
Opener(d) == HeadEnd(d) + 2
Closer(d) == IF Asks(d) THEN Opener(d) + Len(Sent(d).prompt.lines) + 1 ELSE HeadEnd(d)
Rom(d) == Closer(d) + 3
RomEnd(d) == Rom(d) + Cardinality(Written(d.memory.rom)) + 1
Ram(d) == RomEnd(d) + 1
RamEnd(d) == Ram(d) + Cardinality(Written(d.memory.ram)) + 1

\* The lines of a body that hold a sector.
InMemory(d, t) ==
  \/ Rom(d) < t /\ t < RomEnd(d)
  \/ Ram(d) < t /\ t < RamEnd(d)

\* The lines between BEGIN and END, the last of which is the checksum.
Checksum(d, gen, n) == [i \in 1 .. RamEnd(d) |-> <<n, i, Body(d, gen)[i][1]>>]
Vouched(d, gen, n) == Crc(Checksum(d, gen, n), LineEnds(d))
Line(d, gen, n, t) ==
  IF t <= RamEnd(d)
  THEN [kind |-> Body(d, gen)[t][1], value |-> Body(d, gen)[t][2], of |-> n, at |-> t]
  ELSE [kind |-> "SNAPCRC", value |-> Vouched(d, gen, n), of |-> n, at |-> 0]
Rotted(line) ==
  [line EXCEPT !.kind = "ROTTED", !.value = [line.value EXCEPT !.content = Garbage]]

\* A line of a body, by its kind and its value.
Is(line, kind, value) == line[1] = kind /\ line[2] = value
IsSector(line, mem, i) ==
  /\ line[1] = "SECTOR"
  /\ line[2].address = Ascending(Written(mem))[i]
  /\ line[2].content = mem[Ascending(Written(mem))[i]]

\* A written sector's line carries its address and its content, in ascending
\* order of the addresses (_sectors).
LEMMA SectorsWritten ==
  ASSUME NEW mem \in [Sector -> Content]
  PROVE  /\ IsSeq(SectorLines(mem)) /\ Cardinality(Written(mem)) \in Nat
         /\ Len(SectorLines(mem)) = Cardinality(Written(mem))
         /\ \A i \in 1 .. Cardinality(Written(mem)) : IsSector(SectorLines(mem)[i], mem, i)
<1> DEFINE W == Written(mem)
           s == Ascending(W)
           n == Cardinality(W)
           u == SectorLines(mem)
<1>1. W \in SUBSET Sector
  BY DEF Written
<1> HIDE DEF W
<1>2. n \in Nat /\ s = [i \in 1 .. n |-> s[i]]
  BY <1>1, MapLists
<1> HIDE DEF n
<1>3. u = [i \in DOMAIN s |-> <<"SECTOR", [address |-> s[i], content |-> mem[s[i]]]>>]
  BY DEF SectorLines, W
<1> HIDE DEF s, u
<1>4. DOMAIN s = 1 .. n
  BY <1>2
<1>5. \A i \in 1 .. n : u[i] = <<"SECTOR", [address |-> s[i], content |-> mem[s[i]]]>>
  BY <1>3, <1>4
<1>6. u = [i \in 1 .. n |-> u[i]]
  BY <1>3, <1>4
<1>7. IsSeq(u) /\ Len(u) = n
  BY <1>2, <1>6, FunctionIsSeq
<1> QED
  BY <1>2, <1>5, <1>7 DEF u, s, n, W, IsSector

\* A line before and a line after some others.
Around(a, y, b) == <<a>> \o y \o <<b>>

\* Where the lines are that stand between two others.
LEMMA Enclosed ==
  ASSUME NEW a, NEW y, IsSeq(y), NEW b, NEW u, u = Around(a, y, b)
  PROVE  /\ IsSeq(u) /\ Len(u) = Len(y) + 2
         /\ u[1] = a /\ u[Len(y) + 2] = b
         /\ \A i \in 1 .. Len(y) : u[1 + i] = y[i]
<1> DEFINE x == <<a>>
           z == <<b>>
           xy == Chained(x, y)
           n == Len(y)
<1>1. n \in Nat
  BY DEF IsSeq
<1>2. Len(x) = 1 /\ x[1] = a /\ Len(z) = 1 /\ z[1] = b
  BY One
<1>20. IsSeq(x) /\ IsSeq(z)
  BY One
<1>3. u = Chained(xy, z)
  BY DEF Around, Chained
<1> HIDE DEF x, z
<1>4. /\ IsSeq(xy) /\ Len(xy) = 1 + n /\ xy[1] = a
      /\ \A i \in 1 .. n : xy[1 + i] = y[i]
  <2>1. /\ IsSeq(xy) /\ Len(xy) = Len(x) + Len(y)
        /\ \A i \in 1 .. Len(x) : xy[i] = x[i]
        /\ \A i \in 1 .. Len(y) : xy[Len(x) + i] = y[i]
    BY <1>20, Concat
  <2> HIDE DEF xy
  <2> QED
    BY <1>1, <1>2, <2>1
<1> HIDE DEF xy, n
<1>5. /\ IsSeq(u) /\ Len(u) = Len(xy) + 1
      /\ \A i \in 1 .. Len(xy) : u[i] = xy[i]
      /\ u[Len(xy) + 1] = b
  <2>1. /\ IsSeq(u) /\ Len(u) = Len(xy) + Len(z)
        /\ \A i \in 1 .. Len(xy) : u[i] = xy[i]
        /\ \A i \in 1 .. Len(z) : u[Len(xy) + i] = z[i]
    <3>1. IsSeq(xy)
      BY <1>4
    <3> DEFINE v == Chained(xy, z)
    <3>2. /\ IsSeq(v) /\ Len(v) = Len(xy) + Len(z)
          /\ \A i \in 1 .. Len(xy) : v[i] = xy[i]
          /\ \A i \in 1 .. Len(z) : v[Len(xy) + i] = z[i]
      BY <1>20, <3>1, Concat
    <3>3. u = v
      BY <1>3
    <3> HIDE DEF v
    <3> QED
      BY <3>2, <3>3
  <2> QED
    BY <1>2, <2>1
<1>6. Len(u) = n + 2 /\ u[1] = a /\ u[n + 2] = b
  BY <1>1, <1>4, <1>5
<1>7. \A i \in 1 .. n : u[1 + i] = y[i]
  BY <1>1, <1>4, <1>5
<1> QED
  BY <1>5, <1>6, <1>7 DEF n

\* The lines of a memory: its sectors between the lines that open and close it.
LEMMA MemoryWritten ==
  ASSUME NEW open, NEW mem \in [Sector -> Content], NEW close,
         NEW u, u = MemoryLines(open, mem, close)
  PROVE  LET n == Cardinality(Written(mem))
         IN  /\ IsSeq(u) /\ n \in Nat /\ Len(u) = n + 2
             /\ Is(u[1], open, None) /\ Is(u[n + 2], close, None)
             /\ \A i \in 1 .. n : IsSector(u[1 + i], mem, i)
<1> DEFINE a == <<open, None>>
           b == <<close, None>>
           y == SectorLines(mem)
<1>1. u = Around(a, y, b)
  BY DEF MemoryLines, Around
<1>2. IsSeq(y)
  BY SectorsWritten
<1> HIDE DEF a, b, y
<1>3. /\ IsSeq(u) /\ Len(u) = Len(y) + 2
      /\ u[1] = a /\ u[Len(y) + 2] = b
      /\ \A i \in 1 .. Len(y) : u[1 + i] = y[i]
  BY <1>1, <1>2, Enclosed
<1> DEFINE n == Cardinality(Written(mem))
<1>4. n \in Nat /\ Len(y) = n /\ \A i \in 1 .. n : IsSector(y[i], mem, i)
  BY SectorsWritten DEF y
<1> HIDE DEF n
<1>5. \A i \in 1 .. n : IsSector(u[1 + i], mem, i)
  BY <1>3, <1>4
<1>6. Is(u[1], open, None) /\ Is(u[n + 2], close, None)
  BY <1>3, <1>4 DEF a, b, Is
<1> QED
  BY <1>3, <1>4, <1>5, <1>6 DEF n

\* The lines of a prompt, between the lines that open and close it.
LEMMA PromptWritten ==
  ASSUME NEW open, NEW S, NEW prompt, prompt.lines \in Seq(S), NEW close,
         NEW u, u = PromptLines(open, prompt, close)
  PROVE  LET n == Len(prompt.lines)
         IN  /\ IsSeq(u) /\ n \in Nat /\ Len(u) = n + 2
             /\ Is(u[1], open, None) /\ Is(u[n + 2], close, None)
             /\ \A i \in 1 .. n : Is(u[1 + i], prompt.lines[i], None)
<1> DEFINE a == <<open, None>>
           b == <<close, None>>
           y == [i \in DOMAIN prompt.lines |-> <<prompt.lines[i], None>>]
           n == Len(prompt.lines)
<1>1. u = Around(a, y, b)
  BY DEF PromptLines, Around
<1>2. n \in Nat /\ DOMAIN prompt.lines = 1 .. n
  BY LenProperties
<1> HIDE DEF a, b, n
<1>3. y = [i \in 1 .. n |-> y[i]] /\ \A i \in 1 .. n : y[i] = <<prompt.lines[i], None>>
  BY <1>2
<1> HIDE DEF y
<1>4. IsSeq(y) /\ Len(y) = n
  BY <1>2, <1>3, FunctionIsSeq
<1>5. /\ IsSeq(u) /\ Len(u) = Len(y) + 2
      /\ u[1] = a /\ u[Len(y) + 2] = b
      /\ \A i \in 1 .. Len(y) : u[1 + i] = y[i]
  BY <1>1, <1>4, Enclosed
<1>6. Is(u[1], open, None) /\ Is(u[n + 2], close, None)
  BY <1>4, <1>5 DEF a, b, Is
<1>7. ASSUME NEW i \in 1 .. n PROVE Is(u[1 + i], prompt.lines[i], None)
  <2>1. u[1 + i] = y[i] /\ y[i] = <<prompt.lines[i], None>>
    BY <1>3, <1>4, <1>5
  <2> QED
    BY <2>1 DEF Is
<1> QED
  BY <1>2, <1>4, <1>5, <1>6, <1>7 DEF n

\* The headers come in the order in which dump writes them.
LEMMA HeadersWritten ==
  ASSUME NEW d, NEW gen, NEW u, u = HeaderLines(d, gen)
  PROVE  /\ IsSeq(u) /\ Len(u) = HeadEnd(d)
         /\ Is(u[1], "GEN", gen) /\ Is(u[2], "STATE", d.state)
         /\ Is(u[3], "REGS", None) /\ Is(u[4], "ORACLE", d.used)
         /\ Is(u[5], "IRQ", d.irq)
         /\ d.memory.exec => Is(u[6], "EXECMAP", TRUE)
<1> DEFINE x == <<<<"GEN", gen>>, <<"STATE", d.state>>, <<"REGS", None>>,
                  <<"ORACLE", d.used>>, <<"IRQ", d.irq>>>>
           y == If(d.memory.exec, <<<<"EXECMAP", TRUE>>>>)
           v == Chained(x, y)
<1>1. /\ IsSeq(x) /\ Len(x) = 5
      /\ Is(x[1], "GEN", gen) /\ Is(x[2], "STATE", d.state)
      /\ Is(x[3], "REGS", None) /\ Is(x[4], "ORACLE", d.used)
      /\ Is(x[5], "IRQ", d.irq)
  <2> DEFINE S == {<<"GEN", gen>>, <<"STATE", d.state>>, <<"REGS", None>>,
                   <<"ORACLE", d.used>>, <<"IRQ", d.irq>>}
  <2>1. x \in Seq(S)
    OBVIOUS
  <2>2. IsSeq(x)
    <3> HIDE DEF x, S
    <3> QED
      BY <2>1, SeqIsSeq
  <2> QED
    BY <2>2 DEF Is
<1>2. /\ IsSeq(y) /\ Len(y) = HeadEnd(d) - 5
      /\ d.memory.exec => Is(y[1], "EXECMAP", TRUE)
  <2>1. CASE d.memory.exec
    <3> DEFINE a == <<"EXECMAP", TRUE>>
               w == <<a>>
    <3>1. y = w /\ HeadEnd(d) = 6
      BY <2>1 DEF If, HeadEnd
    <3>2. IsSeq(w) /\ Len(w) = 1 /\ w[1] = a
      BY One
    <3>3. Is(w[1], "EXECMAP", TRUE)
      BY DEF Is
    <3> HIDE DEF y, w
    <3>4. IsSeq(y) /\ Len(y) = HeadEnd(d) - 5
      BY <3>1, <3>2
    <3>5. Is(y[1], "EXECMAP", TRUE)
      BY <3>1, <3>3
    <3> QED
      BY <3>4, <3>5
  <2>2. CASE ~ d.memory.exec
    <3> DEFINE w == <<>>
    <3>1. y = w /\ HeadEnd(d) = 5
      BY <2>2 DEF If, HeadEnd
    <3>2. IsSeq(w) /\ Len(w) = 0
      BY Empty
    <3> HIDE DEF y, w
    <3>3. IsSeq(y) /\ Len(y) = HeadEnd(d) - 5
      BY <3>1, <3>2
    <3> QED
      BY <2>2, <3>3
  <2> QED
    BY <2>1, <2>2
<1>3. u = v
  BY DEF HeaderLines, Chained
<1> HIDE DEF x, y
<1>4. IsSeq(x) /\ IsSeq(y)
  BY <1>1, <1>2
<1>5. /\ IsSeq(v) /\ Len(v) = Len(x) + Len(y)
      /\ \A i \in 1 .. Len(x) : v[i] = x[i]
      /\ \A i \in 1 .. Len(y) : v[Len(x) + i] = y[i]
  BY <1>4, Concat
<1> HIDE DEF v
<1>6. HeadEnd(d) \in {5, 6} /\ (d.memory.exec => HeadEnd(d) = 6)
  BY DEF HeadEnd
<1>7. d.memory.exec => v[6] = y[1]
  BY <1>1, <1>2, <1>5, <1>6
<1>8. IsSeq(v)
  BY <1>5
<1>9. Len(v) = HeadEnd(d)
  BY <1>1, <1>2, <1>5, <1>6
<1>10. \A i \in 1 .. 5 : v[i] = x[i]
  BY <1>1, <1>5
<1>11. /\ Is(v[1], "GEN", gen) /\ Is(v[2], "STATE", d.state)
       /\ Is(v[3], "REGS", None) /\ Is(v[4], "ORACLE", d.used)
       /\ Is(v[5], "IRQ", d.irq)
  BY <1>1, <1>10
<1>12. d.memory.exec => Is(v[6], "EXECMAP", TRUE)
  BY <1>2, <1>7
<1> QED
  BY <1>3, <1>8, <1>9, <1>11, <1>12

\* The words with which a request is written.
Word(d) == IF d.pending # None THEN "PENDING" ELSE "APENDING"
OpenWord(d) == IF d.pending # None THEN "PROMPT_OPEN" ELSE "APROMPT_OPEN"
CloseWord(d) == IF d.pending # None THEN "PROMPT_CLOSE" ELSE "APROMPT_CLOSE"

\* A machine has one request, so a frame carries one.
LEMMA RequestWritten ==
  ASSUME NEW d, Sound(d), NEW u, u = RequestLines(d)
  PROVE  /\ IsSeq(u) /\ Closer(d) \in Nat /\ Len(u) = Closer(d) - HeadEnd(d)
         /\ Asks(d) => LET n == Len(Sent(d).prompt.lines)
                       IN  /\ n \in Nat /\ Len(u) = n + 3
                           /\ Sent(d) \in Asking
                           /\ Is(u[1], Word(d), Sent(d))
                           /\ Is(u[2], OpenWord(d), None)
                           /\ \A i \in 1 .. n : Is(u[2 + i], Sent(d).prompt.lines[i], None)
                           /\ Is(u[n + 3], CloseWord(d), None)
<1> DEFINE x == If(d.pending # None,
                   <<<<"PENDING", d.pending>>>>
                   \o PromptLines("PROMPT_OPEN", d.pending.prompt, "PROMPT_CLOSE"))
           y == If(d.async_pending # None /\ d.async_pending # d.pending,
                   <<<<"APENDING", d.async_pending>>>>
                   \o PromptLines("APROMPT_OPEN", d.async_pending.prompt, "APROMPT_CLOSE"))
           r == Sent(d)
           n == Len(r.prompt.lines)
           z == <<<<Word(d), r>>>>
           p == PromptLines(OpenWord(d), r.prompt, CloseWord(d))
           zp == Chained(z, p)
<1>1. /\ d.async_pending # None => d.pending \in {None, d.async_pending}
      /\ r \in Asking \cup {None} /\ HeadEnd(d) \in {5, 6}
  BY DEF Sound, Machine, OneSlot, Sent, HeadEnd
<1>2. u = Chained(x, y)
  BY DEF RequestLines, Chained
<1>3. CASE ~ Asks(d)
  <2>1. x = <<>> /\ y = <<>>
    BY <1>3 DEF Asks, Sent, If
  <2> HIDE DEF x, y
  <2>2. u = <<>>
    BY <1>2, <2>1 DEF Chained
  <2>3. Closer(d) = HeadEnd(d)
    BY <1>3 DEF Closer
  <2> QED
    BY <1>1, <1>3, <2>2, <2>3, Empty
<1>4. CASE Asks(d)
  <2>1. u = zp
    <3>1. CASE d.pending # None
      <4>1. y = <<>> /\ x = zp
        BY <1>1, <3>1 DEF Asks, Sent, If, Chained, Word, OpenWord, CloseWord
      <4> HIDE DEF x, y
      <4>2. Chained(zp, <<>>) = zp
        <5>1. IsSeq(z)
          BY One
        <5>2. r.prompt.lines \in Seq(Kind \ Markers)
          BY <1>1, <1>4 DEF Asking, Asks
        <5> HIDE DEF z, r
        <5>3. IsSeq(p)
          BY <5>2, PromptWritten
        <5> HIDE DEF p
        <5>4. IsSeq(zp)
          BY <5>1, <5>3, Concat
        <5> HIDE DEF zp
        <5> DEFINE S == {zp[i] : i \in 1 .. Len(zp)}
        <5>5. zp \in Seq(S)
          BY <5>4, SeqOfOwn
        <5> HIDE DEF S
        <5> QED
          BY <5>5, ConcatEmptySeq DEF Chained
      <4> QED
        BY <1>2, <4>1, <4>2
    <3>2. CASE d.pending = None
      <4>1. x = <<>> /\ y = zp
        BY <1>4, <3>2 DEF Asks, Sent, If, Chained, Word, OpenWord, CloseWord
      <4> HIDE DEF x, y
      <4>2. Chained(<<>>, zp) = zp
        <5>1. IsSeq(z)
          BY One
        <5>2. r.prompt.lines \in Seq(Kind \ Markers)
          BY <1>1, <1>4 DEF Asking, Asks
        <5> HIDE DEF z, r
        <5>3. IsSeq(p)
          BY <5>2, PromptWritten
        <5> HIDE DEF p
        <5>4. IsSeq(zp)
          BY <5>1, <5>3, Concat
        <5> HIDE DEF zp
        <5> DEFINE S == {zp[i] : i \in 1 .. Len(zp)}
        <5>5. zp \in Seq(S)
          BY <5>4, SeqOfOwn
        <5> HIDE DEF S
        <5> QED
          BY <5>5, ConcatEmptySeq DEF Chained
      <4> QED
        BY <1>2, <4>1, <4>2
    <3> QED
      BY <3>1, <3>2
  <2>2. r \in Asking /\ r.prompt.lines \in Seq(Kind \ Markers)
    BY <1>1, <1>4 DEF Asking, Asks
  <2>3. IsSeq(z)
    BY One
  <2>4. Len(z) = 1 /\ Is(z[1], Word(d), r)
    BY One DEF Is
  <2> HIDE DEF x, y, z, r
  <2>5. /\ IsSeq(p) /\ n \in Nat /\ Len(p) = n + 2
        /\ Is(p[1], OpenWord(d), None) /\ Is(p[n + 2], CloseWord(d), None)
        /\ \A i \in 1 .. n : Is(p[1 + i], r.prompt.lines[i], None)
    <3> DEFINE q == r.prompt
    <3>1. q.lines \in Seq(Kind \ Markers)
      BY <2>2
    <3>2. p = PromptLines(OpenWord(d), q, CloseWord(d))
      OBVIOUS
    <3> HIDE DEF q, p
    <3>3. /\ IsSeq(p) /\ Len(q.lines) \in Nat /\ Len(p) = Len(q.lines) + 2
          /\ Is(p[1], OpenWord(d), None) /\ Is(p[Len(q.lines) + 2], CloseWord(d), None)
          /\ \A i \in 1 .. Len(q.lines) : Is(p[1 + i], q.lines[i], None)
      BY <3>1, <3>2, PromptWritten
    <3> QED
      BY <3>3 DEF q
  <2> HIDE DEF p
  <2>6. IsSeq(p)
    BY <2>5
  <2>7. /\ IsSeq(zp) /\ Len(zp) = Len(z) + Len(p)
        /\ \A i \in 1 .. Len(z) : zp[i] = z[i]
        /\ \A i \in 1 .. Len(p) : zp[Len(z) + i] = p[i]
    BY <2>3, <2>6, Concat
  <2> HIDE DEF zp
  <2>8. Closer(d) = HeadEnd(d) + n + 3
    <3>1. Closer(d) = HeadEnd(d) + 2 + n + 1
      BY <1>4 DEF Closer, Opener, r
    <3> HIDE DEF n
    <3> QED
      BY <1>1, <2>5, <3>1
  <2> HIDE DEF n
  <2>9. Len(u) = n + 3 /\ Is(u[1], Word(d), r) /\ \A i \in 1 .. n + 2 : u[1 + i] = p[i]
    BY <2>1, <2>4, <2>5, <2>7
  <2>10. Is(u[2], OpenWord(d), None) /\ Is(u[n + 3], CloseWord(d), None)
    <3>1. u[1 + 1] = p[1] /\ u[1 + (n + 2)] = p[n + 2]
      BY <2>5, <2>9
    <3>2. 1 + 1 = 2 /\ 1 + (n + 2) = n + 3
      BY <2>5
    <3> QED
      BY <2>5, <3>1, <3>2
  <2>11. ASSUME NEW i \in 1 .. n PROVE Is(u[2 + i], r.prompt.lines[i], None)
    <3>1. u[1 + (1 + i)] = p[1 + i] /\ 1 + (1 + i) = 2 + i
      BY <2>5, <2>9
    <3> QED
      BY <2>5, <3>1
  <2> QED
    BY <1>1, <2>1, <2>2, <2>5, <2>7, <2>8, <2>9, <2>10, <2>11 DEF r, n
<1> QED
  BY <1>3, <1>4

\* How many sectors of a memory are written.
Sectors(mem) == Cardinality(Written(mem))

\* The places of the lines follow each other, whatever the machine.
LEMMA Layout ==
  ASSUME NEW d, Sound(d)
  PROVE  /\ d.memory.rom \in [Sector -> Content] /\ d.memory.ram \in [Sector -> Content]
         /\ d.memory.exec \in BOOLEAN
         /\ HeadEnd(d) \in {5, 6} /\ Opener(d) = HeadEnd(d) + 2
         /\ Closer(d) \in Nat
         /\ ~ Asks(d) => Closer(d) = HeadEnd(d)
         /\ Asks(d) => /\ Sent(d) \in Asking /\ Len(Sent(d).prompt.lines) \in Nat
                       /\ Closer(d) = Opener(d) + Len(Sent(d).prompt.lines) + 1
         /\ Sectors(d.memory.rom) \in Nat /\ Sectors(d.memory.ram) \in Nat
         /\ Rom(d) = Closer(d) + 3
         /\ RomEnd(d) = Rom(d) + Sectors(d.memory.rom) + 1
         /\ Ram(d) = RomEnd(d) + 1
         /\ RamEnd(d) = Ram(d) + Sectors(d.memory.ram) + 1
         /\ RamEnd(d) \in Nat
<1>1. /\ d.memory.rom \in [Sector -> Content] /\ d.memory.ram \in [Sector -> Content]
      /\ d.memory.exec \in BOOLEAN
  BY DEF Sound, Machine
<1>2. HeadEnd(d) \in {5, 6} /\ Opener(d) = HeadEnd(d) + 2
  BY DEF HeadEnd, Opener
<1>3. Closer(d) \in Nat /\ (~ Asks(d) => Closer(d) = HeadEnd(d))
  BY RequestWritten DEF Closer
<1>4. Asks(d) => /\ Sent(d) \in Asking /\ Len(Sent(d).prompt.lines) \in Nat
                 /\ Closer(d) = Opener(d) + Len(Sent(d).prompt.lines) + 1
  BY RequestWritten DEF Closer
<1>5. Sectors(d.memory.rom) \in Nat /\ Sectors(d.memory.ram) \in Nat
  BY <1>1, SectorsWritten DEF Sectors
<1>6. /\ Rom(d) = Closer(d) + 3
      /\ RomEnd(d) = Rom(d) + Sectors(d.memory.rom) + 1
      /\ Ram(d) = RomEnd(d) + 1
      /\ RamEnd(d) = Ram(d) + Sectors(d.memory.ram) + 1
  BY DEF Rom, RomEnd, Ram, RamEnd, Sectors
<1>7. RamEnd(d) \in Nat
  BY <1>3, <1>5, <1>6
<1> QED
  BY <1>1, <1>2, <1>3, <1>4, <1>5, <1>6, <1>7

\* Which line of a body stands where.
LEMMA BodyWritten ==
  ASSUME NEW d, Sound(d), NEW gen, NEW B, B = Body(d, gen)
  PROVE  /\ IsSeq(B) /\ Len(B) = RamEnd(d)
         /\ Is(B[1], "GEN", gen) /\ Is(B[2], "STATE", d.state)
         /\ Is(B[3], "REGS", None) /\ Is(B[4], "ORACLE", d.used)
         /\ Is(B[5], "IRQ", d.irq)
         /\ d.memory.exec => Is(B[6], "EXECMAP", TRUE)
         /\ Asks(d) => /\ Is(B[HeadEnd(d) + 1], Word(d), Sent(d))
                       /\ Is(B[Opener(d)], OpenWord(d), None)
                       /\ \A i \in 1 .. Len(Sent(d).prompt.lines) :
                            Is(B[Opener(d) + i], Sent(d).prompt.lines[i], None)
                       /\ Is(B[Closer(d)], CloseWord(d), None)
         /\ Is(B[Closer(d) + 1], "ROMMAP", Written(d.memory.rom))
         /\ Is(B[Closer(d) + 2], "RAMMAP", Written(d.memory.ram))
         /\ Is(B[Rom(d)], "ROM_OPEN", None) /\ Is(B[RomEnd(d)], "ROM_CLOSE", None)
         /\ Is(B[Ram(d)], "RAM_OPEN", None) /\ Is(B[RamEnd(d)], "RAM_CLOSE", None)
         /\ \A i \in 1 .. Sectors(d.memory.rom) : IsSector(B[Rom(d) + i], d.memory.rom, i)
         /\ \A i \in 1 .. Sectors(d.memory.ram) : IsSector(B[Ram(d) + i], d.memory.ram, i)
<1> DEFINE h == HeaderLines(d, gen)
           q == RequestLines(d)
           ma == <<"ROMMAP", Written(d.memory.rom)>>
           mb == <<"RAMMAP", Written(d.memory.ram)>>
           m == <<ma, mb>>
           a == MemoryLines("ROM_OPEN", d.memory.rom, "ROM_CLOSE")
           b == MemoryLines("RAM_OPEN", d.memory.ram, "RAM_CLOSE")
           hq == Chained(h, q)
           hqm == Chained(hq, m)
           hqma == Chained(hqm, a)
           all == Chained(hqma, b)
           na == Sectors(d.memory.rom)
           nb == Sectors(d.memory.ram)
<1>1. B = all
  BY DEF Body, Chained
<1>2. /\ IsSeq(h) /\ Len(h) = HeadEnd(d)
      /\ Is(h[1], "GEN", gen) /\ Is(h[2], "STATE", d.state)
      /\ Is(h[3], "REGS", None) /\ Is(h[4], "ORACLE", d.used)
      /\ Is(h[5], "IRQ", d.irq)
      /\ d.memory.exec => Is(h[6], "EXECMAP", TRUE)
  <2>1. h = HeaderLines(d, gen)
    OBVIOUS
  <2> HIDE DEF h
  <2> QED
    BY <2>1, HeadersWritten
<1>3. /\ IsSeq(q) /\ Len(q) = Closer(d) - HeadEnd(d)
      /\ Asks(d) => LET n == Len(Sent(d).prompt.lines)
                    IN  /\ n \in Nat /\ Len(q) = n + 3
                        /\ Is(q[1], Word(d), Sent(d))
                        /\ Is(q[2], OpenWord(d), None)
                        /\ \A i \in 1 .. n : Is(q[2 + i], Sent(d).prompt.lines[i], None)
                        /\ Is(q[n + 3], CloseWord(d), None)
  BY RequestWritten
<1>4. IsSeq(m) /\ Len(m) = 2 /\ Is(m[1], "ROMMAP", Written(d.memory.rom))
      /\ Is(m[2], "RAMMAP", Written(d.memory.ram))
  <2>1. m \in Seq({ma, mb}) /\ Len(m) = 2 /\ m[1] = ma /\ m[2] = mb
    OBVIOUS
  <2>2. Is(ma, "ROMMAP", Written(d.memory.rom)) /\ Is(mb, "RAMMAP", Written(d.memory.ram))
    BY DEF Is
  <2> HIDE DEF m, ma, mb
  <2>3. IsSeq(m)
    BY <2>1, SeqIsSeq
  <2> QED
    BY <2>1, <2>2, <2>3
<1>5. /\ IsSeq(a) /\ na \in Nat /\ Len(a) = na + 2
      /\ Is(a[1], "ROM_OPEN", None) /\ Is(a[na + 2], "ROM_CLOSE", None)
      /\ \A i \in 1 .. na : IsSector(a[1 + i], d.memory.rom, i)
  <2> DEFINE mem == d.memory.rom
             k == Cardinality(Written(mem))
  <2>1. mem \in [Sector -> Content]
    BY Layout
  <2>2. a = MemoryLines("ROM_OPEN", mem, "ROM_CLOSE")
    OBVIOUS
  <2> HIDE DEF mem, a
  <2>3. /\ IsSeq(a) /\ k \in Nat /\ Len(a) = k + 2
        /\ Is(a[1], "ROM_OPEN", None) /\ Is(a[k + 2], "ROM_CLOSE", None)
        /\ \A i \in 1 .. k : IsSector(a[1 + i], mem, i)
    BY <2>1, <2>2, MemoryWritten
  <2> QED
    BY <2>3 DEF mem, Sectors
<1>6. /\ IsSeq(b) /\ nb \in Nat /\ Len(b) = nb + 2
      /\ Is(b[1], "RAM_OPEN", None) /\ Is(b[nb + 2], "RAM_CLOSE", None)
      /\ \A i \in 1 .. nb : IsSector(b[1 + i], d.memory.ram, i)
  <2> DEFINE mem == d.memory.ram
             k == Cardinality(Written(mem))
  <2>1. mem \in [Sector -> Content]
    BY Layout
  <2>2. b = MemoryLines("RAM_OPEN", mem, "RAM_CLOSE")
    OBVIOUS
  <2> HIDE DEF mem, b
  <2>3. /\ IsSeq(b) /\ k \in Nat /\ Len(b) = k + 2
        /\ Is(b[1], "RAM_OPEN", None) /\ Is(b[k + 2], "RAM_CLOSE", None)
        /\ \A i \in 1 .. k : IsSector(b[1 + i], mem, i)
    BY <2>1, <2>2, MemoryWritten
  <2> QED
    BY <2>3 DEF mem, Sectors
<1> HIDE DEF h, q, m, a, b, na, nb
<1>10. IsSeq(h) /\ IsSeq(q) /\ IsSeq(m) /\ IsSeq(a) /\ IsSeq(b)
  BY <1>2, <1>3, <1>4, <1>5, <1>6
<1>11. /\ IsSeq(hq) /\ Len(hq) = Len(h) + Len(q)
       /\ \A i \in 1 .. Len(h) : hq[i] = h[i]
       /\ \A i \in 1 .. Len(q) : hq[Len(h) + i] = q[i]
  BY <1>10, Concat
<1> HIDE DEF hq
<1>12. IsSeq(hq)
  BY <1>11
<1>13. /\ IsSeq(hqm) /\ Len(hqm) = Len(hq) + Len(m)
       /\ \A i \in 1 .. Len(hq) : hqm[i] = hq[i]
       /\ \A i \in 1 .. Len(m) : hqm[Len(hq) + i] = m[i]
  BY <1>10, <1>12, Concat
<1> HIDE DEF hqm
<1>14. IsSeq(hqm)
  BY <1>13
<1>15. /\ IsSeq(hqma) /\ Len(hqma) = Len(hqm) + Len(a)
       /\ \A i \in 1 .. Len(hqm) : hqma[i] = hqm[i]
       /\ \A i \in 1 .. Len(a) : hqma[Len(hqm) + i] = a[i]
  BY <1>10, <1>14, Concat
<1> HIDE DEF hqma
<1>16. IsSeq(hqma)
  BY <1>15
<1>17. /\ IsSeq(all) /\ Len(all) = Len(hqma) + Len(b)
       /\ \A i \in 1 .. Len(hqma) : all[i] = hqma[i]
       /\ \A i \in 1 .. Len(b) : all[Len(hqma) + i] = b[i]
  BY <1>10, <1>16, Concat
<1> HIDE DEF all
<1>20. /\ HeadEnd(d) \in {5, 6} /\ Opener(d) = HeadEnd(d) + 2 /\ Closer(d) \in Nat
       /\ Rom(d) = Closer(d) + 3 /\ RomEnd(d) = Rom(d) + na + 1
       /\ Ram(d) = RomEnd(d) + 1 /\ RamEnd(d) = Ram(d) + nb + 1
       /\ d.memory.exec => HeadEnd(d) = 6
  BY Layout DEF na, nb, HeadEnd
<1>21. Len(h) = HeadEnd(d) /\ Len(hq) = Closer(d) /\ Len(q) = Closer(d) - HeadEnd(d) /\ Len(q) \in Nat
  BY <1>2, <1>3, <1>11, <1>20, <1>10 DEF IsSeq
<1>22. Len(hqm) = Closer(d) + 2 /\ Len(m) = 2
  BY <1>4, <1>13, <1>21
<1>23. Len(hqma) = RomEnd(d) /\ Len(a) = na + 2 /\ na \in Nat
  BY <1>5, <1>15, <1>20, <1>22
<1>24. Len(all) = RamEnd(d) /\ Len(b) = nb + 2 /\ nb \in Nat
  BY <1>6, <1>17, <1>20, <1>23
<1> DEFINE H == HeadEnd(d)
           C == Closer(d)
           E == RomEnd(d)
<1>25. H \in Nat /\ C \in Nat /\ C - H \in Nat /\ H >= 5 /\ E = C + na + 4 /\ E \in Nat /\ C <= E /\ H <= C
  BY <1>20, <1>21, <1>23, SMTT(30)
<1>26. /\ \A i \in 1 .. H : hq[i] = h[i]
       /\ \A i \in 1 .. C - H : hq[H + i] = q[i]
       /\ \A i \in 1 .. C : hqm[i] = hq[i]
       /\ \A i \in 1 .. 2 : hqm[C + i] = m[i]
       /\ \A i \in 1 .. C + 2 : hqma[i] = hqm[i]
       /\ \A i \in 1 .. na + 2 : hqma[(C + 2) + i] = a[i]
       /\ \A i \in 1 .. E : all[i] = hqma[i]
       /\ \A i \in 1 .. nb + 2 : all[E + i] = b[i]
  <2> HIDE DEF H, C, E
  <2>1. Len(h) = H /\ Len(q) = C - H /\ Len(hq) = C /\ Len(m) = 2 /\ Len(hqm) = C + 2
    BY <1>21, <1>22 DEF H, C
  <2>2. Len(a) = na + 2 /\ Len(hqma) = E /\ Len(b) = nb + 2
    BY <1>23, <1>24 DEF E
  <2>3. (\A i \in 1 .. H : hq[i] = h[i]) /\ (\A i \in 1 .. C - H : hq[H + i] = q[i])
    BY <1>11, <2>1
  <2>4. (\A i \in 1 .. C : hqm[i] = hq[i]) /\ (\A i \in 1 .. 2 : hqm[C + i] = m[i])
    BY <1>13, <2>1
  <2>5. (\A i \in 1 .. C + 2 : hqma[i] = hqm[i]) /\ (\A i \in 1 .. na + 2 : hqma[(C + 2) + i] = a[i])
    BY <1>15, <2>1, <2>2
  <2>6. (\A i \in 1 .. E : all[i] = hqma[i]) /\ (\A i \in 1 .. nb + 2 : all[E + i] = b[i])
    BY <1>17, <2>2
  <2> QED
    BY <2>3, <2>4, <2>5, <2>6
<1> HIDE DEF H, C, E
<1>27. \A i \in 1 .. C + 2 : all[i] = hqm[i]
  BY <1>23, <1>25, <1>26
<1>28. \A i \in 1 .. C : all[i] = hq[i]
  BY <1>25, <1>26, <1>27
<1>31. \A i \in 1 .. H : all[i] = h[i]
  BY <1>25, <1>26, <1>28
<1>32. \A i \in 1 .. C - H : all[H + i] = q[i]
  <2> SUFFICES ASSUME NEW i \in 1 .. C - H PROVE all[H + i] = q[i]
    OBVIOUS
  <2>1. H + i \in 1 .. C
    BY <1>25
  <2> QED
    BY <2>1, <1>26, <1>28
<1>33. all[C + 1] = m[1] /\ all[C + 2] = m[2]
  BY <1>25, <1>26, <1>27
<1>34. \A i \in 1 .. na + 2 : all[(C + 2) + i] = a[i]
  <2> SUFFICES ASSUME NEW i \in 1 .. na + 2 PROVE all[(C + 2) + i] = a[i]
    OBVIOUS
  <2>1. (C + 2) + i \in 1 .. E
    BY <1>23, <1>25
  <2> QED
    BY <2>1, <1>26
<1>35. \A i \in 1 .. nb + 2 : all[E + i] = b[i]
  BY <1>26
<1>41. /\ Is(all[1], "GEN", gen) /\ Is(all[2], "STATE", d.state)
       /\ Is(all[3], "REGS", None) /\ Is(all[4], "ORACLE", d.used)
       /\ Is(all[5], "IRQ", d.irq)
       /\ d.memory.exec => Is(all[6], "EXECMAP", TRUE)
  <2>1. all[1] = h[1] /\ all[2] = h[2] /\ all[3] = h[3] /\ all[4] = h[4] /\ all[5] = h[5]
    BY <1>25, <1>31
  <2>2. d.memory.exec => all[6] = h[6]
    BY <1>20, <1>25, <1>31 DEF H
  <2> QED
    BY <1>2, <2>1, <2>2
<1>42. ASSUME Asks(d)
       PROVE  /\ Is(all[HeadEnd(d) + 1], Word(d), Sent(d))
              /\ Is(all[Opener(d)], OpenWord(d), None)
              /\ \A i \in 1 .. Len(Sent(d).prompt.lines) :
                            Is(all[Opener(d) + i], Sent(d).prompt.lines[i], None)
              /\ Is(all[Closer(d)], CloseWord(d), None)
  <2> DEFINE n == Len(Sent(d).prompt.lines)
  <2>1. /\ n \in Nat /\ Len(q) = n + 3
        /\ Is(q[1], Word(d), Sent(d))
        /\ Is(q[2], OpenWord(d), None)
        /\ \A i \in 1 .. n : Is(q[2 + i], Sent(d).prompt.lines[i], None)
        /\ Is(q[n + 3], CloseWord(d), None)
    BY <1>3, <1>42
  <2> HIDE DEF n
  <2>2. C - H = n + 3 /\ Opener(d) = H + 2 /\ HeadEnd(d) = H /\ Closer(d) = C
    BY <1>20, <1>21, <2>1 DEF H, C
  <2>3. \A i \in 1 .. n + 3 : all[H + i] = q[i]
    BY <1>32, <2>2
  <2>4. all[H + 1] = q[1] /\ all[H + 2] = q[2]
    BY <2>1, <2>3
  <2>5. all[H + (n + 3)] = q[n + 3] /\ H + (n + 3) = C
    BY <1>25, <2>1, <2>2, <2>3
  <2>6. ASSUME NEW i \in 1 .. n PROVE Is(all[Opener(d) + i], Sent(d).prompt.lines[i], None)
    <3>1. 2 + i \in 1 .. n + 3 /\ H + (2 + i) = Opener(d) + i
      BY <1>25, <2>1, <2>2
    <3>2. all[H + (2 + i)] = q[2 + i]
      BY <2>3, <3>1
    <3> QED
      BY <2>1, <3>1, <3>2
  <2>7. /\ Is(all[HeadEnd(d) + 1], Word(d), Sent(d))
        /\ Is(all[Opener(d)], OpenWord(d), None)
        /\ Is(all[Closer(d)], CloseWord(d), None)
    BY <2>1, <2>2, <2>4, <2>5
  <2> QED
    BY <2>6, <2>7 DEF n
<1>43. /\ Is(all[Closer(d) + 1], "ROMMAP", Written(d.memory.rom))
       /\ Is(all[Closer(d) + 2], "RAMMAP", Written(d.memory.ram))
  BY <1>4, <1>33 DEF C
<1>44. /\ Is(all[Rom(d)], "ROM_OPEN", None) /\ Is(all[RomEnd(d)], "ROM_CLOSE", None)
       /\ \A i \in 1 .. na : IsSector(all[Rom(d) + i], d.memory.rom, i)
  <2>1. Rom(d) = C + 3 /\ RomEnd(d) = C + na + 4
    BY <1>20, <1>25 DEF C, E
  <2>2. /\ 1 \in 1 .. na + 2 /\ na + 2 \in 1 .. na + 2
        /\ (C + 2) + 1 = C + 3 /\ (C + 2) + (na + 2) = C + na + 4
    BY <1>23, <1>25
  <2>3. all[(C + 2) + 1] = a[1] /\ all[(C + 2) + (na + 2)] = a[na + 2]
    BY <1>34, <2>2
  <2>4. ASSUME NEW i \in 1 .. na PROVE IsSector(all[Rom(d) + i], d.memory.rom, i)
    <3>1. 1 + i \in 1 .. na + 2 /\ (C + 2) + (1 + i) = Rom(d) + i
      BY <1>23, <1>25, <2>1
    <3>2. all[(C + 2) + (1 + i)] = a[1 + i]
      BY <1>34, <3>1
    <3> QED
      BY <1>5, <3>1, <3>2
  <2> QED
    BY <1>5, <2>1, <2>2, <2>3, <2>4
<1>45. /\ Is(all[Ram(d)], "RAM_OPEN", None) /\ Is(all[RamEnd(d)], "RAM_CLOSE", None)
       /\ \A i \in 1 .. nb : IsSector(all[Ram(d) + i], d.memory.ram, i)
  <2>1. Ram(d) = E + 1 /\ RamEnd(d) = E + nb + 2
    BY <1>20, <1>24, <1>25 DEF E
  <2>2. 1 \in 1 .. nb + 2 /\ nb + 2 \in 1 .. nb + 2 /\ E + (nb + 2) = E + nb + 2
    BY <1>24, <1>25
  <2>3. all[E + 1] = b[1] /\ all[E + (nb + 2)] = b[nb + 2]
    BY <1>35, <2>2
  <2>4. ASSUME NEW i \in 1 .. nb PROVE IsSector(all[Ram(d) + i], d.memory.ram, i)
    <3>1. 1 + i \in 1 .. nb + 2 /\ E + (1 + i) = Ram(d) + i
      BY <1>24, <1>25, <2>1
    <3>2. all[E + (1 + i)] = b[1 + i]
      BY <1>35, <3>1
    <3> QED
      BY <1>6, <3>1, <3>2
  <2> QED
    BY <1>6, <2>1, <2>2, <2>3, <2>4
<1>46. IsSeq(all) /\ Len(all) = RamEnd(d)
  BY <1>17, <1>24
<1> QED
  BY <1>1, <1>41, <1>42, <1>43, <1>44, <1>45, <1>46 DEF na, nb

-----------------------------------------------------------------------------
(***************************************************************************)
(* What reading one line changes.                                          *)
(***************************************************************************)
Fields == {"gen", "state", "regs", "used", "irq", "exec", "pending", "prompt",
           "apending", "aprompt", "rom", "ram", "rommap", "rammap", "bad", "crc",
           "canonical", "mode", "section", "terminated"}

\* Nothing but these fields, and the lines read so far.
Only(s, u, line, fields) ==
  /\ DOMAIN u = Fields
  /\ \A f \in Fields \ (fields \cup {"canonical"}) : u[f] = s[f]
  /\ u.canonical = Append(s.canonical, Text(line))

\* Lines that set one field, and lines that open or close a part.
HeaderKinds == {"GEN", "STATE", "REGS", "ORACLE", "IRQ", "EXECMAP", "PENDING",
                "APENDING", "ROMMAP", "RAMMAP"}
Brackets == {"PROMPT_OPEN", "APROMPT_OPEN", "ROM_OPEN", "RAM_OPEN", "ROM_CLOSE", "RAM_CLOSE"}

\* Inside a prompt every line but the closing one is a line of the prompt.
LEMMA InPromptRead ==
  ASSUME NEW s, DOMAIN s = Fields, s.mode \in {"prompt", "aprompt"}, NEW line,
         NEW u, u = ReadLine(s, line)
  PROVE  IF line.kind = (IF s.mode = "prompt" THEN "PROMPT_CLOSE" ELSE "APROMPT_CLOSE")
         THEN Only(s, u, line, {"mode"}) /\ u.mode = "lines"
         ELSE Only(s, u, line, {s.mode}) /\ u[s.mode] = Append(s[s.mode], line.kind)
  BY DEF ReadLine, Only, Fields

\* A line that opens or closes a part changes how the next ones are read.
LEMMA BracketRead ==
  ASSUME NEW s, DOMAIN s = Fields, s.mode = "lines", NEW line, line.kind \in Brackets,
         NEW u, u = ReadLine(s, line)
  PROVE  /\ line.kind = "PROMPT_OPEN" =>
              Only(s, u, line, {"mode", "prompt"}) /\ u.mode = "prompt" /\ u.prompt = <<>>
         /\ line.kind = "APROMPT_OPEN" =>
              Only(s, u, line, {"mode", "aprompt"}) /\ u.mode = "aprompt" /\ u.aprompt = <<>>
         /\ line.kind = "ROM_OPEN" => Only(s, u, line, {"section"}) /\ u.section = "rom"
         /\ line.kind = "RAM_OPEN" => Only(s, u, line, {"section"}) /\ u.section = "ram"
         /\ line.kind \in {"ROM_CLOSE", "RAM_CLOSE"} =>
              Only(s, u, line, {"section"}) /\ u.section = "none"
  BY DEF ReadLine, Only, Fields, Brackets

\* A header sets its own field; an unknown line sets none.
LEMMA HeaderRead ==
  ASSUME NEW s, DOMAIN s = Fields, s.mode = "lines", s.section = "none",
         NEW line, line.kind \notin Brackets, line.kind # "SNAPCRC",
         NEW u, u = ReadLine(s, line)
  PROVE  /\ line.kind = "GEN" => Only(s, u, line, {"gen"}) /\ u.gen = line.value
         /\ line.kind = "STATE" => Only(s, u, line, {"state"}) /\ u.state = line.value
         /\ line.kind = "REGS" => Only(s, u, line, {"regs"}) /\ u.regs = line.of
         /\ line.kind = "ORACLE" => Only(s, u, line, {"used"}) /\ u.used = line.value
         /\ line.kind = "IRQ" => Only(s, u, line, {"irq"}) /\ u.irq = line.value
         /\ line.kind = "EXECMAP" => Only(s, u, line, {"exec"}) /\ u.exec = line.value
         /\ line.kind = "PENDING" => Only(s, u, line, {"pending"}) /\ u.pending = line.value
         /\ line.kind = "APENDING" => Only(s, u, line, {"apending"}) /\ u.apending = line.value
         /\ line.kind = "ROMMAP" => Only(s, u, line, {"rommap"}) /\ u.rommap = line.value
         /\ line.kind = "RAMMAP" => Only(s, u, line, {"rammap"}) /\ u.rammap = line.value
         /\ line.kind \notin HeaderKinds => Only(s, u, line, {})
  BY DEF ReadLine, ReadHeader, Only, Fields, Brackets, HeaderKinds

\* The line with the checksum is not among the lines it covers.
LEMMA ChecksumRead ==
  ASSUME NEW s, DOMAIN s = Fields, s.mode = "lines", s.section = "none",
         NEW line, line.kind = "SNAPCRC", NEW u, u = ReadLine(s, line)
  PROVE  /\ DOMAIN u = Fields /\ \A f \in Fields \ {"crc"} : u[f] = s[f]
         /\ u.crc = {line.value}
  BY DEF ReadLine, Fields

\* A sector is restored at its own address, or is reported.
LEMMA SectionRead ==
  ASSUME NEW s, DOMAIN s = Fields, s.mode = "lines", s.section \in {"rom", "ram"},
         NEW line, line.kind \notin Brackets, NEW u, u = ReadLine(s, line)
  PROVE  IF line.kind = "SECTOR"
         THEN /\ Only(s, u, line, {s.section})
              /\ u[s.section] = [s[s.section] EXCEPT ![line.value.address] = line.value.content]
         ELSE Only(s, u, line, {"bad"}) /\ u.bad # {}
  BY DEF ReadLine, ReadSector, Verified, Only, Fields, Brackets

-----------------------------------------------------------------------------
(***************************************************************************)
(* What has been restored after some of the lines of a frame.  Up to the   *)
(* first damaged line it is what was written; after it, no more than that. *)
(***************************************************************************)
\* s was read from the first t lines, of which line r was lost, or mangled
\* (rot); up to it, everything was read as it was written.
Headers(s, d, gen, n, r, t) ==
  /\ s.gen \in {0, gen} /\ s.state \in {"READY", d.state} /\ s.regs \in {0, n}
  /\ s.used \in {0, d.used} /\ s.irq \in {0, d.irq} /\ s.exec \in {FALSE, d.memory.exec}
  /\ t < r => /\ t >= 1 => s.gen = gen
              /\ t >= 2 => s.state = d.state
              /\ t >= 3 => s.regs = n
              /\ t >= 4 => s.used = d.used
              /\ t >= 5 => s.irq = d.irq
              /\ t >= HeadEnd(d) => s.exec = d.memory.exec

\* Whether line t is read inside a prompt: lines of it, and, when the closing
\* line is missing, everything after them.
InPrompt(d, r, t) == Asks(d) /\ r # Opener(d) /\ Opener(d) <= t /\ (t < Closer(d) \/ r = Closer(d))
Channel(d) == IF d.pending # None THEN "prompt" ELSE "aprompt"
Mode(s, d, r, t) == s.mode = IF InPrompt(d, r, t) THEN Channel(d) ELSE "lines"

\* The requests read so far.  A parked request of TRAPA has a name of its own.
Parked(d) == IF d.pending = None THEN d.async_pending ELSE None
Requests(s, d, r, t) ==
  /\ s.pending \in {None, d.pending} /\ s.apending \in {None, Parked(d)}
  /\ s.prompt \in Seq(Kind \ Markers) /\ s.aprompt \in Seq(Kind \ Markers)
  /\ t < r /\ t > HeadEnd(d) => s.pending = d.pending /\ s.apending = Parked(d)
  /\ t < r /\ Asks(d) /\ t >= Opener(d) =>
       /\ Len(s[Channel(d)]) = IF t < Closer(d) THEN t - Opener(d) ELSE Len(Sent(d).prompt.lines)
       /\ \A k \in 1 .. Len(s[Channel(d)]) : s[Channel(d)][k] = Sent(d).prompt.lines[k]

\* The allocation maps read so far.
Maps(s, d, r, t) ==
  /\ s.rommap \in {None, Written(d.memory.rom)}
  /\ s.rammap \in {None, Written(d.memory.ram)}
  /\ t < r /\ t > Closer(d) => s.rommap = Written(d.memory.rom)
  /\ t < r /\ t > Closer(d) + 1 => s.rammap = Written(d.memory.ram)

\* Inside which memory the next line is read.
Section(s, d, r, t) ==
  /\ s.section \in {"none", "rom", "ram"}
  /\ s.section = "rom" => Rom(d) <= t /\ t <= RomEnd(d) /\ (t = RomEnd(d) => r = t)
  /\ s.section = "ram" => Ram(d) <= t
  /\ InPrompt(d, r, t) => s.section = "none"
  /\ t < r => /\ Rom(d) <= t /\ t < RomEnd(d) => s.section = "rom"
              /\ Ram(d) <= t /\ t < RamEnd(d) => s.section = "ram"
              /\ t >= RamEnd(d) => s.section = "none"

\* The sectors of a memory that the lines so far restored.
Address(mem, i) == Ascending(Written(mem))[i]
Memory(restored, mem, from, r, t) ==
  /\ restored \in [Sector -> Content]
  /\ \A a \in Sector : restored[a] \in {0, mem[a]}
  /\ t < r => \A i \in 1 .. Sectors(mem) :
       from + i <= t => restored[Address(mem, i)] = mem[Address(mem, i)]

Bad(s, r, rot, t) == (t < r => s.bad = {}) /\ (rot /\ r <= t => s.bad # {})

\* The lines that the checksum will be compared with.
Canonical(s, d, gen, n, r, rot, t) ==
  /\ IsSeq(s.canonical)
  /\ t <= RamEnd(d) =>
       s.crc = {} /\ Len(s.canonical) = IF ~ rot /\ r <= t THEN t - 1 ELSE t
  /\ t > RamEnd(d) /\ s.crc # {} =>
       /\ s.crc = {Vouched(d, gen, n)}
       /\ Len(s.canonical) = IF ~ rot /\ r <= t THEN t - 2 ELSE t - 1
  /\ t < r =>
       /\ \A k \in 1 .. RamEnd(d) : k <= t => s.canonical[k] = Checksum(d, gen, n)[k]
       /\ t > RamEnd(d) => s.crc = {Vouched(d, gen, n)}

\* All of it: what is known of the snapshot after line t.
Reading(s, d, gen, n, r, rot, t) ==
  /\ DOMAIN s = Fields
  /\ Headers(s, d, gen, n, r, t)
  /\ Mode(s, d, r, t)
  /\ Requests(s, d, r, t)
  /\ Maps(s, d, r, t)
  /\ Section(s, d, r, t)
  /\ Memory(s.rom, d.memory.rom, Rom(d), r, t)
  /\ Memory(s.ram, d.memory.ram, Ram(d), r, t)
  /\ Bad(s, r, rot, t)
  /\ Canonical(s, d, gen, n, r, rot, t)

\* One line is damaged, or none (r is beyond the checksum): lost, or a sector
\* mangled.  A frame that is damaged is one of a machine whose prompt is text.
Damage(d, r, rot) ==
  /\ r \in 1 .. RamEnd(d) + 2 /\ rot \in BOOLEAN
  /\ r <= RamEnd(d) + 1 => Plain(d)
  /\ rot => InMemory(d, r)

\* The order of the places, for the arithmetic of the proofs below.
LEMMA Order ==
  ASSUME NEW d, Sound(d)
  PROVE  /\ HeadEnd(d) \in {5, 6} /\ Opener(d) = HeadEnd(d) + 2
         /\ Closer(d) \in Nat /\ Rom(d) \in Nat /\ RomEnd(d) \in Nat
         /\ Ram(d) \in Nat /\ RamEnd(d) \in Nat
         /\ Closer(d) >= HeadEnd(d)
         /\ ~ Asks(d) => Closer(d) = HeadEnd(d)
         /\ Asks(d) => Closer(d) > Opener(d)
         /\ Rom(d) = Closer(d) + 3 /\ RomEnd(d) > Rom(d)
         /\ Ram(d) = RomEnd(d) + 1 /\ RamEnd(d) > Ram(d)
<1> DEFINE a == Sectors(d.memory.rom)
           b == Sectors(d.memory.ram)
           k == Len(Sent(d).prompt.lines)
<1>1. /\ HeadEnd(d) \in {5, 6} /\ Opener(d) = HeadEnd(d) + 2
      /\ Closer(d) \in Nat
      /\ ~ Asks(d) => Closer(d) = HeadEnd(d)
      /\ Asks(d) => k \in Nat /\ Closer(d) = Opener(d) + k + 1
      /\ a \in Nat /\ b \in Nat
      /\ Rom(d) = Closer(d) + 3
      /\ RomEnd(d) = Rom(d) + a + 1
      /\ Ram(d) = RomEnd(d) + 1
      /\ RamEnd(d) = Ram(d) + b + 1
  BY Layout
<1> HIDE DEF a, b, k
<1> QED
  BY <1>1

\* The lines of a body as the parser meets them.
WrittenAs(L, d, gen, n, t) ==
  /\ L.of = n /\ Text(L) = Checksum(d, gen, n)[t]
  /\ t = 1 => L.kind = "GEN" /\ L.value = gen
  /\ t = 2 => L.kind = "STATE" /\ L.value = d.state
  /\ t = 3 => L.kind = "REGS"
  /\ t = 4 => L.kind = "ORACLE" /\ L.value = d.used
  /\ t = 5 => L.kind = "IRQ" /\ L.value = d.irq
  /\ t = 6 /\ t = HeadEnd(d) => L.kind = "EXECMAP" /\ L.value = TRUE
  /\ Asks(d) =>
       /\ t = HeadEnd(d) + 1 => L.kind = Word(d) /\ L.value = Sent(d)
       /\ t = Opener(d) => L.kind = OpenWord(d)
       /\ Opener(d) < t /\ t < Closer(d) => L.kind = Sent(d).prompt.lines[t - Opener(d)]
       /\ t = Closer(d) => L.kind = CloseWord(d)
  /\ t = Closer(d) + 1 => L.kind = "ROMMAP" /\ L.value = Written(d.memory.rom)
  /\ t = Closer(d) + 2 => L.kind = "RAMMAP" /\ L.value = Written(d.memory.ram)
  /\ t = Rom(d) => L.kind = "ROM_OPEN"
  /\ Rom(d) < t /\ t < RomEnd(d) =>
       /\ L.kind = "SECTOR"
       /\ L.value.address = Address(d.memory.rom, t - Rom(d))
       /\ L.value.content = d.memory.rom[Address(d.memory.rom, t - Rom(d))]
  /\ t = RomEnd(d) => L.kind = "ROM_CLOSE"
  /\ t = Ram(d) => L.kind = "RAM_OPEN"
  /\ Ram(d) < t /\ t < RamEnd(d) =>
       /\ L.kind = "SECTOR"
       /\ L.value.address = Address(d.memory.ram, t - Ram(d))
       /\ L.value.content = d.memory.ram[Address(d.memory.ram, t - Ram(d))]
  /\ t = RamEnd(d) => L.kind = "RAM_CLOSE"

\* What line t of a frame's body is.
LEMMA LineWritten ==
  ASSUME NEW d, Sound(d), NEW gen, NEW n, NEW t \in 1 .. RamEnd(d),
         NEW L, L = Line(d, gen, n, t)
  PROVE  WrittenAs(L, d, gen, n, t)
<1> DEFINE B == Body(d, gen)
<1>1. /\ Is(B[1], "GEN", gen) /\ Is(B[2], "STATE", d.state)
      /\ Is(B[3], "REGS", None) /\ Is(B[4], "ORACLE", d.used)
      /\ Is(B[5], "IRQ", d.irq)
      /\ d.memory.exec => Is(B[6], "EXECMAP", TRUE)
      /\ Asks(d) => /\ Is(B[HeadEnd(d) + 1], Word(d), Sent(d))
                    /\ Is(B[Opener(d)], OpenWord(d), None)
                    /\ \A i \in 1 .. Len(Sent(d).prompt.lines) :
                         Is(B[Opener(d) + i], Sent(d).prompt.lines[i], None)
                    /\ Is(B[Closer(d)], CloseWord(d), None)
      /\ Is(B[Closer(d) + 1], "ROMMAP", Written(d.memory.rom))
      /\ Is(B[Closer(d) + 2], "RAMMAP", Written(d.memory.ram))
      /\ Is(B[Rom(d)], "ROM_OPEN", None) /\ Is(B[RomEnd(d)], "ROM_CLOSE", None)
      /\ Is(B[Ram(d)], "RAM_OPEN", None) /\ Is(B[RamEnd(d)], "RAM_CLOSE", None)
      /\ \A i \in 1 .. Sectors(d.memory.rom) : IsSector(B[Rom(d) + i], d.memory.rom, i)
      /\ \A i \in 1 .. Sectors(d.memory.ram) : IsSector(B[Ram(d) + i], d.memory.ram, i)
  BY BodyWritten
<1> HIDE DEF B
<1>2. RamEnd(d) \in Nat
  BY Order
<1>3. /\ L.kind = B[t][1] /\ L.value = B[t][2] /\ L.of = n /\ L.at = t
  BY <1>2 DEF Line, B
<1>4. Text(L) = Checksum(d, gen, n)[t]
  BY <1>3 DEF Text, Checksum, B
<1>5. /\ t = 1 => L.kind = "GEN" /\ L.value = gen
      /\ t = 2 => L.kind = "STATE" /\ L.value = d.state
      /\ t = 3 => L.kind = "REGS"
      /\ t = 4 => L.kind = "ORACLE" /\ L.value = d.used
      /\ t = 5 => L.kind = "IRQ" /\ L.value = d.irq
  BY <1>1, <1>3 DEF Is
<1>6. t = 6 /\ t = HeadEnd(d) => L.kind = "EXECMAP" /\ L.value = TRUE
  BY <1>1, <1>3 DEF Is, HeadEnd
<1>7. ASSUME Asks(d)
      PROVE  /\ t = HeadEnd(d) + 1 => L.kind = Word(d) /\ L.value = Sent(d)
             /\ t = Opener(d) => L.kind = OpenWord(d)
             /\ Opener(d) < t /\ t < Closer(d) => L.kind = Sent(d).prompt.lines[t - Opener(d)]
             /\ t = Closer(d) => L.kind = CloseWord(d)
  <2> DEFINE k == Len(Sent(d).prompt.lines)
  <2>1. k \in Nat /\ Closer(d) = Opener(d) + k + 1 /\ Opener(d) \in Nat
    BY <1>7, Layout, SMTT(30)
  <2>2. \A i \in 1 .. k : B[Opener(d) + i][1] = Sent(d).prompt.lines[i]
    BY <1>1, <1>7 DEF Is
  <2> HIDE DEF k
  <2>3. ASSUME Opener(d) < t, t < Closer(d) PROVE L.kind = Sent(d).prompt.lines[t - Opener(d)]
    <3>1. t - Opener(d) \in 1 .. k /\ Opener(d) + (t - Opener(d)) = t
      BY <1>2, <2>1, <2>3
    <3> QED
      BY <1>3, <2>2, <3>1
  <2> QED
    BY <1>1, <1>3, <1>7, <2>3 DEF Is
<1>8. /\ t = Closer(d) + 1 => L.kind = "ROMMAP" /\ L.value = Written(d.memory.rom)
      /\ t = Closer(d) + 2 => L.kind = "RAMMAP" /\ L.value = Written(d.memory.ram)
      /\ t = Rom(d) => L.kind = "ROM_OPEN"
      /\ t = RomEnd(d) => L.kind = "ROM_CLOSE"
      /\ t = Ram(d) => L.kind = "RAM_OPEN"
      /\ t = RamEnd(d) => L.kind = "RAM_CLOSE"
  BY <1>1, <1>3 DEF Is
<1>9. ASSUME Rom(d) < t, t < RomEnd(d)
      PROVE  /\ L.kind = "SECTOR"
             /\ L.value.address = Address(d.memory.rom, t - Rom(d))
             /\ L.value.content = d.memory.rom[Address(d.memory.rom, t - Rom(d))]
  <2>1. t - Rom(d) \in 1 .. Sectors(d.memory.rom) /\ Rom(d) + (t - Rom(d)) = t
    BY <1>2, <1>9, Layout
  <2>2. IsSector(B[t], d.memory.rom, t - Rom(d))
    BY <1>1, <2>1
  <2> QED
    BY <1>3, <2>2 DEF IsSector, Address
<1>10. ASSUME Ram(d) < t, t < RamEnd(d)
       PROVE  /\ L.kind = "SECTOR"
              /\ L.value.address = Address(d.memory.ram, t - Ram(d))
              /\ L.value.content = d.memory.ram[Address(d.memory.ram, t - Ram(d))]
  <2>1. t - Ram(d) \in 1 .. Sectors(d.memory.ram) /\ Ram(d) + (t - Ram(d)) = t
    BY <1>2, <1>10, Layout
  <2>2. IsSector(B[t], d.memory.ram, t - Ram(d))
    BY <1>1, <2>1
  <2> QED
    BY <1>3, <2>2 DEF IsSector, Address
<1> QED
  BY <1>3, <1>4, <1>5, <1>6, <1>7, <1>8, <1>9, <1>10 DEF WrittenAs

\* What a line does not touch stays as it was, but for the lines at which
\* more is claimed of it.
Kept(u, fields, d, gen, n, r, rot, t) ==
  /\ fields \cap {"gen", "state", "regs", "used", "irq", "exec"} = {}
     /\ (t > HeadEnd(d) \/ r < t) => Headers(u, d, gen, n, r, t)
  /\ "mode" \notin fields /\ (Asks(d) => t \notin {Opener(d), Closer(d)})
     => Mode(u, d, r, t)
  /\ fields \cap {"pending", "apending", "prompt", "aprompt"} = {}
     /\ (t <= HeadEnd(d) \/ t > Closer(d) \/ r < t) => Requests(u, d, r, t)
  /\ fields \cap {"rommap", "rammap"} = {}
     /\ (t \notin {Closer(d) + 1, Closer(d) + 2} \/ r < t) => Maps(u, d, r, t)
  /\ "section" \notin fields
     /\ t \notin {Rom(d), RomEnd(d), Ram(d), RamEnd(d)} => Section(u, d, r, t)
  /\ "rom" \notin fields /\ (t <= Rom(d) \/ t >= RomEnd(d) \/ r < t)
     => Memory(u.rom, d.memory.rom, Rom(d), r, t)
  /\ "ram" \notin fields /\ (t <= Ram(d) \/ t >= RamEnd(d) \/ r < t)
     => Memory(u.ram, d.memory.ram, Ram(d), r, t)
  /\ "bad" \notin fields /\ t # r => Bad(u, r, rot, t)

\* A field that a line does not set stays as it was.
LEMMA Untouched ==
  ASSUME NEW d, Sound(d), NEW gen, NEW n, NEW r, NEW rot, Damage(d, r, rot),
         NEW t \in 1 .. RamEnd(d) + 1, NEW s, Reading(s, d, gen, n, r, rot, t - 1),
         NEW u, NEW fields, \A f \in Fields \ fields : u[f] = s[f]
  PROVE  Kept(u, fields, d, gen, n, r, rot, t)
<1>0. /\ HeadEnd(d) \in {5, 6} /\ Opener(d) = HeadEnd(d) + 2
      /\ Closer(d) \in Nat /\ Rom(d) \in Nat /\ RomEnd(d) \in Nat
      /\ Ram(d) \in Nat /\ RamEnd(d) \in Nat
      /\ Closer(d) >= HeadEnd(d)
      /\ ~ Asks(d) => Closer(d) = HeadEnd(d)
      /\ Asks(d) => Closer(d) > Opener(d)
      /\ Rom(d) = Closer(d) + 3 /\ RomEnd(d) > Rom(d)
      /\ Ram(d) = RomEnd(d) + 1 /\ RamEnd(d) > Ram(d)
  BY Order
<1>1. r \in Nat /\ t \in Nat /\ t >= 1
  BY <1>0 DEF Damage
<1>2. ASSUME fields \cap {"gen", "state", "regs", "used", "irq", "exec"} = {},
             t > HeadEnd(d) \/ r < t
      PROVE  Headers(u, d, gen, n, r, t)
  <2>1. /\ u.gen = s.gen /\ u.state = s.state /\ u.regs = s.regs /\ u.used = s.used
        /\ u.irq = s.irq /\ u.exec = s.exec
    BY <1>2 DEF Fields
  <2>2. Headers(s, d, gen, n, r, t - 1)
    BY DEF Reading
  <2>3. t < r => /\ t - 1 < r /\ t - 1 >= 1 /\ t - 1 >= 2 /\ t - 1 >= 3
                 /\ t - 1 >= 4 /\ t - 1 >= 5 /\ t - 1 >= HeadEnd(d)
    BY <1>0, <1>1, <1>2
  <2>4. t < r => /\ u.gen = gen /\ u.state = d.state /\ u.regs = n /\ u.used = d.used
                 /\ u.irq = d.irq /\ u.exec = d.memory.exec
    BY <2>1, <2>2, <2>3 DEF Headers
  <2> QED
    BY <2>1, <2>2, <2>4 DEF Headers
<1>3. ASSUME "mode" \notin fields, Asks(d) => t \notin {Opener(d), Closer(d)}
      PROVE  Mode(u, d, r, t)
  <2>1. u.mode = s.mode
    BY <1>3 DEF Fields
  <2>2. Mode(s, d, r, t - 1)
    BY DEF Reading
  <2>3. InPrompt(d, r, t) <=> InPrompt(d, r, t - 1)
    BY <1>0, <1>1, <1>3 DEF InPrompt
  <2> QED
    BY <2>1, <2>2, <2>3 DEF Mode
<1>4. ASSUME fields \cap {"pending", "apending", "prompt", "aprompt"} = {},
             t <= HeadEnd(d) \/ t > Closer(d) \/ r < t
      PROVE  Requests(u, d, r, t)
  <2>1. u.pending = s.pending /\ u.apending = s.apending /\ u.prompt = s.prompt
        /\ u.aprompt = s.aprompt
    BY <1>4 DEF Fields
  <2>2. Requests(s, d, r, t - 1)
    BY DEF Reading
  <2>3. u[Channel(d)] = s[Channel(d)]
    BY <2>1 DEF Channel
  <2>4. ASSUME t < r, t > HeadEnd(d) PROVE u.pending = d.pending /\ u.apending = Parked(d)
    <3>1. CASE t - 1 > HeadEnd(d)
      BY <1>0, <1>1, <2>1, <2>2, <2>4, <3>1 DEF Requests
    <3>2. CASE ~ (t - 1 > HeadEnd(d))
      <4>1. ~ Asks(d)
        BY <1>0, <1>1, <1>4, <2>4, <3>2
      <4>2. d.pending = None /\ Parked(d) = None
        BY <4>1 DEF Asks, Sent, Parked
      <4> QED
        BY <2>1, <2>2, <4>2 DEF Requests
    <3> QED
      BY <3>1, <3>2
  <2>5. ASSUME t < r, Asks(d), t >= Opener(d)
        PROVE  /\ Len(u[Channel(d)]) = IF t < Closer(d) THEN t - Opener(d) ELSE Len(Sent(d).prompt.lines)
               /\ \A k \in 1 .. Len(u[Channel(d)]) : u[Channel(d)][k] = Sent(d).prompt.lines[k]
    <3>1. t - 1 < r /\ t - 1 >= Closer(d) /\ t - 1 >= Opener(d) /\ ~ (t < Closer(d)) /\ ~ (t - 1 < Closer(d))
      BY <1>0, <1>1, <1>4, <2>5
    <3> QED
      BY <2>2, <2>3, <2>5, <3>1 DEF Requests
  <2> QED
    BY <2>1, <2>2, <2>4, <2>5 DEF Requests
<1>5. ASSUME fields \cap {"rommap", "rammap"} = {},
             t \notin {Closer(d) + 1, Closer(d) + 2} \/ r < t
      PROVE  Maps(u, d, r, t)
  <2>1. u.rommap = s.rommap /\ u.rammap = s.rammap
    BY <1>5 DEF Fields
  <2>2. Maps(s, d, r, t - 1)
    BY DEF Reading
  <2> QED
    BY <1>0, <1>1, <1>5, <2>1, <2>2 DEF Maps
<1>6. ASSUME "section" \notin fields, t \notin {Rom(d), RomEnd(d), Ram(d), RamEnd(d)}
      PROVE  Section(u, d, r, t)
  <2>1. u.section = s.section
    BY <1>6 DEF Fields
  <2>2. Section(s, d, r, t - 1)
    BY DEF Reading
  <2>3. ASSUME InPrompt(d, r, t) PROVE u.section = "none"
    <3>1. CASE InPrompt(d, r, t - 1)
      BY <2>1, <2>2, <3>1 DEF Section
    <3>2. CASE ~ InPrompt(d, r, t - 1)
      <4>1. Asks(d) /\ t = Opener(d)
        BY <1>0, <1>1, <2>3, <3>2 DEF InPrompt
      <4> QED
        BY <1>0, <1>1, <2>1, <2>2, <4>1 DEF Section
    <3> QED
      BY <3>1, <3>2
  <2> QED
    BY <1>0, <1>1, <1>6, <2>1, <2>2, <2>3 DEF Section
<1>7. ASSUME "rom" \notin fields, t <= Rom(d) \/ t >= RomEnd(d) \/ r < t
      PROVE  Memory(u.rom, d.memory.rom, Rom(d), r, t)
  <2>1. u.rom = s.rom
    BY <1>7 DEF Fields
  <2>2. Memory(s.rom, d.memory.rom, Rom(d), r, t - 1)
    BY DEF Reading
  <2>3. Sectors(d.memory.rom) \in Nat /\ RomEnd(d) = Rom(d) + Sectors(d.memory.rom) + 1
    BY Layout
  <2>4. \A i \in 1 .. Sectors(d.memory.rom) : t < r /\ Rom(d) + i <= t => Rom(d) + i <= t - 1
    BY <1>0, <1>1, <1>7, <2>3
  <2> QED
    BY <1>1, <2>1, <2>2, <2>4 DEF Memory
<1>8. ASSUME "ram" \notin fields, t <= Ram(d) \/ t >= RamEnd(d) \/ r < t
      PROVE  Memory(u.ram, d.memory.ram, Ram(d), r, t)
  <2>1. u.ram = s.ram
    BY <1>8 DEF Fields
  <2>2. Memory(s.ram, d.memory.ram, Ram(d), r, t - 1)
    BY DEF Reading
  <2>3. Sectors(d.memory.ram) \in Nat /\ RamEnd(d) = Ram(d) + Sectors(d.memory.ram) + 1
    BY Layout
  <2>4. \A i \in 1 .. Sectors(d.memory.ram) : t < r /\ Ram(d) + i <= t => Ram(d) + i <= t - 1
    BY <1>0, <1>1, <1>8, <2>3
  <2> QED
    BY <1>1, <2>1, <2>2, <2>4 DEF Memory
<1>9. ASSUME "bad" \notin fields, t # r PROVE Bad(u, r, rot, t)
  <2>1. u.bad = s.bad
    BY <1>9 DEF Fields
  <2>2. Bad(s, r, rot, t - 1)
    BY DEF Reading
  <2> QED
    BY <1>1, <1>9, <2>1, <2>2 DEF Bad
<1> QED
  BY <1>2, <1>3, <1>4, <1>5, <1>6, <1>7, <1>8, <1>9 DEF Kept

\* The lines read so far, after one more.
LEMMA Noted ==
  ASSUME NEW d, Sound(d), NEW gen, NEW n, NEW r, NEW rot, Damage(d, r, rot),
         NEW t \in 1 .. RamEnd(d), NEW s, Reading(s, d, gen, n, r, rot, t - 1),
         t = r => rot, NEW line, t < r => Text(line) = Checksum(d, gen, n)[t],
         NEW u, u.canonical = Append(s.canonical, Text(line)), u.crc = s.crc
  PROVE  Canonical(u, d, gen, n, r, rot, t)
<1> DEFINE c == s.canonical
           e == u.canonical
           x == Text(line)
           k == Checksum(d, gen, n)
<1>1. RamEnd(d) \in Nat /\ r \in Nat /\ rot \in BOOLEAN
  BY Order DEF Damage
<1>2. /\ IsSeq(c) /\ s.crc = {} /\ Len(c) = IF ~ rot /\ r <= t - 1 THEN (t - 1) - 1 ELSE t - 1
      /\ t - 1 < r => \A i \in 1 .. RamEnd(d) : i <= t - 1 => c[i] = k[i]
  <2>1. Canonical(s, d, gen, n, r, rot, t - 1)
    BY DEF Reading
  <2>2. t - 1 <= RamEnd(d)
    BY <1>1
  <2> QED
    BY <2>1, <2>2 DEF Canonical
<1>3. IsSeq(c) /\ e = Append(c, x)
  BY <1>2
<1>4. t < r => x = k[t]
  OBVIOUS
<1> HIDE DEF c, e, x, k
<1>5. /\ IsSeq(e) /\ Len(e) = Len(c) + 1
      /\ \A i \in 1 .. Len(c) : e[i] = c[i]
      /\ e[Len(c) + 1] = x
  BY <1>3, Appended
<1>6. Len(e) = IF ~ rot /\ r <= t THEN t - 1 ELSE t
  BY <1>1, <1>2, <1>5
<1>7. ASSUME t < r, NEW i \in 1 .. RamEnd(d), i <= t PROVE e[i] = k[i]
  <2>1. Len(c) = t - 1 /\ (t - 1 < r)
    BY <1>1, <1>2, <1>7
  <2>2. CASE i = t
    BY <1>1, <1>4, <1>5, <1>7, <2>1, <2>2
  <2>3. CASE i # t
    <3>1. i <= t - 1 /\ i \in 1 .. Len(c)
      BY <1>1, <1>7, <2>1, <2>3
    <3> QED
      BY <1>2, <1>5, <2>1, <3>1
  <2> QED
    BY <2>2, <2>3
<1>8. ~ (t > RamEnd(d))
  BY <1>1
<1> QED
  BY <1>2, <1>5, <1>6, <1>7, <1>8 DEF Canonical, e, k

\* A line that is lost.
LEMMA LostLine ==
  ASSUME NEW d, Sound(d), NEW gen, NEW n, NEW r, NEW rot, Damage(d, r, rot),
         NEW t \in 1 .. RamEnd(d) + 1, NEW s, Reading(s, d, gen, n, r, rot, t - 1),
         t = r, ~ rot
  PROVE  Reading(s, d, gen, n, r, rot, t)
<1>0. /\ HeadEnd(d) \in {5, 6} /\ Opener(d) = HeadEnd(d) + 2
      /\ Closer(d) \in Nat /\ Rom(d) \in Nat /\ RomEnd(d) \in Nat
      /\ Ram(d) \in Nat /\ RamEnd(d) \in Nat
      /\ Closer(d) >= HeadEnd(d)
      /\ ~ Asks(d) => Closer(d) = HeadEnd(d)
      /\ Asks(d) => Closer(d) > Opener(d)
      /\ Rom(d) = Closer(d) + 3 /\ RomEnd(d) > Rom(d)
      /\ Ram(d) = RomEnd(d) + 1 /\ RamEnd(d) > Ram(d)
  BY Order
<1>1. r \in Nat /\ t \in Nat /\ t >= 1 /\ ~ (t < r) /\ t - 1 < r
  BY <1>0 DEF Damage
<1>2. Headers(s, d, gen, n, r, t)
  BY <1>1 DEF Reading, Headers
<1>3. Mode(s, d, r, t)
  <2>1. InPrompt(d, r, t) <=> InPrompt(d, r, t - 1)
    BY <1>0, <1>1 DEF InPrompt
  <2> QED
    BY <2>1 DEF Reading, Mode
<1>4. Requests(s, d, r, t)
  BY <1>1 DEF Reading, Requests
<1>5. Maps(s, d, r, t)
  BY <1>1 DEF Reading, Maps
<1>6. Section(s, d, r, t)
  <2>1. InPrompt(d, r, t) <=> InPrompt(d, r, t - 1)
    BY <1>0, <1>1 DEF InPrompt
  <2>2. Section(s, d, r, t - 1)
    BY DEF Reading
  <2> QED
    BY <1>0, <1>1, <2>1, <2>2 DEF Section
<1>7. Memory(s.rom, d.memory.rom, Rom(d), r, t) /\ Memory(s.ram, d.memory.ram, Ram(d), r, t)
  BY <1>1 DEF Reading, Memory
<1>8. Bad(s, r, rot, t)
  BY <1>1 DEF Bad
<1>9. Canonical(s, d, gen, n, r, rot, t)
  <2>1. Canonical(s, d, gen, n, r, rot, t - 1)
    BY DEF Reading
  <2>2. t - 1 <= RamEnd(d) /\ ~ (r <= t - 1) /\ r <= t
    BY <1>0, <1>1
  <2>3. IsSeq(s.canonical) /\ s.crc = {} /\ Len(s.canonical) = t - 1
    BY <2>1, <2>2 DEF Canonical
  <2> QED
    BY <1>1, <2>2, <2>3 DEF Canonical
<1> QED
  BY <1>2, <1>3, <1>4, <1>5, <1>6, <1>7, <1>8, <1>9 DEF Reading

\* A sector that is mangled.
LEMMA MangledLine ==
  ASSUME NEW d, Sound(d), NEW gen, NEW n, NEW r, NEW rot, Damage(d, r, rot),
         NEW t \in 1 .. RamEnd(d) + 1, NEW s, Reading(s, d, gen, n, r, rot, t - 1),
         t = r, rot, NEW u, u = ReadLine(s, Rotted(Line(d, gen, n, t)))
  PROVE  Reading(u, d, gen, n, r, rot, t)
<1> DEFINE L == Line(d, gen, n, t)
           line == Rotted(L)
<1>0. /\ HeadEnd(d) \in {5, 6} /\ Opener(d) = HeadEnd(d) + 2
      /\ Closer(d) \in Nat /\ Rom(d) \in Nat /\ RomEnd(d) \in Nat
      /\ Ram(d) \in Nat /\ RamEnd(d) \in Nat
      /\ Closer(d) >= HeadEnd(d)
      /\ ~ Asks(d) => Closer(d) = HeadEnd(d)
      /\ Asks(d) => Closer(d) > Opener(d)
      /\ Rom(d) = Closer(d) + 3 /\ RomEnd(d) > Rom(d)
      /\ Ram(d) = RomEnd(d) + 1 /\ RamEnd(d) > Ram(d)
  BY Order
<1>1. /\ ((Rom(d) < t /\ t < RomEnd(d)) \/ (Ram(d) < t /\ t < RamEnd(d)))
      /\ t \in Nat /\ r \in Nat /\ t <= RamEnd(d)
  BY <1>0 DEF Damage, InMemory
<1>2. line.kind = "ROTTED"
  BY <1>0, <1>1 DEF Rotted, Line
<1> HIDE DEF L, line
<1>3. s.mode = "lines" /\ s.section \in {"rom", "ram"} /\ DOMAIN s = Fields
  <2>1. ~ InPrompt(d, r, t - 1)
    BY <1>0, <1>1 DEF InPrompt
  <2>2. Section(s, d, r, t - 1) /\ Mode(s, d, r, t - 1) /\ DOMAIN s = Fields
    BY DEF Reading
  <2> QED
    BY <1>0, <1>1, <2>1, <2>2 DEF Section, Mode
<1>4. Only(s, u, line, {"bad"}) /\ u.bad # {}
  <2>1. u = ReadLine(s, line) /\ line.kind \notin Brackets /\ line.kind # "SECTOR"
    BY <1>2 DEF line, L, Brackets
  <2> QED
    BY <1>3, <2>1, SectionRead
<1>5. \A f \in Fields \ {"bad", "canonical"} : u[f] = s[f]
  BY <1>4 DEF Only
<1> DEFINE fields == {"bad", "canonical"}
<1>6. /\ Headers(u, d, gen, n, r, t) /\ Mode(u, d, r, t) /\ Requests(u, d, r, t)
      /\ Maps(u, d, r, t) /\ Section(u, d, r, t)
  <2>1. \A f \in Fields \ fields : u[f] = s[f]
    BY <1>5
  <2> HIDE DEF fields
  <2>2. Kept(u, fields, d, gen, n, r, rot, t)
    BY <2>1, Untouched
  <2> QED
    BY <1>0, <1>1, <2>2 DEF Kept, fields
<1>7. /\ Memory(u.rom, d.memory.rom, Rom(d), r, t)
      /\ Memory(u.ram, d.memory.ram, Ram(d), r, t)
  <2>1. /\ Memory(s.rom, d.memory.rom, Rom(d), r, t - 1)
        /\ Memory(s.ram, d.memory.ram, Ram(d), r, t - 1)
    BY DEF Reading
  <2>2. u.rom = s.rom /\ u.ram = s.ram
    BY <1>5 DEF Fields
  <2> QED
    BY <1>1, <2>1, <2>2 DEF Memory
<1>8. Bad(u, r, rot, t)
  BY <1>1, <1>4 DEF Bad
<1>9. Canonical(u, d, gen, n, r, rot, t)
  <2>1. u.canonical = Append(s.canonical, Text(line))
    BY <1>4 DEF Only
  <2>2. u.crc = s.crc
    BY <1>5 DEF Fields
  <2>3. t \in 1 .. RamEnd(d) /\ ~ (t < r)
    BY <1>0, <1>1
  <2> QED
    BY <2>1, <2>2, <2>3, Noted
<1>10. DOMAIN u = Fields
  BY <1>4 DEF Only
<1> QED
  BY <1>6, <1>7, <1>8, <1>9, <1>10 DEF Reading

\* u is s after reading line t, which is not the damaged one.
Reads(s, u, d, gen, n, r, rot, t) ==
  /\ Sound(d) /\ Damage(d, r, rot)
  /\ t \in 1 .. RamEnd(d) + 1 /\ t # r
  /\ Reading(s, d, gen, n, r, rot, t - 1)
  /\ u = ReadLine(s, Line(d, gen, n, t))

\* The numbers in play.
Between(d, r, t) ==
  /\ HeadEnd(d) \in {5, 6} /\ Opener(d) = HeadEnd(d) + 2
  /\ Closer(d) \in Nat /\ Rom(d) \in Nat /\ RomEnd(d) \in Nat
  /\ Ram(d) \in Nat /\ RamEnd(d) \in Nat
  /\ Closer(d) >= HeadEnd(d)
  /\ ~ Asks(d) => Closer(d) = HeadEnd(d)
  /\ Asks(d) => Closer(d) > Opener(d)
  /\ Rom(d) = Closer(d) + 3 /\ RomEnd(d) > Rom(d)
  /\ Ram(d) = RomEnd(d) + 1 /\ RamEnd(d) > Ram(d)
  /\ r \in Nat /\ t \in Nat /\ t >= 1 /\ t # r /\ t <= RamEnd(d) + 1

\* Where a line that is being read can be.
LEMMA Bounds ==
  ASSUME NEW s, NEW u, NEW d, NEW gen, NEW n, NEW r, NEW rot, NEW t,
         Reads(s, u, d, gen, n, r, rot, t)
  PROVE  Between(d, r, t)
<1>1. Sound(d) /\ Damage(d, r, rot) /\ t \in 1 .. RamEnd(d) + 1 /\ t # r
  BY DEF Reads
<1>2. /\ HeadEnd(d) \in {5, 6} /\ Opener(d) = HeadEnd(d) + 2
      /\ Closer(d) \in Nat /\ Rom(d) \in Nat /\ RomEnd(d) \in Nat
      /\ Ram(d) \in Nat /\ RamEnd(d) \in Nat
      /\ Closer(d) >= HeadEnd(d)
      /\ ~ Asks(d) => Closer(d) = HeadEnd(d)
      /\ Asks(d) => Closer(d) > Opener(d)
      /\ Rom(d) = Closer(d) + 3 /\ RomEnd(d) > Rom(d)
      /\ Ram(d) = RomEnd(d) + 1 /\ RamEnd(d) > Ram(d)
  BY <1>1, Order
<1>3. r \in Nat /\ t \in Nat /\ t >= 1 /\ t <= RamEnd(d) + 1
  BY <1>1, <1>2 DEF Damage
<1> QED
  BY <1>1, <1>2, <1>3 DEF Between

\* Reading a line of the body changes some fields and leaves the others.
LEMMA Rest ==
  ASSUME NEW s, NEW u, NEW d, NEW gen, NEW n, NEW r, NEW rot, NEW t,
         Reads(s, u, d, gen, n, r, rot, t), t <= RamEnd(d),
         NEW fields, "crc" \notin fields, Only(s, u, Line(d, gen, n, t), fields)
  PROVE  /\ Kept(u, fields \cup {"canonical"}, d, gen, n, r, rot, t)
         /\ Canonical(u, d, gen, n, r, rot, t)
         /\ DOMAIN u = Fields
         /\ \A f \in Fields \ (fields \cup {"canonical"}) : u[f] = s[f]
<1> DEFINE more == fields \cup {"canonical"}
           L == Line(d, gen, n, t)
<1>1. /\ Sound(d) /\ Damage(d, r, rot)
      /\ t \in 1 .. RamEnd(d) + 1 /\ t # r
      /\ Reading(s, d, gen, n, r, rot, t - 1)
  BY DEF Reads
<1>2. \A f \in Fields \ more : u[f] = s[f]
  BY DEF Only
<1>3. u.crc = s.crc
  BY <1>2 DEF Fields
<1>4. u.canonical = Append(s.canonical, Text(L)) /\ DOMAIN u = Fields
  BY DEF Only
<1>5. t \in 1 .. RamEnd(d)
  <2>1. Between(d, r, t)
    BY Bounds
  <2> QED
    BY <2>1 DEF Between
<1> HIDE DEF more
<1>6. Kept(u, more, d, gen, n, r, rot, t)
  BY <1>1, <1>2, Untouched
<1>l. L = Line(d, gen, n, t)
  OBVIOUS
<1> HIDE DEF L
<1>7. Text(L) = Checksum(d, gen, n)[t]
  <2>1. WrittenAs(L, d, gen, n, t)
    BY <1>1, <1>5, <1>l, LineWritten
  <2> QED
    BY <2>1 DEF WrittenAs
<1>8. Canonical(u, d, gen, n, r, rot, t)
  BY <1>1, <1>3, <1>4, <1>5, <1>7, Noted
<1> QED
  BY <1>2, <1>4, <1>6, <1>8 DEF more

\* Fewer fields were set than allowed.
LEMMA OnlyMore ==
  ASSUME NEW s, NEW u, NEW line, NEW F, Only(s, u, line, F), NEW G, F \subseteq G
  PROVE  Only(s, u, line, G)
  BY DEF Only

\* The headers.
LEMMA HeadersRead ==
  ASSUME NEW s, NEW u, NEW d, NEW gen, NEW n, NEW r, NEW rot, NEW t,
         Reads(s, u, d, gen, n, r, rot, t), t <= HeadEnd(d)
  PROVE  Reading(u, d, gen, n, r, rot, t)
<1> DEFINE L == Line(d, gen, n, t)
           H == {"gen", "state", "regs", "used", "irq", "exec"}
<1>1. /\ Sound(d) /\ Reading(s, d, gen, n, r, rot, t - 1)
      /\ u = ReadLine(s, L)
  BY DEF Reads
<1>2. Between(d, r, t)
  BY Bounds
<1>3. t \in 1 .. RamEnd(d) /\ t \in 1 .. 6
  BY <1>2 DEF Between
<1>l. L = Line(d, gen, n, t)
  OBVIOUS
<1> HIDE DEF L
<1>4. /\ L.of = n
      /\ t = 1 => L.kind = "GEN" /\ L.value = gen
      /\ t = 2 => L.kind = "STATE" /\ L.value = d.state
      /\ t = 3 => L.kind = "REGS"
      /\ t = 4 => L.kind = "ORACLE" /\ L.value = d.used
      /\ t = 5 => L.kind = "IRQ" /\ L.value = d.irq
      /\ t = 6 /\ t = HeadEnd(d) => L.kind = "EXECMAP" /\ L.value = TRUE
  <2>1. WrittenAs(L, d, gen, n, t)
    BY <1>1, <1>3, <1>l, LineWritten
  <2> QED
    BY <2>1 DEF WrittenAs
<1>5. t = 6 => t = HeadEnd(d)
  BY <1>2 DEF Between
<1>6. DOMAIN s = Fields /\ s.mode = "lines" /\ s.section = "none"
  <2>1. /\ ~ InPrompt(d, r, t - 1) /\ ~ (Rom(d) <= t - 1) /\ ~ (Ram(d) <= t - 1)
    BY <1>2 DEF Between, InPrompt
  <2>2. Section(s, d, r, t - 1) /\ Mode(s, d, r, t - 1) /\ DOMAIN s = Fields
    BY <1>1 DEF Reading
  <2> QED
    BY <2>1, <2>2 DEF Section, Mode
<1>7. L.kind \notin Brackets /\ L.kind # "SNAPCRC"
  BY <1>3, <1>4, <1>5 DEF Brackets
<1>8. /\ L.kind = "GEN" => Only(s, u, L, {"gen"}) /\ u.gen = L.value
      /\ L.kind = "STATE" => Only(s, u, L, {"state"}) /\ u.state = L.value
      /\ L.kind = "REGS" => Only(s, u, L, {"regs"}) /\ u.regs = L.of
      /\ L.kind = "ORACLE" => Only(s, u, L, {"used"}) /\ u.used = L.value
      /\ L.kind = "IRQ" => Only(s, u, L, {"irq"}) /\ u.irq = L.value
      /\ L.kind = "EXECMAP" => Only(s, u, L, {"exec"}) /\ u.exec = L.value
  BY <1>1, <1>6, <1>7, HeaderRead
<1>9. Only(s, u, L, H)
  BY <1>3, <1>4, <1>5, <1>8, OnlyMore
<1>10. Headers(u, d, gen, n, r, t)
  <2>1. Headers(s, d, gen, n, r, t - 1)
    BY <1>1 DEF Reading
  <2>2. t # 1 => u.gen = s.gen
    BY <1>3, <1>4, <1>5, <1>8 DEF Only, Fields
  <2>3. t # 2 => u.state = s.state
    BY <1>3, <1>4, <1>5, <1>8 DEF Only, Fields
  <2>4. t # 3 => u.regs = s.regs
    BY <1>3, <1>4, <1>5, <1>8 DEF Only, Fields
  <2>5. t # 4 => u.used = s.used
    BY <1>3, <1>4, <1>5, <1>8 DEF Only, Fields
  <2>6. t # 5 => u.irq = s.irq
    BY <1>3, <1>4, <1>5, <1>8 DEF Only, Fields
  <2>7. t # 6 => u.exec = s.exec
    BY <1>3, <1>4, <1>5, <1>8 DEF Only, Fields
  <2>8. /\ t = 1 => u.gen = gen
        /\ t = 2 => u.state = d.state
        /\ t = 3 => u.regs = n
        /\ t = 4 => u.used = d.used
        /\ t = 5 => u.irq = d.irq
    BY <1>4, <1>8
  <2>9. u.exec \in {FALSE, d.memory.exec} /\ (t >= HeadEnd(d) => u.exec = d.memory.exec)
    <3>1. s.exec \in {FALSE, d.memory.exec}
      BY <2>1 DEF Headers
    <3>2. d.memory.exec \in BOOLEAN
      BY <1>1, Layout
    <3>3. CASE t = 6
      <4>1. u.exec = TRUE /\ t = HeadEnd(d)
        BY <1>4, <1>5, <1>8, <3>3
      <4>2. HeadEnd(d) = 6
        BY <3>3, <4>1
      <4>3. d.memory.exec = TRUE
        BY <4>2, <3>2 DEF HeadEnd
      <4> QED
        BY <4>1, <4>3
    <3>4. CASE t # 6
      <4>1. u.exec = s.exec
        BY <2>7, <3>4
      <4>2. t >= HeadEnd(d) => HeadEnd(d) = 5
        BY <1>2, <1>3, <3>4 DEF Between
      <4>3. t >= HeadEnd(d) => d.memory.exec = FALSE
        BY <4>2, <3>2 DEF HeadEnd
      <4> QED
        BY <3>1, <4>1, <4>3
    <3> QED
      BY <3>3, <3>4
  <2>10. t < r => t - 1 < r
    BY <1>2 DEF Between
  <2>11. /\ u.gen \in {0, gen} /\ u.state \in {"READY", d.state} /\ u.regs \in {0, n}
         /\ u.used \in {0, d.used} /\ u.irq \in {0, d.irq}
    BY <2>1, <2>2, <2>3, <2>4, <2>5, <2>6, <2>8 DEF Headers
  <2>12. ASSUME t < r
         PROVE  /\ t >= 1 => u.gen = gen
                /\ t >= 2 => u.state = d.state
                /\ t >= 3 => u.regs = n
                /\ t >= 4 => u.used = d.used
                /\ t >= 5 => u.irq = d.irq
    BY <1>3, <2>1, <2>2, <2>3, <2>4, <2>5, <2>6, <2>8, <2>10, <2>12 DEF Headers
  <2> QED
    BY <2>9, <2>11, <2>12 DEF Headers
<1>11. "crc" \notin H /\ t <= RamEnd(d)
  BY <1>3
<1> DEFINE fields == H \cup {"canonical"}
<1>12. Kept(u, fields, d, gen, n, r, rot, t) /\ Canonical(u, d, gen, n, r, rot, t) /\ DOMAIN u = Fields
  <2> HIDE DEF H
  <2> QED
    BY <1>9, <1>11, Rest DEF L
<1>13. /\ Mode(u, d, r, t) /\ Requests(u, d, r, t)
       /\ Maps(u, d, r, t) /\ Section(u, d, r, t) /\ Bad(u, r, rot, t)
       /\ Memory(u.rom, d.memory.rom, Rom(d), r, t) /\ Memory(u.ram, d.memory.ram, Ram(d), r, t)
  BY <1>2, <1>12 DEF Kept, Between
<1> QED
  BY <1>10, <1>12, <1>13 DEF Reading

\* What is known before line t is read.
LEMMA Setting ==
  ASSUME NEW s, NEW u, NEW d, NEW gen, NEW n, NEW r, NEW rot, NEW t,
         Reads(s, u, d, gen, n, r, rot, t)
  PROVE  /\ Sound(d) /\ Damage(d, r, rot) /\ Between(d, r, t)
         /\ DOMAIN s = Fields /\ u = ReadLine(s, Line(d, gen, n, t))
         /\ Headers(s, d, gen, n, r, t - 1)
         /\ Mode(s, d, r, t - 1)
         /\ Requests(s, d, r, t - 1)
         /\ Maps(s, d, r, t - 1)
         /\ Section(s, d, r, t - 1)
         /\ Memory(s.rom, d.memory.rom, Rom(d), r, t - 1)
         /\ Memory(s.ram, d.memory.ram, Ram(d), r, t - 1)
         /\ Bad(s, r, rot, t - 1)
         /\ Canonical(s, d, gen, n, r, rot, t - 1)
         /\ t <= RamEnd(d) => WrittenAs(Line(d, gen, n, t), d, gen, n, t)
<1>1. Between(d, r, t)
  BY Bounds
<1>2. Sound(d) /\ Damage(d, r, rot) /\ Reading(s, d, gen, n, r, rot, t - 1)
      /\ u = ReadLine(s, Line(d, gen, n, t))
  BY DEF Reads
<1>3. ASSUME t <= RamEnd(d) PROVE WrittenAs(Line(d, gen, n, t), d, gen, n, t)
  <2>1. t \in 1 .. RamEnd(d)
    BY <1>1, <1>3 DEF Between
  <2> QED
    BY <1>2, <2>1, LineWritten
<1> QED
  BY <1>1, <1>2, <1>3 DEF Reading

\* The request.
LEMMA RequestRead ==
  ASSUME NEW s, NEW u, NEW d, NEW gen, NEW n, NEW r, NEW rot, NEW t,
         Reads(s, u, d, gen, n, r, rot, t), Asks(d), t = HeadEnd(d) + 1
  PROVE  Reading(u, d, gen, n, r, rot, t)
<1> DEFINE L == Line(d, gen, n, t)
           fields == {"pending", "apending"}
           more == fields \cup {"canonical"}
<1>1. Between(d, r, t) /\ DOMAIN s = Fields /\ u = ReadLine(s, L)
      /\ Mode(s, d, r, t - 1) /\ Requests(s, d, r, t - 1) /\ Section(s, d, r, t - 1)
  BY Setting
<1>2. t <= RamEnd(d) /\ t = HeadEnd(d) + 1
  BY <1>1 DEF Between
<1>3. L.kind = Word(d) /\ L.value = Sent(d)
  <2>1. WrittenAs(L, d, gen, n, t)
    BY <1>2, Setting
  <2> HIDE DEF L
  <2> QED
    BY <2>1 DEF WrittenAs
<1>l. L = Line(d, gen, n, t)
  OBVIOUS
<1> HIDE DEF L
<1>4. s.mode = "lines" /\ s.section = "none"
  <2>1. /\ ~ InPrompt(d, r, t - 1) /\ ~ (Rom(d) <= t - 1) /\ ~ (Ram(d) <= t - 1)
    BY <1>1 DEF Between, InPrompt
  <2> QED
    BY <1>1, <2>1 DEF Section, Mode
<1>5. L.kind \notin Brackets /\ L.kind # "SNAPCRC"
  BY <1>3 DEF Brackets, Word
<1>6. /\ L.kind = "PENDING" => Only(s, u, L, {"pending"}) /\ u.pending = L.value
      /\ L.kind = "APENDING" => Only(s, u, L, {"apending"}) /\ u.apending = L.value
  BY <1>1, <1>4, <1>5, HeaderRead
<1>7. Only(s, u, L, fields) /\ "crc" \notin fields
  BY <1>3, <1>6, OnlyMore DEF Word
<1>8. u.pending \in {None, d.pending} /\ u.apending \in {None, Parked(d)}
      /\ (t < r => u.pending = d.pending /\ u.apending = Parked(d))
  <2>1. s.pending \in {None, d.pending} /\ s.apending \in {None, Parked(d)}
    BY <1>1 DEF Requests
  <2>2. CASE d.pending # None
    <3>1. u.pending = d.pending /\ u.apending = s.apending /\ Parked(d) = None
      BY <1>3, <1>6, <2>2 DEF Word, Sent, Only, Fields, Parked
    <3> QED
      BY <2>1, <3>1
  <2>3. CASE d.pending = None
    <3>1. u.apending = Parked(d) /\ u.pending = s.pending
      BY <1>3, <1>6, <2>3 DEF Word, Sent, Only, Fields, Parked
    <3> QED
      BY <2>1, <2>3, <3>1
  <2> QED
    BY <2>2, <2>3
<1>9. Kept(u, more, d, gen, n, r, rot, t) /\ Canonical(u, d, gen, n, r, rot, t) /\ DOMAIN u = Fields
      /\ \A f \in Fields \ more : u[f] = s[f]
  <2> HIDE DEF fields
  <2> QED
    BY <1>2, <1>7, <1>l, Rest
<1>10. Requests(u, d, r, t)
  <2>1. u.prompt = s.prompt /\ u.aprompt = s.aprompt
    BY <1>9 DEF Fields
  <2>2. s.prompt \in Seq(Kind \ Markers) /\ s.aprompt \in Seq(Kind \ Markers)
    BY <1>1 DEF Requests
  <2>3. ~ (t >= Opener(d))
    BY <1>1, <1>2 DEF Between
  <2> QED
    BY <1>8, <2>1, <2>2, <2>3 DEF Requests
<1>11. /\ Headers(u, d, gen, n, r, t) /\ Mode(u, d, r, t)
       /\ Maps(u, d, r, t) /\ Section(u, d, r, t) /\ Bad(u, r, rot, t)
       /\ Memory(u.rom, d.memory.rom, Rom(d), r, t) /\ Memory(u.ram, d.memory.ram, Ram(d), r, t)
  BY <1>1, <1>2, <1>9 DEF Kept, Between
<1> QED
  BY <1>9, <1>10, <1>11 DEF Reading

\* The line that opens the prompt.
LEMMA OpenerRead ==
  ASSUME NEW s, NEW u, NEW d, NEW gen, NEW n, NEW r, NEW rot, NEW t,
         Reads(s, u, d, gen, n, r, rot, t), Asks(d), t = Opener(d)
  PROVE  Reading(u, d, gen, n, r, rot, t)
<1> DEFINE L == Line(d, gen, n, t)
           fields == {"mode", Channel(d)}
           more == fields \cup {"canonical"}
<1>1. Between(d, r, t) /\ DOMAIN s = Fields /\ u = ReadLine(s, L)
      /\ Mode(s, d, r, t - 1) /\ Requests(s, d, r, t - 1) /\ Section(s, d, r, t - 1)
  BY Setting
<1>2. t <= RamEnd(d) /\ HeadEnd(d) < t - 1 /\ t < Closer(d) /\ t # r /\ t \in Nat /\ r \in Nat
  BY <1>1 DEF Between
<1>3. L.kind = OpenWord(d)
  <2>1. WrittenAs(L, d, gen, n, t)
    BY <1>2, Setting
  <2> HIDE DEF L
  <2> QED
    BY <2>1 DEF WrittenAs
<1>l. L = Line(d, gen, n, t)
  OBVIOUS
<1> HIDE DEF L
<1>4. s.mode = "lines" /\ s.section = "none"
  <2>1. /\ ~ InPrompt(d, r, t - 1) /\ ~ (Rom(d) <= t - 1) /\ ~ (Ram(d) <= t - 1)
    BY <1>1 DEF Between, InPrompt
  <2> QED
    BY <1>1, <2>1 DEF Section, Mode
<1>5. L.kind \in Brackets
  BY <1>3 DEF Brackets, OpenWord
<1>6. /\ L.kind = "PROMPT_OPEN" =>
           Only(s, u, L, {"mode", "prompt"}) /\ u.mode = "prompt" /\ u.prompt = <<>>
      /\ L.kind = "APROMPT_OPEN" =>
           Only(s, u, L, {"mode", "aprompt"}) /\ u.mode = "aprompt" /\ u.aprompt = <<>>
  BY <1>1, <1>4, <1>5, BracketRead
<1>7. Only(s, u, L, fields) /\ "crc" \notin fields /\ u.mode = Channel(d) /\ u[Channel(d)] = <<>>
  BY <1>3, <1>6 DEF OpenWord, Channel
<1>8. Channel(d) \in {"prompt", "aprompt"}
  BY DEF Channel
<1>9. Kept(u, more, d, gen, n, r, rot, t) /\ Canonical(u, d, gen, n, r, rot, t) /\ DOMAIN u = Fields
      /\ \A f \in Fields \ more : u[f] = s[f]
  <2> HIDE DEF fields
  <2> QED
    BY <1>2, <1>7, <1>l, Rest
<1>10. Requests(u, d, r, t)
  <2>1. u.pending = s.pending /\ u.apending = s.apending
        /\ u.prompt \in {s.prompt, <<>>} /\ u.aprompt \in {s.aprompt, <<>>}
    BY <1>7, <1>8, <1>9 DEF Fields
  <2>2. s.prompt \in Seq(Kind \ Markers) /\ s.aprompt \in Seq(Kind \ Markers)
        /\ <<>> \in Seq(Kind \ Markers)
    BY <1>1 DEF Requests
  <2>3. t < r => t - 1 < r /\ t - 1 > HeadEnd(d)
    BY <1>2, <1>1 DEF Between
  <2>4. t - Opener(d) = 0 /\ Len(u[Channel(d)]) = 0
    BY <1>1, <1>2, <1>7 DEF Between
  <2>5. u.prompt \in Seq(Kind \ Markers) /\ u.aprompt \in Seq(Kind \ Markers)
    BY <2>1, <2>2
  <2>6. \A k \in 1 .. Len(u[Channel(d)]) : u[Channel(d)][k] = Sent(d).prompt.lines[k]
    BY <2>4
  <2> QED
    BY <1>1, <1>2, <2>1, <2>3, <2>4, <2>5, <2>6 DEF Requests
<1>11. Mode(u, d, r, t)
  <2>1. InPrompt(d, r, t)
    BY <1>1, <1>2 DEF InPrompt, Between
  <2> QED
    BY <1>7, <2>1 DEF Mode
<1>12. /\ Headers(u, d, gen, n, r, t)
       /\ Maps(u, d, r, t) /\ Section(u, d, r, t) /\ Bad(u, r, rot, t)
       /\ Memory(u.rom, d.memory.rom, Rom(d), r, t) /\ Memory(u.ram, d.memory.ram, Ram(d), r, t)
  BY <1>1, <1>2, <1>8, <1>9 DEF Kept, Between
<1> QED
  BY <1>9, <1>10, <1>11, <1>12 DEF Reading

\* A line of the prompt.  When the line that opens it is lost, the text is
\* read as a line of the frame that means nothing.
LEMMA PromptRead ==
  ASSUME NEW s, NEW u, NEW d, NEW gen, NEW n, NEW r, NEW rot, NEW t,
         Reads(s, u, d, gen, n, r, rot, t), Asks(d), Opener(d) < t, t < Closer(d)
  PROVE  Reading(u, d, gen, n, r, rot, t)
<1> DEFINE L == Line(d, gen, n, t)
           p == Sent(d).prompt.lines
           c == Channel(d)
<1>1. Between(d, r, t) /\ DOMAIN s = Fields /\ u = ReadLine(s, L)
      /\ Mode(s, d, r, t - 1) /\ Requests(s, d, r, t - 1) /\ Section(s, d, r, t - 1)
      /\ Damage(d, r, rot) /\ Sound(d)
  BY Setting
<1>2. t <= RamEnd(d) /\ HeadEnd(d) < t - 1 /\ Opener(d) <= t - 1 /\ t - 1 < Closer(d)
      /\ t \in Nat /\ r \in Nat /\ t # r /\ Opener(d) \in Nat /\ Closer(d) < RamEnd(d)
  BY <1>1 DEF Between
<1>3. L.kind = p[t - Opener(d)]
  <2>1. WrittenAs(L, d, gen, n, t)
    BY <1>2, Setting
  <2> HIDE DEF L
  <2> QED
    BY <2>1 DEF WrittenAs
<1>l. L = Line(d, gen, n, t)
  OBVIOUS
<1> HIDE DEF L
<1>4. p \in Seq(Kind \ Markers) /\ Len(p) \in Nat /\ Closer(d) = Opener(d) + Len(p) + 1
  BY <1>1, Layout DEF Asking
<1>5. t - Opener(d) \in 1 .. Len(p)
  BY <1>2, <1>4
<1>6. c \in {"prompt", "aprompt"} /\ c \in Fields
  BY DEF Channel, Fields
<1>7. CASE r # Opener(d)
  <2> DEFINE fields == {c}
             more == fields \cup {"canonical"}
  <2>1. InPrompt(d, r, t - 1) /\ InPrompt(d, r, t)
    BY <1>1, <1>2, <1>7 DEF InPrompt, Between
  <2>2. s.mode = c
    BY <1>1, <2>1 DEF Mode
  <2>3. L.kind \in Kind \ Markers
    BY <1>3, <1>4, <1>5, ElementOfSeq
  <2>4. Only(s, u, L, fields) /\ u[c] = Append(s[c], L.kind)
    <3>1. IF L.kind = (IF s.mode = "prompt" THEN "PROMPT_CLOSE" ELSE "APROMPT_CLOSE")
          THEN Only(s, u, L, {"mode"}) /\ u.mode = "lines"
          ELSE Only(s, u, L, {s.mode}) /\ u[s.mode] = Append(s[s.mode], L.kind)
      BY <1>1, <1>6, <2>2, InPromptRead
    <3> QED
      BY <2>2, <2>3, <3>1 DEF Markers
  <2>5. Kept(u, more, d, gen, n, r, rot, t) /\ Canonical(u, d, gen, n, r, rot, t) /\ DOMAIN u = Fields
        /\ \A f \in Fields \ more : u[f] = s[f]
    <3>1. "crc" \notin fields
      BY <1>6
    <3>2. Only(s, u, Line(d, gen, n, t), fields) /\ t <= RamEnd(d)
      BY <1>2, <1>l, <2>4
    <3> HIDE DEF fields
    <3> QED
      BY <3>1, <3>2, Rest
  <2>6. Requests(u, d, r, t)
    <3>1. u.pending = s.pending /\ u.apending = s.apending
      BY <1>6, <2>5 DEF Fields
    <3>2. s.prompt \in Seq(Kind \ Markers) /\ s.aprompt \in Seq(Kind \ Markers)
          /\ s[c] \in Seq(Kind \ Markers)
      BY <1>1, <1>6 DEF Requests
    <3>3. /\ u[c] \in Seq(Kind \ Markers) /\ Len(u[c]) = Len(s[c]) + 1
          /\ \A i \in 1 .. Len(s[c]) : u[c][i] = s[c][i]
          /\ u[c][Len(s[c]) + 1] = L.kind
      BY <2>3, <2>4, <3>2, AppendProperties
    <3>4. u.prompt \in Seq(Kind \ Markers) /\ u.aprompt \in Seq(Kind \ Markers)
      BY <1>6, <2>5, <3>2, <3>3 DEF Fields
    <3>5. ASSUME t < r
          PROVE  /\ Len(u[c]) = t - Opener(d)
                 /\ \A k \in 1 .. Len(u[c]) : u[c][k] = p[k]
      <4>1. t - 1 < r
        BY <1>2, <3>5
      <4>2. /\ Len(s[c]) = t - 1 - Opener(d)
            /\ \A k \in 1 .. Len(s[c]) : s[c][k] = p[k]
        BY <1>1, <1>2, <4>1 DEF Requests
      <4>3. Len(u[c]) = t - Opener(d) /\ Len(s[c]) + 1 = t - Opener(d)
        BY <1>2, <3>3, <4>2
      <4>4. ASSUME NEW k \in 1 .. t - Opener(d) PROVE u[c][k] = p[k]
        <5>1. CASE k = t - Opener(d)
          BY <1>3, <3>3, <4>3, <5>1
        <5>2. CASE k # t - Opener(d)
          <6>1. k \in 1 .. Len(s[c])
            BY <1>2, <4>2, <5>2
          <6> QED
            BY <3>3, <4>2, <6>1
        <5> QED
          BY <5>1, <5>2
      <4> QED
        BY <4>3, <4>4
    <3>6. t < r => s.pending = d.pending /\ s.apending = Parked(d)
      BY <1>1, <1>2 DEF Requests
    <3>7. s.pending \in {None, d.pending} /\ s.apending \in {None, Parked(d)}
      BY <1>1 DEF Requests
    <3> QED
      BY <3>1, <3>4, <3>5, <3>6, <3>7 DEF Requests
  <2>7. /\ Headers(u, d, gen, n, r, t) /\ Mode(u, d, r, t)
        /\ Maps(u, d, r, t) /\ Section(u, d, r, t) /\ Bad(u, r, rot, t)
        /\ Memory(u.rom, d.memory.rom, Rom(d), r, t) /\ Memory(u.ram, d.memory.ram, Ram(d), r, t)
    BY <1>1, <1>2, <1>6, <2>5 DEF Kept, Between
  <2> QED
    BY <2>5, <2>6, <2>7 DEF Reading
<1>8. CASE r = Opener(d)
  <2> DEFINE fields == {}
             more == fields \cup {"canonical"}
  <2>1. ~ InPrompt(d, r, t - 1)
    BY <1>8 DEF InPrompt
  <2>2. s.mode = "lines" /\ s.section = "none"
    <3>1. ~ (Rom(d) <= t - 1) /\ ~ (Ram(d) <= t - 1)
      BY <1>1, <1>2 DEF Between
    <3> QED
      BY <1>1, <2>1, <3>1 DEF Mode, Section
  <2>3. L.kind = "TEXT"
    <3>1. r <= RamEnd(d) + 1
      BY <1>1, <1>2, <1>8 DEF Between
    <3>2. p \in Seq({"TEXT"})
      BY <1>1, <3>1 DEF Damage, Plain
    <3> HIDE DEF p
    <3>3. p[t - Opener(d)] \in {"TEXT"}
      BY <1>5, <3>2, ElementOfSeq
    <3> QED
      BY <1>3, <3>3
  <2>4. Only(s, u, L, fields)
    BY <1>1, <2>2, <2>3, HeaderRead DEF Brackets, HeaderKinds
  <2>5. Kept(u, more, d, gen, n, r, rot, t) /\ Canonical(u, d, gen, n, r, rot, t) /\ DOMAIN u = Fields
    <3>1. "crc" \notin fields
      OBVIOUS
    <3> HIDE DEF fields
    <3> QED
      BY <1>2, <1>l, <2>4, <3>1, Rest
  <2>6. r < t
    BY <1>2, <1>8
  <2>7. /\ Headers(u, d, gen, n, r, t) /\ Mode(u, d, r, t) /\ Requests(u, d, r, t)
        /\ Maps(u, d, r, t) /\ Section(u, d, r, t) /\ Bad(u, r, rot, t)
        /\ Memory(u.rom, d.memory.rom, Rom(d), r, t) /\ Memory(u.ram, d.memory.ram, Ram(d), r, t)
    BY <1>1, <1>2, <2>5, <2>6 DEF Kept, Between
  <2> QED
    BY <2>5, <2>7 DEF Reading
<1> QED
  BY <1>7, <1>8

\* The line that closes the prompt.
LEMMA CloserRead ==
  ASSUME NEW s, NEW u, NEW d, NEW gen, NEW n, NEW r, NEW rot, NEW t,
         Reads(s, u, d, gen, n, r, rot, t), Asks(d), t = Closer(d)
  PROVE  Reading(u, d, gen, n, r, rot, t)
<1> DEFINE L == Line(d, gen, n, t)
           c == Channel(d)
           fields == {"mode"}
           more == fields \cup {"canonical"}
<1>1. Between(d, r, t) /\ DOMAIN s = Fields /\ u = ReadLine(s, L)
      /\ Mode(s, d, r, t - 1) /\ Requests(s, d, r, t - 1) /\ Section(s, d, r, t - 1)
      /\ Sound(d)
  BY Setting
<1>2. t <= RamEnd(d) /\ HeadEnd(d) < t - 1 /\ Opener(d) <= t - 1 /\ t - 1 < Closer(d)
      /\ t \in Nat /\ r \in Nat /\ t # r /\ Opener(d) \in Nat /\ t = Closer(d)
  BY <1>1 DEF Between
<1>3. L.kind = CloseWord(d)
  <2>1. WrittenAs(L, d, gen, n, t)
    BY <1>2, Setting
  <2> HIDE DEF L
  <2> QED
    BY <2>1 DEF WrittenAs
<1>l. L = Line(d, gen, n, t)
  OBVIOUS
<1> HIDE DEF L
<1>4. c \in {"prompt", "aprompt"} /\ c \in Fields
  BY DEF Channel, Fields
<1>5. ~ InPrompt(d, r, t)
  BY <1>2 DEF InPrompt
<1>6. Only(s, u, L, fields) /\ u.mode = "lines"
  <2>1. CASE r # Opener(d)
    <3>1. InPrompt(d, r, t - 1)
      BY <1>1, <1>2, <2>1 DEF InPrompt, Between
    <3>2. s.mode = c
      BY <1>1, <3>1 DEF Mode
    <3>3. IF L.kind = (IF s.mode = "prompt" THEN "PROMPT_CLOSE" ELSE "APROMPT_CLOSE")
          THEN Only(s, u, L, {"mode"}) /\ u.mode = "lines"
          ELSE Only(s, u, L, {s.mode}) /\ u[s.mode] = Append(s[s.mode], L.kind)
      BY <1>1, <1>4, <3>2, InPromptRead
    <3> QED
      BY <1>3, <3>2, <3>3 DEF CloseWord, Channel
  <2>2. CASE r = Opener(d)
    <3>1. ~ InPrompt(d, r, t - 1)
      BY <2>2 DEF InPrompt
    <3>2. s.mode = "lines" /\ s.section = "none"
      <4>1. ~ (Rom(d) <= t - 1) /\ ~ (Ram(d) <= t - 1)
        BY <1>1, <1>2 DEF Between
      <4> QED
        BY <1>1, <3>1, <4>1 DEF Mode, Section
    <3>3. L.kind \notin Brackets /\ L.kind \notin HeaderKinds /\ L.kind # "SNAPCRC"
      BY <1>3 DEF CloseWord, Brackets, HeaderKinds
    <3>4. Only(s, u, L, {})
      BY <1>1, <3>2, <3>3, HeaderRead
    <3>5. Only(s, u, L, fields)
      BY <3>4, OnlyMore
    <3>6. u.mode = s.mode
      BY <3>4 DEF Only, Fields
    <3> QED
      BY <3>2, <3>5, <3>6
  <2> QED
    BY <2>1, <2>2
<1>7. Kept(u, more, d, gen, n, r, rot, t) /\ Canonical(u, d, gen, n, r, rot, t) /\ DOMAIN u = Fields
      /\ \A f \in Fields \ more : u[f] = s[f]
  <2>1. "crc" \notin fields
    OBVIOUS
  <2> HIDE DEF fields
  <2> QED
    BY <1>2, <1>6, <1>l, <2>1, Rest
<1>8. Requests(u, d, r, t)
  <2>1. u.pending = s.pending /\ u.apending = s.apending /\ u.prompt = s.prompt
        /\ u.aprompt = s.aprompt
    BY <1>7 DEF Fields
  <2>2. u[c] = s[c]
    BY <1>4, <2>1
  <2>3. /\ Closer(d) = Opener(d) + Len(Sent(d).prompt.lines) + 1 /\ Len(Sent(d).prompt.lines) \in Nat
        /\ Opener(d) \in Nat /\ t = Closer(d)
    <3>1. /\ Closer(d) = Opener(d) + Len(Sent(d).prompt.lines) + 1
          /\ Len(Sent(d).prompt.lines) \in Nat
          /\ HeadEnd(d) \in {5, 6} /\ Opener(d) = HeadEnd(d) + 2
      BY <1>1, Layout
    <3>2. t = Closer(d)
      BY <1>2
    <3>3. Opener(d) \in Nat
      BY <3>1
    <3> QED
      BY <3>1, <3>2, <3>3
  <2>4. ASSUME t < r
        PROVE  /\ u.pending = d.pending /\ u.apending = Parked(d)
               /\ Len(u[c]) = Len(Sent(d).prompt.lines)
               /\ \A k \in 1 .. Len(u[c]) : u[c][k] = Sent(d).prompt.lines[k]
    <3>1. t - 1 < r
      BY <1>2, <2>4
    <3>2. t - 1 - Opener(d) = Len(Sent(d).prompt.lines)
      BY <2>3
    <3> QED
      BY <1>1, <1>2, <2>1, <2>2, <3>1, <3>2 DEF Requests
  <2> QED
    BY <1>1, <1>2, <2>1, <2>4 DEF Requests
<1>9. Mode(u, d, r, t)
  BY <1>5, <1>6 DEF Mode
<1>10. /\ Headers(u, d, gen, n, r, t)
       /\ Maps(u, d, r, t) /\ Section(u, d, r, t) /\ Bad(u, r, rot, t)
       /\ Memory(u.rom, d.memory.rom, Rom(d), r, t) /\ Memory(u.ram, d.memory.ram, Ram(d), r, t)
  BY <1>1, <1>2, <1>7 DEF Kept, Between
<1> QED
  BY <1>7, <1>8, <1>9, <1>10 DEF Reading

\* The lines after the request.
LEMMA LaterKinds ==
  ASSUME NEW s, NEW u, NEW d, NEW gen, NEW n, NEW r, NEW rot, NEW t,
         Reads(s, u, d, gen, n, r, rot, t), t > Closer(d)
  PROVE  Line(d, gen, n, t).kind \in {"ROMMAP", "RAMMAP", "ROM_OPEN", "SECTOR", "ROM_CLOSE",
                                      "RAM_OPEN", "RAM_CLOSE", "SNAPCRC"}
<1> DEFINE L == Line(d, gen, n, t)
<1>1. Between(d, r, t) /\ (t <= RamEnd(d) => WrittenAs(L, d, gen, n, t))
  BY Setting
<1>2. CASE t <= RamEnd(d)
  <2>1. \/ t = Closer(d) + 1 \/ t = Closer(d) + 2 \/ t = Rom(d)
        \/ Rom(d) < t /\ t < RomEnd(d)
        \/ t = RomEnd(d) \/ t = Ram(d)
        \/ Ram(d) < t /\ t < RamEnd(d)
        \/ t = RamEnd(d)
    BY <1>1, <1>2 DEF Between
  <2> HIDE DEF L
  <2>2. L.kind \in {"ROMMAP", "RAMMAP", "ROM_OPEN", "SECTOR", "ROM_CLOSE", "RAM_OPEN",
                    "RAM_CLOSE", "SNAPCRC"}
    BY <1>1, <1>2, <2>1 DEF WrittenAs
  <2> QED
    BY <2>2 DEF L
<1>3. CASE ~ (t <= RamEnd(d))
  BY <1>3 DEF Line
<1> QED
  BY <1>2, <1>3

\* When the line that closes the prompt is lost, everything after it is read
\* as more of the prompt.
LEMMA SwallowedRead ==
  ASSUME NEW s, NEW u, NEW d, NEW gen, NEW n, NEW r, NEW rot, NEW t,
         Reads(s, u, d, gen, n, r, rot, t), Asks(d), t > Closer(d), r = Closer(d)
  PROVE  Reading(u, d, gen, n, r, rot, t)
<1> DEFINE L == Line(d, gen, n, t)
           c == Channel(d)
           fields == {c, "canonical"}
<1>1. Between(d, r, t) /\ DOMAIN s = Fields /\ u = ReadLine(s, L)
      /\ Mode(s, d, r, t - 1) /\ Requests(s, d, r, t - 1) /\ Section(s, d, r, t - 1)
      /\ Canonical(s, d, gen, n, r, rot, t - 1)
      /\ Damage(d, r, rot) /\ Sound(d)
  BY Setting
<1>2. /\ t \in Nat /\ r \in Nat /\ r < t /\ ~ (t < r) /\ ~ (t - 1 < r) /\ Opener(d) <= t - 1
      /\ r # Opener(d) /\ Opener(d) <= t /\ t - 1 <= RamEnd(d)
      /\ t \notin {Opener(d), Closer(d)}
  BY <1>1 DEF Between
<1>3. InPrompt(d, r, t - 1) /\ InPrompt(d, r, t)
  BY <1>2 DEF InPrompt
<1>4. c \in {"prompt", "aprompt"} /\ c \in Fields
  BY DEF Channel, Fields
<1>5. s.mode = c /\ s.section = "none"
  BY <1>1, <1>3 DEF Mode, Section
<1>6. L.kind \in {"ROMMAP", "RAMMAP", "ROM_OPEN", "SECTOR", "ROM_CLOSE", "RAM_OPEN",
                  "RAM_CLOSE", "SNAPCRC"}
  BY <1>2, LaterKinds
<1> HIDE DEF L
<1>7. Only(s, u, L, {c}) /\ u[c] = Append(s[c], L.kind)
  <2>1. IF L.kind = (IF s.mode = "prompt" THEN "PROMPT_CLOSE" ELSE "APROMPT_CLOSE")
        THEN Only(s, u, L, {"mode"}) /\ u.mode = "lines"
        ELSE Only(s, u, L, {s.mode}) /\ u[s.mode] = Append(s[s.mode], L.kind)
    BY <1>1, <1>4, <1>5, InPromptRead
  <2> QED
    BY <1>5, <1>6, <2>1
<1>8. DOMAIN u = Fields /\ (\A f \in Fields \ fields : u[f] = s[f])
      /\ u.canonical = Append(s.canonical, Text(L))
  BY <1>7 DEF Only
<1>9. Kept(u, fields, d, gen, n, r, rot, t)
  <2>1. Sound(d) /\ Damage(d, r, rot) /\ t \in 1 .. RamEnd(d) + 1
        /\ Reading(s, d, gen, n, r, rot, t - 1)
    BY DEF Reads
  <2> HIDE DEF fields
  <2> QED
    BY <1>8, <2>1, Untouched
<1>10. Requests(u, d, r, t)
  <2>1. u.pending = s.pending /\ u.apending = s.apending
    BY <1>4, <1>8 DEF Fields
  <2>2. s.prompt \in Seq(Kind \ Markers) /\ s.aprompt \in Seq(Kind \ Markers)
        /\ s[c] \in Seq(Kind \ Markers)
    BY <1>1, <1>4 DEF Requests
  <2>3. L.kind \in Kind \ Markers
    <3>1. L.kind \in Kind
      BY <1>6 DEF Kind
    <3>2. L.kind \notin Markers
      BY <1>6 DEF Markers
    <3> QED
      BY <3>1, <3>2
  <2>4. u[c] \in Seq(Kind \ Markers)
    BY <1>7, <2>2, <2>3, AppendProperties
  <2>5. u.prompt \in Seq(Kind \ Markers) /\ u.aprompt \in Seq(Kind \ Markers)
    BY <1>4, <1>8, <2>2, <2>4 DEF Fields
  <2>6. s.pending \in {None, d.pending} /\ s.apending \in {None, Parked(d)}
    BY <1>1 DEF Requests
  <2> QED
    BY <1>2, <2>1, <2>5, <2>6 DEF Requests
<1>11. Section(u, d, r, t)
  <2>1. u.section = "none"
    BY <1>4, <1>5, <1>8 DEF Fields
  <2> QED
    BY <1>2, <2>1 DEF Section
<1>12. Canonical(u, d, gen, n, r, rot, t)
  <2>1. u.crc = s.crc
    BY <1>4, <1>8 DEF Fields
  <2>2. s.crc = {} /\ IsSeq(s.canonical)
        /\ Len(s.canonical) = IF ~ rot /\ r <= t - 1 THEN t - 1 - 1 ELSE t - 1
    BY <1>1, <1>2 DEF Canonical
  <2>3. rot \in BOOLEAN /\ r <= t - 1 /\ r <= t
    BY <1>1, <1>2 DEF Damage
  <2> DEFINE x == Text(L)
             e == u.canonical
  <2>4. e = Append(s.canonical, x) /\ IsSeq(s.canonical)
    BY <1>8, <2>2
  <2> HIDE DEF x, e
  <2>5. IsSeq(e) /\ Len(e) = Len(s.canonical) + 1
    BY <2>4, Appended
  <2>6. Len(e) = IF ~ rot /\ r <= t THEN t - 1 ELSE t
    BY <1>2, <2>2, <2>3, <2>5
  <2> QED
    BY <1>2, <2>1, <2>2, <2>5, <2>6 DEF Canonical, e
<1>13. /\ Headers(u, d, gen, n, r, t) /\ Mode(u, d, r, t)
       /\ Maps(u, d, r, t) /\ Bad(u, r, rot, t)
       /\ Memory(u.rom, d.memory.rom, Rom(d), r, t) /\ Memory(u.ram, d.memory.ram, Ram(d), r, t)
  BY <1>1, <1>2, <1>4, <1>9 DEF Kept, Between
<1> QED
  BY <1>8, <1>10, <1>11, <1>12, <1>13 DEF Reading

\* After the request, when it is closed, no line is read as part of a prompt.
LEMMA Outside ==
  ASSUME NEW s, NEW u, NEW d, NEW gen, NEW n, NEW r, NEW rot, NEW t,
         Reads(s, u, d, gen, n, r, rot, t), t > Closer(d), ~ (Asks(d) /\ r = Closer(d))
  PROVE  ~ InPrompt(d, r, t - 1) /\ ~ InPrompt(d, r, t) /\ s.mode = "lines"
<1>1. Between(d, r, t) /\ Mode(s, d, r, t - 1)
  BY Setting
<1>2. ~ InPrompt(d, r, t - 1) /\ ~ InPrompt(d, r, t)
  BY <1>1 DEF InPrompt, Between
<1> QED
  BY <1>1, <1>2 DEF Mode

\* The allocation maps.
LEMMA MapsRead ==
  ASSUME NEW s, NEW u, NEW d, NEW gen, NEW n, NEW r, NEW rot, NEW t,
         Reads(s, u, d, gen, n, r, rot, t), ~ (Asks(d) /\ r = Closer(d)),
         t \in {Closer(d) + 1, Closer(d) + 2}
  PROVE  Reading(u, d, gen, n, r, rot, t)
<1> DEFINE L == Line(d, gen, n, t)
           fields == {"rommap", "rammap"}
           more == fields \cup {"canonical"}
<1>1. Between(d, r, t) /\ DOMAIN s = Fields /\ u = ReadLine(s, L)
      /\ Maps(s, d, r, t - 1) /\ Section(s, d, r, t - 1)
      /\ (t <= RamEnd(d) => WrittenAs(L, d, gen, n, t))
  BY Setting
<1>2. t <= RamEnd(d) /\ t > Closer(d) /\ t \in Nat /\ Closer(d) \in Nat /\ r \in Nat
      /\ ~ (t <= HeadEnd(d))
  BY <1>1 DEF Between
<1>l. L = Line(d, gen, n, t)
  OBVIOUS
<1> HIDE DEF L
<1>3. /\ t = Closer(d) + 1 => L.kind = "ROMMAP" /\ L.value = Written(d.memory.rom)
      /\ t = Closer(d) + 2 => L.kind = "RAMMAP" /\ L.value = Written(d.memory.ram)
  BY <1>1, <1>2 DEF WrittenAs
<1>4. s.mode = "lines" /\ s.section = "none"
  <2>1. ~ (Rom(d) <= t - 1) /\ ~ (Ram(d) <= t - 1)
    BY <1>1 DEF Between
  <2> QED
    BY <1>1, <1>2, <2>1, Outside DEF Section
<1>5. L.kind \notin Brackets /\ L.kind # "SNAPCRC"
  BY <1>3 DEF Brackets
<1>6. /\ L.kind = "ROMMAP" => Only(s, u, L, {"rommap"}) /\ u.rommap = L.value
      /\ L.kind = "RAMMAP" => Only(s, u, L, {"rammap"}) /\ u.rammap = L.value
  BY <1>1, <1>4, <1>5, HeaderRead
<1>7. Only(s, u, L, fields) /\ "crc" \notin fields
  BY <1>3, <1>6, OnlyMore
<1>8. Kept(u, more, d, gen, n, r, rot, t) /\ Canonical(u, d, gen, n, r, rot, t) /\ DOMAIN u = Fields
  <2> HIDE DEF fields
  <2> QED
    BY <1>2, <1>7, <1>l, Rest
<1>9. Maps(u, d, r, t)
  <2>1. t = Closer(d) + 1 => u.rommap = Written(d.memory.rom) /\ u.rammap = s.rammap
    BY <1>3, <1>6 DEF Only, Fields
  <2>2. t = Closer(d) + 2 => u.rammap = Written(d.memory.ram) /\ u.rommap = s.rommap
    BY <1>3, <1>6 DEF Only, Fields
  <2> QED
    BY <1>1, <1>2, <2>1, <2>2 DEF Maps
<1>10. /\ Headers(u, d, gen, n, r, t) /\ Mode(u, d, r, t) /\ Requests(u, d, r, t)
       /\ Section(u, d, r, t) /\ Bad(u, r, rot, t)
       /\ Memory(u.rom, d.memory.rom, Rom(d), r, t) /\ Memory(u.ram, d.memory.ram, Ram(d), r, t)
  BY <1>1, <1>2, <1>8 DEF Kept, Between
<1> QED
  BY <1>8, <1>9, <1>10 DEF Reading

\* The lines that open and close the memories.
LEMMA SectionsRead ==
  ASSUME NEW s, NEW u, NEW d, NEW gen, NEW n, NEW r, NEW rot, NEW t,
         Reads(s, u, d, gen, n, r, rot, t), ~ (Asks(d) /\ r = Closer(d)),
         t \in {Rom(d), RomEnd(d), Ram(d), RamEnd(d)}
  PROVE  Reading(u, d, gen, n, r, rot, t)
<1> DEFINE L == Line(d, gen, n, t)
           fields == {"section"}
           more == fields \cup {"canonical"}
<1>1. Between(d, r, t) /\ DOMAIN s = Fields /\ u = ReadLine(s, L)
      /\ Section(s, d, r, t - 1)
      /\ (t <= RamEnd(d) => WrittenAs(L, d, gen, n, t))
  BY Setting
<1>2. t <= RamEnd(d) /\ t > Closer(d) /\ t \in Nat /\ Closer(d) \in Nat /\ r \in Nat
      /\ ~ (t <= HeadEnd(d)) /\ t \notin {Closer(d) + 1, Closer(d) + 2}
  BY <1>1 DEF Between
<1>l. L = Line(d, gen, n, t)
  OBVIOUS
<1> HIDE DEF L
<1>3. /\ t = Rom(d) => L.kind = "ROM_OPEN"
      /\ t = RomEnd(d) => L.kind = "ROM_CLOSE"
      /\ t = Ram(d) => L.kind = "RAM_OPEN"
      /\ t = RamEnd(d) => L.kind = "RAM_CLOSE"
  BY <1>1, <1>2 DEF WrittenAs
<1>4. s.mode = "lines" /\ ~ InPrompt(d, r, t)
  BY <1>2, Outside
<1>5. L.kind \in Brackets
  BY <1>3 DEF Brackets
<1>6. /\ L.kind = "ROM_OPEN" => Only(s, u, L, {"section"}) /\ u.section = "rom"
      /\ L.kind = "RAM_OPEN" => Only(s, u, L, {"section"}) /\ u.section = "ram"
      /\ L.kind \in {"ROM_CLOSE", "RAM_CLOSE"} =>
           Only(s, u, L, {"section"}) /\ u.section = "none"
  BY <1>1, <1>4, <1>5, BracketRead
<1>7. Only(s, u, L, fields) /\ "crc" \notin fields
  BY <1>3, <1>6
<1>8. Kept(u, more, d, gen, n, r, rot, t) /\ Canonical(u, d, gen, n, r, rot, t) /\ DOMAIN u = Fields
  <2> HIDE DEF fields
  <2> QED
    BY <1>2, <1>7, <1>l, Rest
<1>9. Section(u, d, r, t)
  <2>1. /\ t = Rom(d) => u.section = "rom"
        /\ t = Ram(d) => u.section = "ram"
        /\ t \in {RomEnd(d), RamEnd(d)} => u.section = "none"
    BY <1>3, <1>6
  <2> QED
    BY <1>1, <1>2, <1>4, <2>1 DEF Section, Between
<1>10. /\ Headers(u, d, gen, n, r, t) /\ Mode(u, d, r, t) /\ Requests(u, d, r, t)
       /\ Maps(u, d, r, t) /\ Bad(u, r, rot, t)
       /\ Memory(u.rom, d.memory.rom, Rom(d), r, t) /\ Memory(u.ram, d.memory.ram, Ram(d), r, t)
  BY <1>1, <1>2, <1>8 DEF Kept, Between
<1> QED
  BY <1>8, <1>9, <1>10 DEF Reading

\* A sector goes to its address.
LEMMA SectorRestored ==
  ASSUME NEW mem \in [Sector -> Content], NEW from \in Nat, NEW r \in Nat, NEW t \in Nat,
         from < t, t < from + Sectors(mem) + 1, NEW x, Memory(x, mem, from, r, t - 1),
         NEW a, a = Address(mem, t - from), NEW y, y = [x EXCEPT ![a] = mem[a]]
  PROVE  Memory(y, mem, from, r, t)
<1> DEFINE k == Sectors(mem)
<1>1. k \in Nat
  BY SectorsWritten DEF Sectors
<1>2. \A i \in 1 .. k : Address(mem, i) \in Sector
  <2>1. Written(mem) \in SUBSET Sector
    BY DEF Written
  <2>2. \A i \in 1 .. Cardinality(Written(mem)) : Ascending(Written(mem))[i] \in Written(mem)
    BY <2>1, MapLists
  <2> QED
    BY <2>1, <2>2 DEF Address, Sectors
<1> HIDE DEF k
<1>3. t < from + k + 1
  BY DEF k
<1>4. t - from \in 1 .. k
  BY <1>1, <1>3
<1>5. a \in Sector
  BY <1>2, <1>4
<1>6. x \in [Sector -> Content] /\ \A b \in Sector : x[b] \in {0, mem[b]}
  BY DEF Memory
<1>7. y \in [Sector -> Content] /\ y[a] = mem[a] /\ \A b \in Sector : b # a => y[b] = x[b]
  BY <1>5, <1>6
<1>8. \A b \in Sector : y[b] \in {0, mem[b]}
  BY <1>6, <1>7
<1>9. ASSUME t < r, NEW i \in 1 .. k, from + i <= t PROVE y[Address(mem, i)] = mem[Address(mem, i)]
  <2>1. CASE Address(mem, i) = a
    BY <1>7, <2>1
  <2>2. CASE Address(mem, i) # a
    <3>1. i # t - from
      BY <2>2
    <3>2. from + i <= t - 1 /\ t - 1 < r
      BY <1>1, <1>9, <3>1
    <3>3. x[Address(mem, i)] = mem[Address(mem, i)]
      BY <1>9, <3>2 DEF Memory, k
    <3> QED
      BY <1>2, <1>7, <1>9, <2>2, <3>3
  <2> QED
    BY <2>1, <2>2
<1> QED
  BY <1>7, <1>8, <1>9 DEF Memory, k

\* The sectors.
LEMMA SectorsRead ==
  ASSUME NEW s, NEW u, NEW d, NEW gen, NEW n, NEW r, NEW rot, NEW t,
         Reads(s, u, d, gen, n, r, rot, t), ~ (Asks(d) /\ r = Closer(d)),
         InMemory(d, t)
  PROVE  Reading(u, d, gen, n, r, rot, t)
<1> DEFINE L == Line(d, gen, n, t)
           space == IF t < RomEnd(d) THEN "rom" ELSE "ram"
           mem == d.memory[space]
           from == IF t < RomEnd(d) THEN Rom(d) ELSE Ram(d)
           a == Address(mem, t - from)
<1>1. Between(d, r, t) /\ DOMAIN s = Fields /\ u = ReadLine(s, L)
      /\ Section(s, d, r, t - 1)
      /\ (t <= RamEnd(d) => WrittenAs(L, d, gen, n, t))
      /\ Sound(d)
  BY Setting
<1>2. t <= RamEnd(d) /\ t > Closer(d) /\ t \in Nat /\ Closer(d) \in Nat /\ r \in Nat
      /\ ~ (t <= HeadEnd(d)) /\ t \notin {Closer(d) + 1, Closer(d) + 2} /\ t # r
      /\ t \notin {Rom(d), RomEnd(d), Ram(d), RamEnd(d)}
      /\ from \in Nat /\ from < t
  BY <1>1 DEF Between, InMemory
<1>l. L = Line(d, gen, n, t)
  OBVIOUS
<1> HIDE DEF L
<1>3. L.kind = "SECTOR" /\ L.value.address = a /\ L.value.content = mem[a]
  <2>1. CASE t < RomEnd(d)
    <3>1. Rom(d) < t
      BY <1>1, <2>1 DEF Between, InMemory
    <3> QED
      BY <1>1, <1>2, <2>1, <3>1 DEF WrittenAs
  <2>2. CASE ~ (t < RomEnd(d))
    <3>1. Ram(d) < t /\ t < RamEnd(d)
      BY <1>1, <2>2 DEF Between, InMemory
    <3> QED
      BY <1>1, <1>2, <2>2, <3>1 DEF WrittenAs
  <2> QED
    BY <2>1, <2>2
<1>4. s.mode = "lines"
  BY <1>2, Outside
<1>5. L.kind \notin Brackets /\ L.kind # "SNAPCRC" /\ L.kind \notin HeaderKinds
  BY <1>3 DEF Brackets, HeaderKinds
<1>6. s.section \in {"none", space} /\ (s.section = "none" => r < t)
  BY <1>1, <1>2 DEF Section, Between
<1>7. space \in {"rom", "ram"} /\ mem \in [Sector -> Content] /\ t < from + Sectors(mem) + 1
  BY <1>1, <1>2, Layout, SMTT(30)
<1>8. ASSUME s.section = "none" PROVE Reading(u, d, gen, n, r, rot, t)
  <2> DEFINE fields == {}
             more == fields \cup {"canonical"}
  <2>1. Only(s, u, L, fields)
    BY <1>1, <1>4, <1>5, <1>8, HeaderRead
  <2>2. Kept(u, more, d, gen, n, r, rot, t) /\ Canonical(u, d, gen, n, r, rot, t) /\ DOMAIN u = Fields
    <3>1. "crc" \notin fields
      OBVIOUS
    <3> HIDE DEF fields
    <3> QED
      BY <1>2, <1>l, <2>1, <3>1, Rest
  <2>3. r < t
    BY <1>6, <1>8
  <2>4. t \notin {Opener(d), Closer(d)}
    BY <1>1, <1>2 DEF Between
  <2> HIDE DEF L
  <2>5. /\ Headers(u, d, gen, n, r, t) /\ Mode(u, d, r, t) /\ Requests(u, d, r, t)
        /\ Maps(u, d, r, t) /\ Section(u, d, r, t) /\ Bad(u, r, rot, t)
        /\ Memory(u.rom, d.memory.rom, Rom(d), r, t) /\ Memory(u.ram, d.memory.ram, Ram(d), r, t)
    BY <1>2, <2>2, <2>3, <2>4 DEF Kept
  <2> QED
    BY <2>2, <2>5 DEF Reading
<1>9. ASSUME s.section = space PROVE Reading(u, d, gen, n, r, rot, t)
  <2> DEFINE fields == {space}
             more == fields \cup {"canonical"}
  <2>1. Only(s, u, L, fields) /\ u[space] = [s[space] EXCEPT ![a] = mem[a]]
    <3>1. IF L.kind = "SECTOR"
          THEN /\ Only(s, u, L, {s.section})
               /\ u[s.section] = [s[s.section] EXCEPT ![L.value.address] = L.value.content]
          ELSE Only(s, u, L, {"bad"}) /\ u.bad # {}
      BY <1>1, <1>4, <1>5, <1>7, <1>9, SectionRead
    <3> HIDE DEF a, mem, space
    <3> QED
      BY <1>3, <1>9, <3>1
  <2>2. Kept(u, more, d, gen, n, r, rot, t) /\ Canonical(u, d, gen, n, r, rot, t) /\ DOMAIN u = Fields
    <3>1. "crc" \notin fields
      BY <1>7
    <3>2. Only(s, u, Line(d, gen, n, t), fields) /\ t <= RamEnd(d)
      BY <1>2, <1>l, <2>1
    <3> HIDE DEF fields
    <3> QED
      BY <3>1, <3>2, Rest
  <2>3. Memory(u[space], mem, from, r, t)
    <3>1. Memory(s[space], mem, from, r, t - 1)
      <4>1. /\ Memory(s.rom, d.memory.rom, Rom(d), r, t - 1)
            /\ Memory(s.ram, d.memory.ram, Ram(d), r, t - 1)
        BY Setting
      <4> QED
        BY <4>1
    <3> DEFINE x == s[space]
               y == u[space]
    <3>2. Memory(x, mem, from, r, t - 1) /\ y = [x EXCEPT ![a] = mem[a]] /\ a = Address(mem, t - from)
      BY <2>1, <3>1
    <3> HIDE DEF x, y, mem, from, a
    <3>3. Memory(y, mem, from, r, t)
      BY <1>2, <1>7, <3>2, SectorRestored
    <3> QED
      BY <3>3 DEF y
  <2>4. t \notin {Opener(d), Closer(d)}
    BY <1>1, <1>2 DEF Between
  <2>5. /\ Headers(u, d, gen, n, r, t) /\ Mode(u, d, r, t) /\ Requests(u, d, r, t)
        /\ Maps(u, d, r, t) /\ Section(u, d, r, t) /\ Bad(u, r, rot, t)
    <3>1. more \subseteq {"rom", "ram", "canonical"}
      BY <1>7
    <3> HIDE DEF more
    <3>2. /\ more \cap {"gen", "state", "regs", "used", "irq", "exec"} = {}
          /\ "mode" \notin more /\ "section" \notin more /\ "bad" \notin more
          /\ more \cap {"pending", "apending", "prompt", "aprompt"} = {}
          /\ more \cap {"rommap", "rammap"} = {}
      BY <3>1
    <3>3. /\ t > HeadEnd(d) /\ t > Closer(d) /\ t # r
          /\ t \notin {Closer(d) + 1, Closer(d) + 2}
          /\ t \notin {Rom(d), RomEnd(d), Ram(d), RamEnd(d)}
      BY <1>1, <1>2 DEF Between
    <3> QED
      BY <2>2, <2>4, <3>2, <3>3 DEF Kept
  <2>6. Memory(u.rom, d.memory.rom, Rom(d), r, t) /\ Memory(u.ram, d.memory.ram, Ram(d), r, t)
    <3>1. CASE t < RomEnd(d)
      <4>1. Memory(u.rom, d.memory.rom, Rom(d), r, t)
        BY <2>3, <3>1
      <4>2. t <= Ram(d) /\ "ram" \notin more
        BY <1>1, <1>2, <3>1 DEF Between
      <4> QED
        BY <2>2, <4>1, <4>2 DEF Kept
    <3>2. CASE ~ (t < RomEnd(d))
      <4>1. Memory(u.ram, d.memory.ram, Ram(d), r, t)
        BY <2>3, <3>2
      <4>2. t >= RomEnd(d) /\ "rom" \notin more
        BY <1>1, <1>2, <3>2 DEF Between
      <4> QED
        BY <2>2, <4>1, <4>2 DEF Kept
    <3> QED
      BY <3>1, <3>2
  <2> QED
    BY <2>2, <2>5, <2>6 DEF Reading
<1> QED
  BY <1>6, <1>8, <1>9

\* The checksum of the frame, which is not one of the lines it covers.
LEMMA LastRead ==
  ASSUME NEW s, NEW u, NEW d, NEW gen, NEW n, NEW r, NEW rot, NEW t,
         Reads(s, u, d, gen, n, r, rot, t), ~ (Asks(d) /\ r = Closer(d)), t = RamEnd(d) + 1
  PROVE  Reading(u, d, gen, n, r, rot, t)
<1> DEFINE L == Line(d, gen, n, t)
           fields == {"crc", "bad", "canonical"}
<1>1. Between(d, r, t) /\ DOMAIN s = Fields /\ u = ReadLine(s, L)
      /\ Section(s, d, r, t - 1) /\ Bad(s, r, rot, t - 1)
      /\ Canonical(s, d, gen, n, r, rot, t - 1)
      /\ Damage(d, r, rot) /\ Sound(d)
  BY Setting
<1>2. /\ t > Closer(d) /\ t \in Nat /\ r \in Nat /\ t # r /\ RamEnd(d) \in Nat
      /\ t - 1 = RamEnd(d) /\ ~ (t <= RamEnd(d)) /\ t > HeadEnd(d)
      /\ t \notin {Opener(d), Closer(d), Closer(d) + 1, Closer(d) + 2}
      /\ t \notin {Rom(d), RomEnd(d), Ram(d), RamEnd(d)}
      /\ t >= RomEnd(d) /\ t >= RamEnd(d) /\ t - 1 > RomEnd(d)
      /\ ~ (Rom(d) <= t /\ t < RomEnd(d)) /\ ~ (Ram(d) <= t /\ t < RamEnd(d))
      /\ ~ (r > RamEnd(d) /\ r < t) /\ rot \in BOOLEAN
      /\ (t - 1 < r <=> t < r) /\ (r <= t - 1 <=> ~ (t < r)) /\ (r <= t <=> ~ (t < r))
  BY <1>1 DEF Between, Damage
<1>3. L.kind = "SNAPCRC" /\ L.value = Vouched(d, gen, n)
  BY <1>2 DEF Line
<1> HIDE DEF L
<1>4. s.mode = "lines" /\ ~ InPrompt(d, r, t)
  BY <1>2, Outside
<1>5. s.section \in {"none", "ram"} /\ (t < r => s.section = "none")
  <2>1. t - 1 \in Nat /\ RomEnd(d) \in Nat /\ t - 1 > RomEnd(d) /\ t - 1 >= RamEnd(d)
    BY <1>1, <1>2 DEF Between
  <2>2. ~ (t - 1 <= RomEnd(d)) /\ (t < r => t - 1 < r)
    BY <1>2, <2>1
  <2> QED
    BY <1>1, <2>1, <2>2 DEF Section
<1>6. \/ /\ DOMAIN u = Fields /\ \A f \in Fields \ {"crc"} : u[f] = s[f]
         /\ u.crc = {Vouched(d, gen, n)}
      \/ ~ (t < r) /\ Only(s, u, L, {"bad"}) /\ u.bad # {}
  <2>1. CASE s.section = "none"
    BY <1>1, <1>3, <1>4, <2>1, ChecksumRead
  <2>2. CASE s.section = "ram"
    <3>1. L.kind \notin Brackets /\ L.kind # "SECTOR"
      BY <1>3 DEF Brackets
    <3> QED
      BY <1>1, <1>4, <1>5, <2>2, <3>1, SectionRead
  <2> QED
    BY <1>5, <2>1, <2>2
<1>7. DOMAIN u = Fields /\ \A f \in Fields \ fields : u[f] = s[f]
  BY <1>6 DEF Only
<1>8. Kept(u, fields, d, gen, n, r, rot, t)
  <2>1. Sound(d) /\ Damage(d, r, rot) /\ t \in 1 .. RamEnd(d) + 1
        /\ Reading(s, d, gen, n, r, rot, t - 1)
    BY DEF Reads
  <2> HIDE DEF fields
  <2> QED
    BY <1>7, <2>1, Untouched
<1>9. /\ Headers(u, d, gen, n, r, t) /\ Mode(u, d, r, t) /\ Requests(u, d, r, t)
      /\ Maps(u, d, r, t) /\ Section(u, d, r, t)
      /\ Memory(u.rom, d.memory.rom, Rom(d), r, t) /\ Memory(u.ram, d.memory.ram, Ram(d), r, t)
  BY <1>2, <1>8 DEF Kept
<1>10. Bad(u, r, rot, t)
  <2>1. u.bad = s.bad \/ (~ (t < r) /\ u.bad # {})
    BY <1>6 DEF Fields
  <2> QED
    BY <1>1, <1>2, <2>1 DEF Bad
<1>11. Canonical(u, d, gen, n, r, rot, t)
  <2> DEFINE c == s.canonical
             k == Checksum(d, gen, n)
  <2>1. /\ IsSeq(c) /\ s.crc = {} /\ Len(c) = IF ~ rot /\ ~ (t < r) THEN t - 2 ELSE t - 1
        /\ t < r => \A i \in 1 .. RamEnd(d) : c[i] = k[i]
    <3>1. /\ IsSeq(c) /\ s.crc = {} /\ Len(c) = IF ~ rot /\ r <= t - 1 THEN t - 1 - 1 ELSE t - 1
          /\ t - 1 < r => \A i \in 1 .. RamEnd(d) : i <= t - 1 => c[i] = k[i]
      BY <1>1, <1>2 DEF Canonical
    <3>2. \A i \in 1 .. RamEnd(d) : i <= t - 1
      BY <1>2
    <3>3. t - 1 - 1 = t - 2
      BY <1>2
    <3> QED
      BY <1>2, <3>1, <3>2, <3>3
  <2>2. CASE /\ \A f \in Fields \ {"crc"} : u[f] = s[f]
             /\ u.crc = {Vouched(d, gen, n)}
    <3>1. u.canonical = c
      BY <2>2 DEF Fields
    <3> QED
      BY <1>2, <2>1, <2>2, <3>1 DEF Canonical
  <2>3. CASE ~ (t < r) /\ Only(s, u, L, {"bad"})
    <3>1. u.crc = s.crc /\ u.canonical = Append(s.canonical, Text(L))
      BY <2>3 DEF Only, Fields
    <3> DEFINE x == Text(L)
               e == u.canonical
    <3>2. e = Append(c, x) /\ IsSeq(c)
      BY <2>1, <3>1
    <3> HIDE DEF x, c, e
    <3>3. IsSeq(e)
      BY <3>2, Appended
    <3> QED
      BY <1>2, <2>1, <2>3, <3>1, <3>3 DEF Canonical, e
  <2> QED
    BY <1>6, <2>2, <2>3
<1> QED
  BY <1>7, <1>9, <1>10, <1>11 DEF Reading

\* Every line that is not the damaged one.
LEMMA LineRead ==
  ASSUME NEW s, NEW u, NEW d, NEW gen, NEW n, NEW r, NEW rot, NEW t,
         Reads(s, u, d, gen, n, r, rot, t)
  PROVE  Reading(u, d, gen, n, r, rot, t)
<1>1. Between(d, r, t)
  BY Setting
<1>2. \/ t <= HeadEnd(d)
      \/ Asks(d) /\ t = HeadEnd(d) + 1
      \/ Asks(d) /\ t = Opener(d)
      \/ Asks(d) /\ Opener(d) < t /\ t < Closer(d)
      \/ Asks(d) /\ t = Closer(d)
      \/ Asks(d) /\ t > Closer(d) /\ r = Closer(d)
      \/ /\ ~ (Asks(d) /\ r = Closer(d))
         /\ \/ t \in {Closer(d) + 1, Closer(d) + 2}
            \/ t \in {Rom(d), RomEnd(d), Ram(d), RamEnd(d)}
            \/ InMemory(d, t)
            \/ t = RamEnd(d) + 1
  BY <1>1 DEF Between, InMemory
<1>3. CASE t <= HeadEnd(d)
  BY <1>3, HeadersRead
<1>4. CASE Asks(d) /\ t = HeadEnd(d) + 1
  BY <1>4, RequestRead
<1>5. CASE Asks(d) /\ t = Opener(d)
  BY <1>5, OpenerRead
<1>6. CASE Asks(d) /\ Opener(d) < t /\ t < Closer(d)
  BY <1>6, PromptRead
<1>7. CASE Asks(d) /\ t = Closer(d)
  BY <1>7, CloserRead
<1>8. CASE Asks(d) /\ t > Closer(d) /\ r = Closer(d)
  BY <1>8, SwallowedRead
<1>9. CASE ~ (Asks(d) /\ r = Closer(d)) /\ t \in {Closer(d) + 1, Closer(d) + 2}
  BY <1>9, MapsRead
<1>10. CASE ~ (Asks(d) /\ r = Closer(d)) /\ t \in {Rom(d), RomEnd(d), Ram(d), RamEnd(d)}
  BY <1>10, SectionsRead
<1>11. CASE /\ ~ (Asks(d) /\ r = Closer(d))
            /\ InMemory(d, t)
  BY <1>11, SectorsRead
<1>12. CASE ~ (Asks(d) /\ r = Closer(d)) /\ t = RamEnd(d) + 1
  BY <1>12, LastRead
<1> QED
  BY <1>2, <1>3, <1>4, <1>5, <1>6, <1>7, <1>8, <1>9, <1>10, <1>11, <1>12

\* Before the first line.
LEMMA NothingRead ==
  ASSUME NEW d, Sound(d), NEW gen, NEW n, NEW r, NEW rot, Damage(d, r, rot)
  PROVE  Reading(ParsedSnapshot, d, gen, n, r, rot, 0)
<1> DEFINE s == ParsedSnapshot
<1>0. /\ HeadEnd(d) \in {5, 6} /\ Opener(d) = HeadEnd(d) + 2
      /\ Closer(d) \in Nat /\ Rom(d) \in Nat /\ RomEnd(d) \in Nat
      /\ Ram(d) \in Nat /\ RamEnd(d) \in Nat
      /\ Closer(d) >= HeadEnd(d)
      /\ ~ Asks(d) => Closer(d) = HeadEnd(d)
      /\ Asks(d) => Closer(d) > Opener(d)
      /\ Rom(d) = Closer(d) + 3 /\ RomEnd(d) > Rom(d)
      /\ Ram(d) = RomEnd(d) + 1 /\ RamEnd(d) > Ram(d)
      /\ d.memory.rom \in [Sector -> Content] /\ d.memory.ram \in [Sector -> Content]
      /\ Sectors(d.memory.rom) \in Nat /\ Sectors(d.memory.ram) \in Nat
  BY Order, Layout
<1>1. r \in Nat /\ r >= 1
  BY <1>0 DEF Damage
<1>2. DOMAIN s = Fields
  BY DEF ParsedSnapshot, Fields
<1>3. Headers(s, d, gen, n, r, 0)
  <2>1. /\ s.gen = 0 /\ s.state = "READY" /\ s.regs = 0 /\ s.used = 0 /\ s.irq = 0
        /\ s.exec = FALSE
    BY DEF ParsedSnapshot
  <2>2. ~ (0 >= 1) /\ ~ (0 >= 2) /\ ~ (0 >= 3) /\ ~ (0 >= 4) /\ ~ (0 >= 5) /\ ~ (0 >= HeadEnd(d))
    BY <1>0
  <2> HIDE DEF s
  <2> QED
    BY <2>1, <2>2 DEF Headers
<1>4. Mode(s, d, r, 0) /\ Section(s, d, r, 0)
  <2>1. s.mode = "lines" /\ s.section = "none"
    BY DEF ParsedSnapshot
  <2> HIDE DEF s
  <2>2. ~ InPrompt(d, r, 0)
    BY <1>0 DEF InPrompt
  <2> QED
    BY <1>0, <2>1, <2>2 DEF Mode, Section
<1>5. Requests(s, d, r, 0)
  <2>1. s.pending = None /\ s.apending = None /\ s.prompt = <<>> /\ s.aprompt = <<>>
    BY DEF ParsedSnapshot
  <2>2. <<>> \in Seq(Kind \ Markers)
    OBVIOUS
  <2> HIDE DEF s
  <2>3. ~ (0 > HeadEnd(d)) /\ ~ (0 >= Opener(d))
    BY <1>0
  <2> QED
    BY <2>1, <2>2, <2>3 DEF Requests
<1>6. Maps(s, d, r, 0)
  <2>1. s.rommap = None /\ s.rammap = None
    BY DEF ParsedSnapshot
  <2> HIDE DEF s
  <2> QED
    BY <1>0, <2>1 DEF Maps
<1>7. Memory(s.rom, d.memory.rom, Rom(d), r, 0) /\ Memory(s.ram, d.memory.ram, Ram(d), r, 0)
  <2>1. s.rom = Blank /\ s.ram = Blank
    BY DEF ParsedSnapshot
  <2> HIDE DEF s
  <2>2. Blank \in [Sector -> Content] /\ \A a \in Sector : Blank[a] = 0
    BY DEF Blank, Content
  <2> HIDE DEF s
  <2>3. ASSUME NEW i \in Nat, i >= 1 PROVE ~ (Rom(d) + i <= 0) /\ ~ (Ram(d) + i <= 0)
    BY <1>0, <2>3
  <2> QED
    BY <1>0, <2>1, <2>2, <2>3 DEF Memory
<1>8. Bad(s, r, rot, 0)
  <2>1. s.bad = {}
    BY DEF ParsedSnapshot
  <2> HIDE DEF s
  <2> QED
    BY <1>1, <2>1 DEF Bad
<1>9. Canonical(s, d, gen, n, r, rot, 0)
  <2>1. s.canonical = <<>> /\ s.crc = {}
    BY DEF ParsedSnapshot
  <2>2. IsSeq(<<>>) /\ Len(<<>>) = 0
    BY Empty
  <2> HIDE DEF s
  <2>3. 0 <= RamEnd(d) /\ ~ (0 > RamEnd(d)) /\ ~ (r <= 0) /\ \A k \in 1 .. RamEnd(d) : ~ (k <= 0)
    BY <1>0, <1>1
  <2> QED
    BY <2>1, <2>2, <2>3 DEF Canonical
<1> HIDE DEF s
<1>10. Reading(s, d, gen, n, r, rot, 0)
  BY <1>2, <1>3, <1>4, <1>5, <1>6, <1>7, <1>8, <1>9 DEF Reading
<1> QED
  BY <1>10 DEF s

-----------------------------------------------------------------------------
(***************************************************************************)
(* What is restored from a whole frame.                                    *)
(***************************************************************************)
\* What the conversation kept of the lines between BEGIN and END.
IsBody(body, d, gen, n, r, rot) ==
  /\ Len(body) = IF rot \/ r = RamEnd(d) + 2 THEN RamEnd(d) + 1 ELSE RamEnd(d)
  /\ \A i \in 1 .. Len(body) :
       body[i] = IF ~ rot /\ r <= i THEN Line(d, gen, n, i + 1)
                 ELSE IF rot /\ r = i THEN Rotted(Line(d, gen, n, i))
                 ELSE Line(d, gen, n, i)

\* The whole body is read.
LEMMA BodyRead ==
  ASSUME NEW d, Sound(d), NEW gen, NEW n, NEW r, NEW rot, Damage(d, r, rot),
         NEW body, IsBody(body, d, gen, n, r, rot)
  PROVE  /\ Len(body) \in Nat
         /\ Reading(Parsed(body)[Len(body)], d, gen, n, r, rot, RamEnd(d) + 1)
<1> DEFINE P == Parsed(body)
           e == RamEnd(d)
           pos(t) == IF ~ rot /\ r <= t THEN t - 1 ELSE t
           S == {t \in 0 .. e + 1 : Reading(P[pos(t)], d, gen, n, r, rot, t)}
<1>1. e \in Nat /\ r \in Nat /\ r >= 1 /\ r <= e + 2 /\ rot \in BOOLEAN /\ (rot => r <= e)
  BY Order DEF Damage, InMemory
<1>2. Len(body) = IF rot \/ r = e + 2 THEN e + 1 ELSE e
  BY DEF IsBody
<1> HIDE DEF e
<1>3. Len(body) \in Nat
  BY <1>1, <1>2
<1>4. P[0] = ParsedSnapshot /\ \A i \in 1 .. Len(body) : P[i] = ReadLine(P[i - 1], body[i])
  BY <1>3, ParsedReads
<1> HIDE DEF P
<1>5. 0 \in S
  <2>1. pos(0) = 0 /\ 0 \in 0 .. e + 1
    BY <1>1
  <2>2. Reading(P[0], d, gen, n, r, rot, 0)
    BY <1>4, NothingRead
  <2> QED
    BY <2>1, <2>2
<1>6. ASSUME NEW k \in 0 .. e, k \in S PROVE k + 1 \in S
  <2> DEFINE t == k + 1
             s == P[pos(k)]
             u == P[pos(t)]
  <2>1. t \in 1 .. e + 1 /\ t - 1 = k /\ t \in 0 .. e + 1 /\ t \in Nat /\ k \in Nat
    BY <1>1
  <2>2. Reading(s, d, gen, n, r, rot, t - 1)
    BY <1>6, <2>1
  <2>3. t \in 1 .. RamEnd(d) + 1
    BY <2>1 DEF e
  <2> HIDE DEF t
  <2>4. CASE t = r /\ ~ rot
    <3>1. pos(t) = pos(k)
      BY <1>1, <2>1, <2>4
    <3>2. u = s
      BY <3>1
    <3> HIDE DEF s
    <3>3. Reading(s, d, gen, n, r, rot, t)
      BY <2>2, <2>3, <2>4, LostLine
    <3> QED
      BY <2>1, <3>2, <3>3 DEF t
  <2>5. CASE t = r /\ rot
    <3>1. pos(t) = t /\ pos(k) = t - 1 /\ t \in 1 .. Len(body)
      BY <1>1, <1>2, <2>1, <2>5
    <3>2. u = ReadLine(s, body[t])
      BY <1>4, <3>1
    <3>3. body[t] = Rotted(Line(d, gen, n, t))
      BY <2>5, <3>1 DEF IsBody
    <3>4. u = ReadLine(s, Rotted(Line(d, gen, n, t)))
      BY <3>2, <3>3
    <3> HIDE DEF s, u
    <3>5. Reading(u, d, gen, n, r, rot, t)
      BY <2>2, <2>3, <2>5, <3>4, MangledLine
    <3> QED
      BY <2>1, <3>5 DEF t, u
  <2>6. CASE t # r
    <3>1. pos(t) \in 1 .. Len(body) /\ pos(k) = pos(t) - 1
      BY <1>1, <1>2, <2>1, <2>6
    <3>2. u = ReadLine(s, body[pos(t)])
      BY <1>4, <3>1
    <3>3. body[pos(t)] = Line(d, gen, n, t)
      <4>1. CASE ~ rot /\ r <= t
        <5>1. pos(t) = t - 1 /\ r <= t - 1 /\ t - 1 + 1 = t
          BY <1>1, <2>1, <2>6, <4>1
        <5> QED
          BY <3>1, <4>1, <5>1 DEF IsBody
      <4>2. CASE ~ (~ rot /\ r <= t)
        <5>1. pos(t) = t
          BY <4>2
        <5> QED
          BY <2>6, <3>1, <4>2, <5>1 DEF IsBody
      <4> QED
        BY <4>1, <4>2
    <3>4. u = ReadLine(s, Line(d, gen, n, t))
      BY <3>2, <3>3
    <3> HIDE DEF s, u
    <3>5. Reads(s, u, d, gen, n, r, rot, t)
      BY <2>2, <2>3, <2>6, <3>4 DEF Reads
    <3>6. Reading(u, d, gen, n, r, rot, t)
      BY <3>5, LineRead
    <3> QED
      BY <2>1, <3>6 DEF t, u
  <2> QED
    BY <1>1, <2>4, <2>5, <2>6
<1>7. \A k \in 0 .. e + 1 : k \in S
  <2> HIDE DEF S
  <2>1. e + 1 \in Nat /\ 0 .. (e + 1) - 1 = 0 .. e
    BY <1>1
  <2>2. \A k \in 0 .. (e + 1) - 1 : k \in S => k + 1 \in S
    BY <1>6, <2>1
  <2> DEFINE m == e + 1
  <2>3. m \in Nat /\ \A k \in 0 .. m - 1 : k \in S => k + 1 \in S
    BY <2>1, <2>2
  <2> HIDE DEF m
  <2>4. \A k \in 0 .. m : k \in S
    BY <1>5, <2>3, Induction
  <2> QED
    BY <2>4 DEF m
<1>8. pos(e + 1) = Len(body) /\ e + 1 \in 0 .. e + 1
  BY <1>1, <1>2
<1>9. Reading(P[pos(e + 1)], d, gen, n, r, rot, e + 1)
  BY <1>7, <1>8
<1> QED
  BY <1>3, <1>8, <1>9 DEF P, e

\* A frame that was read: what the properties need to know of it.
Parse(s, d, gen, n, r, rot) ==
  /\ Sound(d) /\ Damage(d, r, rot)
  /\ DOMAIN s = Fields
  /\ Headers(s, d, gen, n, r, RamEnd(d) + 1)
  /\ Requests(s, d, r, RamEnd(d) + 1)
  /\ Maps(s, d, r, RamEnd(d) + 1)
  /\ Memory(s.rom, d.memory.rom, Rom(d), r, RamEnd(d) + 1)
  /\ Memory(s.ram, d.memory.ram, Ram(d), r, RamEnd(d) + 1)
  /\ Bad(s, r, rot, RamEnd(d) + 1)
  /\ Canonical(s, d, gen, n, r, rot, RamEnd(d) + 1)

\* What the parser makes of a whole body, or of one that lost line r or in
\* which line r is mangled.
LEMMA BodyParsed ==
  ASSUME NEW d, Sound(d), NEW gen, NEW n, NEW r, NEW rot, Damage(d, r, rot),
         NEW body, IsBody(body, d, gen, n, r, rot), NEW s, DOMAIN s = Fields,
         \A f \in Fields \ {"terminated"} : s[f] = Parsed(body)[Len(body)][f]
  PROVE  Parse(s, d, gen, n, r, rot)
<1> DEFINE p == Parsed(body)[Len(body)]
           t == RamEnd(d) + 1
<1>1. Reading(p, d, gen, n, r, rot, t)
  BY BodyRead
<1>4. DOMAIN s = Fields /\ \A f \in Fields \ {"terminated"} : s[f] = p[f]
  OBVIOUS
<1> HIDE DEF p, t
<1>5. /\ s.gen = p.gen /\ s.state = p.state /\ s.regs = p.regs /\ s.used = p.used
      /\ s.irq = p.irq /\ s.exec = p.exec /\ s.pending = p.pending /\ s.apending = p.apending
      /\ s.prompt = p.prompt /\ s.aprompt = p.aprompt /\ s.rommap = p.rommap
      /\ s.rammap = p.rammap /\ s.rom = p.rom /\ s.ram = p.ram /\ s.bad = p.bad
      /\ s.canonical = p.canonical /\ s.crc = p.crc
  BY <1>4 DEF Fields
<1>6. s[Channel(d)] = p[Channel(d)]
  BY <1>5 DEF Channel
<1>7. Headers(s, d, gen, n, r, t)
  BY <1>1, <1>5 DEF Reading, Headers
<1>8. Requests(s, d, r, t)
  BY <1>1, <1>5, <1>6 DEF Reading, Requests
<1>9. Maps(s, d, r, t)
  BY <1>1, <1>5 DEF Reading, Maps
<1>10. Memory(s.rom, d.memory.rom, Rom(d), r, t) /\ Memory(s.ram, d.memory.ram, Ram(d), r, t)
  BY <1>1, <1>5 DEF Reading
<1>11. Bad(s, r, rot, t)
  BY <1>1, <1>5 DEF Reading, Bad
<1>12. Canonical(s, d, gen, n, r, rot, t)
  BY <1>1, <1>5 DEF Reading, Canonical
<1> QED
  BY <1>4, <1>7, <1>8, <1>9, <1>10, <1>11, <1>12 DEF Parse, t

\* Whatever is left of a frame, what it restores is a machine with one
\* request at most.
LEMMA RestoreSound ==
  ASSUME NEW s, NEW d, NEW gen, NEW n, NEW r, NEW rot, Parse(s, d, gen, n, r, rot)
  PROVE  Sound(Restore(s))
<1> DEFINE e == Restore(s)
           q == Asked(s.pending, s.prompt)
           aq == Asked(s.apending, s.aprompt)
           suspended == s.state = "TRAPPED" /\ s.pending # None
<1>1. /\ d.state \in {"READY", "RUNNING", "TRAPPED", "HALTED", "FAULT"}
      /\ d.pending \in Asking \cup {None} /\ d.async_pending \in Asking \cup {None}
      /\ d.irq \in {0, 1} /\ d.used \in {0, 1} /\ d.memory.exec \in BOOLEAN
      /\ OneSlot(d)
  BY DEF Parse, Sound, Machine
<1>2. /\ s.state \in {"READY", d.state}
      /\ s.used \in {0, d.used} /\ s.irq \in {0, d.irq} /\ s.exec \in {FALSE, d.memory.exec}
  BY DEF Parse, Headers
<1>3. /\ s.pending \in {None, d.pending} /\ s.apending \in {None, Parked(d)}
      /\ s.prompt \in Seq(Kind \ Markers) /\ s.aprompt \in Seq(Kind \ Markers)
  BY DEF Parse, Requests
<1>4. s.rom \in [Sector -> Content] /\ s.ram \in [Sector -> Content]
  BY DEF Parse, Memory
<1>5. None \notin Asking
  <2>1. Seq(Kind \ Markers) \subseteq Seq(Kind)
    BY SeqMonotonic
  <2>2. Asking \subseteq [channel : {"SYNC", "ASYNC"},
                          prompt : [lines : Seq(Kind), ends : Ends]]
    BY <2>1 DEF Asking
  <2> QED
    BY <2>2, NoneAssumption
<1>6. s.pending # None => /\ s.pending = d.pending /\ s.apending = None
                          /\ q \in Asking /\ q # None /\ q.channel = d.pending.channel
  <2> SUFFICES ASSUME s.pending # None
               PROVE  /\ s.pending = d.pending /\ s.apending = None
                      /\ q \in Asking /\ q # None /\ q.channel = d.pending.channel
    OBVIOUS
  <2>1. s.pending = d.pending /\ d.pending \in Asking /\ Parked(d) = None
    BY <1>1, <1>3 DEF Parked
  <2>2. q \in Asking /\ q.channel = d.pending.channel
    BY <1>3, <2>1 DEF Asked, Asking, Ends
  <2> QED
    BY <1>3, <1>5, <2>1, <2>2
<1>7. s.apending # None => /\ d.pending = None /\ s.pending = None
                           /\ d.async_pending # None
                           /\ aq \in Asking /\ aq # None /\ aq.channel = "ASYNC"
  <2> SUFFICES ASSUME s.apending # None
               PROVE  /\ d.pending = None /\ s.pending = None
                      /\ d.async_pending # None
                      /\ aq \in Asking /\ aq # None /\ aq.channel = "ASYNC"
    OBVIOUS
  <2>1. s.apending = d.async_pending /\ d.pending = None /\ d.async_pending \in Asking
        /\ d.async_pending # None
    BY <1>1, <1>3 DEF Parked
  <2>2. d.async_pending.channel = "ASYNC"
    BY <1>1, <2>1 DEF OneSlot
  <2>3. aq \in Asking /\ aq.channel = "ASYNC"
    BY <1>3, <2>1, <2>2 DEF Asked, Asking, Ends
  <2> QED
    BY <1>3, <1>5, <2>1, <2>3
<1>8. s.irq = 1 => s.pending = None /\ s.apending = None
  <2>1. d.irq = 1 => d.pending = None /\ d.async_pending = None
    BY <1>1 DEF OneSlot
  <2>2. d.irq = 1 => Parked(d) = None
    BY <2>1 DEF Parked
  <2> QED
    BY <1>2, <1>3, <2>1, <2>2
<1>9. /\ e.state = IF s.state = "TRAPPED" /\ ~ suspended THEN "FAULT" ELSE s.state
      /\ e.pending = IF suspended THEN q ELSE None
      /\ e.async_pending = InFlight(s, e.pending)
      /\ e = [state |-> e.state, pending |-> e.pending, async_pending |-> e.async_pending,
              irq |-> s.irq, used |-> s.used,
              memory |-> [rom |-> s.rom, ram |-> s.ram, exec |-> s.exec]]
  BY DEF Restore
<1> HIDE DEF e, q, aq
<1>10. e.async_pending = IF s.apending # None THEN aq
                         ELSE IF e.pending # None /\ e.pending.channel = "ASYNC" THEN e.pending
                         ELSE None
  BY <1>9 DEF InFlight, aq
<1>11. e.pending \in Asking \cup {None} /\ e.async_pending \in Asking \cup {None}
  BY <1>6, <1>7, <1>9, <1>10
<1>12. e.state \in {"READY", "RUNNING", "TRAPPED", "HALTED", "FAULT"}
  BY <1>1, <1>2, <1>9
<1>13. s.irq \in {0, 1} /\ s.used \in {0, 1} /\ s.exec \in BOOLEAN
  BY <1>1, <1>2
<1>14. e \in Machine
  <2> DEFINE m == [rom |-> s.rom, ram |-> s.ram, exec |-> s.exec]
  <2>1. m \in [rom : [Sector -> Content], ram : [Sector -> Content], exec : BOOLEAN]
    BY <1>4, <1>13
  <2> HIDE DEF m
  <2>2. e = [state |-> e.state, pending |-> e.pending, async_pending |-> e.async_pending,
             irq |-> s.irq, used |-> s.used, memory |-> m]
    BY <1>9 DEF m
  <2> QED
    BY <1>11, <1>12, <1>13, <2>1, <2>2 DEF Machine
<1>15. e.irq = s.irq
  BY <1>9
<1>16. e.state = "TRAPPED" <=> e.pending # None
  BY <1>6, <1>9
<1>17. e.async_pending # None =>
         e.async_pending.channel = "ASYNC" /\ e.pending \in {None, e.async_pending}
  BY <1>6, <1>7, <1>9, <1>10
<1>18. e.pending # None /\ e.pending.channel = "ASYNC" => e.async_pending # None
  BY <1>6, <1>9, <1>10
<1>19. e.irq = 1 => e.pending = None /\ e.async_pending = None
  BY <1>8, <1>9, <1>10, <1>15
<1>20. OneSlot(e)
  BY <1>16, <1>17, <1>18, <1>19 DEF OneSlot
<1> QED
  BY <1>14, <1>20 DEF Sound, e

\* A memory all of whose sectors were read is what was written.
LEMMA MemoryWhole ==
  ASSUME NEW mem \in [Sector -> Content], NEW from \in Nat, NEW r \in Nat, NEW t \in Nat,
         t < r, from + Sectors(mem) <= t, NEW x, Memory(x, mem, from, r, t)
  PROVE  x = mem
<1>1. x \in [Sector -> Content] /\ \A a \in Sector : x[a] \in {0, mem[a]}
  BY DEF Memory
<1>2. Sectors(mem) \in Nat
  BY SectorsWritten DEF Sectors
<1>3. \A i \in 1 .. Sectors(mem) : x[Address(mem, i)] = mem[Address(mem, i)]
  BY <1>2 DEF Memory
<1>4. ASSUME NEW a \in Sector, mem[a] # 0 PROVE x[a] = mem[a]
  <2>1. Written(mem) \in SUBSET Sector /\ a \in Written(mem)
    BY <1>4 DEF Written
  <2>2. PICK i \in 1 .. Sectors(mem) : Address(mem, i) = a
    <3> DEFINE W == Written(mem)
    <3>1. \E i \in 1 .. Cardinality(W) : Ascending(W)[i] = a
      <4>1. W \in SUBSET Sector /\ a \in W
        BY <2>1
      <4> HIDE DEF W
      <4> QED
        BY <4>1, MapLists
    <3> QED
      BY <3>1 DEF Sectors, Address
  <2> QED
    BY <1>3, <2>2
<1> QED
  BY <1>1, <1>4

\* Two requests over the same channel with the same lines of a prompt.
LEMMA SameRequest ==
  ASSUME NEW q \in Asking, NEW p \in Seq(Kind \ Markers), Len(p) = Len(q.prompt.lines),
         \A k \in 1 .. Len(p) : p[k] = q.prompt.lines[k]
  PROVE  Asked(q, p) = Asked(q, q.prompt.lines)
<1> DEFINE o == q.prompt.lines
<1>1. o \in Seq(Kind \ Markers)
  BY DEF Asking
<1>2. p = o
  <2> HIDE DEF o
  <2>1. IsSeq(p) /\ IsSeq(o)
    BY <1>1, SeqIsSeq
  <2>2. Len(p) = Len(o) /\ \A k \in 1 .. Len(p) : p[k] = o[k]
    BY DEF o
  <2> QED
    BY <2>1, <2>2, SameSeq
<1> QED
  BY <1>2

\* What a machine's requests become once their lines are joined again.
Joined(r) == IF r = None THEN None ELSE Asked(r, r.prompt.lines)

LEMMA RejoinedReads ==
  ASSUME NEW d, Sound(d)
  PROVE  Rejoined(d) = [state |-> d.state, pending |-> Joined(d.pending),
                        async_pending |-> Joined(d.async_pending),
                        irq |-> d.irq, used |-> d.used, memory |-> d.memory]
<1>1. d = [state |-> d.state, pending |-> d.pending, async_pending |-> d.async_pending,
           irq |-> d.irq, used |-> d.used, memory |-> d.memory]
  BY DEF Sound, Machine
<1> DEFINE p == Joined(d.pending)
           a == Joined(d.async_pending)
<1>2. Rejoined(d) = [d EXCEPT !.pending = p, !.async_pending = a]
  BY DEF Rejoined, Joined
<1> HIDE DEF p, a
<1>3. [d EXCEPT !.pending = p, !.async_pending = a]
      = [state |-> d.state, pending |-> p, async_pending |-> a,
         irq |-> d.irq, used |-> d.used, memory |-> d.memory]
  <2> DEFINE b == [d EXCEPT !.pending = p]
  <2>1. b = [state |-> d.state, pending |-> p, async_pending |-> d.async_pending,
             irq |-> d.irq, used |-> d.used, memory |-> d.memory]
    BY <1>1
  <2> HIDE DEF b
  <2>2. [b EXCEPT !.async_pending = a]
        = [state |-> d.state, pending |-> p, async_pending |-> a,
           irq |-> d.irq, used |-> d.used, memory |-> d.memory]
    BY <2>1
  <2>3. [d EXCEPT !.pending = p, !.async_pending = a] = [b EXCEPT !.async_pending = a]
    BY DEF b
  <2> QED
    BY <2>2, <2>3
<1> QED
  BY <1>2, <1>3 DEF p, a

\* The requests that have a reading are none but None.
LEMMA AskingIsSome == None \notin Asking
<1>1. Seq(Kind \ Markers) \subseteq Seq(Kind)
  BY SeqMonotonic
<1>2. Asking \subseteq [channel : {"SYNC", "ASYNC"}, prompt : [lines : Seq(Kind), ends : Ends]]
  BY <1>1 DEF Asking
<1> QED
  BY <1>2, NoneAssumption

\* Joining a request's lines again changes it unless newlines ended them.
LEMMA JoinedSame ==
  ASSUME NEW r \in Asking
  PROVE  /\ Joined(r) = Asked(r, r.prompt.lines) /\ Joined(r).prompt.lines = r.prompt.lines
         /\ Joined(r) \in Asking
         /\ Joined(r) = r <=> r.prompt.ends = "newline"
<1>1. r # None
  BY AskingIsSome
<1>2. Joined(r) = Asked(r, r.prompt.lines)
  BY <1>1 DEF Joined
<1>3. r = [channel |-> r.channel, prompt |-> r.prompt]
      /\ r.prompt = [lines |-> r.prompt.lines, ends |-> r.prompt.ends]
      /\ r.channel \in {"SYNC", "ASYNC"} /\ r.prompt.lines \in Seq(Kind \ Markers)
  BY DEF Asking
<1>4. Asked(r, r.prompt.lines)
      = [channel |-> r.channel, prompt |-> [lines |-> r.prompt.lines, ends |-> "newline"]]
  BY DEF Asked
<1>5. Asked(r, r.prompt.lines) \in Asking
  BY <1>3, <1>4 DEF Asking, Ends
<1>6. Asked(r, r.prompt.lines).prompt.lines = r.prompt.lines
  BY <1>4
<1>7. Asked(r, r.prompt.lines).prompt.ends = "newline"
  BY <1>4
<1>8. r.prompt.ends = "newline" => Asked(r, r.prompt.lines) = r
  BY <1>3, <1>4
<1> QED
  BY <1>2, <1>5, <1>6, <1>7, <1>8

\* What ends the lines of a frame tells whether a restore can be exact.
LEMMA EndsTell ==
  ASSUME NEW d, Sound(d)
  PROVE  /\ LineEnds(d) = {"newline"} <=> Rejoined(d) = d
         /\ Plain(d) => Plain(Rejoined(d))
<1> DEFINE p == d.pending
           a == d.async_pending
           e == Rejoined(d)
<1>1. p \in Asking \cup {None} /\ a \in Asking \cup {None}
      /\ d = [state |-> d.state, pending |-> p, async_pending |-> a,
              irq |-> d.irq, used |-> d.used, memory |-> d.memory]
  BY DEF Sound, Machine
<1>2. e = [state |-> d.state, pending |-> Joined(p), async_pending |-> Joined(a),
           irq |-> d.irq, used |-> d.used, memory |-> d.memory]
  BY RejoinedReads
<1>3. LineEnds(d) = {"newline"} \cup {r.prompt.ends : r \in {p, a} \ {None}}
  BY DEF LineEnds
<1>4. e.pending = Joined(p) /\ e.async_pending = Joined(a)
  BY <1>2
<1> HIDE DEF p, a, e
<1>5. \A r \in Asking : Joined(r) = r <=> r.prompt.ends = "newline"
  BY JoinedSame
<1>6. Joined(None) = None
  BY DEF Joined
<1>7. e = d <=> Joined(p) = p /\ Joined(a) = a
  <2>1. d.pending = p /\ d.async_pending = a
    BY DEF p, a
  <2>2. e = d => Joined(p) = p /\ Joined(a) = a
    BY <1>4, <2>1
  <2>3. Joined(p) = p /\ Joined(a) = a => e = d
    BY <1>1, <1>2
  <2> QED
    BY <2>2, <2>3
<1>8. LineEnds(d) = {"newline"} <=> \A r \in {p, a} \ {None} : r.prompt.ends = "newline"
  BY <1>3
<1>9. (\A r \in {p, a} \ {None} : r.prompt.ends = "newline")
      <=> Joined(p) = p /\ Joined(a) = a
  BY <1>1, <1>5, <1>6
<1>10. ASSUME Plain(d) PROVE Plain(e)
  <2>1. \A r \in Asking : Joined(r) \in Asking /\ Joined(r).prompt.lines = r.prompt.lines
    BY JoinedSame
  <2>2. Sent(d) = IF p # None THEN p ELSE a
    BY DEF Sent, p, a
  <2>3. Sent(e) = IF Joined(p) # None THEN Joined(p) ELSE Joined(a)
    BY <1>4 DEF Sent
  <2>4. Sent(e) = Joined(Sent(d)) /\ Sent(d) \in Asking \cup {None}
    BY <1>1, <1>6, <2>1, <2>2, <2>3, AskingIsSome
  <2>5. Asks(e) => Asks(d)
    BY <1>6, <2>4 DEF Asks
  <2>6. Asks(d) => Sent(e).prompt.lines = Sent(d).prompt.lines
    BY <2>1, <2>4 DEF Asks
  <2> QED
    BY <1>10, <2>5, <2>6 DEF Plain
<1> QED
  BY <1>7, <1>8, <1>9, <1>10 DEF e

\* A frame of which nothing was lost restores the machine that was dumped, but
\* for what ended the lines of its prompts.
LEMMA RestoreExact ==
  ASSUME NEW s, NEW d, NEW gen, NEW n, NEW r, NEW rot, Parse(s, d, gen, n, r, rot),
         r = RamEnd(d) + 2
  PROVE  Restore(s) = Rejoined(d) /\ s.regs = n /\ s.gen = gen
<1> DEFINE t == RamEnd(d) + 1
           q == Asked(s.pending, s.prompt)
           aq == Asked(s.apending, s.aprompt)
<1>1. /\ d.state \in {"READY", "RUNNING", "TRAPPED", "HALTED", "FAULT"}
      /\ d.pending \in Asking \cup {None} /\ d.async_pending \in Asking \cup {None}
      /\ d.irq \in {0, 1} /\ d.used \in {0, 1} /\ d.memory.exec \in BOOLEAN
      /\ d.memory = [rom |-> d.memory.rom, ram |-> d.memory.ram, exec |-> d.memory.exec]
      /\ d = [state |-> d.state, pending |-> d.pending, async_pending |-> d.async_pending,
              irq |-> d.irq, used |-> d.used, memory |-> d.memory]
      /\ OneSlot(d) /\ Sound(d)
  BY DEF Parse, Sound, Machine
<1>2. /\ HeadEnd(d) \in {5, 6} /\ Opener(d) = HeadEnd(d) + 2
      /\ Closer(d) \in Nat /\ Rom(d) \in Nat /\ RomEnd(d) \in Nat
      /\ Ram(d) \in Nat /\ RamEnd(d) \in Nat
      /\ Closer(d) >= HeadEnd(d)
      /\ Rom(d) = Closer(d) + 3 /\ RomEnd(d) > Rom(d)
      /\ Ram(d) = RomEnd(d) + 1 /\ RamEnd(d) > Ram(d)
  BY <1>1, Order
<1>3. t \in Nat /\ r \in Nat /\ t < r /\ t >= 1 /\ t >= 2 /\ t >= 3 /\ t >= 4 /\ t >= 5
      /\ t >= HeadEnd(d) /\ t > HeadEnd(d) /\ t > Closer(d) /\ ~ (t < Closer(d))
  BY <1>2
<1>4. /\ s.state = d.state /\ s.gen = gen /\ s.regs = n
      /\ s.used = d.used /\ s.irq = d.irq /\ s.exec = d.memory.exec
  BY <1>3 DEF Parse, Headers
<1>5. s.pending = d.pending /\ s.apending = Parked(d)
      /\ s.prompt \in Seq(Kind \ Markers) /\ s.aprompt \in Seq(Kind \ Markers)
  BY <1>3 DEF Parse, Requests
<1>6. Asks(d) => /\ Len(s[Channel(d)]) = Len(Sent(d).prompt.lines)
                 /\ \A k \in 1 .. Len(s[Channel(d)]) : s[Channel(d)][k] = Sent(d).prompt.lines[k]
  <2>1. Asks(d) => t >= Opener(d)
    BY <1>1, <1>3, Order
  <2> QED
    BY <1>3, <2>1 DEF Parse, Requests
<1>7. d.pending # None => q = Joined(d.pending)
  <2> SUFFICES ASSUME d.pending # None PROVE q = Joined(d.pending)
    OBVIOUS
  <2>1. d.pending \in Asking /\ Asks(d) /\ Sent(d) = d.pending /\ Channel(d) = "prompt"
    BY <1>1 DEF Asks, Sent, Channel
  <2>2. Len(s.prompt) = Len(d.pending.prompt.lines)
        /\ \A k \in 1 .. Len(s.prompt) : s.prompt[k] = d.pending.prompt.lines[k]
    BY <1>6, <2>1
  <2>3. Asked(d.pending, s.prompt) = Asked(d.pending, d.pending.prompt.lines)
    BY <1>5, <2>1, <2>2, SameRequest
  <2> QED
    BY <1>5, <2>3 DEF Joined
<1>8. d.pending = None /\ d.async_pending # None => s.apending = d.async_pending /\ aq = Joined(d.async_pending)
  <2> SUFFICES ASSUME d.pending = None, d.async_pending # None
               PROVE  s.apending = d.async_pending /\ aq = Joined(d.async_pending)
    OBVIOUS
  <2>1. d.async_pending \in Asking /\ Asks(d) /\ Sent(d) = d.async_pending
        /\ Channel(d) = "aprompt" /\ Parked(d) = d.async_pending
    BY <1>1 DEF Asks, Sent, Channel, Parked
  <2>2. Len(s.aprompt) = Len(d.async_pending.prompt.lines)
        /\ \A k \in 1 .. Len(s.aprompt) : s.aprompt[k] = d.async_pending.prompt.lines[k]
    BY <1>6, <2>1
  <2>3. Asked(d.async_pending, s.aprompt)
        = Asked(d.async_pending, d.async_pending.prompt.lines)
    BY <1>5, <2>1, <2>2, SameRequest
  <2> QED
    BY <1>5, <2>1, <2>3 DEF Joined
<1>9. s.rom = d.memory.rom /\ s.ram = d.memory.ram
  <2>1. /\ d.memory.rom \in [Sector -> Content] /\ d.memory.ram \in [Sector -> Content]
        /\ RomEnd(d) = Rom(d) + Sectors(d.memory.rom) + 1
        /\ RamEnd(d) = Ram(d) + Sectors(d.memory.ram) + 1
        /\ Sectors(d.memory.rom) \in Nat /\ Sectors(d.memory.ram) \in Nat
    BY <1>1, Layout
  <2>2. Rom(d) + Sectors(d.memory.rom) <= t /\ Ram(d) + Sectors(d.memory.ram) <= t
    BY <1>2, <2>1
  <2>3. /\ Memory(s.rom, d.memory.rom, Rom(d), r, t)
        /\ Memory(s.ram, d.memory.ram, Ram(d), r, t)
    BY DEF Parse
  <2> DEFINE rom == d.memory.rom
             ram == d.memory.ram
  <2>4. s.rom = rom
    <3>1. Memory(s.rom, rom, Rom(d), r, t) /\ Rom(d) + Sectors(rom) <= t /\ rom \in [Sector -> Content]
      BY <2>1, <2>2, <2>3
    <3> HIDE DEF rom, t
    <3> QED
      BY <1>2, <1>3, <3>1, MemoryWhole
  <2>5. s.ram = ram
    <3>1. Memory(s.ram, ram, Ram(d), r, t) /\ Ram(d) + Sectors(ram) <= t /\ ram \in [Sector -> Content]
      BY <2>1, <2>2, <2>3
    <3> HIDE DEF ram, t
    <3> QED
      BY <1>2, <1>3, <3>1, MemoryWhole
  <2> QED
    BY <2>4, <2>5
<1> DEFINE suspended == s.state = "TRAPPED" /\ s.pending # None
           p == IF suspended THEN q ELSE None
           ap == InFlight(s, p)
<1>10. Restore(s) = [state |-> IF s.state = "TRAPPED" /\ ~ suspended THEN "FAULT" ELSE s.state,
                     pending |-> p, async_pending |-> ap, irq |-> s.irq, used |-> s.used,
                     memory |-> [rom |-> s.rom, ram |-> s.ram, exec |-> s.exec]]
  BY DEF Restore
<1>11. suspended <=> d.state = "TRAPPED"
  BY <1>1, <1>4, <1>5 DEF OneSlot
<1>12. p = Joined(d.pending)
  BY <1>1, <1>5, <1>7, <1>11 DEF OneSlot, Joined
<1>13. ap = IF s.apending # None THEN aq
            ELSE IF p # None /\ p.channel = "ASYNC" THEN p ELSE None
  BY DEF InFlight
<1> HIDE DEF p, ap, q, aq, suspended
<1>20. /\ \A z \in Asking : Joined(z) \in Asking /\ Joined(z) # None
      /\ Joined(None) = None
      /\ \A z \in Asking : Joined(z).channel = z.channel
  <2>1. \A z \in Asking : Joined(z) = Asked(z, z.prompt.lines) /\ Joined(z) \in Asking
    BY JoinedSame
  <2>2. Joined(None) = None
    BY DEF Joined
  <2> QED
    BY <2>1, <2>2, AskingIsSome DEF Asked
<1>14. ap = Joined(d.async_pending)
  <2>1. CASE d.pending = None /\ d.async_pending # None
    BY <1>1, <1>8, <1>13, <2>1
  <2>2. CASE d.pending = None /\ d.async_pending = None
    <3>1. s.apending = None
      BY <1>5, <2>2 DEF Parked
    <3> QED
      BY <1>12, <1>13, <1>20, <2>2, <3>1
  <2>3. CASE d.pending # None
    <3>1. s.apending = None
      BY <1>5, <2>3 DEF Parked
    <3>x. p # None /\ p.channel = d.pending.channel
      BY <1>1, <1>12, <1>20, <2>3
    <3>2. CASE d.pending.channel = "ASYNC"
      <4>1. d.async_pending = d.pending
        BY <1>1, <2>3, <3>2 DEF OneSlot
      <4> QED
        BY <1>12, <1>13, <2>3, <3>1, <3>x, <3>2, <4>1
    <3>3. CASE d.pending.channel # "ASYNC"
      <4>1. d.async_pending = None
        BY <1>1, <2>3, <3>3 DEF OneSlot
      <4> QED
        BY <1>13, <1>20, <3>1, <3>x, <3>3, <4>1
    <3> QED
      BY <3>2, <3>3
  <2> QED
    BY <2>1, <2>2, <2>3
<1>15. (IF s.state = "TRAPPED" /\ ~ suspended THEN "FAULT" ELSE s.state) = d.state
  BY <1>4, <1>11
<1>16. [rom |-> s.rom, ram |-> s.ram, exec |-> s.exec] = d.memory
  BY <1>1, <1>4, <1>9
<1>17. Restore(s) = [state |-> d.state, pending |-> Joined(d.pending),
                     async_pending |-> Joined(d.async_pending),
                     irq |-> d.irq, used |-> d.used, memory |-> d.memory]
  BY <1>4, <1>10, <1>12, <1>14, <1>15, <1>16
<1> QED
  BY <1>1, <1>4, <1>17, RejoinedReads

\* The checksum of a frame, as a sequence.
LEMMA ChecksumLength ==
  ASSUME NEW d, Sound(d), NEW gen, NEW n
  PROVE  /\ IsSeq(Checksum(d, gen, n)) /\ Len(Checksum(d, gen, n)) = RamEnd(d)
         /\ Checksum(d, gen, n) # <<>>
<1> DEFINE k == Checksum(d, gen, n)
           e == RamEnd(d)
<1>1. e \in Nat /\ e >= 1
  BY Order
<1>2. k = [i \in 1 .. e |-> k[i]]
  BY DEF Checksum
<1> HIDE DEF k, e
<1>3. IsSeq(k) /\ Len(k) = e
  BY <1>1, <1>2, FunctionIsSeq
<1>4. k # <<>>
  BY <1>1, <1>3, Empty
<1> QED
  BY <1>3, <1>4 DEF k, e

\* A frame of which nothing was lost verifies, unless the lines of its prompts
\* come together otherwise than they were written.
LEMMA WholeIsClean ==
  ASSUME NEW s, NEW d, NEW gen, NEW n, NEW r, NEW rot, Parse(s, d, gen, n, r, rot),
         r = RamEnd(d) + 2
  PROVE  /\ Report(s).bad = {}
         /\ Report(s).clean <=> Rejoined(d) = d
<1> DEFINE t == RamEnd(d) + 1
           k == Checksum(d, gen, n)
           c == s.canonical
<1>1. RamEnd(d) \in Nat /\ RamEnd(d) > Closer(d) + 1 /\ Closer(d) \in Nat /\ Sound(d)
  BY Order DEF Parse
<1>2. t \in Nat /\ t < r /\ t > RamEnd(d) /\ t - 1 = RamEnd(d) /\ ~ (r <= t)
      /\ t > Closer(d) /\ t > Closer(d) + 1
  BY <1>1
<1>3. IsSeq(k) /\ Len(k) = RamEnd(d) /\ k # <<>>
  BY <1>1, ChecksumLength
<1>4. /\ IsSeq(c) /\ s.crc = {Vouched(d, gen, n)} /\ Len(c) = RamEnd(d)
      /\ \A i \in 1 .. RamEnd(d) : c[i] = k[i]
  <2>1. Canonical(s, d, gen, n, r, rot, t)
    BY DEF Parse
  <2>2. s.crc = {Vouched(d, gen, n)}
    BY <1>2, <2>1 DEF Canonical
  <2>3. s.crc # {}
    BY <2>2
  <2>4. Len(c) = RamEnd(d)
    BY <1>2, <2>1, <2>3 DEF Canonical
  <2>5. \A i \in 1 .. RamEnd(d) : i <= t
    BY <1>1
  <2> QED
    BY <1>2, <2>1, <2>2, <2>4, <2>5 DEF Canonical
<1>5. s.crc = {Crc(c, {"newline"})} <=> LineEnds(d) = {"newline"}
  <2> DEFINE w == LineEnds(d)
  <2>1. s.crc = {Crc(k, w)}
    BY <1>4 DEF Vouched
  <2> HIDE DEF k, c, w
  <2>2. c = k
    BY <1>3, <1>4, SameSeq
  <2>3. Crc(k, w) = Crc(c, {"newline"}) <=> w = {"newline"}
    BY <2>2 DEF Crc
  <2> QED
    BY <2>1, <2>3 DEF w
<1>6. s.bad = {}
  BY <1>2 DEF Parse, Bad
<1>7. MissingSectors(s) = {}
  <2>1. s.rommap = Written(d.memory.rom) /\ s.rammap = Written(d.memory.ram)
    BY <1>2 DEF Parse, Maps
  <2>2. s.rom = d.memory.rom /\ s.ram = d.memory.ram
    <3>1. Restore(s) = Rejoined(d)
      BY RestoreExact
    <3>2. Restore(s).memory.rom = s.rom /\ Restore(s).memory.ram = s.ram
      BY DEF Restore
    <3>3. Rejoined(d).memory = d.memory
      BY <1>1, RejoinedReads
    <3> QED
      BY <3>1, <3>2, <3>3
  <2>3. \A x \in {"rom"} \X Written(d.memory.rom) : s[x[1]][x[2]] # 0
    BY <2>2 DEF Written
  <2>4. \A x \in {"ram"} \X Written(d.memory.ram) : s[x[1]][x[2]] # 0
    BY <2>2 DEF Written
  <2> QED
    BY <2>1, <2>3, <2>4 DEF MissingSectors
<1>8. /\ Report(s).bad = {}
      /\ Report(s).clean <=> s.crc = {Crc(c, {"newline"})}
  BY <1>6, <1>7 DEF Report
<1>9. LineEnds(d) = {"newline"} <=> Rejoined(d) = d
  BY <1>1, EndsTell
<1> HIDE DEF t, k, c
<1>10. Report(s).clean <=> Rejoined(d) = d
  BY <1>5, <1>8, <1>9, Zenon
<1> QED
  BY <1>8, <1>10, Zenon DEF c

\* A frame that lost a line, or holds a mangled one, does not verify.
LEMMA DamageIsNoticed ==
  ASSUME NEW s, NEW d, NEW gen, NEW n, NEW r, NEW rot, Parse(s, d, gen, n, r, rot),
         r # RamEnd(d) + 2
  PROVE  ~ Report(s).clean
<1> DEFINE t == RamEnd(d) + 1
           k == Checksum(d, gen, n)
           c == s.canonical
<1>1. RamEnd(d) \in Nat /\ Sound(d) /\ r \in Nat /\ rot \in BOOLEAN
      /\ r <= RamEnd(d) + 1
  BY Order DEF Parse, Damage
<1>2. t \in Nat /\ t > RamEnd(d) /\ r <= t /\ t - 2 = RamEnd(d) - 1
  BY <1>1
<1>3. Report(s).clean => s.bad = {} /\ s.crc = {Crc(c, {"newline"})}
  BY DEF Report
<1>4. CASE rot
  <2>1. s.bad # {}
    BY <1>2, <1>4 DEF Parse, Bad
  <2> QED
    BY <1>3, <2>1
<1>5. CASE ~ rot
  <2>1. Canonical(s, d, gen, n, r, rot, t)
    BY DEF Parse
  <2>2. s.crc # {} => s.crc = {Crc(k, LineEnds(d))} /\ Len(c) = RamEnd(d) - 1
    BY <1>2, <1>5, <2>1 DEF Canonical, Vouched
  <2>3. Len(k) = RamEnd(d)
    BY <1>1, ChecksumLength
  <2> DEFINE w == LineEnds(d)
  <2> HIDE DEF k, c, w
  <2>4. ASSUME Report(s).clean PROVE c = k
    <3>1. s.crc = {Crc(c, {"newline"})} /\ s.crc = {Crc(k, w)}
      BY <1>3, <2>2, <2>4 DEF w
    <3>2. Crc(c, {"newline"}).lines = Crc(k, w).lines
      BY <3>1
    <3> QED
      BY <3>2 DEF Crc
  <2> QED
    BY <1>1, <1>3, <2>2, <2>3, <2>4
<1> QED
  BY <1>1, <1>4, <1>5

\* What a report says of the machine that was mounted.
LEMMA ReportReads ==
  ASSUME NEW s
  PROVE  /\ Report(s).device = Restore(s) /\ Report(s).of = s.regs
         /\ Report(s).bad = s.bad \cup MissingSectors(s)
         /\ "rom" \in Report(s).mapped <=> s.rommap # None
         /\ "ram" \in Report(s).mapped <=> s.rammap # None
         /\ Restore(s).memory.rom = s.rom /\ Restore(s).memory.ram = s.ram
<1>1. /\ Report(s).device = Restore(s) /\ Report(s).of = s.regs
      /\ Report(s).bad = s.bad \cup MissingSectors(s)
      /\ Report(s).mapped = (IF s.rommap = None THEN {} ELSE {"rom"})
                            \cup (IF s.rammap = None THEN {} ELSE {"ram"})
  BY DEF Report
<1>2. Restore(s).memory.rom = s.rom /\ Restore(s).memory.ram = s.ram
  BY DEF Restore
<1> QED
  BY <1>1, <1>2

\* Every sector that is restored was written; every other one that was, is
\* reported when the map of its memory was read.
LEMMA SectorsAccounted ==
  ASSUME NEW s, NEW d, NEW gen, NEW n, NEW r, NEW rot, Parse(s, d, gen, n, r, rot),
         NEW space \in {"rom", "ram"}, NEW a \in Sector
  PROVE  LET x == Restore(s).memory[space][a]
         IN  /\ x \in {0, d.memory[space][a]}
             /\ x = 0 /\ d.memory[space][a] # 0 /\ space \in Report(s).mapped
                  => <<space, a>> \in Report(s).bad
<1>1. /\ \A b \in Sector : s.rom[b] \in {0, d.memory.rom[b]}
      /\ \A b \in Sector : s.ram[b] \in {0, d.memory.ram[b]}
  BY DEF Parse, Memory
<1>2. /\ s.rommap \in {None, Written(d.memory.rom)}
      /\ s.rammap \in {None, Written(d.memory.ram)}
  BY DEF Parse, Maps
<1>3. /\ Report(s).bad = s.bad \cup MissingSectors(s)
      /\ "rom" \in Report(s).mapped <=> s.rommap # None
      /\ "ram" \in Report(s).mapped <=> s.rammap # None
      /\ Restore(s).memory.rom = s.rom /\ Restore(s).memory.ram = s.ram
  BY ReportReads
<1>4. CASE space = "rom"
  <2>1. Restore(s).memory[space][a] = s.rom[a] /\ d.memory[space][a] = d.memory.rom[a]
    BY <1>3, <1>4
  <2>2. ASSUME s.rom[a] = 0, d.memory.rom[a] # 0, space \in Report(s).mapped,
               <<space, a>> \notin s.bad
        PROVE  <<space, a>> \in MissingSectors(s)
    <3>1. s.rommap # None /\ a \in s.rommap
      BY <1>2, <1>3, <1>4, <2>2 DEF Written
    <3> QED
      BY <1>4, <2>2, <3>1 DEF MissingSectors
  <2> QED
    BY <1>1, <1>3, <2>1, <2>2
<1>5. CASE space = "ram"
  <2>1. Restore(s).memory[space][a] = s.ram[a] /\ d.memory[space][a] = d.memory.ram[a]
    BY <1>3, <1>5
  <2>2. ASSUME s.ram[a] = 0, d.memory.ram[a] # 0, space \in Report(s).mapped,
               <<space, a>> \notin s.bad
        PROVE  <<space, a>> \in MissingSectors(s)
    <3>1. s.rammap # None /\ a \in s.rammap
      BY <1>2, <1>3, <1>5, <2>2 DEF Written
    <3> QED
      BY <1>5, <2>2, <3>1 DEF MissingSectors
  <2> QED
    BY <1>1, <1>3, <2>1, <2>2
<1> QED
  BY <1>4, <1>5

-----------------------------------------------------------------------------
(***************************************************************************)
(* The frames in the transcript.                                           *)
(***************************************************************************)
\* The lines of a frame, from BEGIN, which is line 0, to END.
Full(d, gen, n, t) ==
  IF t = 0 THEN [kind |-> "BEGIN", value |-> None, of |-> n, at |-> 0]
  ELSE IF t = RamEnd(d) + 2 THEN [kind |-> "END", value |-> None, of |-> n, at |-> 0]
  ELSE Line(d, gen, n, t)

\* A frame is these lines, in this order.
LEMMA FrameWritten ==
  ASSUME NEW d, Sound(d), NEW gen, NEW n, NEW F, F = Frame(d, gen, n)
  PROVE  /\ IsSeq(F) /\ Len(F) = RamEnd(d) + 3
         /\ \A t \in 0 .. RamEnd(d) + 2 : F[t + 1] = Full(d, gen, n, t)
<1> DEFINE B == Body(d, gen)
           e == RamEnd(d)
           body == [i \in DOMAIN B |-> [kind |-> B[i][1], value |-> B[i][2], of |-> n, at |-> i]]
           texts == [i \in DOMAIN body |-> Text(body[i])]
           crc == Crc(texts, LineEnds(d))
           first == [kind |-> "BEGIN", value |-> None, of |-> n, at |-> 0]
           sum == [kind |-> "SNAPCRC", value |-> crc, of |-> n, at |-> 0]
           last == [kind |-> "END", value |-> None, of |-> n, at |-> 0]
           y == Chained(body, <<sum>>)
<1>1. e \in Nat
  BY Order
<1>2. IsSeq(B) /\ Len(B) = e
  BY BodyWritten
<1>3. DOMAIN B = 1 .. e
  <2> HIDE DEF B, e
  <2> QED
    BY <1>2, SeqOfOwn
<1>4. body = [i \in 1 .. e |-> body[i]]
      /\ \A i \in 1 .. e : body[i] = Line(d, gen, n, i)
  <2>1. body = [i \in 1 .. e |-> [kind |-> B[i][1], value |-> B[i][2], of |-> n, at |-> i]]
    BY <1>3
  <2>2. \A i \in 1 .. e : i <= RamEnd(d)
    BY <1>1
  <2>3. \A i \in 1 .. e : Line(d, gen, n, i) = [kind |-> B[i][1], value |-> B[i][2], of |-> n, at |-> i]
    BY <2>2 DEF Line
  <2> QED
    BY <2>1, <2>3
<1>5. crc = Vouched(d, gen, n)
  <2>1. texts = [i \in 1 .. e |-> Text(body[i])]
    BY <1>3
  <2>2. \A i \in 1 .. e : Text(body[i]) = <<n, i, B[i][1]>>
    BY <1>3 DEF Text
  <2>3. texts = [i \in 1 .. e |-> <<n, i, B[i][1]>>]
    BY <2>1, <2>2
  <2>4. texts = Checksum(d, gen, n)
    BY <2>3 DEF Checksum
  <2> QED
    BY <2>4 DEF Vouched
<1>6. sum = Line(d, gen, n, e + 1)
  <2>1. ~ (e + 1 <= RamEnd(d))
    BY <1>1
  <2> QED
    BY <1>5, <2>1 DEF Line
<1>7. F = Chained(Chained(<<first>>, body), <<sum, last>>)
  BY DEF Frame, Chained
<1> HIDE DEF B, body, texts, crc, sum, e, y
<1>8. IsSeq(body) /\ Len(body) = e
  BY <1>1, <1>4, FunctionIsSeq
<1> DEFINE x == Chained(<<first>>, body)
           z == <<sum, last>>
<1>9. IsSeq(<<first>>) /\ Len(<<first>>) = 1 /\ <<first>>[1] = first
  BY One
<1>10. IsSeq(z) /\ Len(z) = 2 /\ z[1] = sum /\ z[2] = last
  <2>1. z \in Seq({sum, last}) /\ Len(z) = 2 /\ z[1] = sum /\ z[2] = last
    OBVIOUS
  <2> HIDE DEF z
  <2>2. IsSeq(z)
    BY <2>1, SeqIsSeq
  <2> QED
    BY <2>1, <2>2
<1>11. /\ IsSeq(x) /\ Len(x) = 1 + e /\ x[1] = first
       /\ \A i \in 1 .. e : x[1 + i] = body[i]
  <2> DEFINE o == <<first>>
  <2>1. IsSeq(o) /\ IsSeq(body)
    BY <1>8, <1>9
  <2>2. Len(o) = 1 /\ o[1] = first /\ x = Chained(o, body)
    BY <1>9
  <2> HIDE DEF o, x
  <2>3. /\ IsSeq(Chained(o, body)) /\ Len(Chained(o, body)) = Len(o) + Len(body)
        /\ \A i \in 1 .. Len(o) : Chained(o, body)[i] = o[i]
        /\ \A i \in 1 .. Len(body) : Chained(o, body)[Len(o) + i] = body[i]
    BY <2>1, Concat
  <2> QED
    BY <1>8, <2>2, <2>3
<1> HIDE DEF x, z, first, last
<1>12. /\ IsSeq(F) /\ Len(F) = e + 3
       /\ \A i \in 1 .. e + 1 : F[i] = x[i]
       /\ F[e + 2] = sum /\ F[e + 3] = last
  <2>1. F = Chained(x, z)
    BY <1>7 DEF x, z
  <2>2. IsSeq(x) /\ IsSeq(z)
    BY <1>10, <1>11
  <2>3. /\ IsSeq(Chained(x, z)) /\ Len(Chained(x, z)) = Len(x) + Len(z)
        /\ \A i \in 1 .. Len(x) : Chained(x, z)[i] = x[i]
        /\ \A i \in 1 .. Len(z) : Chained(x, z)[Len(x) + i] = z[i]
    BY <2>2, Concat
  <2>4. /\ IsSeq(F) /\ Len(F) = Len(x) + Len(z)
        /\ \A i \in 1 .. Len(x) : F[i] = x[i]
        /\ \A i \in 1 .. Len(z) : F[Len(x) + i] = z[i]
    BY <2>1, <2>3
  <2>5. F[(1 + e) + 1] = sum /\ F[(1 + e) + 2] = last
    BY <1>1, <1>10, <1>11, <2>4
  <2>6. (1 + e) + 1 = e + 2 /\ (1 + e) + 2 = e + 3
    BY <1>1
  <2> QED
    BY <1>1, <1>10, <1>11, <2>4, <2>5, <2>6
<1>13. ASSUME NEW t \in 0 .. e + 2 PROVE F[t + 1] = Full(d, gen, n, t)
  <2>1. CASE t = 0
    BY <1>1, <1>11, <1>12, <2>1 DEF Full, first
  <2>2. CASE t \in 1 .. e
    <3>1. F[t + 1] = x[1 + t] /\ x[1 + t] = body[t] /\ t # 0 /\ t # e + 2
      BY <1>1, <1>11, <1>12, <2>2
    <3> QED
      BY <1>4, <2>2, <3>1 DEF Full, e
  <2>3. CASE t = e + 1
    <3>1. t # 0 /\ t # e + 2 /\ t + 1 = e + 2
      BY <1>1, <2>3
    <3> QED
      BY <1>6, <1>12, <2>3, <3>1 DEF Full, e
  <2>4. CASE t = e + 2
    <3>1. t # 0 /\ t + 1 = e + 3
      BY <1>1, <2>4
    <3> QED
      BY <1>12, <2>4, <3>1 DEF Full, e, last
  <2> QED
    BY <1>1, <2>1, <2>2, <2>3, <2>4
<1> QED
  BY <1>12, <1>13 DEF e

\* No line between BEGIN and END is one of them, and only the memories of a
\* machine whose prompt is text have lines that look like sectors.
LEMMA LineKinds ==
  ASSUME NEW d, Sound(d), NEW gen, NEW n, NEW t \in 1 .. RamEnd(d) + 1
  PROVE  /\ Line(d, gen, n, t).kind \notin {"BEGIN", "END"}
         /\ Line(d, gen, n, t).of = n
         /\ Plain(d) /\ Line(d, gen, n, t).kind = "SECTOR" =>
              InMemory(d, t)
<1> DEFINE L == Line(d, gen, n, t)
<1>1. /\ HeadEnd(d) \in {5, 6} /\ Opener(d) = HeadEnd(d) + 2
      /\ Closer(d) \in Nat /\ Rom(d) \in Nat /\ RomEnd(d) \in Nat
      /\ Ram(d) \in Nat /\ RamEnd(d) \in Nat
      /\ Closer(d) >= HeadEnd(d)
      /\ ~ Asks(d) => Closer(d) = HeadEnd(d)
      /\ Asks(d) => Closer(d) > Opener(d)
      /\ Rom(d) = Closer(d) + 3 /\ RomEnd(d) > Rom(d)
      /\ Ram(d) = RomEnd(d) + 1 /\ RamEnd(d) > Ram(d)
  BY Order
<1>2. CASE t = RamEnd(d) + 1
  <2>1. ~ (t <= RamEnd(d))
    BY <1>1, <1>2
  <2> QED
    BY <2>1 DEF Line
<1>3. CASE t \in 1 .. RamEnd(d)
  <2>1. WrittenAs(L, d, gen, n, t)
    BY <1>3, LineWritten
  <2> HIDE DEF L
  <2>2. L.of = n
    BY <2>1 DEF WrittenAs
  <2>3. CASE t <= HeadEnd(d)
    <3>1. t \in 1 .. 6 /\ (t = 6 => t = HeadEnd(d))
      BY <1>1, <1>3, <2>3
    <3>2. L.kind \in {"GEN", "STATE", "REGS", "ORACLE", "IRQ", "EXECMAP"}
      BY <2>1, <3>1 DEF WrittenAs
    <3> QED
      BY <2>2, <3>2 DEF L
  <2>4. CASE Asks(d) /\ t \in {HeadEnd(d) + 1, Opener(d), Closer(d)}
    <3>1. L.kind \in {Word(d), OpenWord(d), CloseWord(d)}
      BY <2>1, <2>4 DEF WrittenAs
    <3>2. L.kind \in {"PENDING", "APENDING", "PROMPT_OPEN", "APROMPT_OPEN", "PROMPT_CLOSE",
                      "APROMPT_CLOSE"}
      BY <3>1 DEF Word, OpenWord, CloseWord
    <3> QED
      BY <2>2, <3>2 DEF L
  <2>5. CASE Asks(d) /\ Opener(d) < t /\ t < Closer(d)
    <3> DEFINE p == Sent(d).prompt.lines
               i == t - Opener(d)
    <3>1. L.kind = p[i]
      BY <2>1, <2>5 DEF WrittenAs
    <3>2. p \in Seq(Kind \ Markers) /\ Len(p) \in Nat /\ Closer(d) = Opener(d) + Len(p) + 1
      BY <2>5, Layout DEF Asking
    <3>3. Plain(d) => p \in Seq({"TEXT"})
      BY <2>5 DEF Plain
    <3>4. i \in 1 .. Len(p)
      BY <1>1, <1>3, <2>5, <3>2, SMTT(30)
    <3> HIDE DEF p, i
    <3>5. p[i] \in Kind \ Markers
      BY <3>2, <3>4, ElementOfSeq
    <3>6. Plain(d) => p[i] \in {"TEXT"}
      BY <3>3, <3>4, ElementOfSeq
    <3> QED
      BY <2>2, <3>1, <3>5, <3>6 DEF L, Markers
  <2>6. CASE t > Closer(d)
    <3>1. \/ t = Closer(d) + 1 \/ t = Closer(d) + 2 \/ t = Rom(d)
          \/ Rom(d) < t /\ t < RomEnd(d)
          \/ t = RomEnd(d) \/ t = Ram(d)
          \/ Ram(d) < t /\ t < RamEnd(d)
          \/ t = RamEnd(d)
      BY <1>1, <1>3, <2>6
    <3>2. \/ L.kind \in {"ROMMAP", "RAMMAP", "ROM_OPEN", "ROM_CLOSE", "RAM_OPEN", "RAM_CLOSE"}
          \/ /\ L.kind = "SECTOR"
             /\ InMemory(d, t)
      <4>1. CASE Rom(d) < t /\ t < RomEnd(d)
        BY <2>1, <4>1 DEF WrittenAs, InMemory
      <4>2. CASE Ram(d) < t /\ t < RamEnd(d)
        BY <2>1, <4>2 DEF WrittenAs, InMemory
      <4>3. CASE t \in {Closer(d) + 1, Closer(d) + 2, Rom(d), RomEnd(d), Ram(d), RamEnd(d)}
        BY <2>1, <4>3 DEF WrittenAs
      <4> QED
        BY <3>1, <4>1, <4>2, <4>3
    <3> QED
      BY <2>2, <3>2 DEF L
  <2> QED
    BY <1>1, <1>3, <2>3, <2>4, <2>5, <2>6
<1> QED
  BY <1>1, <1>2, <1>3

\* What is left of a frame when its line r was lost, or mangled (rot).
Damaged(d, r, rot) ==
  /\ r \in 0 .. RamEnd(d) + 3 /\ rot \in BOOLEAN
  /\ r # RamEnd(d) + 3 => Plain(d)
  /\ rot => InMemory(d, r)

\* How many lines are left, and which.
Size(d, r, rot) == IF rot \/ r = RamEnd(d) + 3 THEN RamEnd(d) + 3 ELSE RamEnd(d) + 2

Left(d, gen, n, r, rot, i) ==
  IF rot /\ r = i THEN Rotted(Full(d, gen, n, i))
  ELSE IF ~ rot /\ r <= i THEN Full(d, gen, n, i + 1)
  ELSE Full(d, gen, n, i)

\* The numbers of a damaged frame.
LEMMA DamagedBounds ==
  ASSUME NEW d, Sound(d), NEW r, NEW rot, Damaged(d, r, rot)
  PROVE  /\ RamEnd(d) \in Nat /\ RamEnd(d) > 0 /\ r \in Nat /\ r <= RamEnd(d) + 3
         /\ rot \in BOOLEAN
         /\ rot => r \in 1 .. RamEnd(d)
         /\ Size(d, r, rot) \in Nat /\ Size(d, r, rot) >= RamEnd(d) + 2
         /\ rot => Size(d, r, rot) = RamEnd(d) + 3
         /\ ~ rot /\ r <= RamEnd(d) + 2 => Size(d, r, rot) = RamEnd(d) + 2
         /\ r = RamEnd(d) + 3 => Size(d, r, rot) = RamEnd(d) + 3 /\ ~ rot
<1>1. /\ Closer(d) \in Nat /\ Rom(d) \in Nat /\ RomEnd(d) \in Nat
      /\ Ram(d) \in Nat /\ RamEnd(d) \in Nat
      /\ Rom(d) = Closer(d) + 3 /\ RomEnd(d) > Rom(d)
      /\ Ram(d) = RomEnd(d) + 1 /\ RamEnd(d) > Ram(d)
  BY Order
<1>2. r \in Nat /\ r <= RamEnd(d) + 3 /\ rot \in BOOLEAN
  BY <1>1 DEF Damaged
<1>3. rot => r \in 1 .. RamEnd(d)
  BY <1>1, <1>2 DEF Damaged, InMemory
<1>4. r = RamEnd(d) + 3 => ~ rot
  BY <1>1, <1>3
<1>5. r <= RamEnd(d) + 2 => r # RamEnd(d) + 3
  BY <1>1
<1>6. /\ rot => Size(d, r, rot) = RamEnd(d) + 3
      /\ ~ rot /\ r <= RamEnd(d) + 2 => Size(d, r, rot) = RamEnd(d) + 2
      /\ r = RamEnd(d) + 3 => Size(d, r, rot) = RamEnd(d) + 3
  BY <1>5 DEF Size
<1>7. Size(d, r, rot) = RamEnd(d) + 3 \/ Size(d, r, rot) = RamEnd(d) + 2
  BY DEF Size
<1> QED
  BY <1>1, <1>2, <1>3, <1>4, <1>6, <1>7

\* Where BEGIN and END are.
LEMMA FullKinds ==
  ASSUME NEW d, Sound(d), NEW gen, NEW n, NEW t \in 0 .. RamEnd(d) + 2
  PROVE  /\ Full(d, gen, n, t).kind = "BEGIN" <=> t = 0
         /\ Full(d, gen, n, t).kind = "END" <=> t = RamEnd(d) + 2
         /\ Full(d, gen, n, t).of = n
         /\ Rotted(Full(d, gen, n, t)).of = n
         /\ Plain(d) /\ Full(d, gen, n, t).kind = "SECTOR" => InMemory(d, t)
         /\ InMemory(d, t) => /\ Full(d, gen, n, t) = Line(d, gen, n, t)
                              /\ Rotted(Full(d, gen, n, t)).kind = "ROTTED"
<1>1. /\ Closer(d) \in Nat /\ Rom(d) \in Nat /\ RomEnd(d) \in Nat
      /\ Ram(d) \in Nat /\ RamEnd(d) \in Nat
      /\ Rom(d) = Closer(d) + 3 /\ RomEnd(d) > Rom(d)
      /\ Ram(d) = RomEnd(d) + 1 /\ RamEnd(d) > Ram(d)
  BY Order
<1>2. InMemory(d, t) => t \in 1 .. RamEnd(d) /\ t # 0 /\ t # RamEnd(d) + 2
  BY <1>1 DEF InMemory
<1>3. CASE t = 0
  <2>1. Full(d, gen, n, t) = [kind |-> "BEGIN", value |-> None, of |-> n, at |-> 0]
    BY <1>3 DEF Full
  <2>2. t # RamEnd(d) + 2
    BY <1>1, <1>3
  <2> QED
    BY <1>2, <1>3, <2>1, <2>2 DEF Rotted
<1>4. CASE t = RamEnd(d) + 2
  <2>1. t # 0
    BY <1>1, <1>4
  <2>2. Full(d, gen, n, t) = [kind |-> "END", value |-> None, of |-> n, at |-> 0]
    BY <1>4, <2>1 DEF Full
  <2> QED
    BY <1>2, <1>4, <2>1, <2>2 DEF Rotted
<1>5. CASE t \in 1 .. RamEnd(d) + 1
  <2> DEFINE L == Line(d, gen, n, t)
  <2>1. t # 0 /\ t # RamEnd(d) + 2
    BY <1>1, <1>5
  <2>2. Full(d, gen, n, t) = L
    BY <2>1 DEF Full
  <2>3. /\ L.kind \notin {"BEGIN", "END"} /\ L.of = n
        /\ (Plain(d) /\ L.kind = "SECTOR" => InMemory(d, t))
    BY <1>5, LineKinds
  <2>4. DOMAIN L = {"kind", "value", "of", "at"}
    BY DEF Line
  <2> HIDE DEF L
  <2>5. Rotted(L).kind = "ROTTED" /\ Rotted(L).of = n
    BY <2>3, <2>4 DEF Rotted
  <2> QED
    BY <2>1, <2>2, <2>3, <2>5 DEF L
<1> QED
  BY <1>1, <1>3, <1>4, <1>5

\* Only the first line of a frame is a BEGIN, and only its last line is an END,
\* if they are left; every line says which dump wrote it.
LEMMA LeftKinds ==
  ASSUME NEW d, Sound(d), NEW gen, NEW n, NEW r, NEW rot, Damaged(d, r, rot),
         NEW i \in 0 .. Size(d, r, rot) - 1
  PROVE  LET L == Left(d, gen, n, r, rot, i)
         IN  /\ L.kind = "BEGIN" <=> i = 0 /\ r # 0
             /\ L.kind = "END" <=> i = Size(d, r, rot) - 1 /\ r # RamEnd(d) + 2
             /\ L.of = n
<1> DEFINE L == Left(d, gen, n, r, rot, i)
           e == RamEnd(d)
           z == Size(d, r, rot)
<1>1. /\ e \in Nat /\ e > 0 /\ r \in Nat /\ r <= e + 3
      /\ rot \in BOOLEAN
      /\ rot => r \in 1 .. e
      /\ z \in Nat
      /\ rot => z = e + 3
      /\ ~ rot /\ r <= e + 2 => z = e + 2
      /\ r = e + 3 => z = e + 3 /\ ~ rot
  BY DamagedBounds
<1>2. \A t \in 0 .. e + 2 :
        /\ Full(d, gen, n, t).kind = "BEGIN" <=> t = 0
        /\ Full(d, gen, n, t).kind = "END" <=> t = e + 2
        /\ Full(d, gen, n, t).of = n
        /\ Rotted(Full(d, gen, n, t)).of = n
        /\ InMemory(d, t) => Rotted(Full(d, gen, n, t)).kind = "ROTTED"
  BY FullKinds
<1>3. rot => InMemory(d, r)
  BY DEF Damaged
<1> HIDE DEF e, z
<1>4. i \in 0 .. z - 1
  BY DEF z
<1>5. L = IF rot /\ r = i THEN Rotted(Full(d, gen, n, i))
          ELSE IF ~ rot /\ r <= i THEN Full(d, gen, n, i + 1)
          ELSE Full(d, gen, n, i)
  BY DEF Left
<1> HIDE DEF L
<1> SUFFICES /\ L.kind = "BEGIN" <=> i = 0 /\ r # 0
             /\ L.kind = "END" <=> i = z - 1 /\ r # e + 2
             /\ L.of = n
  BY DEF L, e, z
<1>6. CASE rot /\ r = i
  <2>1. i \in 0 .. e + 2 /\ i # 0 /\ i # z - 1 /\ InMemory(d, i)
    BY <1>1, <1>3, <1>4, <1>6
  <2> QED
    BY <1>2, <1>5, <1>6, <2>1
<1>7. CASE ~ rot /\ r <= i
  <2>1. z = e + 2 /\ i + 1 \in 0 .. e + 2 /\ i + 1 # 0 /\ r # e + 2
    BY <1>1, <1>4, <1>7
  <2>2. i + 1 = e + 2 <=> i = z - 1
    BY <1>1, <1>4, <2>1
  <2>3. ~ (i = 0 /\ r # 0)
    BY <1>1, <1>7
  <2>4. L = Full(d, gen, n, i + 1)
    BY <1>5, <1>7
  <2> QED
    BY <1>2, <2>1, <2>2, <2>3, <2>4
<1>8. CASE ~ (rot /\ r = i) /\ ~ (~ rot /\ r <= i)
  <2>1. i \in 0 .. e + 2
    BY <1>1, <1>4
  <2>2. L = Full(d, gen, n, i)
    BY <1>5, <1>8
  <2>3. i = 0 => r # 0
    BY <1>1, <1>8
  <2>4. i = e + 2 <=> i = z - 1 /\ r # e + 2
    <3>1. CASE rot
      BY <1>1, <1>4, <3>1
    <3>2. CASE ~ rot
      <4>1. i < r
        BY <1>1, <1>4, <1>8, <3>2
      <4>2. CASE r = e + 3
        BY <1>1, <1>4, <4>2
      <4>3. CASE r <= e + 2
        BY <1>1, <1>4, <3>2, <4>1, <4>3
      <4> QED
        BY <1>1, <4>2, <4>3
    <3> QED
      BY <3>1, <3>2, <1>1
  <2> QED
    BY <1>2, <2>1, <2>2, <2>3, <2>4
<1> QED
  BY <1>1, <1>6, <1>7, <1>8


-----------------------------------------------------------------------------
(***************************************************************************)
(* The transcript, frame after frame.                                      *)
(***************************************************************************)
\* A ledger tells, for each dump, its generation, how many lines come before
\* its frame, and which line of it is damaged, and how.  Every line of the
\* transcript is accounted for.
Extent(v, ds, n) == Size(ds[n], v.hurt[n], v.rot[n])
Whole(v, ds, n) == v.hurt[n] = RamEnd(ds[n]) + 3

Entry(v, T, ds, n) ==
  /\ Sound(ds[n]) /\ Damaged(ds[n], v.hurt[n], v.rot[n])
  /\ v.gen[n] \in Nat /\ v.start[n] \in Nat
  /\ v.start[n + 1] = v.start[n] + Extent(v, ds, n)
  /\ \A i \in 0 .. Extent(v, ds, n) - 1 :
       T[v.start[n] + 1 + i] = Left(ds[n], v.gen[n], n, v.hurt[n], v.rot[n], i)

Ledger(v, T, ds) ==
  /\ IsSeq(T) /\ IsSeq(ds)
  /\ v.start[1] = 0 /\ v.start[Len(ds) + 1] = Len(T)
  /\ \A n \in 1 .. Len(ds) : Entry(v, T, ds, n)

\* The numbers of an entry.
LEMMA EntryBounds ==
  ASSUME NEW v, NEW T, NEW ds, Ledger(v, T, ds), NEW n \in 1 .. Len(ds)
  PROVE  /\ Sound(ds[n]) /\ Damaged(ds[n], v.hurt[n], v.rot[n])
         /\ v.gen[n] \in Nat /\ v.start[n] \in Nat
         /\ v.hurt[n] \in Nat /\ RamEnd(ds[n]) \in Nat /\ RamEnd(ds[n]) > 0
         /\ Extent(v, ds, n) \in Nat /\ Extent(v, ds, n) >= RamEnd(ds[n]) + 2
         /\ v.start[n + 1] \in Nat /\ v.start[n + 1] = v.start[n] + Extent(v, ds, n)
         /\ Len(ds) \in Nat /\ Len(T) \in Nat
<1>1. Entry(v, T, ds, n) /\ Len(ds) \in Nat /\ Len(T) \in Nat
  BY DEF Ledger, IsSeq
<1>2. /\ Sound(ds[n]) /\ Damaged(ds[n], v.hurt[n], v.rot[n])
      /\ v.gen[n] \in Nat /\ v.start[n] \in Nat
      /\ v.start[n + 1] = v.start[n] + Extent(v, ds, n)
  BY <1>1 DEF Entry
<1> DEFINE d == ds[n]
           r == v.hurt[n]
           rot == v.rot[n]
           e == RamEnd(d)
           z == Size(d, r, rot)
<1>3. e \in Nat /\ e > 0 /\ r \in Nat /\ z \in Nat /\ z >= e + 2
  BY <1>2, DamagedBounds
<1>4. Extent(v, ds, n) = z
  BY DEF Extent
<1> HIDE DEF z
<1> QED
  BY <1>1, <1>2, <1>3, <1>4

\* The frames follow each other.
LEMMA FramesInOrder ==
  ASSUME NEW v, NEW T, NEW ds, Ledger(v, T, ds),
         NEW m \in 1 .. Len(ds), NEW n \in 1 .. Len(ds) + 1, m < n
  PROVE  v.start[n] \in Nat /\ v.start[m + 1] <= v.start[n] /\ v.start[m] < v.start[n]
<1> DEFINE N == Len(ds)
           S == {k \in Nat : m + 1 + k <= N + 1 =>
                   v.start[m + 1 + k] \in Nat /\ v.start[m + 1] <= v.start[m + 1 + k]}
<1>1. N \in Nat /\ v.start[m + 1] \in Nat /\ v.start[m] \in Nat /\ v.start[m] < v.start[m + 1]
  BY EntryBounds
<1>2. 0 \in S
  BY <1>1
<1>3. ASSUME NEW k \in Nat, k \in S PROVE k + 1 \in S
  <2> SUFFICES ASSUME m + 1 + (k + 1) <= N + 1
               PROVE  /\ v.start[m + 1 + (k + 1)] \in Nat
                      /\ v.start[m + 1] <= v.start[m + 1 + (k + 1)]
    OBVIOUS
  <2> DEFINE j == m + 1 + k
  <2>1. j \in 1 .. N /\ m + 1 + (k + 1) = j + 1
    BY <1>1
  <2>2. v.start[j] \in Nat /\ v.start[m + 1] <= v.start[j]
    BY <1>1, <1>3, <2>1
  <2> HIDE DEF j
  <2>3. v.start[j + 1] \in Nat /\ v.start[j + 1] = v.start[j] + Extent(v, ds, j)
        /\ Extent(v, ds, j) \in Nat
    BY <2>1, EntryBounds
  <2>4. v.start[j + 1] \in Nat /\ v.start[m + 1] <= v.start[j + 1]
    BY <1>1, <2>2, <2>3
  <2> QED
    BY <2>1, <2>4
<1> DEFINE k == n - (m + 1)
<1>4. k \in Nat /\ m + 1 + k = n
  BY <1>1
<1> HIDE DEF S, N
<1>5. k \in S
  BY <1>2, <1>3, <1>4, Induction
<1> QED
  BY <1>1, <1>4, <1>5 DEF S, N

\* Every line of the transcript belongs to a frame.
LEMMA Located ==
  ASSUME NEW v, NEW T, NEW ds, Ledger(v, T, ds), NEW i \in 1 .. Len(T)
  PROVE  \E n \in 1 .. Len(ds) : \E j \in 0 .. Extent(v, ds, n) - 1 : i = v.start[n] + 1 + j
<1> DEFINE N == Len(ds)
           Found == \E n \in 1 .. N : \E j \in 0 .. Extent(v, ds, n) - 1 : i = v.start[n] + 1 + j
           S == {k \in Nat : i <= v.start[k + 1] => Found}
<1>1. N \in Nat /\ v.start[1] = 0 /\ v.start[N + 1] = Len(T) /\ Len(T) \in Nat
  BY DEF Ledger, IsSeq
<1>2. 0 \in S
  BY <1>1
<1>3. ASSUME NEW k \in 0 .. N - 1, k \in S PROVE k + 1 \in S
  <2> SUFFICES ASSUME i <= v.start[k + 1 + 1] PROVE Found
    OBVIOUS
  <2>1. k + 1 \in 1 .. N
    BY <1>1
  <2>2. v.start[k + 1] \in Nat /\ v.start[k + 1 + 1] = v.start[k + 1] + Extent(v, ds, k + 1)
        /\ Extent(v, ds, k + 1) \in Nat
    BY <2>1, EntryBounds
  <2>3. CASE i <= v.start[k + 1]
    BY <1>3, <2>3
  <2>4. CASE v.start[k + 1] < i
    <3> DEFINE j == i - v.start[k + 1] - 1
    <3>1. j \in 0 .. Extent(v, ds, k + 1) - 1 /\ i = v.start[k + 1] + 1 + j
      BY <1>1, <2>2, <2>4, SMTT(30)
    <3> QED
      BY <2>1, <3>1
  <2> QED
    BY <1>1, <2>2, <2>3, <2>4
<1> HIDE DEF S, Found
<1> HIDE DEF N
<1>4. \A k \in 0 .. N : k \in S
  BY <1>1, <1>2, <1>3, Induction
<1> QED
  BY <1>1, <1>4 DEF S, Found, N

\* Where frames begin and end.
LEMMA FrameKinds ==
  ASSUME NEW v, NEW T, NEW ds, Ledger(v, T, ds), NEW n \in 1 .. Len(ds),
         NEW j \in 0 .. Extent(v, ds, n) - 1, NEW i, i = v.start[n] + 1 + j
  PROVE  /\ i \in 1 .. Len(T)
         /\ T[i] = Left(ds[n], v.gen[n], n, v.hurt[n], v.rot[n], j)
         /\ T[i].kind = "BEGIN" <=> j = 0 /\ v.hurt[n] # 0
         /\ T[i].kind = "END" <=> j = Extent(v, ds, n) - 1 /\ v.hurt[n] # RamEnd(ds[n]) + 2
         /\ T[i].of = n
<1> DEFINE d == ds[n]
           r == v.hurt[n]
           rot == v.rot[n]
           L == Left(d, v.gen[n], n, r, rot, j)
<1>1. Entry(v, T, ds, n) /\ Sound(d) /\ Damaged(d, r, rot)
  BY EntryBounds DEF Ledger
<1>2. T[i] = L
  BY <1>1 DEF Entry
<1>3. j \in 0 .. Size(d, r, rot) - 1
  BY DEF Extent
<1>4. /\ L.kind = "BEGIN" <=> j = 0 /\ r # 0
      /\ L.kind = "END" <=> j = Size(d, r, rot) - 1 /\ r # RamEnd(d) + 2
      /\ L.of = n
  BY <1>1, <1>3, LeftKinds
<1>5. i \in 1 .. Len(T)
  <2>1. /\ v.start[n] \in Nat /\ v.start[n + 1] \in Nat /\ Extent(v, ds, n) \in Nat
        /\ v.start[n + 1] = v.start[n] + Extent(v, ds, n) /\ Len(ds) \in Nat
    BY EntryBounds
  <2>2. v.start[Len(ds) + 1] = Len(T) /\ Len(T) \in Nat
    BY DEF Ledger, IsSeq
  <2>3. v.start[n + 1] <= v.start[Len(ds) + 1]
    <3>1. n < Len(ds) + 1 /\ Len(ds) + 1 \in 1 .. Len(ds) + 1
      BY <2>1
    <3> QED
      BY <3>1, FramesInOrder
  <2>4. i <= v.start[n + 1] /\ i >= 1
    BY <2>1
  <2> QED
    BY <2>1, <2>2, <2>3, <2>4, SMTT(30)
<1>6. Extent(v, ds, n) = Size(d, r, rot)
  BY DEF Extent
<1> HIDE DEF L
<1> QED
  BY <1>2, <1>4, <1>5, <1>6 DEF L

-----------------------------------------------------------------------------
(***************************************************************************)
(* What is parsed from a transcript one line of which, at most, is damaged.*)
(***************************************************************************)
\* One frame at most is damaged.
Single(v, ds) ==
  \A m, n \in 1 .. Len(ds) : Whole(v, ds, m) \/ Whole(v, ds, n) \/ m = n

\* The damage of a frame, as its body shows it.
Seen(d, r) == IF r = RamEnd(d) + 3 THEN RamEnd(d) + 2 ELSE r

\* s is the parse of frame n.
ParseOf(s, v, ds, n) ==
  Parse(s, ds[n], v.gen[n], n, Seen(ds[n], v.hurt[n]), v.rot[n])

\* A set of numbers has its minimum.
LEMMA MinIsLeast ==
  ASSUME NEW S \in SUBSET Nat, S # {}
  PROVE  Min(S) \in S /\ \A k \in S : Min(S) <= k
<1>1. \E m \in S : \A k \in S : m <= k
  BY Least
<1> QED
  BY <1>1 DEF Min

\* What is left between BEGIN and END.
LEMMA LeftIsBody ==
  ASSUME NEW d, Sound(d), NEW gen, NEW n, NEW r, NEW rot, Damaged(d, r, rot),
         r \notin {0, RamEnd(d) + 2}, NEW body, Len(body) = Size(d, r, rot) - 2,
         \A i \in 1 .. Len(body) : body[i] = Left(d, gen, n, r, rot, i)
  PROVE  Damage(d, Seen(d, r), rot) /\ IsBody(body, d, gen, n, Seen(d, r), rot)
<1> DEFINE e == RamEnd(d)
           q == Seen(d, r)
           z == Size(d, r, rot)
<1>1. /\ e \in Nat /\ e > 0 /\ r \in Nat /\ r <= e + 3
      /\ rot \in BOOLEAN
      /\ rot => r \in 1 .. e
      /\ z \in Nat
      /\ rot => z = e + 3
      /\ ~ rot /\ r <= e + 2 => z = e + 2
      /\ r = e + 3 => z = e + 3 /\ ~ rot
  BY DamagedBounds
<1>2. q = IF r = e + 3 THEN e + 2 ELSE r
  BY DEF Seen
<1>3. r # e + 3 => Plain(d)
  BY DEF Damaged
<1>4. rot => InMemory(d, r)
  BY DEF Damaged
<1>5. \A i \in 1 .. e + 1 : Full(d, gen, n, i) = Line(d, gen, n, i)
  <2> TAKE i \in 1 .. e + 1
  <2>1. i # 0 /\ i # e + 2
    BY <1>1
  <2> QED
    BY <2>1 DEF Full
<1>6. r # 0 /\ r # e + 2 /\ Len(body) = z - 2
  OBVIOUS
<1>7. \A i \in 1 .. Len(body) :
        body[i] = IF rot /\ r = i THEN Rotted(Full(d, gen, n, i))
                  ELSE IF ~ rot /\ r <= i THEN Full(d, gen, n, i + 1)
                  ELSE Full(d, gen, n, i)
  BY DEF Left
<1> HIDE DEF e, q, z
<1>8. q \in 1 .. e + 2 /\ (q <= e + 1 => r # e + 3) /\ (rot => q = r)
  BY <1>1, <1>2, <1>6
<1>9. Damage(d, q, rot)
  BY <1>1, <1>3, <1>4, <1>8 DEF Damage, e
<1>10. Len(body) = IF rot \/ q = e + 2 THEN e + 1 ELSE e
  <2>1. CASE rot
    <3>1. z = e + 3
      BY <1>1, <2>1
    <3>2. Len(body) = e + 1
      BY <1>1, <1>6, <3>1
    <3> QED
      BY <2>1, <3>2
  <2>2. CASE ~ rot /\ r = e + 3
    BY <1>1, <1>2, <1>6, <2>2
  <2>3. CASE ~ rot /\ r # e + 3
    <3>1. r <= e + 2 /\ q = r /\ q # e + 2
      BY <1>1, <1>2, <1>6, <2>3
    <3> QED
      BY <1>1, <1>6, <2>3, <3>1
  <2> QED
    BY <1>1, <2>1, <2>2, <2>3
<1>11. ASSUME NEW i \in 1 .. Len(body)
       PROVE  body[i] = IF ~ rot /\ q <= i THEN Line(d, gen, n, i + 1)
                        ELSE IF rot /\ q = i THEN Rotted(Line(d, gen, n, i))
                        ELSE Line(d, gen, n, i)
  <2>1. i \in 1 .. e + 1
    BY <1>1, <1>10
  <2>2. Full(d, gen, n, i) = Line(d, gen, n, i)
    BY <1>5, <2>1
  <2>3. CASE rot
    BY <1>7, <1>8, <2>2, <2>3
  <2>4. CASE ~ rot /\ r <= i
    <3>1. r # e + 3 /\ q = r
      BY <1>1, <1>2, <2>1, <2>4
    <3>2. i + 1 \in 1 .. e + 1
      BY <1>1, <1>6, <1>10, <2>1, <2>4, <3>1
    <3>3. Full(d, gen, n, i + 1) = Line(d, gen, n, i + 1)
      BY <1>5, <3>2
    <3> QED
      BY <1>7, <2>4, <3>1, <3>3
  <2>5. CASE ~ rot /\ ~ (r <= i)
    <3>1. ~ (q <= i)
      BY <1>1, <1>2, <2>1, <2>5
    <3> QED
      BY <1>7, <2>2, <2>5, <3>1
  <2> QED
    BY <1>1, <2>3, <2>4, <2>5
<1>12. IsBody(body, d, gen, n, q, rot)
  BY <1>10, <1>11 DEF IsBody, e
<1> QED
  BY <1>9, <1>12 DEF q

\* After a frame that has lost its END, the next END is after the next BEGIN.
LEMMA EndLost ==
  ASSUME NEW v, NEW T, NEW ds, Ledger(v, T, ds), Single(v, ds), NEW n \in 1 .. Len(ds),
         v.hurt[n] = RamEnd(ds[n]) + 2,
         NEW k \in 1 .. Len(T), T[k].kind = "END", v.start[n] + 1 < k
  PROVE  \E i \in 1 .. Len(T) : v.start[n] + 1 < i /\ i < k /\ T[i].kind = "BEGIN"
<1>1. PICK m \in 1 .. Len(ds) : \E x \in 0 .. Extent(v, ds, m) - 1 : k = v.start[m] + 1 + x
  BY Located
<1> PICK x \in 0 .. Extent(v, ds, m) - 1 : k = v.start[m] + 1 + x
  BY <1>1
<1>2. x = Extent(v, ds, m) - 1 /\ v.hurt[m] # RamEnd(ds[m]) + 2
  BY FrameKinds
<1>3. /\ v.start[m] \in Nat /\ v.start[m + 1] = v.start[m] + Extent(v, ds, m)
      /\ Extent(v, ds, m) \in Nat /\ v.start[m + 1] \in Nat
  BY EntryBounds
<1>4. v.start[n] \in Nat /\ RamEnd(ds[n]) \in Nat /\ Len(ds) \in Nat /\ Len(T) \in Nat
  BY EntryBounds
<1>5. k = v.start[m + 1]
  BY <1>2, <1>3
<1>6. m # n
  BY <1>2
<1>7. ~ (m < n)
  <2> SUFFICES ASSUME m < n PROVE FALSE
    OBVIOUS
  <2>1. v.start[m + 1] <= v.start[n]
    BY FramesInOrder
  <2> QED
    <3>1. k <= v.start[n]
      BY <1>5, <2>1
    <3>2. k \in Nat
      BY <1>3, <1>5
    <3> QED
      BY <1>4, <3>1, <3>2
<1>8. n < m /\ n + 1 \in 1 .. Len(ds) /\ n # n + 1
  BY <1>4, <1>6, <1>7
<1> DEFINE j == n + 1
<1>9. v.hurt[j] = RamEnd(ds[j]) + 3
  <2>1. v.hurt[n] # RamEnd(ds[n]) + 3
    BY <1>4
  <2> QED
    BY <1>8, <2>1 DEF Single, Whole
<1>10. /\ RamEnd(ds[j]) \in Nat /\ Extent(v, ds, j) \in Nat
       /\ Extent(v, ds, j) >= RamEnd(ds[j]) + 2
       /\ v.start[j] \in Nat /\ v.start[j + 1] \in Nat
       /\ v.start[j + 1] = v.start[j] + Extent(v, ds, j)
  BY <1>8, EntryBounds
<1>11. v.start[n] < v.start[j]
  BY <1>8, FramesInOrder
<1>12. v.start[j + 1] <= k
  <2>1. CASE m = j
    BY <2>1, <1>3, <1>5, <1>10
  <2>2. CASE m # j
    <3>1. j < m
      BY <1>8, <2>2
    <3>2. v.start[j + 1] <= v.start[m]
      BY <1>8, <3>1, FramesInOrder
    <3>3. v.start[m] <= k
      <4> HIDE DEF j
      <4> QED
        BY <1>3, <1>5
    <3> DEFINE q == v.start[j + 1]
               y == v.start[m]
    <3>4. q \in Nat /\ y \in Nat /\ k \in Nat /\ q <= y /\ y <= k
      BY <1>3, <1>5, <1>10, <3>2, <3>3
    <3> HIDE DEF q, y
    <3>5. q <= k
      BY <3>4
    <3> QED
      BY <3>5 DEF q
  <2> QED
    BY <2>1, <2>2
<1> HIDE DEF j
<1>13. 0 \in 0 .. Extent(v, ds, j) - 1 /\ v.hurt[j] # 0
  BY <1>9, <1>10
<1> DEFINE i == v.start[j] + 1
<1>14. i = v.start[j] + 1 + 0
  BY <1>10
<1>15. T[i].kind = "BEGIN" /\ i \in 1 .. Len(T)
  <2> HIDE DEF i
  <2>1. j \in 1 .. Len(ds)
    BY <1>8 DEF j
  <2> QED
    BY <1>13, <1>14, <2>1, FrameKinds
<1>16. v.start[n] + 1 < i /\ i < k
  <2> DEFINE p == v.start[j]
             q == v.start[j + 1]
             z == Extent(v, ds, j)
             y == v.start[n]
  <2>1. p \in Nat /\ q \in Nat /\ z \in Nat /\ y \in Nat /\ z >= 2 /\ k \in Nat
    BY <1>4, <1>10, <1>3, <1>5
  <2>2. q = p + z /\ y < p /\ q <= k
    BY <1>10, <1>11, <1>12
  <2> HIDE DEF p, q, z, y
  <2>3. y + 1 < p + 1 /\ p + 1 < k
    BY <2>1, <2>2
  <2> QED
    BY <2>3 DEF p, y
<1> QED
  BY <1>15, <1>16

\* Reading lines changes the fields of a snapshot, not which fields it has.
LEMMA ParsedFields ==
  ASSUME NEW body, Len(body) \in Nat
  PROVE  DOMAIN Parsed(body)[Len(body)] = Fields
<1> DEFINE p == Parsed(body)
           S == {k \in Nat : k <= Len(body) => DOMAIN p[k] = Fields}
<1>1. p[0] = ParsedSnapshot /\ \A k \in 1 .. Len(body) : p[k] = ReadLine(p[k - 1], body[k])
  BY ParsedReads
<1> HIDE DEF p
<1>2. \A s, line : DOMAIN ReadLine(s, line) = DOMAIN s
  BY DEF ReadLine, ReadHeader, ReadSector
<1>3. 0 \in S
  BY <1>1 DEF ParsedSnapshot, Fields
<1>4. ASSUME NEW k \in Nat, k \in S PROVE k + 1 \in S
  <2> SUFFICES ASSUME k + 1 <= Len(body) PROVE DOMAIN p[k + 1] = Fields
    OBVIOUS
  <2>1. k <= Len(body) /\ k + 1 \in 1 .. Len(body) /\ k + 1 - 1 = k
    OBVIOUS
  <2> QED
    BY <1>1, <1>2, <1>4, <2>1
<1> HIDE DEF S
<1> DEFINE n == Len(body)
<1> HIDE DEF n
<1>5. n \in Nat
  BY DEF n
<1>6. \A k \in 0 .. n : k \in S
  BY <1>3, <1>4, <1>5, Induction
<1>7. n \in S
  BY <1>5, <1>6
<1> QED
  BY <1>7 DEF S, p, n

\* A frame that has kept its BEGIN and its END is parsed; one that has lost
\* its END is not terminated, because the next frame has kept its BEGIN.
LEMMA FrameParsed ==
  ASSUME NEW v, Ledger(v, transcript, dumps), Single(v, dumps),
         NEW n \in 1 .. Len(dumps), v.hurt[n] # 0,
         NEW s, s = ParseFrom(v.start[n] + 1)
  PROVE  /\ v.hurt[n] # RamEnd(dumps[n]) + 2 => s.terminated /\ ParseOf(s, v, dumps, n)
         /\ v.hurt[n] = RamEnd(dumps[n]) + 2 => ~ s.terminated
<1> DEFINE T == transcript
           b == v.start[n] + 1
           d == dumps[n]
           r == v.hurt[n]
           rot == v.rot[n]
           e == RamEnd(d)
           z == Extent(v, dumps, n)
           stops == {i \in b + 1 .. Len(T) : T[i].kind \in {"BEGIN", "END"}}
           stop == Min(stops \cup {Len(T) + 1})
           body == SubSeq(T, b + 1, stop - 1)
           ended == stop \in stops /\ T[stop].kind = "END"
<1>1. s = [Parsed(body)[Len(body)] EXCEPT !.terminated = ended]
  BY DEF ParseFrom
<1>2. /\ Sound(d) /\ Damaged(d, r, rot) /\ v.start[n] \in Nat /\ r \in Nat
      /\ e \in Nat /\ e > 0 /\ z \in Nat /\ z >= e + 2
      /\ v.start[n + 1] \in Nat /\ v.start[n + 1] = v.start[n] + z
      /\ Len(T) \in Nat /\ Len(dumps) \in Nat
  BY EntryBounds
<1>3. b \in Nat /\ b >= 1
  BY <1>2, SMTT(30)
<1>4. /\ stop \in stops \cup {Len(T) + 1} /\ stop \in Nat
      /\ \A k \in stops \cup {Len(T) + 1} : stop <= k
  <2>1. stops \cup {Len(T) + 1} \in SUBSET Nat /\ stops \cup {Len(T) + 1} # {}
    <3> HIDE DEF b, T
    <3> QED
      BY <1>2, <1>3
  <2> HIDE DEF stops
  <2> QED
    BY <2>1, MinIsLeast
<1>9. /\ DOMAIN s = Fields /\ s.terminated = ended
       /\ \A f \in Fields \ {"terminated"} : s[f] = Parsed(body)[Len(body)][f]
  <2>1. Len(body) \in Nat
    <3>1. b + 1 \in Int /\ stop - 1 \in Int
      <4>1. stop \in Nat
        BY <1>4
      <4> HIDE DEF stop, b
      <4> QED
        BY <1>3, <4>1
    <3> HIDE DEF stop, b
    <3> QED
      BY <3>1, Part
  <2> HIDE DEF body, ended
  <2>2. DOMAIN Parsed(body)[Len(body)] = Fields
    BY <2>1, ParsedFields
  <2> QED
    BY <1>1, <2>2 DEF Fields
<1>5. ASSUME r # e + 2
      PROVE  stop = b + z - 1 /\ ended
  <2>1. \A j \in 0 .. z - 1 :
          /\ v.start[n] + 1 + j \in 1 .. Len(T)
          /\ T[v.start[n] + 1 + j].kind = "BEGIN" <=> j = 0 /\ r # 0
          /\ T[v.start[n] + 1 + j].kind = "END" <=> j = z - 1 /\ r # e + 2
    BY FrameKinds
  <2> HIDE DEF z, e, r
  <2>2. b + z - 1 \in stops /\ T[b + z - 1].kind = "END"
    <3>1. z - 1 \in 0 .. z - 1 /\ v.start[n] + 1 + (z - 1) = b + z - 1
      BY <1>2
    <3>2. T[b + z - 1].kind = "END" /\ b + z - 1 \in 1 .. Len(T)
      BY <1>5, <2>1, <3>1
    <3> QED
      BY <1>2, <3>2, SMTT(30)
  <2>3. ASSUME NEW i \in b + 1 .. b + z - 2 PROVE i \notin stops
    <3> DEFINE j == i - b
    <3>1. j \in 0 .. z - 1 /\ j # 0 /\ j # z - 1 /\ b + j = i
      <4> HIDE DEF b, stops, stop, body
      <4>1. b \in Nat /\ z \in Nat /\ i \in Int /\ b + 1 <= i /\ i <= b + z - 2
        BY <1>2, <1>3, <2>3
      <4> QED
        BY <4>1
    <3> HIDE DEF j
    <3>2. T[i].kind # "BEGIN" /\ T[i].kind # "END"
      BY <2>1, <3>1
    <3> QED
      BY <3>2
  <2> HIDE DEF b
  <2>4. stop <= b + z - 1 /\ stop \in stops
    <3>1. b + z - 1 <= Len(T) /\ stop <= b + z - 1
      BY <1>2, <1>3, <1>4, <2>2
    <3> HIDE DEF stop
    <3> QED
      BY <1>2, <1>3, <1>4, <3>1
  <2>5. stop \in b + 1 .. b + z - 1 /\ ~ (stop \in b + 1 .. b + z - 2)
    <3>1. stop \in b + 1 .. Len(T)
      BY <2>4
    <3> HIDE DEF stop, stops
    <3> QED
      BY <1>2, <1>3, <2>3, <2>4, <3>1
  <2>6. stop = b + z - 1
    <3> HIDE DEF stop, stops
    <3> QED
      BY <1>2, <1>3, <2>5
  <2> QED
    BY <2>2, <2>6
<1>6. r # e + 2 => s.terminated /\ ParseOf(s, v, dumps, n)
  <2> SUFFICES ASSUME r # e + 2 PROVE s.terminated /\ ParseOf(s, v, dumps, n)
    OBVIOUS
  <2>1. stop = b + z - 1 /\ ended
    BY <1>5
  <2> DEFINE gen == v.gen[n]
  <2>2. Len(body) = z - 2 /\ \A i \in 1 .. z - 2 : body[i] = T[b + i]
    <3> HIDE DEF stop, z, b
    <3>1. b + 1 \in Int /\ stop - 1 \in Int /\ b + 1 <= stop - 1 /\ stop - 1 - (b + 1) + 1 = z - 2
      BY <1>2, <1>3, <2>1
    <3>2. /\ Len(body) = IF b + 1 <= stop - 1 THEN stop - 1 - (b + 1) + 1 ELSE 0
          /\ \A i \in 1 .. stop - 1 - (b + 1) + 1 : body[i] = T[b + 1 + i - 1]
      BY <3>1, Part
    <3> HIDE DEF body
    <3>3. \A i \in 1 .. z - 2 : b + 1 + i - 1 = b + i
      BY <1>2, <1>3
    <3> QED
      BY <3>1, <3>2, <3>3
  <2>3. \A i \in 1 .. z - 2 : body[i] = Left(d, gen, n, r, rot, i)
    <3> TAKE i \in 1 .. z - 2
    <3>1. i \in 0 .. Extent(v, dumps, n) - 1 /\ b + i = v.start[n] + 1 + i
      BY <1>2
    <3>2. T[b + i] = Left(d, gen, n, r, rot, i)
      BY <3>1, FrameKinds
    <3> QED
      BY <2>2, <3>2
  <2>4. Len(body) = Size(d, r, rot) - 2
    BY <2>2 DEF Extent
  <2>5. r \notin {0, RamEnd(d) + 2}
    OBVIOUS
  <2>6. \A i \in 1 .. Len(body) : body[i] = Left(d, gen, n, r, rot, i)
    BY <2>2, <2>3
  <2> HIDE DEF body, gen, r, rot, d, z, e
  <2>7. Damage(d, Seen(d, r), rot) /\ IsBody(body, d, gen, n, Seen(d, r), rot)
    BY <1>2, <2>4, <2>5, <2>6, LeftIsBody
  <2>8. Parse(s, d, gen, n, Seen(d, r), rot)
    BY <1>2, <1>9, <2>7, BodyParsed
  <2> QED
    BY <1>9, <2>1, <2>8 DEF ParseOf, d, r, rot, gen
<1>7. r = e + 2 => ~ ended
  <2> SUFFICES ASSUME r = e + 2, stop \in stops, T[stop].kind = "END" PROVE FALSE
    OBVIOUS
  <2>1. stop \in 1 .. Len(T) /\ v.start[n] + 1 < stop
    <3>1. stop \in b + 1 .. Len(T)
      OBVIOUS
    <3> HIDE DEF stop, stops
    <3> QED
      BY <1>2, <1>3, <3>1, SMTT(30)
  <2> HIDE DEF stop
  <2>2. PICK i \in 1 .. Len(T) : v.start[n] + 1 < i /\ i < stop /\ T[i].kind = "BEGIN"
    BY <2>1, EndLost
  <2>3. i \in stops
    BY <1>2, <2>2, SMTT(30)
  <2>4. stop <= i
    BY <1>4, <2>3
  <2> QED
    BY <1>4, <2>1, <2>2, <2>4
<1> QED
  BY <1>9, <1>6, <1>7

-----------------------------------------------------------------------------
(***************************************************************************)
(* Which frame is mounted.                                                 *)
(***************************************************************************)
\* Of i and j, the frame at i is mounted: its generation is higher, or it is
\* the later one of the same generation.
Beats(frames, i, j) ==
  \/ frames[j].gen < frames[i].gen
  \/ frames[j].gen = frames[i].gen /\ j <= i

\* If there are candidates, one of them beats all.
LEMMA SelectIsLatest ==
  ASSUME NEW frames, NEW l \in Nat, Candidates(frames) \subseteq 1 .. l,
         Candidates(frames) # {}, \A i \in Candidates(frames) : frames[i].gen \in Nat
  PROVE  /\ Select(frames) \in Candidates(frames)
         /\ \A j \in Candidates(frames) : Beats(frames, Select(frames), j)
<1> DEFINE C == Candidates(frames)
           Best(k) == \E i \in C : i <= k /\ \A j \in C : j <= k => Beats(frames, i, j)
           S == {k \in Nat : (\E i \in C : i <= k) => Best(k)}
<1> HIDE DEF C
<1>1. C \subseteq 1 .. l /\ C # {} /\ \A i \in C : frames[i].gen \in Nat
  BY DEF C
<1>2. 0 \in S
  BY <1>1
<1>3. ASSUME NEW k \in Nat, k \in S PROVE k + 1 \in S
  <2> SUFFICES ASSUME \E i \in C : i <= k + 1 PROVE Best(k + 1)
    OBVIOUS
  <2>1. CASE k + 1 \notin C
    <3>1. \A i \in C : i <= k + 1 <=> i <= k
      BY <1>1, <2>1
    <3>2. Best(k)
      BY <1>3, <3>1
    <3> QED
      BY <3>1, <3>2
  <2>2. CASE k + 1 \in C /\ ~ \E i \in C : i <= k
    <3>1. ASSUME NEW j \in C, j <= k + 1 PROVE j = k + 1
      <4>1. ~ (j <= k) /\ j \in Nat
        BY <1>1, <2>2
      <4> QED
        BY <3>1, <4>1
    <3>2. Beats(frames, k + 1, k + 1)
      BY DEF Beats
    <3> QED
      BY <2>2, <3>1, <3>2
  <2>3. CASE k + 1 \in C /\ \E i \in C : i <= k
    <3>1. PICK i \in C : i <= k /\ \A j \in C : j <= k => Beats(frames, i, j)
      BY <1>3, <2>3
    <3> DEFINE m == k + 1
    <3>2. /\ frames[i].gen \in Nat /\ frames[m].gen \in Nat /\ i \in Nat
          /\ m \in Nat /\ i < m /\ \A j \in C : j <= m => j <= k \/ j = m
      BY <1>1, <2>3, <3>1
    <3>3. m \in C
      BY <2>3
    <3> HIDE DEF m
    <3>4. CASE frames[m].gen < frames[i].gen
      <4>1. Beats(frames, i, m)
        BY <3>4 DEF Beats
      <4>2. i <= m /\ \A j \in C : j <= m => Beats(frames, i, j)
        BY <3>1, <3>2, <4>1
      <4> QED
        BY <4>2 DEF m
    <3>5. CASE frames[i].gen <= frames[m].gen
      <4>1. ASSUME NEW j \in C, j <= k PROVE Beats(frames, m, j)
        <5>1. Beats(frames, i, j) /\ frames[j].gen \in Nat /\ j \in Nat
          BY <1>1, <3>1, <4>1
        <5>2. frames[j].gen <= frames[i].gen
          BY <3>2, <5>1 DEF Beats
        <5>3. j <= m
          BY <3>2, <4>1, <5>1 DEF m
        <5> QED
          BY <3>2, <3>5, <5>1, <5>2, <5>3 DEF Beats
      <4>2. Beats(frames, m, m)
        BY <3>2 DEF Beats
      <4>3. m <= m /\ \A j \in C : j <= m => Beats(frames, m, j)
        BY <3>2, <4>1, <4>2
      <4> QED
        BY <3>3, <4>3 DEF m
    <3> QED
      <4>1. frames[m].gen < frames[i].gen \/ frames[i].gen <= frames[m].gen
        BY <3>2
      <4> QED
        BY <3>4, <3>5, <4>1
  <2> QED
    BY <2>1, <2>2, <2>3
<1> HIDE DEF S
<1>4. \A k \in 0 .. l : k \in S
  BY <1>2, <1>3, Induction
<1>5. Best(l)
  <2>1. l \in S
    BY <1>4
  <2> QED
    <3>1. PICK i \in C : TRUE
      BY <1>1
    <3>2. i <= l
      BY <1>1
    <3> QED
      BY <2>1, <3>2 DEF S
<1>6. \E i \in C : \A j \in C : Beats(frames, i, j)
  BY <1>1, <1>5
<1>7. Select(frames) = CHOOSE i \in C : \A j \in C : Beats(frames, i, j)
  BY DEF Select, Beats, C
<1> QED
  BY <1>6, <1>7 DEF C

\* A frame that can be mounted is one that was dumped, as far as it is left.
LEMMA CandidatesWereDumped ==
  ASSUME NEW v, Ledger(v, transcript, dumps), Single(v, dumps), NEW f \in Candidates(Frames)
  PROVE  /\ f \in 1 .. Len(transcript)
         /\ \E n \in 1 .. Len(dumps) :
              /\ f = v.start[n] + 1 /\ Frames[f].regs = n
              /\ ParseOf(Frames[f], v, dumps, n)
<1>1. /\ f \in DOMAIN transcript /\ transcript[f].kind = "BEGIN" /\ Frames[f] = ParseFrom(f)
      /\ Frames[f].terminated /\ Frames[f].regs # 0
  BY DEF Candidates, Frames
<1>2. f \in 1 .. Len(transcript)
  BY <1>1, SeqOfOwn DEF Ledger
<1>3. PICK n \in 1 .. Len(dumps) :
        \E j \in 0 .. Extent(v, dumps, n) - 1 : f = v.start[n] + 1 + j
  BY <1>2, Located
<1> PICK j \in 0 .. Extent(v, dumps, n) - 1 : f = v.start[n] + 1 + j
  BY <1>3
<1>4. j = 0 /\ v.hurt[n] # 0
  BY <1>1, FrameKinds
<1>5. f = v.start[n] + 1
  BY <1>4, EntryBounds
<1>6. ParseOf(Frames[f], v, dumps, n)
  BY <1>1, <1>4, <1>5, FrameParsed
<1>7. Frames[f].regs \in {0, n}
  BY <1>6 DEF ParseOf, Parse, Headers
<1> QED
  BY <1>1, <1>2, <1>5, <1>6, <1>7

\* A frame that is whole can be mounted.
LEMMA WholeFramesAreCandidates ==
  ASSUME NEW v, Ledger(v, transcript, dumps), Single(v, dumps), NEW n \in 1 .. Len(dumps),
         Whole(v, dumps, n), NEW f, f = v.start[n] + 1
  PROVE  /\ f \in Candidates(Frames) /\ ParseOf(Frames[f], v, dumps, n)
         /\ Frames[f].gen = v.gen[n]
<1>1. /\ Sound(dumps[n]) /\ RamEnd(dumps[n]) \in Nat /\ v.start[n] \in Nat
      /\ Extent(v, dumps, n) \in Nat /\ Extent(v, dumps, n) >= RamEnd(dumps[n]) + 2
  BY EntryBounds
<1>2. v.hurt[n] # 0 /\ v.hurt[n] # RamEnd(dumps[n]) + 2
      /\ Seen(dumps[n], v.hurt[n]) = RamEnd(dumps[n]) + 2
  BY <1>1 DEF Whole, Seen
<1>3. f \in 1 .. Len(transcript) /\ transcript[f].kind = "BEGIN"
  <2>1. 0 \in 0 .. Extent(v, dumps, n) - 1 /\ f = v.start[n] + 1 + 0
    BY <1>1
  <2> QED
    BY <1>2, <2>1, FrameKinds
<1>4. f \in DOMAIN transcript
  BY <1>3, SeqOfOwn DEF Ledger
<1>5. f \in DOMAIN Frames /\ Frames[f] = ParseFrom(f)
  BY <1>3, <1>4 DEF Frames
<1>6. Frames[f].terminated /\ ParseOf(Frames[f], v, dumps, n)
  BY <1>2, <1>5, FrameParsed
<1>7. Frames[f].regs = n /\ Frames[f].gen = v.gen[n]
  BY <1>2, <1>6, RestoreExact DEF ParseOf
<1>8. n # 0
  BY <1>1, EntryBounds
<1> QED
  BY <1>5, <1>6, <1>7, <1>8 DEF Candidates

\* The mounted frame is one that was dumped; when nothing was lost, and the
\* generations never went down, it is the last one.
LEMMA MountsADump ==
  ASSUME NEW v, Ledger(v, transcript, dumps), Single(v, dumps), Candidates(Frames) # {},
         NEW s, s = Frames[Select(Frames)]
  PROVE  \E n \in 1 .. Len(dumps) :
           /\ s.regs = n /\ ParseOf(s, v, dumps, n)
           /\ /\ \A m \in 1 .. Len(dumps) : Whole(v, dumps, m)
              /\ \A m \in 1 .. Len(dumps) : v.gen[m] <= v.gen[Len(dumps)]
              => n = Len(dumps)
<1> DEFINE C == Candidates(Frames)
           f == Select(Frames)
           N == Len(dumps)
<1>1. Len(transcript) \in Nat /\ N \in Nat
  BY DEF Ledger, IsSeq
<1>2. \A i \in C : i \in 1 .. Len(transcript)
  BY CandidatesWereDumped
<1>3. ASSUME NEW i \in C PROVE Frames[i].gen \in Nat
  <2>1. PICK n \in 1 .. Len(dumps) : ParseOf(Frames[i], v, dumps, n)
    BY CandidatesWereDumped
  <2>2. Frames[i].gen \in {0, v.gen[n]}
    BY <2>1 DEF ParseOf, Parse, Headers
  <2> QED
    BY <2>2, EntryBounds
<1>4. f \in C /\ \A j \in C : Beats(Frames, f, j)
  BY <1>1, <1>2, <1>3, SelectIsLatest
<1> HIDE DEF f
<1>5. PICK n \in 1 .. N : f = v.start[n] + 1 /\ Frames[f].regs = n /\ ParseOf(Frames[f], v, dumps, n)
  BY <1>4, CandidatesWereDumped
<1>6. s = Frames[f]
  BY DEF f
<1>7. ASSUME \A m \in 1 .. N : Whole(v, dumps, m), \A m \in 1 .. N : v.gen[m] <= v.gen[N]
      PROVE  n = N
  <2>1. N \in 1 .. N
    BY <1>1
  <2> DEFINE g == v.start[N] + 1
  <2>2. g \in C /\ Frames[g].gen = v.gen[N]
    BY <1>7, <2>1, WholeFramesAreCandidates
  <2>3. Frames[f].gen = v.gen[n]
    BY <1>5, <1>7, WholeFramesAreCandidates
  <2>4. v.gen[n] <= v.gen[N] /\ v.gen[n] \in Nat /\ v.gen[N] \in Nat
    BY <1>7, <2>1, EntryBounds
  <2>5. Beats(Frames, f, g)
    BY <1>4, <2>2
  <2>6. g <= f
    BY <2>2, <2>3, <2>4, <2>5 DEF Beats
  <2>7. ~ (n < N)
    <3> SUFFICES ASSUME n < N PROVE FALSE
      OBVIOUS
    <3>1. v.start[n] < v.start[N] /\ v.start[N] \in Nat /\ v.start[n] \in Nat
      BY <2>1, FramesInOrder, EntryBounds
    <3> QED
      BY <1>5, <2>6, <3>1
  <2> QED
    BY <1>1, <2>7
<1> QED
  BY <1>5, <1>6, <1>7

-----------------------------------------------------------------------------
(***************************************************************************)
(* The inductive invariant.                                                *)
(***************************************************************************)
\* The promises of a mount are about a conversation that loses or mangles one
\* line, and about prompts that no line of which reads like a line of a frame.
OneLoss ==
  /\ \A p \in Prompt : p.lines \in Seq(Kind \ Markers)
  /\ MaxDamage # 0 => MaxDamage = 1 /\ \A p \in Prompt : p.lines \in Seq({"TEXT"})

\* The ledger of this transcript.  As long as nothing is lost, no frame has a
\* lower generation than one before it, or than the next one will have.
History(v) ==
  /\ Ledger(v, transcript, dumps) /\ Single(v, dumps)
  /\ damaged = {n \in 1 .. Len(dumps) : ~ Whole(v, dumps, n)}
  /\ damaged = {} =>
       /\ \A m, n \in 1 .. Len(dumps) : m < n => v.gen[m] <= v.gen[n]
       /\ \A n \in 1 .. Len(dumps) : v.gen[n] <= generation + 1

\* What holds of the machine and of the counters.
Running ==
  /\ generation \in Nat /\ losses \in Nat /\ Sound(device)
  /\ losses = 0 => damaged = {}
  /\ losses < MaxDamage =>
       Plain(device) /\ \A n \in 1 .. Len(dumps) : Plain(dumps[n])

\* What is to be proved.
Promises ==
  /\ CleanMountIsExact
  /\ IntactTranscriptMountsNewest
  /\ RestoredSectorsAreTrue
  /\ LossesAreNamed
  /\ MountKeepsOneSlot

\* The inductive invariant: a ledger can be kept.
IInv == Running /\ (\E v : History(v)) /\ Promises

\* The machines that the host holds can be dumped.
LEMMA DevicesAreSound ==
  ASSUME OneLoss, NEW d \in Device
  PROVE  Sound(d) /\ (MaxDamage # 0 => Plain(d))
<1>1. /\ d.state \in {"READY", "RUNNING", "TRAPPED", "HALTED", "FAULT"}
      /\ d.pending \in Request \cup {None} /\ d.async_pending \in Request \cup {None}
      /\ d.irq \in {0, 1} /\ d.used \in {1} /\ d.memory \in Image
      /\ OneSlot(d)
      /\ d = [state |-> d.state, pending |-> d.pending, async_pending |-> d.async_pending,
              irq |-> d.irq, used |-> d.used, memory |-> d.memory]
  BY DEF Device
<1>2. Request \subseteq Asking
  <2>1. \A p \in Prompt : p \in [lines : Seq(Kind \ Markers), ends : Ends]
    <3>1. \A p \in Prompt : /\ p = [lines |-> p.lines, ends |-> p.ends]
                            /\ p.ends \in Ends
      BY PromptAssumption
    <3> QED
      BY <3>1 DEF OneLoss
  <2> QED
    BY <2>1 DEF Request, Asking
<1>3. d.memory \in [rom : [Sector -> Content], ram : [Sector -> Content], exec : BOOLEAN]
  BY <1>1, ImageAssumption
<1>4. d \in Machine
  BY <1>1, <1>2, <1>3 DEF Machine
<1>5. ASSUME MaxDamage # 0, Asks(d) PROVE Sent(d).prompt.lines \in Seq({"TEXT"})
  <2>1. Sent(d) \in Request
    BY <1>1, <1>5 DEF Asks, Sent
  <2>2. Sent(d).prompt \in Prompt
    BY <2>1 DEF Request
  <2> QED
    BY <1>5, <2>2 DEF OneLoss
<1> QED
  BY <1>1, <1>4, <1>5 DEF Sound, Plain

\* Before anything was dumped.
LEMMA InitInv ==
  ASSUME OneLoss, Init
  PROVE  IInv
<1> DEFINE v == [gen |-> <<>>, hurt |-> <<>>, rot |-> <<>>, start |-> [n \in {1} |-> 0]]
<1>1. Sound(device) /\ (MaxDamage # 0 => Plain(device))
  BY DevicesAreSound DEF Init
<1>2. Len(dumps) = 0 /\ IsSeq(dumps) /\ IsSeq(transcript) /\ Len(transcript) = 0
  BY Empty DEF Init
<1>3. v.start[1] = 0 /\ v.start[Len(dumps) + 1] = Len(transcript)
  BY <1>2
<1> HIDE DEF v
<1>4. 1 .. Len(dumps) = {}
  BY <1>2
<1>5. History(v)
  BY <1>2, <1>3, <1>4 DEF History, Ledger, Single, Init
<1>6. Running
  BY <1>1, <1>4, BoundsAssumption DEF Running, Init
<1>7. Promises
  BY DEF Promises, Init, Mounted, CleanMountIsExact, IntactTranscriptMountsNewest,
         RestoredSectorsAreTrue, LossesAreNamed, MountKeepsOneSlot
<1> QED
  BY <1>5, <1>6, <1>7 DEF IInv

\* Nothing is promised of a state in which nothing was mounted.
LEMMA NothingMounted ==
  ASSUME mounted' = None
  PROVE  Promises'
  BY DEF Promises, Mounted, CleanMountIsExact, IntactTranscriptMountsNewest,
         RestoredSectorsAreTrue, LossesAreNamed, MountKeepsOneSlot

-----------------------------------------------------------------------------
(***************************************************************************)
(* Every step preserves it.                                                *)
(***************************************************************************)
\* Nothing of the history changed.
LEMMA HistoryKept ==
  ASSUME NEW v, History(v), UNCHANGED <<generation, transcript, dumps, damaged>>
  PROVE  History(v)'
  BY DEF History

\* A step of the guest, which leaves the transcript alone.
LEMMA StepInv ==
  ASSUME OneLoss, IInv, Step
  PROVE  IInv'
<1>1. Running'
  <2>1. Sound(device') /\ (MaxDamage # 0 => Plain(device'))
    BY DevicesAreSound DEF Step
  <2>2. /\ generation' = generation /\ losses' = losses /\ dumps' = dumps
        /\ damaged' = damaged
    BY DEF Step
  <2>3. losses < MaxDamage => MaxDamage # 0
    BY BoundsAssumption DEF IInv, Running
  <2> QED
    BY <2>1, <2>2, <2>3 DEF IInv, Running
<1>2. PICK v : History(v)
  BY DEF IInv
<1>3. History(v)'
  BY <1>2, HistoryKept DEF Step
<1>4. Promises'
  BY NothingMounted DEF Step
<1> QED
  BY <1>1, <1>3, <1>4 DEF IInv

\* A mount keeps what it promises.
LEMMA MountInv ==
  ASSUME OneLoss, IInv, Mount
  PROVE  IInv'
<1>1. PICK v : History(v)
  BY DEF IInv
<1> DEFINE s == Frames[Select(Frames)]
           N == Len(dumps)
<1>2. /\ Candidates(Frames) # {} /\ mounted' = Report(s) /\ device' = Restore(s)
      /\ generation' = s.gen
      /\ transcript' = transcript /\ dumps' = dumps /\ damaged' = damaged /\ losses' = losses
  BY DEF Mount
<1> HIDE DEF s
<1>3. Ledger(v, transcript, dumps) /\ Single(v, dumps)
  BY <1>1 DEF History
<1>4. PICK n \in 1 .. N :
        /\ s.regs = n /\ ParseOf(s, v, dumps, n)
        /\ /\ \A m \in 1 .. N : Whole(v, dumps, m)
           /\ \A m \in 1 .. N : v.gen[m] <= v.gen[N]
           => n = N
  BY <1>2, <1>3, MountsADump DEF s
<1> DEFINE d == dumps[n]
           q == Seen(d, v.hurt[n])
           P == Parse(s, d, v.gen[n], n, q, v.rot[n])
<1>5. P
  BY <1>4 DEF ParseOf
<1>6. /\ Sound(d) /\ v.gen[n] \in Nat /\ RamEnd(d) \in Nat /\ N \in Nat
      /\ \A m \in 1 .. N : v.gen[m] \in Nat
  BY <1>3, EntryBounds
<1>7. /\ mounted'.device = Restore(s) /\ mounted'.of = n /\ mounted'.bad = Report(s).bad
      /\ mounted'.mapped = Report(s).mapped /\ mounted'.clean = Report(s).clean
      /\ dumps'[mounted'.of] = d
  BY <1>2, <1>4, ReportReads
<1>8. ASSUME damaged = {}
      PROVE  /\ n = N /\ Report(s).bad = {} /\ Restore(s) = Rejoined(d)
             /\ Report(s).clean <=> Rejoined(d) = d
             /\ \A m \in 1 .. N : v.gen[m] <= s.gen
  <2>1. \A m \in 1 .. N : Whole(v, dumps, m)
    BY <1>1, <1>8 DEF History
  <2>2. ASSUME NEW m \in 1 .. N PROVE v.gen[m] <= v.gen[N]
    <3>1. m = N \/ m < N
      BY <1>6
    <3>2. N \in 1 .. N
      BY <1>6
    <3> QED
      BY <1>1, <1>6, <1>8, <3>1, <3>2 DEF History
  <2>3. n = N
    BY <1>4, <2>1, <2>2
  <2>4. q = RamEnd(d) + 2
    BY <2>1 DEF Whole, Seen
  <2> HIDE DEF d, q
  <2>5. Report(s).bad = {} /\ (Report(s).clean <=> Rejoined(d) = d)
    BY <1>5, <2>4, WholeIsClean
  <2>6. Restore(s) = Rejoined(d) /\ s.gen = v.gen[n]
    BY <1>5, <2>4, RestoreExact
  <2> QED
    BY <2>2, <2>3, <2>5, <2>6
<1>9. s.gen \in Nat
  <2>1. s.gen \in {0, v.gen[n]}
    BY <1>5 DEF Parse, Headers
  <2> QED
    BY <1>6, <2>1
<1>10. Sound(Restore(s))
  BY <1>5, RestoreSound
<1>11. Running'
  <2>1. ASSUME losses < MaxDamage
        PROVE  Plain(device') /\ \A m \in 1 .. Len(dumps') : Plain(dumps'[m])
    <3>1. losses = 0 /\ damaged = {}
      BY <2>1, BoundsAssumption DEF OneLoss, IInv, Running
    <3>2. device' = Rejoined(d)
      BY <1>2, <1>8, <3>1
    <3>3. Plain(d)
      BY <2>1 DEF IInv, Running
    <3> HIDE DEF d, q
    <3>4. Plain(device')
      BY <1>6, <3>2, <3>3, EndsTell
    <3> QED
      BY <1>2, <2>1, <3>4 DEF IInv, Running
  <2>2. generation' \in Nat /\ losses' \in Nat /\ Sound(device') /\ (losses' = 0 => damaged' = {})
    BY <1>2, <1>9, <1>10 DEF IInv, Running
  <2> QED
    BY <1>2, <2>1, <2>2 DEF Running
<1>12. History(v)'
  <2>1. Ledger(v, transcript, dumps)' /\ Single(v, dumps)'
    BY <1>2, <1>3
  <2>2. damaged' = {m \in 1 .. Len(dumps') : ~ Whole(v, dumps', m)}
    BY <1>1, <1>2 DEF History
  <2>3. ASSUME damaged' = {}
        PROVE  /\ \A i, j \in 1 .. Len(dumps') : i < j => v.gen[i] <= v.gen[j]
               /\ \A i \in 1 .. Len(dumps') : v.gen[i] <= generation' + 1
    <3>1. \A i, j \in 1 .. N : i < j => v.gen[i] <= v.gen[j]
      BY <1>1, <1>2, <2>3 DEF History
    <3>2. \A i \in 1 .. N : v.gen[i] <= s.gen
      BY <1>2, <1>8, <2>3
    <3>3. \A i \in 1 .. N : v.gen[i] <= s.gen + 1
      BY <1>6, <1>9, <3>2
    <3> QED
      BY <1>2, <3>1, <3>3
  <2> QED
    BY <2>1, <2>2, <2>3 DEF History
<1>13. CleanMountIsExact'
  <2>1. ASSUME Report(s).clean PROVE Restore(s) = d
    <3>1. q = RamEnd(d) + 2
      BY <1>5, <2>1, DamageIsNoticed
    <3> HIDE DEF d, q
    <3>2. Restore(s) = Rejoined(d) /\ Rejoined(d) = d
      BY <1>5, <2>1, <3>1, RestoreExact, WholeIsClean
    <3> QED
      BY <3>2
  <2> QED
    BY <1>7, <2>1 DEF CleanMountIsExact
<1>14. IntactTranscriptMountsNewest'
  BY <1>2, <1>7, <1>8 DEF IntactTranscriptMountsNewest
<1>15. RestoredSectorsAreTrue'
  <2>1. \A space \in {"rom", "ram"}, a \in Sector :
          Restore(s).memory[space][a] \in {0, d.memory[space][a]}
    <3> HIDE DEF d, q
    <3> QED
      BY <1>5, SectorsAccounted
  <2> QED
    BY <1>7, <2>1 DEF RestoredSectorsAreTrue
<1>16. LossesAreNamed'
  <2>1. \A space \in {"rom", "ram"}, a \in Sector :
          Restore(s).memory[space][a] = 0 /\ d.memory[space][a] # 0 /\ space \in Report(s).mapped
            => <<space, a>> \in Report(s).bad
    <3> HIDE DEF d, q
    <3> QED
      BY <1>5, SectorsAccounted
  <2>2. ASSUME NEW x \in {"rom", "ram"} \X Sector,
               d.memory[x[1]][x[2]] # 0, Restore(s).memory[x[1]][x[2]] = 0,
               x \notin Report(s).bad
        PROVE  x[1] \notin Report(s).mapped
    <3>1. x[1] \in {"rom", "ram"} /\ x[2] \in Sector /\ x = <<x[1], x[2]>>
      OBVIOUS
    <3> HIDE DEF d
    <3> QED
      BY <2>1, <2>2, <3>1
  <2>3. \A x \in Unreported' : x \in {"rom", "ram"} \X Sector /\ d.memory[x[1]][x[2]] # 0
          /\ Restore(s).memory[x[1]][x[2]] = 0 /\ x \notin Report(s).bad
    BY <1>7 DEF Unreported
  <2> HIDE DEF d
  <2>4. \A x \in Unreported' : x[1] \notin mounted'.mapped
    BY <1>7, <2>2, <2>3
  <2> QED
    BY <2>4 DEF LossesAreNamed
<1>17. MountKeepsOneSlot'
  BY <1>7, <1>10 DEF MountKeepsOneSlot, Sound
<1> QED
  BY <1>11, <1>12, <1>13, <1>14, <1>15, <1>16, <1>17 DEF IInv, Promises

\* An entry whose lines moved, all by as much.
Moved(v, T, ds, n, w, U, es) ==
  /\ es[n] = ds[n] /\ w.gen[n] = v.gen[n] /\ w.hurt[n] = v.hurt[n] /\ w.rot[n] = v.rot[n]
  /\ w.start[n] \in Nat /\ w.start[n + 1] = w.start[n] + Extent(v, ds, n)
  /\ \A i \in 0 .. Extent(v, ds, n) - 1 : U[w.start[n] + 1 + i] = T[v.start[n] + 1 + i]

\* It is still an entry.
LEMMA EntryMoves ==
  ASSUME NEW v, NEW T, NEW ds, NEW n, Entry(v, T, ds, n),
         NEW w, NEW U, NEW es, Moved(v, T, ds, n, w, U, es)
  PROVE  Entry(w, U, es, n)
<1>1. Extent(w, es, n) = Extent(v, ds, n)
  BY DEF Extent, Moved
<1> QED
  BY <1>1 DEF Entry, Moved

\* The ledger with one more entry, of a whole frame.
Grown(v, T, ds, d, gen) ==
  LET n == Len(ds) + 1
  IN [gen |-> [k \in Nat |-> IF k = n THEN gen ELSE v.gen[k]],
      hurt |-> [k \in Nat |-> IF k = n THEN RamEnd(d) + 3 ELSE v.hurt[k]],
      rot |-> [k \in Nat |-> IF k = n THEN FALSE ELSE v.rot[k]],
      start |-> [k \in Nat |-> IF k = n + 1 THEN Len(T) + RamEnd(d) + 3 ELSE v.start[k]]]

\* One more frame at the end of the transcript is one more entry.
LEMMA LedgerGrows ==
  ASSUME NEW v, NEW T, NEW ds, Ledger(v, T, ds), NEW d, Sound(d), NEW gen \in Nat,
         NEW n, n = Len(ds) + 1, NEW w, w = Grown(v, T, ds, d, gen)
  PROVE  /\ Ledger(w, T \o Frame(d, gen, n), Append(ds, d))
         /\ Len(Append(ds, d)) = n /\ w.gen[n] = gen /\ Whole(w, Append(ds, d), n)
         /\ \A k \in 1 .. Len(ds) :
              /\ w.gen[k] = v.gen[k]
              /\ Whole(w, Append(ds, d), k) <=> Whole(v, ds, k)
              /\ Append(ds, d)[k] = ds[k]
<1> DEFINE F == Frame(d, gen, n)
           U == T \o F
           es == Append(ds, d)
           e == RamEnd(d)
           N == Len(ds)
<1>1. /\ IsSeq(T) /\ IsSeq(ds) /\ v.start[1] = 0 /\ v.start[N + 1] = Len(T)
      /\ \A k \in 1 .. N : Entry(v, T, ds, k)
      /\ N \in Nat /\ Len(T) \in Nat
  BY DEF Ledger, IsSeq
<1>2. /\ IsSeq(F) /\ Len(F) = e + 3
      /\ \A t \in 0 .. e + 2 : F[t + 1] = Full(d, gen, n, t)
  BY FrameWritten
<1>3. e \in Nat
  BY Order
<1>4. n \in Nat /\ n >= 1
  BY <1>1
<1>5. /\ \A k \in Nat : w.gen[k] = IF k = n THEN gen ELSE v.gen[k]
      /\ \A k \in Nat : w.hurt[k] = IF k = n THEN e + 3 ELSE v.hurt[k]
      /\ \A k \in Nat : w.rot[k] = IF k = n THEN FALSE ELSE v.rot[k]
      /\ \A k \in Nat : w.start[k] = IF k = n + 1 THEN Len(T) + e + 3 ELSE v.start[k]
  BY DEF Grown
<1> HIDE DEF F, e
<1>6. /\ IsSeq(U) /\ Len(U) = Len(T) + e + 3
      /\ \A i \in 1 .. Len(T) : U[i] = T[i]
      /\ \A i \in 1 .. e + 3 : U[Len(T) + i] = F[i]
  <2>1. /\ IsSeq(Chained(T, F)) /\ Len(Chained(T, F)) = Len(T) + Len(F)
        /\ \A i \in 1 .. Len(T) : Chained(T, F)[i] = T[i]
        /\ \A i \in 1 .. Len(F) : Chained(T, F)[Len(T) + i] = F[i]
    <3>1. IsSeq(T) /\ IsSeq(F)
      BY <1>1, <1>2
    <3> QED
      BY <3>1, Concat
  <2>2. Chained(T, F) = U
    BY DEF Chained
  <2> HIDE DEF U
  <2>3. Len(T) + Len(F) = Len(T) + e + 3
    BY <1>1, <1>2, <1>3
  <2> QED
    BY <1>2, <2>1, <2>2, <2>3
<1>7. /\ IsSeq(es) /\ Len(es) = n /\ es[n] = d
      /\ \A i \in 1 .. N : es[i] = ds[i]
  BY <1>1, Appended
<1> HIDE DEF U, es
<1>8. ASSUME NEW k \in 1 .. N PROVE Entry(w, U, es, k)
  <2>1. /\ Entry(v, T, ds, k) /\ v.start[k] \in Nat /\ Extent(v, ds, k) \in Nat
        /\ v.start[k + 1] = v.start[k] + Extent(v, ds, k)
    BY <1>1, EntryBounds
  <2>2. k \in Nat /\ k + 1 \in Nat /\ k # n /\ k # n + 1 /\ k + 1 # n + 1
    BY <1>1, <1>4
  <2>3. /\ w.gen[k] = v.gen[k] /\ w.hurt[k] = v.hurt[k] /\ w.rot[k] = v.rot[k]
        /\ w.start[k] = v.start[k] /\ w.start[k + 1] = v.start[k + 1]
    BY <1>5, <2>2
  <2>4. ASSUME NEW i \in 0 .. Extent(v, ds, k) - 1
        PROVE  U[w.start[k] + 1 + i] = T[v.start[k] + 1 + i]
    <3> DEFINE j == v.start[k] + 1 + i
    <3>1. j \in 1 .. Len(T)
      BY FrameKinds
    <3> QED
      BY <1>6, <2>3, <3>1
  <2> QED
    <3>1. Entry(v, T, ds, k) /\ es[k] = ds[k]
      BY <1>7, <2>1
    <3>2. w.start[k] \in Nat /\ w.start[k + 1] = w.start[k] + Extent(v, ds, k)
      BY <2>1, <2>3
    <3>3. Moved(v, T, ds, k, w, U, es)
      BY <2>3, <2>4, <3>1, <3>2 DEF Moved
    <3> QED
      BY <3>1, <3>3, EntryMoves
<1>9. Entry(w, U, es, n)
  <2>1. n + 1 \in Nat /\ n # n + 1 /\ v.start[n] = Len(T)
    BY <1>1, <1>4
  <2>2. /\ w.gen[n] = gen /\ w.hurt[n] = e + 3 /\ w.rot[n] = FALSE
        /\ w.start[n] = Len(T) /\ w.start[n + 1] = Len(T) + e + 3
    BY <1>4, <1>5, <2>1
  <2>3. Extent(w, es, n) = e + 3
    BY <1>7, <2>2 DEF Extent, Size, e
  <2>4. Damaged(d, e + 3, FALSE)
    BY <1>3 DEF Damaged, e
  <2>5. ASSUME NEW i \in 0 .. e + 2
        PROVE  U[Len(T) + 1 + i] = Left(d, gen, n, e + 3, FALSE, i)
    <3>1. Left(d, gen, n, e + 3, FALSE, i) = Full(d, gen, n, i)
      <4>1. ~ (e + 3 <= i)
        BY <1>3
      <4> QED
        BY <4>1 DEF Left
    <3>2. i + 1 \in 1 .. e + 3 /\ Len(T) + (i + 1) = Len(T) + 1 + i
      BY <1>1, <1>3
    <3>3. U[Len(T) + (i + 1)] = F[i + 1] /\ F[i + 1] = Full(d, gen, n, i)
      BY <1>2, <1>6, <3>2
    <3> QED
      BY <3>1, <3>2, <3>3
  <2>6. /\ w.start[n] \in Nat /\ w.start[n + 1] = w.start[n] + Extent(w, es, n)
        /\ Extent(w, es, n) - 1 = e + 2
    BY <1>1, <1>3, <2>2, <2>3, SMTT(30)
  <2>7. \A i \in 0 .. Extent(w, es, n) - 1 :
          U[w.start[n] + 1 + i] = Left(es[n], w.gen[n], n, w.hurt[n], w.rot[n], i)
    BY <1>7, <2>2, <2>5, <2>6
  <2> QED
    BY <1>7, <2>2, <2>4, <2>6, <2>7 DEF Entry
<1>10. w.start[1] = 0 /\ w.start[n + 1] = Len(U)
  <2>1. n + 1 \in Nat /\ 1 \in Nat /\ 1 # n + 1
    BY <1>4
  <2> QED
    BY <1>1, <1>5, <1>6, <2>1
<1>11. Ledger(w, U, es)
  <2>1. \A k \in 1 .. n : k \in 1 .. N \/ k = n
    BY <1>1
  <2> QED
    BY <1>6, <1>7, <1>8, <1>9, <1>10, <2>1 DEF Ledger
<1>12. /\ w.gen[n] = gen /\ Whole(w, es, n)
       /\ \A k \in 1 .. N : /\ w.gen[k] = v.gen[k]
                            /\ Whole(w, es, k) <=> Whole(v, ds, k)
  <2>1. \A k \in 1 .. N : k \in Nat /\ k # n
    BY <1>1
  <2> QED
    BY <1>4, <1>5, <1>7, <2>1 DEF Whole, e
<1> QED
  BY <1>7, <1>11, <1>12 DEF U, es, F

\* A dump adds a whole frame.
LEMMA DumpInv ==
  ASSUME OneLoss, IInv, Dump
  PROVE  IInv'
<1>1. PICK v : History(v)
  BY DEF IInv
<1> DEFINE gen == generation + 1
           N == Len(dumps)
           n == N + 1
<1> PICK w : w = Grown(v, transcript, dumps, device, gen)
  OBVIOUS
<1>2. /\ transcript' = transcript \o Frame(device, gen, n) /\ dumps' = Append(dumps, device)
      /\ device' = device /\ generation' = generation /\ damaged' = damaged
      /\ losses' = losses /\ mounted' = None
  BY DEF Dump
<1>3. /\ generation \in Nat /\ Sound(device) /\ Ledger(v, transcript, dumps)
      /\ Single(v, dumps) /\ gen \in Nat
  BY <1>1 DEF IInv, Running, History
<1>4. N \in Nat
  BY <1>3 DEF Ledger, IsSeq
<1>5. /\ Ledger(w, transcript', dumps')
      /\ n = Len(dumps') /\ w.gen[n] = gen /\ Whole(w, dumps', n)
      /\ \A k \in 1 .. N : /\ w.gen[k] = v.gen[k]
                           /\ Whole(w, dumps', k) <=> Whole(v, dumps, k)
                           /\ dumps'[k] = dumps[k]
  <2> DEFINE T == transcript
             d == device
             U == T \o Frame(d, gen, n)
             es == Append(dumps, d)
  <2>1. Ledger(v, T, dumps) /\ Sound(d) /\ gen \in Nat
    BY <1>3
  <2>2. w = Grown(v, T, dumps, d, gen) /\ n = Len(dumps) + 1
    OBVIOUS
  <2> HIDE DEF n, gen, T, d
  <2>3. /\ Ledger(w, U, es)
        /\ Len(es) = n /\ w.gen[n] = gen /\ Whole(w, es, n)
        /\ \A k \in 1 .. Len(dumps) :
             /\ w.gen[k] = v.gen[k]
             /\ Whole(w, es, k) <=> Whole(v, dumps, k)
             /\ es[k] = dumps[k]
    BY <2>1, <2>2, LedgerGrows
  <2>4. transcript' = U /\ dumps' = es
    BY <1>2 DEF T, d
  <2> QED
    BY <2>3, <2>4
<1>6. dumps'[n] = device
  BY <1>2, <1>3, Appended DEF Ledger
<1>7. \A k \in 1 .. n : k \in 1 .. N \/ k = n
  BY <1>4
<1>8. Running'
  <2>1. losses < MaxDamage => Plain(device) /\ \A k \in 1 .. N : Plain(dumps[k])
    BY DEF IInv, Running
  <2>2. losses < MaxDamage => \A k \in 1 .. n : Plain(dumps'[k])
    BY <1>5, <1>6, <1>7, <2>1
  <2> QED
    BY <1>2, <1>5, <2>1, <2>2 DEF IInv, Running
<1>9. History(w)'
  <2>1. Single(w, dumps')
    BY <1>3, <1>5, <1>7 DEF Single
  <2>2. damaged' = {k \in 1 .. n : ~ Whole(w, dumps', k)}
    <3>1. damaged = {k \in 1 .. N : ~ Whole(v, dumps, k)}
      BY <1>1 DEF History
    <3>2. \A k \in 1 .. N : k \in 1 .. n
      BY <1>4
    <3> QED
      BY <1>2, <1>5, <1>7, <3>1, <3>2
  <2>3. ASSUME damaged' = {}
        PROVE  /\ \A i, j \in 1 .. n : i < j => w.gen[i] <= w.gen[j]
               /\ \A i \in 1 .. n : w.gen[i] <= generation' + 1
    <3>1. /\ \A i, j \in 1 .. N : i < j => v.gen[i] <= v.gen[j]
          /\ \A i \in 1 .. N : v.gen[i] <= gen
      BY <1>1, <1>2, <2>3 DEF History
    <3>2. \A i \in 1 .. n : w.gen[i] <= gen
      BY <1>3, <1>5, <1>7, <3>1
    <3>3. ASSUME NEW i \in 1 .. n, NEW j \in 1 .. n, i < j PROVE w.gen[i] <= w.gen[j]
      <4>1. i \in 1 .. N
        BY <1>4, <3>3
      <4>2. CASE j = n
        BY <1>5, <3>2, <4>2
      <4>3. CASE j # n
        <5>1. j \in 1 .. N
          BY <1>7, <4>3
        <5> QED
          BY <1>5, <3>1, <3>3, <4>1, <5>1
      <4> QED
        BY <4>2, <4>3
    <3> QED
      BY <1>2, <3>2, <3>3
  <2> QED
    <3>1. damaged' = {k \in 1 .. Len(dumps') : ~ Whole(w, dumps', k)}
      BY <1>5, <2>2
    <3>2. damaged' = {} =>
            /\ \A i, j \in 1 .. Len(dumps') : i < j => w.gen[i] <= w.gen[j]
            /\ \A i \in 1 .. Len(dumps') : w.gen[i] <= generation' + 1
      BY <1>5, <2>3
    <3> QED
      BY <1>5, <2>1, <3>1, <3>2 DEF History
<1>10. Promises'
  BY <1>2, NothingMounted
<1> QED
  BY <1>8, <1>9, <1>10 DEF IInv

\* What a concatenation is.
IsJoin(u, a, b) ==
  /\ IsSeq(u) /\ Len(u) = Len(a) + Len(b)
  /\ \A k \in 1 .. Len(a) : u[k] = a[k]
  /\ \A k \in 1 .. Len(b) : u[Len(a) + k] = b[k]

\* The elements of a concatenation, by its name.
LEMMA JoinedParts ==
  ASSUME NEW a, IsSeq(a), NEW b, IsSeq(b)
  PROVE  IsJoin(Chained(a, b), a, b)
<1>1. /\ IsSeq(Chained(a, b)) /\ Len(Chained(a, b)) = Len(a) + Len(b)
      /\ \A k \in 1 .. Len(a) : Chained(a, b)[k] = a[k]
      /\ \A k \in 1 .. Len(b) : Chained(a, b)[Len(a) + k] = b[k]
  BY Concat
<1> QED
  BY <1>1 DEF IsJoin

\* A sequence without one of its elements.
LEMMA Removed ==
  ASSUME NEW T, IsSeq(T), NEW i \in 1 .. Len(T), NEW U, U = RemoveAt(T, i)
  PROVE  /\ IsSeq(U) /\ Len(U) = Len(T) - 1
         /\ \A k \in 1 .. Len(T) - 1 : U[k] = IF k < i THEN T[k] ELSE T[k + 1]
<1> DEFINE l == Len(T)
<1> PICK front : front = SubSeq(T, 1, i - 1)
  OBVIOUS
<1> PICK rest : rest = SubSeq(T, i + 1, l)
  OBVIOUS
<1>1. l \in Nat /\ i \in Nat /\ i >= 1 /\ i <= l
  BY DEF IsSeq
<1>2. /\ IsSeq(front) /\ Len(front) = (IF 1 <= i - 1 THEN i - 1 - 1 + 1 ELSE 0)
      /\ \A k \in 1 .. i - 1 - 1 + 1 : front[k] = T[1 + k - 1]
  BY <1>1, Part
<1>3. /\ IsSeq(rest) /\ Len(rest) = (IF i + 1 <= l THEN l - (i + 1) + 1 ELSE 0)
      /\ \A k \in 1 .. l - (i + 1) + 1 : rest[k] = T[i + 1 + k - 1]
  <2> HIDE DEF l
  <2> QED
    BY <1>1, Part
<1>4. U = Chained(front, rest)
  BY DEF RemoveAt, Chained
<1> HIDE DEF l
<1>5. Len(front) = i - 1 /\ \A k \in 1 .. i - 1 : front[k] = T[k]
  BY <1>1, <1>2
<1>6. Len(rest) = l - i /\ \A k \in 1 .. l - i : rest[k] = T[i + k]
  BY <1>1, <1>3
<1>7. /\ IsSeq(U) /\ Len(U) = Len(front) + Len(rest)
      /\ \A k \in 1 .. Len(front) : U[k] = front[k]
      /\ \A k \in 1 .. Len(rest) : U[Len(front) + k] = rest[k]
  <2>1. IsSeq(front) /\ IsSeq(rest)
    BY <1>2, <1>3
  <2> QED
    <3>1. IsJoin(U, front, rest)
      BY <1>4, <2>1, JoinedParts
    <3> QED
      BY <3>1 DEF IsJoin
<1>8. ASSUME NEW k \in 1 .. l - 1 PROVE U[k] = IF k < i THEN T[k] ELSE T[k + 1]
  <2>1. CASE k < i
    <3>1. k \in 1 .. i - 1
      BY <1>1, <2>1
    <3> QED
      BY <1>5, <1>7, <2>1, <3>1
  <2>2. CASE ~ (k < i)
    <3> DEFINE x == k - (i - 1)
    <3>1. x \in 1 .. l - i /\ i - 1 + x = k /\ i + x = k + 1
      BY <1>1, <2>2
    <3> HIDE DEF x
    <3>2. x \in 1 .. Len(rest) /\ Len(front) = i - 1
      BY <1>5, <1>6, <3>1
    <3>3. U[i - 1 + x] = rest[x] /\ rest[x] = T[i + x]
      BY <1>6, <1>7, <3>1, <3>2
    <3> QED
      BY <2>2, <3>1, <3>3
  <2> QED
    BY <2>1, <2>2
<1>9. Len(U) = l - 1
  BY <1>1, <1>5, <1>6, <1>7
<1> QED
  BY <1>7, <1>8, <1>9 DEF l

\* The ledger when line j of frame n, which was whole, is lost.
Lost(v, n, j) ==
  [gen |-> v.gen, rot |-> v.rot,
   hurt |-> [k \in Nat |-> IF k = n THEN j ELSE v.hurt[k]],
   start |-> [k \in Nat |-> IF k <= n THEN v.start[k] ELSE v.start[k] - 1]]

\* The ledger accounts for a transcript that lost a line.
LEMMA LedgerLoses ==
  ASSUME NEW v, NEW T, NEW ds, Ledger(v, T, ds), NEW n \in 1 .. Len(ds),
         Whole(v, ds, n), Plain(ds[n]), NEW j \in 0 .. Extent(v, ds, n) - 1,
         NEW i, i = v.start[n] + 1 + j, NEW U, U = RemoveAt(T, i),
         NEW w, w = Lost(v, n, j)
  PROVE  /\ Ledger(w, U, ds) /\ ~ Whole(w, ds, n)
         /\ \A k \in 1 .. Len(ds) \ {n} : Whole(w, ds, k) <=> Whole(v, ds, k)
<1> DEFINE d == ds[n]
           e == RamEnd(d)
           N == Len(ds)
<1>1. /\ IsSeq(T) /\ IsSeq(ds) /\ v.start[1] = 0 /\ v.start[N + 1] = Len(T)
      /\ \A k \in 1 .. N : Entry(v, T, ds, k)
      /\ N \in Nat /\ Len(T) \in Nat
  BY DEF Ledger, IsSeq
<1>2. /\ Sound(d) /\ Damaged(d, v.hurt[n], v.rot[n]) /\ v.hurt[n] = e + 3
      /\ e \in Nat /\ v.start[n] \in Nat
      /\ v.start[n + 1] = v.start[n] + Extent(v, ds, n)
  BY EntryBounds DEF Whole
<1>3. Extent(v, ds, n) = e + 3 /\ v.rot[n] = FALSE
  BY <1>2, DamagedBounds DEF Extent
<1>4. j \in 0 .. e + 2 /\ j \in Nat /\ j <= e + 2
  BY <1>2, <1>3
<1>5. i \in 1 .. Len(T)
  BY FrameKinds
<1>6. /\ IsSeq(U) /\ Len(U) = Len(T) - 1
      /\ \A k \in 1 .. Len(T) - 1 : U[k] = IF k < i THEN T[k] ELSE T[k + 1]
  BY <1>1, <1>5, Removed
<1>7. /\ w.gen = v.gen /\ w.rot = v.rot
      /\ \A k \in Nat : w.hurt[k] = IF k = n THEN j ELSE v.hurt[k]
      /\ \A k \in Nat : w.start[k] = IF k <= n THEN v.start[k] ELSE v.start[k] - 1
  BY DEF Lost
<1> HIDE DEF d, e
<1>8. n \in Nat /\ n >= 1 /\ n + 1 \in Nat /\ ~ (n + 1 <= n)
  BY <1>1
<1>9. ASSUME NEW k \in 1 .. N, k < n PROVE Entry(w, U, ds, k)
  <2>1. /\ Entry(v, T, ds, k) /\ v.start[k] \in Nat /\ Extent(v, ds, k) \in Nat
        /\ v.start[k + 1] = v.start[k] + Extent(v, ds, k)
    BY <1>1, EntryBounds
  <2>2. k \in Nat /\ k + 1 \in Nat /\ k # n /\ k <= n /\ k + 1 <= n
    BY <1>8, <1>9
  <2>3. /\ w.gen[k] = v.gen[k] /\ w.hurt[k] = v.hurt[k] /\ w.rot[k] = v.rot[k]
        /\ w.start[k] = v.start[k] /\ w.start[k + 1] = v.start[k + 1]
    BY <1>7, <2>2
  <2>4. v.start[k + 1] <= v.start[n]
    BY <1>9, FramesInOrder
  <2>5. ASSUME NEW x \in 0 .. Extent(v, ds, k) - 1
        PROVE  U[w.start[k] + 1 + x] = T[v.start[k] + 1 + x]
    <3> DEFINE y == v.start[k] + 1 + x
    <3>1. y \in 1 .. Len(T) /\ y < i /\ i <= Len(T)
      <4> DEFINE p == v.start[k]
                 q == v.start[n]
                 z == Extent(v, ds, k)
      <4>1. p \in Nat /\ q \in Nat /\ z \in Nat /\ p + z <= q /\ x \in 0 .. z - 1
        BY <1>2, <2>1, <2>4
      <4>2. y = p + 1 + x /\ i = q + 1 + j
        OBVIOUS
      <4>3. y \in 1 .. Len(T)
        BY FrameKinds
      <4> HIDE DEF p, q, z, y
      <4>4. y < i
        BY <1>4, <4>1, <4>2
      <4> QED
        BY <1>1, <1>5, <4>3, <4>4
    <3>2. y \in 1 .. Len(T) - 1 /\ w.start[k] + 1 + x = y
      <4>1. w.start[k] + 1 + x = y
        BY <2>3
      <4> HIDE DEF y
      <4> QED
        BY <1>1, <3>1, <4>1
    <3> HIDE DEF y
    <3>3. U[y] = T[y]
      BY <1>6, <3>1, <3>2
    <3> QED
      BY <3>2, <3>3 DEF y
  <2>6. w.start[k] \in Nat /\ w.start[k + 1] = w.start[k] + Extent(v, ds, k)
    BY <2>1, <2>3
  <2>7. Moved(v, T, ds, k, w, U, ds)
    BY <2>3, <2>5, <2>6 DEF Moved
  <2> QED
    BY <2>1, <2>7, EntryMoves
<1>10. ASSUME NEW k \in 1 .. N, n < k PROVE Entry(w, U, ds, k)
  <2>1. /\ Entry(v, T, ds, k) /\ v.start[k] \in Nat /\ Extent(v, ds, k) \in Nat
        /\ v.start[k + 1] = v.start[k] + Extent(v, ds, k)
    BY <1>1, EntryBounds
  <2>2. k \in Nat /\ k + 1 \in Nat /\ k # n /\ ~ (k <= n) /\ ~ (k + 1 <= n)
    BY <1>8, <1>10
  <2>3. /\ w.gen[k] = v.gen[k] /\ w.hurt[k] = v.hurt[k] /\ w.rot[k] = v.rot[k]
        /\ w.start[k] = v.start[k] - 1 /\ w.start[k + 1] = v.start[k + 1] - 1
    BY <1>7, <2>2
  <2>4. v.start[n + 1] <= v.start[k]
    BY <1>10, FramesInOrder
  <2>5. i <= v.start[k] /\ i \in Nat /\ i >= 1
    <3> DEFINE p == v.start[n]
               q == v.start[k]
    <3>1. p \in Nat /\ q \in Nat /\ p + (e + 3) <= q /\ i = p + 1 + j
      BY <1>2, <1>3, <2>1, <2>4
    <3> HIDE DEF p, q
    <3>2. i <= q /\ i \in Nat /\ i >= 1
      BY <1>2, <1>4, <3>1
    <3> QED
      BY <3>2 DEF q
  <2>6. ASSUME NEW x \in 0 .. Extent(v, ds, k) - 1
        PROVE  U[w.start[k] + 1 + x] = T[v.start[k] + 1 + x]
    <3> DEFINE p == v.start[k]
               y == p - 1 + 1 + x
    <3>1. p + 1 + x \in 1 .. Len(T)
      BY FrameKinds
    <3>2. p \in Nat /\ x \in Nat /\ i <= p /\ w.start[k] = p - 1
      BY <2>1, <2>3, <2>5
    <3> HIDE DEF p
    <3>3. y \in 1 .. Len(T) - 1 /\ ~ (y < i) /\ y + 1 = p + 1 + x
      BY <1>1, <2>5, <3>1, <3>2
    <3> HIDE DEF y
    <3>4. U[y] = T[y + 1]
      BY <1>6, <3>3
    <3> QED
      BY <3>2, <3>3, <3>4 DEF y, p
  <2>7. w.start[k] \in Nat /\ w.start[k + 1] = w.start[k] + Extent(v, ds, k)
    <3> DEFINE q == v.start[k]
               z == Extent(v, ds, k)
    <3>1. q \in Nat /\ z \in Nat /\ i <= q /\ v.start[k + 1] = q + z
      BY <2>1, <2>5
    <3>2. w.start[k] = q - 1 /\ w.start[k + 1] = q + z - 1
      BY <2>3, <3>1, SMTT(30)
    <3> HIDE DEF q, z
    <3>3. q - 1 \in Nat /\ q + z - 1 = q - 1 + z
      BY <2>5, <3>1
    <3> QED
      BY <3>2, <3>3 DEF z
  <2>8. Moved(v, T, ds, k, w, U, ds)
    BY <2>3, <2>6, <2>7 DEF Moved
  <2> QED
    BY <2>1, <2>8, EntryMoves
<1>11. Entry(w, U, ds, n)
  <2>1. /\ w.gen[n] = v.gen[n] /\ w.hurt[n] = j /\ w.rot[n] = FALSE
        /\ w.start[n] = v.start[n] /\ w.start[n + 1] = v.start[n + 1] - 1
    BY <1>3, <1>7, <1>8
  <2>2. j # e + 3
    BY <1>2, <1>4
  <2>3. Damaged(d, j, FALSE)
    BY <1>2, <1>4 DEF Damaged, d, e
  <2>4. Extent(w, ds, n) = e + 2
    BY <2>1, <2>2 DEF Extent, Size, d, e
  <2>5. w.start[n + 1] = w.start[n] + Extent(w, ds, n) /\ Extent(w, ds, n) - 1 = e + 1
    BY <1>2, <1>3, <2>1, <2>4, SMTT(30)
  <2> DEFINE gen == v.gen[n]
             p == v.start[n]
  <2>6. \A x \in 0 .. e + 2 : T[p + 1 + x] = Full(d, gen, n, x)
    <3> TAKE x \in 0 .. e + 2
    <3>1. x \in 0 .. Extent(v, ds, n) - 1
      BY <1>2, <1>3
    <3>2. T[p + 1 + x] = Left(d, gen, n, v.hurt[n], v.rot[n], x)
      BY <3>1, FrameKinds DEF d
    <3>3. ~ (e + 3 <= x)
      BY <1>2
    <3> QED
      BY <1>2, <1>3, <3>2, <3>3 DEF Left
  <2>7. \A x \in 0 .. e + 2 : p + 1 + x \in 1 .. Len(T)
    <3> TAKE x \in 0 .. e + 2
    <3>1. x \in 0 .. Extent(v, ds, n) - 1
      BY <1>2, <1>3
    <3> QED
      BY <3>1, FrameKinds
  <2>8. i = p + 1 + j /\ p \in Nat
    BY <1>2
  <2> HIDE DEF p, gen
  <2>9. ASSUME NEW x \in 0 .. e + 1
        PROVE  U[p + 1 + x] = Left(d, gen, n, j, FALSE, x)
    <3>1. /\ x \in 0 .. e + 2 /\ x + 1 \in 0 .. e + 2 /\ x \in Nat
          /\ p + 1 + (x + 1) = p + 1 + x + 1
      BY <1>2, <2>8
    <3> DEFINE y == p + 1 + x
    <3>2. y + 1 \in 1 .. Len(T) /\ y \in Nat /\ y >= 1
      BY <2>7, <2>8, <3>1
    <3>3. y < i <=> x < j
      BY <1>4, <2>8, <3>1
    <3>4. T[y] = Full(d, gen, n, x) /\ T[y + 1] = Full(d, gen, n, x + 1)
      BY <2>6, <3>1
    <3> HIDE DEF y
    <3>5. y \in 1 .. Len(T) - 1
      BY <1>1, <3>2
    <3>6. U[y] = IF y < i THEN T[y] ELSE T[y + 1]
      BY <1>6, <3>5
    <3>7. x < j <=> ~ (j <= x)
      BY <1>4, <3>1
    <3>8. Left(d, gen, n, j, FALSE, x) =
            IF j <= x THEN Full(d, gen, n, x + 1) ELSE Full(d, gen, n, x)
      BY DEF Left
    <3> QED
      BY <3>3, <3>4, <3>6, <3>7, <3>8 DEF y
  <2>10. \A x \in 0 .. Extent(w, ds, n) - 1 :
           U[w.start[n] + 1 + x] = Left(ds[n], w.gen[n], n, w.hurt[n], w.rot[n], x)
    BY <2>1, <2>5, <2>9 DEF p, gen, d
  <2>11. v.gen[n] \in Nat
    BY EntryBounds
  <2> QED
    BY <1>2, <2>1, <2>3, <2>5, <2>10, <2>11 DEF Entry, d
<1>12. w.start[1] = 0 /\ w.start[N + 1] = Len(U)
  <2>1. N + 1 \in Nat /\ ~ (N + 1 <= n) /\ 1 \in Nat /\ 1 <= n
    BY <1>1, <1>8
  <2> QED
    BY <1>1, <1>6, <1>7, <2>1
<1>13. Ledger(w, U, ds)
  <2>1. \A k \in 1 .. N : k < n \/ k = n \/ n < k
    BY <1>1
  <2> QED
    BY <1>1, <1>6, <1>9, <1>10, <1>11, <1>12, <2>1 DEF Ledger
<1>14. ~ Whole(w, ds, n)
  BY <1>2, <1>4, <1>7, <1>8 DEF Whole, d, e
<1>15. \A k \in 1 .. N \ {n} : Whole(w, ds, k) <=> Whole(v, ds, k)
  <2>1. \A k \in 1 .. N \ {n} : k \in Nat /\ k # n
    BY <1>1
  <2> QED
    BY <1>7, <2>1 DEF Whole
<1> QED
  BY <1>13, <1>14, <1>15

\* The ledger when sector j of frame n, which was whole, is mangled.
Mangled(v, n, j) ==
  [gen |-> v.gen, start |-> v.start,
   rot |-> [k \in Nat |-> IF k = n THEN TRUE ELSE v.rot[k]],
   hurt |-> [k \in Nat |-> IF k = n THEN j ELSE v.hurt[k]]]

\* The ledger accounts for a transcript with a mangled sector.
LEMMA LedgerMangles ==
  ASSUME NEW v, NEW T, NEW ds, Ledger(v, T, ds), NEW n \in 1 .. Len(ds),
         Whole(v, ds, n), Plain(ds[n]), NEW j \in 0 .. Extent(v, ds, n) - 1,
         InMemory(ds[n], j), NEW i, i = v.start[n] + 1 + j,
         NEW U, IsSeq(U), Len(U) = Len(T), U[i] = Rotted(T[i]),
         \A k \in 1 .. Len(T) : k # i => U[k] = T[k],
         NEW w, w = Mangled(v, n, j)
  PROVE  /\ Ledger(w, U, ds) /\ ~ Whole(w, ds, n)
         /\ \A k \in 1 .. Len(ds) \ {n} : Whole(w, ds, k) <=> Whole(v, ds, k)
<1> DEFINE d == ds[n]
           e == RamEnd(d)
           N == Len(ds)
<1>1. /\ IsSeq(T) /\ IsSeq(ds) /\ v.start[1] = 0 /\ v.start[N + 1] = Len(T)
      /\ \A k \in 1 .. N : Entry(v, T, ds, k)
      /\ N \in Nat /\ Len(T) \in Nat
  BY DEF Ledger, IsSeq
<1>2. /\ Sound(d) /\ Damaged(d, v.hurt[n], v.rot[n]) /\ v.hurt[n] = e + 3
      /\ e \in Nat /\ v.start[n] \in Nat /\ v.gen[n] \in Nat
      /\ v.start[n + 1] = v.start[n] + Extent(v, ds, n)
  BY EntryBounds, SMTT(30) DEF Whole
<1>3. Extent(v, ds, n) = e + 3 /\ v.rot[n] = FALSE
  BY <1>2, DamagedBounds DEF Extent
<1>4. j \in 0 .. e + 2 /\ j \in Nat /\ j <= e + 2
  BY <1>2, <1>3
<1>5. /\ w.gen = v.gen /\ w.start = v.start
      /\ \A k \in Nat : w.hurt[k] = IF k = n THEN j ELSE v.hurt[k]
      /\ \A k \in Nat : w.rot[k] = IF k = n THEN TRUE ELSE v.rot[k]
  BY DEF Mangled
<1> HIDE DEF d, e
<1>6. n \in Nat
  BY <1>1
<1>7. ASSUME NEW k \in 1 .. N, k # n PROVE Entry(w, U, ds, k)
  <2>1. /\ Entry(v, T, ds, k) /\ v.start[k] \in Nat /\ Extent(v, ds, k) \in Nat
        /\ v.start[k + 1] = v.start[k] + Extent(v, ds, k)
    BY <1>1, EntryBounds
  <2>2. k \in Nat
    BY <1>1
  <2>3. /\ w.gen[k] = v.gen[k] /\ w.hurt[k] = v.hurt[k] /\ w.rot[k] = v.rot[k]
    BY <1>5, <1>7, <2>2
  <2>4. ASSUME NEW x \in 0 .. Extent(v, ds, k) - 1
        PROVE  U[w.start[k] + 1 + x] = T[v.start[k] + 1 + x]
    <3> DEFINE y == v.start[k] + 1 + x
    <3>1. y \in 1 .. Len(T) /\ T[y].of = k
      BY FrameKinds
    <3>2. T[i].of = n
      BY FrameKinds
    <3>3. y # i
      BY <1>7, <3>1, <3>2
    <3> QED
      BY <1>5, <3>1, <3>3
  <2>5. w.start[k] \in Nat /\ w.start[k + 1] = w.start[k] + Extent(v, ds, k)
    BY <1>5, <2>1
  <2>6. Moved(v, T, ds, k, w, U, ds)
    BY <2>3, <2>4, <2>5 DEF Moved
  <2> QED
    BY <2>1, <2>6, EntryMoves
<1>8. Entry(w, U, ds, n)
  <2>1. /\ w.gen[n] = v.gen[n] /\ w.hurt[n] = j /\ w.rot[n] = TRUE
        /\ w.start[n] = v.start[n] /\ w.start[n + 1] = v.start[n + 1]
    BY <1>5, <1>6
  <2>2. Damaged(d, j, TRUE)
    BY <1>2, <1>4 DEF Damaged, d, e
  <2>3. Extent(w, ds, n) = e + 3
    BY <2>1 DEF Extent, Size, d, e
  <2>4. w.start[n + 1] = w.start[n] + Extent(w, ds, n) /\ Extent(w, ds, n) - 1 = e + 2
    BY <1>2, <1>3, <2>1, <2>3
  <2> DEFINE gen == v.gen[n]
             p == v.start[n]
  <2>5. \A x \in 0 .. e + 2 : T[p + 1 + x] = Full(d, gen, n, x) /\ p + 1 + x \in 1 .. Len(T)
    <3> TAKE x \in 0 .. e + 2
    <3>1. x \in 0 .. Extent(v, ds, n) - 1
      BY <1>2, <1>3
    <3>2. /\ T[p + 1 + x] = Left(d, gen, n, v.hurt[n], v.rot[n], x)
          /\ p + 1 + x \in 1 .. Len(T)
      BY <3>1, FrameKinds DEF d
    <3>3. ~ (e + 3 <= x)
      BY <1>2
    <3> QED
      BY <1>2, <1>3, <3>2, <3>3 DEF Left
  <2>6. i = p + 1 + j /\ p \in Nat
    BY <1>2
  <2> HIDE DEF p, gen
  <2>7. ASSUME NEW x \in 0 .. e + 2
        PROVE  U[p + 1 + x] = Left(d, gen, n, j, TRUE, x)
    <3>0. p \in Nat /\ j \in Nat /\ x \in Nat /\ i = p + 1 + j
      BY <1>4, <2>6
    <3>1. p + 1 + x = i <=> j = x
      BY <3>0
    <3>2. Left(d, gen, n, j, TRUE, x) =
            IF j = x THEN Rotted(Full(d, gen, n, x)) ELSE Full(d, gen, n, x)
      BY DEF Left
    <3>3. CASE j = x
      BY <2>5, <3>1, <3>2, <3>3
    <3>4. CASE j # x
      BY <2>5, <3>1, <3>2, <3>4
    <3> QED
      BY <3>3, <3>4
  <2>8. \A x \in 0 .. Extent(w, ds, n) - 1 :
          U[w.start[n] + 1 + x] = Left(ds[n], w.gen[n], n, w.hurt[n], w.rot[n], x)
    BY <2>1, <2>4, <2>7 DEF p, gen, d
  <2> QED
    BY <1>2, <2>1, <2>2, <2>4, <2>8 DEF Entry, d
<1>9. Ledger(w, U, ds)
  BY <1>1, <1>5, <1>7, <1>8 DEF Ledger
<1>10. ~ Whole(w, ds, n)
  BY <1>2, <1>4, <1>5, <1>6 DEF Whole, d, e
<1>11. \A k \in 1 .. N \ {n} : Whole(w, ds, k) <=> Whole(v, ds, k)
  <2>1. \A k \in 1 .. N \ {n} : k \in Nat /\ k # n
    BY <1>1
  <2> QED
    BY <1>5, <2>1 DEF Whole
<1> QED
  BY <1>9, <1>10, <1>11

\* Before the one loss nothing is damaged; after it, one frame is.
LEMMA DamageInv ==
  ASSUME OneLoss, IInv, losses < MaxDamage, losses' = losses + 1, mounted' = None,
         UNCHANGED <<device, generation, dumps>>,
         NEW v, History(v), NEW n \in 1 .. Len(dumps), damaged' = damaged \cup {n},
         NEW w, Ledger(w, transcript', dumps), ~ Whole(w, dumps, n),
         \A k \in 1 .. Len(dumps) \ {n} : Whole(w, dumps, k) <=> Whole(v, dumps, k)
  PROVE  IInv'
<1>1. /\ losses \in Nat /\ MaxDamage = 1 /\ losses = 0 /\ damaged = {}
  BY BoundsAssumption DEF OneLoss, IInv, Running
<1>2. \A k \in 1 .. Len(dumps) : Whole(v, dumps, k)
  BY <1>1 DEF History
<1>3. \A k \in 1 .. Len(dumps) : Whole(w, dumps, k) <=> k # n
  BY <1>2
<1>4. Running'
  BY <1>1 DEF IInv, Running
<1>5. History(w)'
  <2>1. Single(w, dumps)
    BY <1>3 DEF Single
  <2>2. damaged' = {k \in 1 .. Len(dumps) : ~ Whole(w, dumps, k)} /\ damaged' # {}
    BY <1>1, <1>3
  <2> QED
    BY <2>1, <2>2 DEF History
<1>6. Promises'
  BY NothingMounted
<1> QED
  BY <1>4, <1>5, <1>6 DEF IInv

\* The transcript before the loss.
LEMMA BeforeLoss ==
  ASSUME OneLoss, IInv, losses < MaxDamage, NEW v, History(v), NEW i \in DOMAIN transcript
  PROVE  /\ i \in 1 .. Len(transcript) /\ Ledger(v, transcript, dumps)
         /\ \E n \in 1 .. Len(dumps) :
              /\ Whole(v, dumps, n) /\ Plain(dumps[n]) /\ transcript[i].of = n
              /\ \E j \in 0 .. Extent(v, dumps, n) - 1 : i = v.start[n] + 1 + j
<1>1. Ledger(v, transcript, dumps) /\ IsSeq(transcript)
  BY DEF History, Ledger
<1>2. i \in 1 .. Len(transcript)
  BY <1>1, SeqOfOwn
<1>3. PICK n \in 1 .. Len(dumps) :
        \E j \in 0 .. Extent(v, dumps, n) - 1 : i = v.start[n] + 1 + j
  BY <1>1, <1>2, Located
<1>4. transcript[i].of = n
  BY <1>1, <1>3, FrameKinds
<1>5. damaged = {} /\ Plain(dumps[n])
  BY BoundsAssumption DEF OneLoss, IInv, Running
<1>6. Whole(v, dumps, n)
  BY <1>5 DEF History
<1> QED
  BY <1>1, <1>2, <1>3, <1>4, <1>5, <1>6

\* The conversation loses a line of a frame.
LEMMA EvictInv ==
  ASSUME OneLoss, IInv, NEW i \in DOMAIN transcript, Evict(i)
  PROVE  IInv'
<1>1. PICK v : History(v)
  BY DEF IInv
<1>2. /\ losses < MaxDamage /\ losses' = losses + 1 /\ mounted' = None
      /\ transcript' = RemoveAt(transcript, i)
      /\ damaged' = damaged \cup {transcript[i].of}
      /\ UNCHANGED <<device, generation, dumps>>
  BY DEF Evict
<1>3. i \in 1 .. Len(transcript) /\ Ledger(v, transcript, dumps)
  BY <1>1, <1>2, BeforeLoss
<1>4. PICK n \in 1 .. Len(dumps) :
        /\ Whole(v, dumps, n) /\ Plain(dumps[n]) /\ transcript[i].of = n
        /\ \E j \in 0 .. Extent(v, dumps, n) - 1 : i = v.start[n] + 1 + j
  BY <1>1, <1>2, BeforeLoss
<1> PICK j \in 0 .. Extent(v, dumps, n) - 1 : i = v.start[n] + 1 + j
  BY <1>4
<1> PICK w : w = Lost(v, n, j)
  OBVIOUS
<1>5. /\ Ledger(w, transcript', dumps) /\ ~ Whole(w, dumps, n)
      /\ \A k \in 1 .. Len(dumps) \ {n} : Whole(w, dumps, k) <=> Whole(v, dumps, k)
  BY <1>2, <1>3, <1>4, LedgerLoses
<1>6. damaged' = damaged \cup {n}
  BY <1>2, <1>4
<1> QED
  BY <1>1, <1>2, <1>5, <1>6, DamageInv

\* A mangled line in its place.
IsMangling(U, T, i) == U = [T EXCEPT ![i].kind = "ROTTED", ![i].value.content = Garbage]

\* Nothing else of the transcript changes.
LEMMA RottedInPlace ==
  ASSUME NEW T, IsSeq(T), NEW i \in 1 .. Len(T),
         T[i] = [kind |-> T[i].kind, value |-> T[i].value, of |-> T[i].of, at |-> T[i].at],
         NEW U, IsMangling(U, T, i)
  PROVE  /\ IsSeq(U) /\ Len(U) = Len(T) /\ U[i] = Rotted(T[i])
         /\ \A k \in 1 .. Len(T) : k # i => U[k] = T[k]
<1>1. DOMAIN T = 1 .. Len(T) /\ Len(T) \in Nat
  BY SeqOfOwn DEF IsSeq
<1>2. U = [k \in 1 .. Len(T) |-> U[k]]
  BY <1>1 DEF IsMangling
<1>3. IsSeq(U) /\ Len(U) = Len(T)
  BY <1>1, <1>2, FunctionIsSeq
<1>4. \A k \in 1 .. Len(T) : k # i => U[k] = T[k]
  BY <1>1 DEF IsMangling
<1>5. U[i] = Rotted(T[i])
  BY <1>1 DEF Rotted, IsMangling
<1> QED
  BY <1>3, <1>4, <1>5

\* The conversation mangles a sector of a frame.
LEMMA RotInv ==
  ASSUME OneLoss, IInv, NEW i \in DOMAIN transcript, Rot(i)
  PROVE  IInv'
<1>1. PICK v : History(v)
  BY DEF IInv
<1>2. /\ losses < MaxDamage /\ losses' = losses + 1 /\ mounted' = None
      /\ transcript[i].kind = "SECTOR"
      /\ transcript' = [transcript EXCEPT ![i].kind = "ROTTED", ![i].value.content = Garbage]
      /\ damaged' = damaged \cup {transcript[i].of}
      /\ UNCHANGED <<device, generation, dumps>>
  BY DEF Rot
<1>3. i \in 1 .. Len(transcript) /\ Ledger(v, transcript, dumps) /\ IsSeq(transcript)
  BY <1>1, <1>2, BeforeLoss DEF Ledger
<1>4. PICK n \in 1 .. Len(dumps) :
        /\ Whole(v, dumps, n) /\ Plain(dumps[n]) /\ transcript[i].of = n
        /\ \E j \in 0 .. Extent(v, dumps, n) - 1 : i = v.start[n] + 1 + j
  BY <1>1, <1>2, BeforeLoss
<1> PICK j \in 0 .. Extent(v, dumps, n) - 1 : i = v.start[n] + 1 + j
  BY <1>4
<1> DEFINE d == dumps[n]
           line == Full(d, v.gen[n], n, j)
<1>5. /\ Sound(d) /\ Damaged(d, v.hurt[n], v.rot[n]) /\ RamEnd(d) \in Nat
      /\ v.hurt[n] = RamEnd(d) + 3
  BY <1>3, <1>4, EntryBounds DEF Whole
<1>6. v.rot[n] = FALSE /\ Extent(v, dumps, n) = RamEnd(d) + 3
  BY <1>5, DamagedBounds DEF Extent
<1>7. transcript[i] = line
  <2>1. transcript[i] = Left(d, v.gen[n], n, v.hurt[n], v.rot[n], j)
    BY <1>3, FrameKinds
  <2>2. ~ (v.hurt[n] <= j)
    BY <1>5, <1>6
  <2> QED
    BY <1>6, <2>1, <2>2 DEF Left
<1>8. j \in 0 .. RamEnd(d) + 2
  BY <1>5, <1>6
<1>9. InMemory(d, j) /\ line = Line(d, v.gen[n], n, j)
  BY <1>2, <1>4, <1>5, <1>7, <1>8, FullKinds
<1>10. line = [kind |-> line.kind, value |-> line.value, of |-> line.of, at |-> line.at]
  <2> DEFINE L == Line(d, v.gen[n], n, j)
  <2>1. L = [kind |-> L.kind, value |-> L.value, of |-> L.of, at |-> L.at]
    BY DEF Line
  <2> QED
    BY <1>9, <2>1
<1> HIDE DEF line
<1> PICK T : T = transcript
  OBVIOUS
<1> PICK U : U = transcript'
  OBVIOUS
<1>14. T[i] = [kind |-> T[i].kind, value |-> T[i].value, of |-> T[i].of, at |-> T[i].at]
  BY <1>7, <1>10
<1>11. /\ IsSeq(U) /\ Len(U) = Len(T) /\ U[i] = Rotted(T[i])
       /\ \A k \in 1 .. Len(T) : k # i => U[k] = T[k]
  <2>1. IsMangling(U, T, i)
    BY <1>2 DEF IsMangling
  <2>2. i \in 1 .. Len(T) /\ IsSeq(T)
    BY <1>3
  <2> QED
    BY <1>14, <2>1, <2>2, RottedInPlace
<1> PICK w : w = Mangled(v, n, j)
  OBVIOUS
<1>12. /\ Ledger(w, U, dumps) /\ ~ Whole(w, dumps, n)
       /\ \A k \in 1 .. Len(dumps) \ {n} : Whole(w, dumps, k) <=> Whole(v, dumps, k)
  <2>1. Ledger(v, T, dumps)
    BY <1>3
  <2>2. Whole(v, dumps, n) /\ Plain(dumps[n]) /\ InMemory(dumps[n], j) /\ i = v.start[n] + 1 + j
    BY <1>4, <1>9
  <2> QED
    BY <1>11, <2>1, <2>2, LedgerMangles
<1>13. damaged' = damaged \cup {n}
  BY <1>2, <1>4
<1> QED
  BY <1>1, <1>2, <1>12, <1>13, DamageInv

-----------------------------------------------------------------------------
(***************************************************************************)
(* The promises of a mount.                                                *)
(***************************************************************************)
\* The ledger can be kept along every run.
THEOREM LedgerIsKept ==
  ASSUME OneLoss
  PROVE  Spec => []IInv
<1>1. Init => IInv
  BY InitInv
<1>2. IInv /\ [Next]_vars => IInv'
  <2> SUFFICES ASSUME IInv, [Next]_vars PROVE IInv'
    OBVIOUS
  <2>1. CASE Step
    BY <2>1, StepInv
  <2>2. CASE Dump
    BY <2>2, DumpInv
  <2>3. CASE Mount
    BY <2>3, MountInv
  <2>4. ASSUME NEW i \in DOMAIN transcript, Evict(i) PROVE IInv'
    BY <2>4, EvictInv
  <2>5. ASSUME NEW i \in DOMAIN transcript, Rot(i) PROVE IInv'
    BY <2>5, RotInv
  <2>6. CASE UNCHANGED vars
    <3>1. PICK v : History(v)
      BY DEF IInv
    <3>2. History(v)'
      BY <2>6, <3>1 DEF History, vars
    <3>3. Running' /\ Promises'
      BY <2>6 DEF IInv, Running, Promises, vars, Mounted, CleanMountIsExact,
         IntactTranscriptMountsNewest, RestoredSectorsAreTrue, LossesAreNamed,
         Unreported, MountKeepsOneSlot
    <3> QED
      BY <3>2, <3>3 DEF IInv
  <2> QED
    BY <2>1, <2>2, <2>3, <2>4, <2>5, <2>6 DEF Next
<1> QED
  BY <1>1, <1>2, PTL DEF Spec

\* A mount that calls itself clean restored, exactly, a machine that was dumped:
\* the checksum covers every line that a restore reads (_parse_snapshot, mount).
THEOREM CleanMountsAreExact ==
  ASSUME OneLoss
  PROVE  Spec => []CleanMountIsExact
<1>1. IInv => CleanMountIsExact
  BY DEF IInv, Promises
<1> QED
  BY <1>1, LedgerIsKept, PTL

\* A transcript of which nothing is missing mounts the frame that was dumped
\* last, also among frames of one generation (select), and restores everything
\* but what ended the lines of its prompts, which the report tells (mount).
THEOREM IntactTranscriptsMountNewest ==
  ASSUME OneLoss
  PROVE  Spec => []IntactTranscriptMountsNewest
<1>1. IInv => IntactTranscriptMountsNewest
  BY DEF IInv, Promises
<1> QED
  BY <1>1, LedgerIsKept, PTL

\* Every sector that a mount restored is as the mounted frame's machine had it,
\* or is blank: its address and its checksum vouch for it (_parse_snapshot).
THEOREM RestoredSectorsStayTrue ==
  ASSUME OneLoss
  PROVE  Spec => []RestoredSectorsAreTrue
<1>1. IInv => RestoredSectorsAreTrue
  BY DEF IInv, Promises
<1> QED
  BY <1>1, LedgerIsKept, PTL

\* A mount that found the map of a memory reports every sector of it that is
\* missing or mangled, whatever line the conversation lost (mount).
THEOREM LossesAreAlwaysNamed ==
  ASSUME OneLoss
  PROVE  Spec => []LossesAreNamed
<1>1. IInv => LossesAreNamed
  BY DEF IInv, Promises
<1> QED
  BY <1>1, LedgerIsKept, PTL

\* A mounted device never has a second request in flight, whatever line was lost:
\* a state without its request is demoted, a request without its state too
\* (restore_machine).
THEOREM MountsKeepOneSlot ==
  ASSUME OneLoss
  PROVE  Spec => []MountKeepsOneSlot
<1>1. IInv => MountKeepsOneSlot
  BY DEF IInv, Promises
<1> QED
  BY <1>1, LedgerIsKept, PTL
=============================================================================
