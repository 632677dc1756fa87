---------------------------- MODULE Wire_proofs -----------------------------
(***************************************************************************)
(* What becomes of a reply on its way, for every reply: that the parser    *)
(* finds it whatever stands around it and reads what it says; what each    *)
(* fault of the injector makes of it, line by line; and what the ladder    *)
(* makes of that. Nothing here depends on which payloads, checksums or     *)
(* nonces the lines carry.                                                 *)
(***************************************************************************)
EXTENDS Backends, Lists_proofs

\* Min of a set of numbers that is not empty.
LEMMA Smallest ==
  ASSUME NEW S \in SUBSET Nat, S # {}
  PROVE  Min(S) \in S /\ \A k \in S : Min(S) <= k
<1>1. PICK m \in S : \A k \in S : m <= k
  BY Least
<1> QED
  BY <1>1 DEF Min

\* Ends that are not blank, or nothing at all: what strip() leaves.
Stripped(s) == s = <<>> \/ (s[1] \notin Blank /\ s[Len(s)] \notin Blank)

\* strip() takes its result out of the text, and leaves nothing blank at its ends.
LEMMA Trims ==
  ASSUME NEW S, NEW s \in Seq(S)
  PROVE  /\ Trim(s) \in Seq(S) /\ Stripped(Trim(s))
         /\ \A i \in 1 .. Len(Trim(s)) : \E j \in 1 .. Len(s) : Trim(s)[i] = s[j]
         /\ Stripped(s) => Trim(s) = s
<1> DEFINE kept == {i \in DOMAIN s : s[i] \notin Blank}
<1>1. Len(s) \in Nat /\ DOMAIN s = 1 .. Len(s)
  OBVIOUS
<1>2. CASE kept = {}
  <2>1. Trim(s) = <<>>
    BY <1>2 DEF Trim
  <2>2. Stripped(s) => s = <<>>
    <3> SUFFICES ASSUME Stripped(s), s # <<>> PROVE FALSE
      OBVIOUS
    <3>1. 1 \in DOMAIN s /\ s[1] \notin Blank
      BY DEF Stripped
    <3> QED
      BY <1>2, <3>1
  <2> QED
    BY <2>1, <2>2 DEF Stripped
<1>3. CASE kept # {}
  <2> DEFINE a == Min(kept)
             b == Max(kept)
  <2>1. kept \in SUBSET Nat /\ kept \in SUBSET (0 .. Len(s))
    BY <1>1
  <2>2. a \in kept /\ \A k \in kept : a <= k
    BY <1>3, <2>1, Smallest
  <2>3. b \in kept /\ \A k \in kept : k <= b
    BY <1>1, <1>3, <2>1, Greatest
  <2>4. Trim(s) = SubSeq(s, a, b)
    BY <1>3 DEF Trim
  <2>5. /\ a \in 1 .. Len(s) /\ b \in 1 .. Len(s) /\ a <= b
        /\ s[a] \notin Blank /\ s[b] \notin Blank
    BY <1>1, <2>2, <2>3
  <2>6. Stripped(s) => a = 1 /\ b = Len(s)
    <3> SUFFICES ASSUME Stripped(s) PROVE a = 1 /\ b = Len(s)
      OBVIOUS
    <3>1. s # <<>>
      BY <1>1, <2>5
    <3>2. 1 \in kept /\ Len(s) \in kept
      BY <1>1, <2>5, <3>1 DEF Stripped
    <3> HIDE DEF kept
    <3>3. a <= 1 /\ Len(s) <= b
      BY <2>2, <2>3, <3>2
    <3> QED
      BY <1>1, <2>5, <3>3
  <2> HIDE DEF a, b, kept
  <2> DEFINE t == SubSeq(s, a, b)
  <2>7. t \in Seq(S) /\ Len(t) = b - a + 1 /\ \A i \in 1 .. Len(t) : t[i] = s[a + i - 1]
    BY <2>5
  <2> HIDE DEF t
  <2>8. t[1] = s[a] /\ t[Len(t)] = s[b]
    BY <2>5, <2>7
  <2>9. \A i \in 1 .. Len(t) : a + i - 1 \in 1 .. Len(s)
    BY <1>1, <2>5, <2>7
  <2>10. Stripped(s) => t = s
    <3> SUFFICES ASSUME Stripped(s) PROVE t = s
      OBVIOUS
    <3>1. Len(t) = Len(s) /\ \A i \in 1 .. Len(t) : t[i] = s[i]
      BY <1>1, <2>6, <2>7
    <3> QED
      BY <2>7, <3>1
  <2> QED
    BY <2>4, <2>5, <2>7, <2>8, <2>9, <2>10 DEF Stripped, t
<1> QED
  BY <1>2, <1>3

-----------------------------------------------------------------------------
\* Symbols that do not come back from the wire, or that change what is around them.
Special == Marker \cup {FF}

\* No symbol is a marker line, or a separator that comes back as another.
Plain(s) == \A i \in 1 .. Len(s) : s[i] \notin Special

\* The lines of an escaped payload: text, no marker.
TextLine(S) == {Line("text", w) : w \in Seq(S)}

\* A word with no marker in it is a line of text.
LEMMA PlainLine ==
  ASSUME NEW S, NEW w \in Seq(S), Plain(w)
  PROVE  LineOf(w) = Line("text", w) /\ WordOf(LineOf(w)) = w
<1>1. Len(Trim(w)) = 1 => Trim(w)[1] \notin Marker
  <2> SUFFICES ASSUME Len(Trim(w)) = 1 PROVE Trim(w)[1] \notin Marker
    OBVIOUS
  <2>1. 1 \in 1 .. Len(Trim(w))
    OBVIOUS
  <2>2. PICK j \in 1 .. Len(w) : Trim(w)[1] = w[j]
    BY <2>1, Trims
  <2> QED
    BY <2>2 DEF Plain, Special
<1>2. LineOf(w) = Line("text", w)
  BY <1>1 DEF LineOf
<1> QED
  BY <1>2 DEF WordOf, Line

\* A text up to a newline, the newline, and the text from there.
LEMMA Glued ==
  ASSUME NEW S, NEW s \in Seq(S), NEW b \in 1 .. Len(s), NEW c \in b + 1 .. Len(s) + 1, s[b] = NL
  PROVE  SubSeq(s, 1, b - 1) \o (<<NL>> \o SubSeq(s, b + 1, c - 1)) = SubSeq(s, 1, c - 1)
<1> DEFINE x == SubSeq(s, 1, b - 1)
           y == SubSeq(s, b + 1, c - 1)
           z == SubSeq(s, 1, c - 1)
<1>1. Len(s) \in Nat /\ NL \in S
  BY SMT
<1>2. x \in Seq(S) /\ Len(x) = b - 1 /\ \A i \in 1 .. b - 1 : x[i] = s[i]
  BY <1>1
<1>3. y \in Seq(S) /\ Len(y) = c - b - 1 /\ \A i \in 1 .. c - b - 1 : y[i] = s[b + i]
  BY <1>1
<1>4. z \in Seq(S) /\ Len(z) = c - 1 /\ \A i \in 1 .. c - 1 : z[i] = s[i]
  BY <1>1
<1> HIDE DEF x, y, z
<1> DEFINE u == <<NL>> \o y
           v == x \o u
<1>5. u \in Seq(S) /\ Len(u) = c - b /\ u[1] = NL /\ \A i \in 2 .. c - b : u[i] = y[i - 1]
  BY <1>1, <1>3
<1> HIDE DEF u
<1>6. v \in Seq(S) /\ Len(v) = c - 1
  <2>0. v \in Seq(S) /\ Len(v) = Len(x) + Len(u)
    BY <1>2, <1>5, ConcatProperties
  <2> HIDE DEF v
  <2>1. Len(v) = (b - 1) + (c - b)
    BY <1>2, <1>5, <2>0
  <2> QED
    BY <1>1, <2>0, <2>1
<1>7. /\ \A i \in 1 .. b - 1 : v[i] = x[i]
      /\ \A i \in b .. c - 1 : v[i] = u[i - b + 1]
  BY <1>2, <1>5, SMTT(20)
<1> HIDE DEF v
<1>8. ASSUME NEW i \in 1 .. c - 1 PROVE v[i] = z[i]
  <2>1. CASE i < b
    BY <1>2, <1>4, <1>7, <2>1
  <2>2. CASE i = b
    BY <1>4, <1>5, <1>7, <2>2
  <2>3. CASE i > b
    <3>1. v[i] = u[i - b + 1] /\ i - b + 1 \in 2 .. c - b
      BY <1>7, <2>3
    <3>2. u[i - b + 1] = y[i - b] /\ i - b \in 1 .. c - b - 1
      <4>1. (i - b + 1) - 1 = i - b /\ i - b \in 1 .. c - b - 1
        BY <1>1, <2>3
      <4>2. u[i - b + 1] = y[(i - b + 1) - 1]
        BY <1>5, <3>1, Zenon
      <4> QED
        BY <4>1, <4>2
    <3>3. y[i - b] = s[b + (i - b)] /\ b + (i - b) = i
      BY <1>3, <3>2
    <3> QED
      BY <1>4, <3>1, <3>2, <3>3
  <2> QED
    BY <2>1, <2>2, <2>3
<1>9. v = z
  BY <1>4, <1>6, <1>8
<1> QED
  BY <1>9 DEF x, y, z, u, v

\* str.split: the places of the newlines, and the words between them.
SplitAt(s, n, c) ==
  /\ c \in [1 .. n + 1 -> 0 .. Len(s) + 1]
  /\ c[1] = 0 /\ c[n + 1] = Len(s) + 1
  /\ \A k \in 1 .. n : c[k] < c[k + 1]
  /\ \A k \in 2 .. n : c[k] \in 1 .. Len(s) /\ s[c[k]] = NL
  /\ Split(s) = [k \in 1 .. n |-> Line("text", SubSeq(s, c[k] + 1, c[k + 1] - 1))]

\* A payload without markers is split into at least one line.
LEMMA Pieces ==
  ASSUME NEW S, NEW s \in Seq(S), Plain(s)
  PROVE  \E n \in Nat \ {0} : \E c : SplitAt(s, n, c)
<1> DEFINE C == {0, Len(s) + 1} \cup {i \in DOMAIN s : s[i] \in Breaks}
           cuts == Ascending(C)
           m == Cardinality(C)
<1>1. Len(s) \in Nat /\ DOMAIN s = 1 .. Len(s)
  OBVIOUS
<1>2. /\ C \in SUBSET (0 .. Len(s) + 1) /\ 0 \in C /\ Len(s) + 1 \in C
      /\ \A x \in C : x # 0 /\ x # Len(s) + 1 => x \in 1 .. Len(s) /\ s[x] = NL
  BY <1>1 DEF Plain, Special, Breaks
<1>3. C \in SUBSET Nat /\ IsFiniteSet(C)
  <2>1. IsFiniteSet(0 .. Len(s) + 1)
    BY <1>1, FS_Interval
  <2> HIDE DEF C
  <2>2. IsFiniteSet(C)
    BY <1>2, <2>1, FS_Subset
  <2> QED
    BY <1>1, <1>2, <2>2
<1>4. Split(s) = [k \in 1 .. Len(cuts) - 1 |-> LineOf(SubSeq(s, cuts[k] + 1, cuts[k + 1] - 1))]
  BY Zenon DEF Split, Words
<1> HIDE DEF C, m, cuts
<1>5. /\ m \in Nat /\ cuts \in [1 .. m -> C] /\ IsAscending(cuts)
      /\ \A a \in C : \E i \in 1 .. m : cuts[i] = a
  BY <1>3, AscendingLists DEF m, cuts
<1>6. Len(cuts) = m
  BY <1>5
<1>7. \A i, j \in 1 .. m : i < j => cuts[i] < cuts[j]
  BY <1>5 DEF IsAscending
<1>8. m > 1 /\ cuts[1] = 0 /\ cuts[m] = Len(s) + 1
  <2>1. PICK i \in 1 .. m : cuts[i] = 0
    BY <1>2, <1>5
  <2>2. PICK j \in 1 .. m : cuts[j] = Len(s) + 1
    BY <1>2, <1>5
  <2>3. i # j
    BY <1>1, <2>1, <2>2
  <2>4. \A k \in 1 .. m : cuts[k] \in 0 .. Len(s) + 1
    BY <1>2, <1>5
  <2>5. i = 1
    <3>1. CASE 1 < i
      <4>1. cuts[1] < cuts[i] /\ cuts[1] \in 0 .. Len(s) + 1
        BY <1>5, <1>7, <2>1, <2>4, <3>1
      <4> QED
        BY <1>1, <2>1, <4>1
    <3> QED
      BY <3>1
  <2>6. j = m
    <3>1. CASE j < m
      <4>1. cuts[j] < cuts[m] /\ cuts[m] \in 0 .. Len(s) + 1
        BY <1>5, <1>7, <2>2, <2>4, <3>1
      <4> QED
        BY <1>1, <2>2, <4>1
    <3> QED
      BY <1>5, <3>1
  <2> QED
    BY <1>5, <2>1, <2>2, <2>3, <2>5, <2>6
<1> DEFINE n == m - 1
<1>9. n \in Nat \ {0} /\ n + 1 = m
  BY <1>5, <1>8
<1>10. \A k \in 1 .. n : cuts[k] < cuts[k + 1]
  BY <1>7, <1>9
<1>11. cuts \in [1 .. n + 1 -> 0 .. Len(s) + 1]
  BY <1>2, <1>5, <1>9
<1>12. ASSUME NEW k \in 2 .. n PROVE cuts[k] \in 1 .. Len(s) /\ s[cuts[k]] = NL
  <2>1. /\ 1 \in 1 .. m /\ k \in 1 .. m /\ m \in 1 .. m /\ 1 < k /\ k < m
    BY <1>5, <1>8
  <2>2. cuts[1] < cuts[k] /\ cuts[k] < cuts[m] /\ cuts[k] \in C
    BY <1>5, <1>7, <2>1
  <2>3. cuts[k] # 0 /\ cuts[k] # Len(s) + 1
    BY <1>1, <1>2, <1>8, <2>2
  <2> QED
    BY <1>2, <2>2, <2>3
<1>13. ASSUME NEW k \in 1 .. n
       PROVE LineOf(SubSeq(s, cuts[k] + 1, cuts[k + 1] - 1))
               = Line("text", SubSeq(s, cuts[k] + 1, cuts[k + 1] - 1))
  <2> DEFINE w == SubSeq(s, cuts[k] + 1, cuts[k + 1] - 1)
             a == cuts[k]
             b == cuts[k + 1]
  <2>1. a \in 0 .. Len(s) + 1 /\ b \in 0 .. Len(s) + 1 /\ a < b
    BY <1>9, <1>10, <1>11
  <2> HIDE DEF a, b
  <2>2. /\ SubSeq(s, a + 1, b - 1) \in Seq(S)
        /\ Len(SubSeq(s, a + 1, b - 1)) = b - a - 1
        /\ \A i \in 1 .. b - a - 1 : SubSeq(s, a + 1, b - 1)[i] = s[a + i] /\ a + i \in 1 .. Len(s)
    BY <1>1, <2>1
  <2>3. Plain(SubSeq(s, a + 1, b - 1))
    BY <2>2 DEF Plain
  <2> QED
    BY <2>2, <2>3, PlainLine DEF a, b
<1>14. Split(s) = [k \in 1 .. n |-> Line("text", SubSeq(s, cuts[k] + 1, cuts[k + 1] - 1))]
  BY <1>4, <1>6, <1>9, <1>13
<1> HIDE DEF n
<1> QED
  BY <1>8, <1>9, <1>10, <1>11, <1>12, <1>14 DEF SplitAt

\* What split() takes apart, join() puts together again.
LEMMA Rejoined ==
  ASSUME NEW S, NEW s \in Seq(S), Plain(s)
  PROVE  Split(s) \in Seq(TextLine(S)) /\ Join(Split(s)) = s
<1>0. PICK n \in Nat \ {0} : \E c : SplitAt(s, n, c)
  BY Pieces
<1>00. PICK c : SplitAt(s, n, c)
  BY <1>0
<1>1. /\ c \in [1 .. n + 1 -> 0 .. Len(s) + 1]
      /\ c[1] = 0 /\ c[n + 1] = Len(s) + 1
      /\ \A k \in 1 .. n : c[k] < c[k + 1]
      /\ \A k \in 2 .. n : c[k] \in 1 .. Len(s) /\ s[c[k]] = NL
      /\ Split(s) = [k \in 1 .. n |-> Line("text", SubSeq(s, c[k] + 1, c[k + 1] - 1))]
  BY <1>00 DEF SplitAt
<1> DEFINE w(k) == SubSeq(s, c[k] + 1, c[k + 1] - 1)
           T == S \cup {NL}
           ww == [k \in 1 .. n |-> IF k = 1 THEN w(k) ELSE <<NL>> \o w(k)]
<1>2. Len(s) \in Nat /\ s \in Seq(T)
  OBVIOUS
<1>3. \A k \in 1 .. n : /\ c[k] \in 0 .. Len(s) + 1 /\ c[k + 1] \in 0 .. Len(s) + 1
                        /\ c[k] < c[k + 1]
  BY <1>1
<1>4. \A k \in 1 .. n : w(k) \in Seq(S) /\ w(k) \in Seq(T)
  <2> SUFFICES ASSUME NEW k \in 1 .. n PROVE w(k) \in Seq(S) /\ w(k) \in Seq(T)
    OBVIOUS
  <2> DEFINE a == c[k] + 1
             b == c[k + 1] - 1
  <2>0. c[k] \in 0 .. Len(s) + 1 /\ c[k + 1] \in 0 .. Len(s) + 1 /\ c[k] < c[k + 1]
    BY <1>3
  <2>1. a \in Int /\ b \in Int /\ (a <= b => a \in 1 .. Len(s) /\ b \in 1 .. Len(s))
    BY <1>2, <2>0
  <2> HIDE DEF a, b
  <2>2. SubSeq(s, a, b) \in Seq(S)
    <3>1. \A i \in a .. b : s[i] \in S
      BY <1>2, <2>1
    <3> QED
      BY <2>1, <3>1, SubSeqProperties
  <2>3. SubSeq(s, a, b) \in Seq(T)
    BY <2>2
  <2> QED
    BY <2>2, <2>3 DEF a, b
<1> HIDE DEF w
<1>5. Split(s) \in Seq(TextLine(S)) /\ DOMAIN Split(s) = 1 .. n
  <2> DEFINE g == [k \in 1 .. n |-> Line("text", w(k))]
  <2>1. \A k \in 1 .. n : Line("text", w(k)) \in TextLine(S)
    BY <1>4 DEF TextLine
  <2>2. g \in [1 .. n -> TextLine(S)]
    BY <2>1
  <2>3. Split(s) = g
    BY <1>1 DEF w
  <2> HIDE DEF g
  <2> QED
    BY <2>2, <2>3
<1>6. \A k \in 1 .. n : WordOf(Split(s)[k]) = w(k)
  BY <1>1 DEF WordOf, Line, w
<1>7. Join(Split(s)) = FlattenSeq(ww)
  <2> DEFINE words == [k \in DOMAIN Split(s) |-> WordOf(Split(s)[k])]
  <2>1. words = [k \in 1 .. n |-> w(k)]
    BY <1>5, <1>6
  <2>2. DOMAIN words = 1 .. n /\ \A k \in 1 .. n : words[k] = w(k)
    BY <2>1
  <2>3. Join(Split(s)) = Glue(words)
    BY Zenon DEF Join
  <2> HIDE DEF words
  <2>4. [k \in DOMAIN words |-> IF k = 1 THEN words[k] ELSE <<NL>> \o words[k]] = ww
    BY <2>2
  <2> HIDE DEF ww
  <2> QED
    BY <2>3, <2>4, Zenon DEF Glue
<1>8. ww \in Seq(Seq(T)) /\ Len(ww) = n
  <2>0. <<NL>> \in Seq(T)
    OBVIOUS
  <2>00. \A x, y \in Seq(T) : x \o y \in Seq(T)
    BY ConcatProperties
  <2> HIDE DEF T
  <2>000. \A k \in 1 .. n : <<NL>> \o w(k) \in Seq(T)
    BY <1>4, <2>0, <2>00, Zenon
  <2>1. ww \in [1 .. n -> Seq(T)]
    BY <1>4, <2>000
  <2> HIDE DEF ww
  <2> QED
    BY <2>1
<1>9. \A k \in 1 .. n : ww[k] = IF k = 1 THEN w(k) ELSE <<NL>> \o w(k)
  OBVIOUS
<1> HIDE DEF ww, T
<1>10. PICK f \in [0 .. n -> Seq(T)] :
         /\ f[0] = <<>> /\ f[n] = FlattenSeq(ww)
         /\ \A k \in 0 .. n - 1 : f[k + 1] = f[k] \o ww[k + 1]
  BY <1>8, FlattenUnrolls
<1> DEFINE upTo(k) == SubSeq(s, 1, c[k + 1] - 1)
           K == {k \in 0 .. n : k = 0 \/ f[k] = upTo(k)}
<1>11. 0 \in K
  BY <1>1
<1>12. ASSUME NEW k \in 0 .. n - 1, k \in K PROVE k + 1 \in K
  <2>1. k + 1 \in 0 .. n /\ k + 1 \in 1 .. n
    BY <1>1
  <2>2. f[k + 1] = f[k] \o ww[k + 1]
    BY <1>10
  <2>3. CASE k = 0
    <3>1. f[k] = <<>> /\ ww[k + 1] = w(1) /\ w(1) \in Seq(T)
      BY <1>4, <1>9, <1>10, <2>1, <2>3
    <3>2. f[k + 1] = w(1)
      BY <2>2, <3>1
    <3>3. w(1) = upTo(1)
      BY <1>1 DEF w
    <3>4. f[k + 1] = upTo(k + 1)
      BY <2>3, <3>2, <3>3
    <3> HIDE DEF upTo
    <3> QED
      BY <2>1, <3>4
  <2>4. CASE k # 0
    <3>1. k + 1 \in 2 .. n /\ k \in 1 .. n /\ k + 1 # 1
      BY <1>1, <2>4
    <3>2. f[k] = upTo(k)
      BY <1>12, <2>4
    <3>3. ww[k + 1] = <<NL>> \o w(k + 1)
      BY <1>9, <2>1, <3>1
    <3> DEFINE a == c[k + 1]
               b == c[k + 2]
    <3>4. a \in 1 .. Len(s) /\ b \in a + 1 .. Len(s) + 1 /\ s[a] = NL
      <4>1. a \in 1 .. Len(s) /\ s[a] = NL
        BY <1>1, <3>1
      <4>2. b = c[(k + 1) + 1]
        BY <1>1
      <4>3. c[(k + 1) + 1] \in 0 .. Len(s) + 1 /\ c[k + 1] < c[(k + 1) + 1]
        BY <1>3, <2>1
      <4> QED
        BY <1>2, <4>1, <4>2, <4>3
    <3>5. upTo(k) = SubSeq(s, 1, a - 1) /\ w(k + 1) = SubSeq(s, a + 1, b - 1)
          /\ upTo(k + 1) = SubSeq(s, 1, b - 1)
      BY <1>1 DEF w
    <3> HIDE DEF a, b, upTo
    <3>6. SubSeq(s, 1, a - 1) \o (<<NL>> \o SubSeq(s, a + 1, b - 1)) = SubSeq(s, 1, b - 1)
      BY <3>4, Glued, Zenon
    <3>7. f[k + 1] = upTo(k + 1)
      BY <2>2, <3>2, <3>3, <3>5, <3>6, Zenon
    <3> QED
      BY <2>1, <3>7
  <2> QED
    BY <2>3, <2>4
<1> HIDE DEF K, upTo
<1>13. \A k \in 0 .. n : k \in K
  BY <1>1, <1>11, <1>12, Induction
<1>14. f[n] = upTo(n)
  BY <1>1, <1>13 DEF K
<1>15. upTo(n) = s
  <2>1. c[n + 1] - 1 = Len(s)
    BY <1>1, <1>2
  <2>2. SubSeq(s, 1, Len(s)) = s
    BY <1>2
  <2> QED
    BY <2>1, <2>2 DEF upTo
<1> QED
  BY <1>5, <1>7, <1>10, <1>14, <1>15

-----------------------------------------------------------------------------
(***************************************************************************)
(* The parser, a line at a time.                                           *)
(***************************************************************************)
State(inside, collected, headers, blocks, nonce, status) ==
  [inside |-> inside, collected |-> collected, headers |-> headers, blocks |-> blocks,
   nonce |-> nonce, status |-> status]

\* One line for the parser, or for the rewriting of a payload.
Advance(how, a, l) == IF how = "read" THEN ScanLine(a, l) ELSE MapLine(a, l, how)

\* Going over the lines s in the state a ends in the state b.
Passed(how, s, a, b) ==
  \E f : /\ f[0] = a /\ f[Len(s)] = b
         /\ \A k \in 0 .. Len(s) - 1 : f[k + 1] = Advance(how, f[k], s[k + 1])

\* ScanLine over the lines of s leads from a to b.
Scanned(s, a, b) == Passed("read", s, a, b)

\* Going on where it stopped.
LEMMA PassesOn ==
  ASSUME NEW how, NEW L, NEW s \in Seq(L), NEW t \in Seq(L), NEW a, NEW b, NEW c,
         Passed(how, s, a, b), Passed(how, t, b, c)
  PROVE  Passed(how, s \o t, a, c)
<1> DEFINE m == Len(s)
           n == Len(t)
           u == s \o t
<1>1. m \in Nat /\ n \in Nat /\ Len(u) = m + n
  OBVIOUS
<1>2. /\ \A k \in 0 .. m - 1 : u[k + 1] = s[k + 1]
      /\ \A k \in 0 .. n - 1 : u[m + k + 1] = t[k + 1]
  OBVIOUS
<1>3. PICK f : /\ f[0] = a /\ f[m] = b
               /\ \A k \in 0 .. m - 1 : f[k + 1] = Advance(how, f[k], s[k + 1])
  BY DEF Passed
<1>4. PICK g : /\ g[0] = b /\ g[n] = c
               /\ \A k \in 0 .. n - 1 : g[k + 1] = Advance(how, g[k], t[k + 1])
  BY DEF Passed
<1> HIDE DEF m, n, u
<1> DEFINE h == [i \in 0 .. m + n |-> IF i <= m THEN f[i] ELSE g[i - m]]
<1>5. /\ \A i \in 0 .. m : h[i] = f[i]
      /\ \A i \in 0 .. n : h[m + i] = g[i]
  <2>1. \A i \in 0 .. m : h[i] = f[i]
    BY <1>1
  <2>2. ASSUME NEW i \in 0 .. n PROVE h[m + i] = g[i]
    <3>1. CASE i = 0
      BY <1>1, <1>3, <1>4, <3>1
    <3>2. CASE i # 0
      BY <1>1, <3>2
    <3> QED
      BY <3>1, <3>2
  <2> QED
    BY <2>1, <2>2
<1> HIDE DEF h
<1>6. h[0] = a /\ h[m + n] = c
  <2>1. 0 \in 0 .. m /\ n \in 0 .. n
    BY <1>1
  <2> QED
    BY <1>3, <1>4, <1>5, <2>1
<1>7. ASSUME NEW k \in 0 .. m + n - 1 PROVE h[k + 1] = Advance(how, h[k], u[k + 1])
  <2>1. CASE k < m
    <3>1. k \in 0 .. m - 1 /\ k \in 0 .. m /\ k + 1 \in 0 .. m
      BY <1>1, <2>1
    <3>2. h[k + 1] = f[k + 1] /\ h[k] = f[k] /\ u[k + 1] = s[k + 1]
      BY <1>2, <1>5, <3>1
    <3> QED
      BY <1>3, <3>1, <3>2, Zenon
  <2>2. CASE k >= m
    <3>1. PICK j \in 0 .. n - 1 : k = m + j
      <4>1. k - m \in 0 .. n - 1 /\ k = m + (k - m)
        BY <1>1, <2>2
      <4> QED
        BY <4>1, Zenon
    <3>2. j \in 0 .. n /\ j + 1 \in 0 .. n /\ k + 1 = m + (j + 1) /\ k + 1 = m + j + 1
      BY <1>1, <3>1
    <3>3. h[k + 1] = g[j + 1] /\ h[k] = g[j] /\ u[k + 1] = t[j + 1]
      BY <1>2, <1>5, <3>1, <3>2, Zenon
    <3> QED
      BY <1>4, <3>3, Zenon
  <2> QED
    BY <1>1, <2>1, <2>2
<1>8. \A k \in 0 .. Len(u) - 1 : h[k + 1] = Advance(how, h[k], u[k + 1])
  BY <1>1, <1>7
<1>9. Passed(how, u, a, c)
  <2>1. h[Len(u)] = c
    BY <1>1, <1>6
  <2> QED
    BY <1>6, <1>8, <2>1, Zenon DEF Passed
<1> QED
  BY <1>9 DEF u

\* One line, and none.
LEMMA PassesOne ==
  ASSUME NEW how, NEW l, NEW a
  PROVE  Passed(how, <<l>>, a, Advance(how, a, l))
<1> DEFINE f == [i \in 0 .. 1 |-> IF i = 0 THEN a ELSE Advance(how, a, l)]
<1>1. f[0] = a /\ f[1] = Advance(how, a, l)
  OBVIOUS
<1> HIDE DEF f
<1>2. Len(<<l>>) = 1 /\ <<l>>[1] = l
  OBVIOUS
<1>3. \A k \in 0 .. 0 : f[k + 1] = Advance(how, f[k], <<l>>[k + 1])
  <2>1. \A k \in 0 .. 0 : k = 0
    OBVIOUS
  <2>2. 0 + 1 = 1
    OBVIOUS
  <2> QED
    BY <1>1, <1>2, <2>1, <2>2, Zenon
<1>4. \A k \in 0 .. Len(<<l>>) - 1 : f[k + 1] = Advance(how, f[k], <<l>>[k + 1])
  <2>1. Len(<<l>>) - 1 = 0
    BY <1>2
  <2> QED
    BY <1>3, <2>1, Zenon
<1>5. f[Len(<<l>>)] = Advance(how, a, l)
  BY <1>1, <1>2, Zenon
<1> QED
  BY <1>1, <1>4, <1>5, Zenon DEF Passed

\* An empty text changes nothing.
LEMMA PassesNone == ASSUME NEW how, NEW a PROVE Passed(how, <<>>, a, a)
<1> DEFINE f == [i \in 0 .. 0 |-> a]
<1>1. f[0] = a
  OBVIOUS
<1> HIDE DEF f
<1>2. Len(<<>>) = 0 /\ 0 .. 0 - 1 = {}
  OBVIOUS
<1> QED
  BY <1>1, <1>2 DEF Passed

\* Scanning two texts one after the other is scanning their concatenation.
LEMMA ScansOn ==
  ASSUME NEW L, NEW s \in Seq(L), NEW t \in Seq(L), NEW a, NEW b, NEW c,
         Scanned(s, a, b), Scanned(t, b, c)
  PROVE  Scanned(s \o t, a, c)
<1> QED
  BY PassesOn, Zenon DEF Scanned

\* One line is one step of the scan.
LEMMA ScansOne == ASSUME NEW l, NEW a PROVE Scanned(<<l>>, a, ScanLine(a, l))
<1>1. Passed("read", <<l>>, a, Advance("read", a, l))
  BY PassesOne, Zenon
<1> QED
  BY <1>1 DEF Scanned, Advance

\* No line is no step.
LEMMA ScansNone == ASSUME NEW a PROVE Scanned(<<>>, a, a)
  BY PassesNone DEF Scanned

\* A recursive function goes over the lines as a passage does.
Runs(how, s, a, f) ==
  f = [i \in 0 .. Len(s) |-> IF i = 0 THEN a ELSE Advance(how, f[i - 1], s[i])]

\* Passed is about every run of the scan over s, and there is one.
LEMMA PassesAll ==
  ASSUME NEW how, NEW L, NEW s \in Seq(L), NEW a, NEW b, Passed(how, s, a, b)
  PROVE  (\E f : Runs(how, s, a, f)) /\ \A f : Runs(how, s, a, f) => f[Len(s)] = b
<1> DEFINE n == Len(s)
           Next(g, i) == IF i = 0 THEN a ELSE Advance(how, g[i - 1], s[i])
<1>1. PICK f : /\ f[0] = a /\ f[n] = b
               /\ \A k \in 0 .. n - 1 : f[k + 1] = Advance(how, f[k], s[k + 1])
  BY DEF Passed
<1>2. n \in Nat
  OBVIOUS
<1>3. \A g : Runs(how, s, a, g) <=> g = [i \in 0 .. n |-> Next(g, i)]
  BY DEF Runs
<1> HIDE DEF n
<1> DEFINE h == [i \in 0 .. n |-> f[i]]
<1>4. Runs(how, s, a, h)
  <2>0. \A i \in 0 .. n : h[i] = f[i]
    OBVIOUS
  <2>1. ASSUME NEW i \in 0 .. n PROVE h[i] = Next(h, i)
    <3>1. CASE i = 0
      BY <1>1, <2>0, <3>1
    <3>2. CASE i # 0
      <4>1. PICK k \in 0 .. n - 1 : i = k + 1 /\ i - 1 = k /\ k \in 0 .. n
        <5>1. i - 1 \in 0 .. n - 1 /\ i = (i - 1) + 1 /\ i - 1 \in 0 .. n
          BY <1>2, <3>2
        <5> QED
          BY <5>1, Zenon
      <4> HIDE DEF h
      <4>2. f[k + 1] = Advance(how, f[k], s[k + 1])
        BY <1>1, Zenon
      <4>3. h[i] = Advance(how, h[i - 1], s[i])
        BY <2>0, <4>1, <4>2, Zenon
      <4> QED
        BY <3>2, <4>3, Zenon
    <3> QED
      BY <3>1, <3>2
  <2>2. h = [i \in 0 .. n |-> h[i]]
    OBVIOUS
  <2> HIDE DEF h, Next
  <2>3. [i \in 0 .. n |-> h[i]] = [i \in 0 .. n |-> Next(h, i)]
    BY <2>1, Zenon
  <2> QED
    BY <1>3, <2>2, <2>3, Zenon
<1> HIDE DEF h
<1>5. ASSUME NEW g, Runs(how, s, a, g) PROVE g[n] = b
  <2>1. g = [i \in 0 .. n |-> Next(g, i)]
    BY <1>3, <1>5, Zenon
  <2>2. \A i \in 0 .. n : g[i] = Next(g, i)
    <3> HIDE DEF Next
    <3> QED
      BY <2>1, Zenon
  <2>3. 0 \in 0 .. n
    BY <1>2
  <2>4. g[0] = a
    BY <2>2, <2>3
  <2>5. ASSUME NEW k \in 0 .. n - 1 PROVE g[k + 1] = Advance(how, g[k], s[k + 1])
    <3>1. PICK i \in 0 .. n : i = k + 1 /\ i # 0 /\ i - 1 = k
      BY <1>2
    <3>2. g[i] = Advance(how, g[i - 1], s[i])
      BY <2>2, <3>1, Zenon
    <3> QED
      BY <3>1, <3>2, Zenon
  <2> DEFINE K == {k \in 0 .. n : g[k] = f[k]}
  <2>6. 0 \in K
    BY <1>1, <2>3, <2>4
  <2>7. ASSUME NEW k \in 0 .. n - 1, k \in K PROVE k + 1 \in K
    <3>1. k + 1 \in 0 .. n
      BY <1>2
    <3>2. g[k + 1] = f[k + 1]
      BY <1>1, <2>5, <2>7, Zenon
    <3> QED
      BY <3>1, <3>2, Zenon
  <2> HIDE DEF K
  <2>8. \A k \in 0 .. n : k \in K
    BY <1>2, <2>6, <2>7, Induction
  <2> QED
    BY <1>1, <1>2, <2>8 DEF K
<1> QED
  BY <1>4, <1>5, Zenon DEF n

\* What _parse_body makes of a text that it reads to the end of a block.
LEMMA ScansAll ==
  ASSUME NEW L, NEW body \in Seq(L), NEW b, Scanned(body, Unread, b), b.inside = FALSE
  PROVE  _parse_body(body) = b
<1> DEFINE n == Len(body)
           Goes(f) == f = [i \in 0 .. n |-> IF i = 0 THEN Unread ELSE ScanLine(f[i - 1], body[i])]
           scan == CHOOSE f : Goes(f)
<1>1. _parse_body(body) = IF scan[n].inside THEN CloseBlock(scan[n], FALSE) ELSE scan[n]
  BY DEF _parse_body
<1>2. \A f : Goes(f) <=> Runs("read", body, Unread, f)
  BY Zenon DEF Runs, Advance
<1>3. (\E f : Runs("read", body, Unread, f)) /\ \A f : Runs("read", body, Unread, f) => f[n] = b
  <2>1. Passed("read", body, Unread, b)
    BY DEF Scanned
  <2> QED
    BY <2>1, PassesAll
<1> HIDE DEF Goes, n
<1>4. scan[n] = b
  BY <1>2, <1>3, Zenon
<1> HIDE DEF scan
<1> QED
  BY <1>1, <1>4

\* What _map_payload makes of a text that it copies to its end.
LEMMA MapsAll ==
  ASSUME NEW fault, fault # "read", NEW L, NEW s \in Seq(L), NEW b,
         Passed(fault, s, [out |-> <<>>, inside |-> FALSE, buffer |-> <<>>], b)
  PROVE  _map_payload(s, fault) = b.out
<1> DEFINE n == Len(s)
           a == [out |-> <<>>, inside |-> FALSE, buffer |-> <<>>]
           Goes(f) == f = [i \in 0 .. n |-> IF i = 0 THEN a ELSE MapLine(f[i - 1], s[i], fault)]
           scan == CHOOSE f : Goes(f)
<1>1. _map_payload(s, fault) = scan[n].out
  BY DEF _map_payload
<1>2. \A f : Goes(f) <=> Runs(fault, s, a, f)
  BY Zenon DEF Runs, Advance
<1> HIDE DEF a
<1>3. (\E f : Runs(fault, s, a, f)) /\ \A f : Runs(fault, s, a, f) => f[n] = b
  <2>1. Passed(fault, s, a, b)
    BY DEF a
  <2> QED
    BY <2>1, PassesAll
<1> HIDE DEF Goes, n
<1>4. scan[n] = b
  BY <1>2, <1>3, Zenon
<1> HIDE DEF scan
<1> QED
  BY <1>1, <1>4

\* What each header, fence or line of text is read as.
WithLen(h, x) == [h EXCEPT !["LEN"] = {x}]
WithCrc(h, x) == [h EXCEPT !["CRC"] = {x}]
Longer(c, x) == Append(c, Line("text", x))
Complete(bs, c, h) == Append(bs, [text |-> Join(c), headers |-> h, closed |-> TRUE])

-----------------------------------------------------------------------------
(***************************************************************************)
(* One block, and a body of blocks.                                        *)
(***************************************************************************)
\* A block of a reply: LEN, at most one checksum, and a fence around a text.
Vouched(c) == IF c = {} THEN <<>> ELSE <<Line("CRC", CHOOSE x \in c : TRUE)>>

\* A block as render_reply writes it: LEN, the checksums, the payload between its fences.
Fenced(len, c, text) ==
  <<Line("LEN", len)>> \o Vouched(c) \o <<Line("open", 1)>> \o Split(text) \o <<Line("close", 1)>>

\* What the parser makes of it.
Entry(len, c, text) ==
  [text |-> text, headers |-> [k \in {"LEN", "CRC", "SUM"} |->
                                 CASE k = "LEN" -> {len} [] k = "CRC" -> c [] k = "SUM" -> {}],
   closed |-> TRUE]

\* Between two blocks.
Between(bs, v, st) == State(FALSE, <<>>, NoHeaders, bs, v, st)

\* Lines of text inside a fence are collected.
LEMMA ScansText ==
  ASSUME NEW S, NEW t \in Seq(TextLine(S)), NEW h, NEW bs, NEW v, NEW st
  PROVE  Scanned(t, State(TRUE, <<>>, h, bs, v, st), State(TRUE, t, h, bs, v, st))
<1> DEFINE n == Len(t)
           f == [i \in 0 .. n |-> State(TRUE, SubSeq(t, 1, i), h, bs, v, st)]
<1>1. n \in Nat
  OBVIOUS
<1>2. SubSeq(t, 1, 0) = <<>> /\ SubSeq(t, 1, n) = t
  OBVIOUS
<1>3. \A i \in 0 .. n : f[i] = State(TRUE, SubSeq(t, 1, i), h, bs, v, st)
  OBVIOUS
<1> HIDE DEF f
<1>4. ASSUME NEW k \in 0 .. n - 1 PROVE f[k + 1] = ScanLine(f[k], t[k + 1])
  <2>1. t[k + 1] \in TextLine(S)
    OBVIOUS
  <2>2. PICK x : t[k + 1] = Line("text", x)
    BY <2>1 DEF TextLine
  <2>3. Append(SubSeq(t, 1, k), t[k + 1]) = SubSeq(t, 1, k + 1)
    <3> DEFINE y == SubSeq(t, 1, k)
               z == SubSeq(t, 1, k + 1)
    <3>1. y \in Seq(TextLine(S)) /\ Len(y) = k /\ \A i \in 1 .. k : y[i] = t[i]
      OBVIOUS
    <3>2. z \in Seq(TextLine(S)) /\ Len(z) = k + 1 /\ \A i \in 1 .. k + 1 : z[i] = t[i]
      OBVIOUS
    <3> HIDE DEF y, z
    <3>3. Append(y, t[k + 1]) = z
      BY <2>1, <3>1, <3>2
    <3> QED
      BY <3>3 DEF y, z
  <2>4. ScanLine(State(TRUE, SubSeq(t, 1, k), h, bs, v, st), Line("text", x))
          = State(TRUE, Longer(SubSeq(t, 1, k), x), h, bs, v, st)
    BY DEF ScanLine, State, Line, NoHeaders, Longer
  <2>5. k \in 0 .. n /\ k + 1 \in 0 .. n
    BY <1>1
  <2>6. f[k] = State(TRUE, SubSeq(t, 1, k), h, bs, v, st)
    BY <1>3, <2>5, Zenon
  <2>7. f[k + 1] = State(TRUE, SubSeq(t, 1, k + 1), h, bs, v, st)
    BY <1>3, <2>5, Zenon
  <2> QED
    BY <2>2, <2>3, <2>4, <2>6, <2>7, Zenon DEF Longer
<1>5. 0 \in 0 .. n /\ n \in 0 .. n
  BY <1>1
<1>6. f[0] = State(TRUE, <<>>, h, bs, v, st) /\ f[n] = State(TRUE, t, h, bs, v, st)
  BY <1>2, <1>3, <1>5, Zenon
<1> QED
  BY <1>4, <1>6, Zenon DEF Scanned, Passed, Advance

\* The lines between REPLY and END, whatever they carry.
Kinds == {"open", "close", "text", "NONCE", "STATUS", "LEN", "CRC"}
Lines(V) == {Line(k, x) : k \in Kinds, x \in V}

\* A block is read as one entry.
LEMMA ScansFenced ==
  ASSUME NEW S, NEW text \in Seq(S), Plain(text), NEW V, Seq(S) \subseteq V, 1 \in V,
         NEW len \in V, NEW c, c = {} \/ \E x \in V : c = {x},
         NEW bs, NEW v, NEW st
  PROVE  /\ Fenced(len, c, text) \in Seq(Lines(V))
         /\ Scanned(Fenced(len, c, text), Between(bs, v, st),
                    Between(Append(bs, Entry(len, c, text)), v, st))
<1> DEFINE H1 == WithLen(NoHeaders, len)
           H2 == Entry(len, c, text).headers
           s1 == <<Line("LEN", len)>>
           s2 == Vouched(c)
           s3 == <<Line("open", 1)>>
           s4 == Split(text)
           s5 == <<Line("close", 1)>>
           a0 == Between(bs, v, st)
           a1 == State(FALSE, <<>>, H1, bs, v, st)
           a2 == State(FALSE, <<>>, H2, bs, v, st)
           a3 == State(TRUE, <<>>, H2, bs, v, st)
           a4 == State(TRUE, s4, H2, bs, v, st)
           a5 == Between(Append(bs, Entry(len, c, text)), v, st)
           L == Lines(V)
<1>1. s4 \in Seq(TextLine(S)) /\ Join(s4) = text
  BY Rejoined
<1>2. s1 \in Seq(L) /\ s3 \in Seq(L) /\ s5 \in Seq(L)
  <2>1. \A k \in Kinds, x \in V : Line(k, x) \in L
    BY DEF Lines
  <2>2. Line("LEN", len) \in L /\ Line("open", 1) \in L /\ Line("close", 1) \in L
    BY <2>1 DEF Kinds
  <2> HIDE DEF L
  <2> QED
    BY <2>2
<1>3. s4 \in Seq(L)
  <2>1. TextLine(S) \subseteq L
    BY DEF TextLine, Lines, Kinds
  <2> HIDE DEF L, s4
  <2> QED
    BY <1>1, <2>1
<1>4. s2 \in Seq(L)
  <2>1. CASE c = {}
    BY <2>1 DEF Vouched
  <2>2. ASSUME NEW x \in V, c = {x} PROVE s2 \in Seq(L)
    <3>1. s2 = <<Line("CRC", x)>> /\ Line("CRC", x) \in L
      BY <2>2 DEF Vouched, Lines, Kinds
    <3> HIDE DEF s2, L
    <3> QED
      BY <3>1
  <2> QED
    BY <2>1, <2>2
<1>5. Scanned(s1, a0, a1)
  <2>1. ScanLine(a0, Line("LEN", len)) = a1
    BY DEF ScanLine, State, Line, NoHeaders, WithLen, Between
  <2> QED
    BY <2>1, ScansOne, Zenon
<1>6. Scanned(s2, a1, a2)
  <2>1. DOMAIN NoHeaders = {"LEN", "CRC", "SUM"} /\ \A k \in {"LEN", "CRC", "SUM"} : NoHeaders[k] = {}
    BY DEF NoHeaders
  <2>2. CASE c = {}
    <3>1. H1 = H2
      BY <2>1, <2>2 DEF Entry, NoHeaders, WithLen
    <3>2. s2 = <<>>
      BY <2>2 DEF Vouched
    <3> QED
      BY <3>1, <3>2, ScansNone, Zenon
  <2>3. ASSUME NEW x \in V, c = {x} PROVE Scanned(s2, a1, a2)
    <3>1. WithCrc(H1, x) = H2
      BY <2>1, <2>3 DEF Entry, NoHeaders, WithLen, WithCrc
    <3>2. s2 = <<Line("CRC", x)>>
      BY <2>3 DEF Vouched
    <3>3. ScanLine(a1, Line("CRC", x)) = State(FALSE, <<>>, WithCrc(H1, x), bs, v, st)
      BY DEF ScanLine, State, Line, NoHeaders, WithCrc
    <3> HIDE DEF H1, H2, s2
    <3>4. ScanLine(a1, Line("CRC", x)) = a2
      BY <3>1, <3>3, Zenon
    <3> QED
      BY <3>2, <3>4, ScansOne, Zenon
  <2> QED
    BY <2>2, <2>3
<1>7. Scanned(s3, a2, a3)
  <2>1. ScanLine(a2, Line("open", 1)) = a3
    BY DEF ScanLine, State, Line, NoHeaders
  <2> QED
    BY <2>1, ScansOne, Zenon
<1>8. Scanned(s4, a3, a4)
  BY <1>1, ScansText
<1>9. Scanned(s5, a4, a5)
  <2>1. Append(bs, Entry(len, c, text)) = Complete(bs, s4, H2)
    BY <1>1, Zenon DEF Entry, Complete
  <2>2. ScanLine(a4, Line("close", 1))
          = State(FALSE, <<>>, NoHeaders, Complete(bs, s4, H2), v, st)
    BY DEF ScanLine, State, Line, NoHeaders, CloseBlock, Complete
  <2> HIDE DEF s4, H2
  <2>3. ScanLine(a4, Line("close", 1)) = a5
    BY <2>1, <2>2, Zenon DEF Between
  <2> QED
    BY <2>3, ScansOne, Zenon
<1> HIDE DEF s1, s2, s3, s4, s5, a0, a1, a2, a3, a4, a5, L, H1, H2
<1>10. s1 \o s2 \in Seq(L) /\ Scanned(s1 \o s2, a0, a2)
  BY <1>2, <1>4, <1>5, <1>6, ScansOn
<1> DEFINE u2 == s1 \o s2
           u3 == u2 \o s3
           u4 == u3 \o s4
           u5 == u4 \o s5
<1> HIDE DEF u2
<1>11. u2 \in Seq(L) /\ Scanned(u2, a0, a2)
  BY <1>10 DEF u2
<1>12. u3 \in Seq(L) /\ Scanned(u3, a0, a3)
  BY <1>2, <1>7, <1>11, ScansOn
<1> HIDE DEF u3
<1>13. u4 \in Seq(L) /\ Scanned(u4, a0, a4)
  BY <1>3, <1>8, <1>12, ScansOn
<1> HIDE DEF u4
<1>14. u5 \in Seq(L) /\ Scanned(u5, a0, a5)
  BY <1>2, <1>9, <1>13, ScansOn
<1>15. Fenced(len, c, text) = u5
  BY DEF Fenced, u2, u3, u4, s1, s2, s3, s4, s5
<1> HIDE DEF u5
<1> QED
  BY <1>14, <1>15, Zenon DEF a0, a5, L

\* The lines mid, read between two blocks, add the entries es.
Reads(mid, es, E) ==
  \A bs \in Seq(E) : \A v, st : Scanned(mid, Between(bs, v, st), Between(bs \o es, v, st))

\* What is read from two texts is read from their concatenation.
LEMMA ReadsOn ==
  ASSUME NEW L, NEW E, NEW s \in Seq(L), NEW t \in Seq(L), NEW d \in Seq(E), NEW e \in Seq(E),
         Reads(s, d, E), Reads(t, e, E)
  PROVE  Reads(s \o t, d \o e, E)
<1> SUFFICES ASSUME NEW bs \in Seq(E), NEW v, NEW st
             PROVE  Scanned(s \o t, Between(bs, v, st), Between(bs \o (d \o e), v, st))
  BY DEF Reads
<1>1. bs \o d \in Seq(E) /\ (bs \o d) \o e = bs \o (d \o e)
  OBVIOUS
<1>2. Scanned(s, Between(bs, v, st), Between(bs \o d, v, st))
  BY Zenon DEF Reads
<1> DEFINE bd == bs \o d
           x == Between(bs, v, st)
           y == Between(bd, v, st)
           z == Between(bd \o e, v, st)
<1> HIDE DEF bd
<1>3. Scanned(t, y, z)
  <2>1. bd \in Seq(E)
    BY <1>1 DEF bd
  <2> QED
    BY <2>1, Zenon DEF Reads
<1>4. Scanned(s, x, y)
  BY <1>2, Zenon DEF bd
<1> HIDE DEF x, y, z
<1>5. Scanned(s \o t, x, z)
  BY <1>3, <1>4, ScansOn, Zenon
<1> QED
  BY <1>1, <1>5, Zenon DEF bd, x, z

\* The blocks of a reply, one per replica, and what they are read as.
BlocksOver(n, len, c, text, S, V) ==
  \A r \in 1 .. n : /\ text[r] \in Seq(S) /\ Plain(text[r]) /\ len[r] \in V
                    /\ c[r] = {} \/ \E x \in V : c[r] = {x}

\* The blocks of a reply as lines, as what is read of them, and the set of the latter.
Fences(n, len, c, text) == [r \in 1 .. n |-> Fenced(len[r], c[r], text[r])]
Entries(n, len, c, text) == [r \in 1 .. n |-> Entry(len[r], c[r], text[r])]
EntriesOf(n, len, c, text) == {Entry(len[r], c[r], text[r]) : r \in 1 .. n}

\* Well-formed blocks read back as themselves, each with its headers and text.
LEMMA ReadsBlocks ==
  ASSUME NEW S, NEW V, Seq(S) \subseteq V, 1 \in V, NEW n \in Nat, NEW len, NEW c, NEW text,
         BlocksOver(n, len, c, text, S, V), NEW E, EntriesOf(n, len, c, text) \subseteq E
  PROVE  /\ Fences(n, len, c, text) \in Seq(Seq(Lines(V))) /\ Len(Fences(n, len, c, text)) = n
         /\ FlattenSeq(Fences(n, len, c, text)) \in Seq(Lines(V))
         /\ Entries(n, len, c, text) \in Seq(E) /\ Len(Entries(n, len, c, text)) = n
         /\ Reads(FlattenSeq(Fences(n, len, c, text)), Entries(n, len, c, text), E)
<1> DEFINE L == Lines(V)
           x(r) == Entry(len[r], c[r], text[r])
           ss == Fences(n, len, c, text)
           tt == [r \in 1 .. n |-> <<x(r)>>]
           R == {p \in Seq(L) \X Seq(E) : Reads(p[1], p[2], E)}
<1>1. \A r \in 1 .. n : /\ Fenced(len[r], c[r], text[r]) \in Seq(L)
                        /\ \A bs, v, st : Scanned(Fenced(len[r], c[r], text[r]), Between(bs, v, st),
                                                  Between(Append(bs, x(r)), v, st))
  <2> SUFFICES ASSUME NEW r \in 1 .. n
               PROVE  /\ Fenced(len[r], c[r], text[r]) \in Seq(L)
                      /\ \A bs, v, st : Scanned(Fenced(len[r], c[r], text[r]), Between(bs, v, st),
                                                Between(Append(bs, x(r)), v, st))
    OBVIOUS
  <2> DEFINE a == len[r]
             b == c[r]
             d == text[r]
  <2>1. d \in Seq(S) /\ Plain(d) /\ a \in V /\ (b = {} \/ \E y \in V : b = {y})
    BY DEF BlocksOver
  <2> HIDE DEF a, b, d
  <2>2. /\ Fenced(a, b, d) \in Seq(Lines(V))
        /\ \A bs, v, st : Scanned(Fenced(a, b, d), Between(bs, v, st),
                                  Between(Append(bs, Entry(a, b, d)), v, st))
    BY <2>1, ScansFenced
  <2> QED
    BY <2>2 DEF a, b, d
<1>2. \A r \in 1 .. n : x(r) \in E
  BY DEF EntriesOf
<1> HIDE DEF x, L
<1>3. ss \in Seq(Seq(L)) /\ Len(ss) = n /\ \A r \in 1 .. n : ss[r] = Fenced(len[r], c[r], text[r])
  <2>1. ss \in [1 .. n -> Seq(L)]
    BY <1>1 DEF Fences
  <2>2. \A r \in 1 .. n : ss[r] = Fenced(len[r], c[r], text[r])
    BY DEF Fences
  <2> HIDE DEF ss
  <2> QED
    BY <2>1, <2>2
<1>4. tt \in Seq(Seq(E)) /\ Len(tt) = n /\ \A r \in 1 .. n : tt[r] = <<x(r)>>
  <2>1. tt \in [1 .. n -> Seq(E)]
    BY <1>2
  <2>2. \A r \in 1 .. n : tt[r] = <<x(r)>>
    OBVIOUS
  <2> HIDE DEF tt
  <2> QED
    BY <2>1, <2>2
<1>5. FlattenSeq(tt) = Entries(n, len, c, text) /\ Entries(n, len, c, text) \in Seq(E)
      /\ Len(Entries(n, len, c, text)) = n
  <2> DEFINE es == Entries(n, len, c, text)
  <2>1. es \in [1 .. n -> E] /\ \A r \in 1 .. n : es[r] = x(r)
    BY <1>2 DEF Entries, x
  <2> HIDE DEF es
  <2>2. tt = [r \in 1 .. n |-> <<es[r]>>]
    BY <2>1
  <2> HIDE DEF tt
  <2>3. FlattenSeq(tt) = es
    BY <2>1, <2>2, FlattenSingles
  <2>4. es \in Seq(E) /\ Len(es) = n
    BY <2>1
  <2> QED
    BY <2>3, <2>4 DEF es
<1> HIDE DEF ss, tt
<1>6. \A r \in 1 .. n : Reads(ss[r], tt[r], E)
  <2> SUFFICES ASSUME NEW r \in 1 .. n, NEW bs \in Seq(E), NEW v, NEW st
               PROVE  Scanned(ss[r], Between(bs, v, st), Between(bs \o tt[r], v, st))
    BY DEF Reads
  <2>1. Append(bs, x(r)) = bs \o <<x(r)>>
    BY <1>2
  <2>2. Scanned(ss[r], Between(bs, v, st), Between(Append(bs, x(r)), v, st))
    BY <1>1, <1>3, Zenon
  <2> QED
    BY <1>4, <2>1, <2>2, Zenon
<1>7. Reads(<<>>, <<>>, E)
  <2> SUFFICES ASSUME NEW bs \in Seq(E), NEW v, NEW st
               PROVE  Scanned(<<>>, Between(bs, v, st), Between(bs \o <<>>, v, st))
    BY DEF Reads
  <2>1. bs \o <<>> = bs
    OBVIOUS
  <2>2. Scanned(<<>>, Between(bs, v, st), Between(bs, v, st))
    BY ScansNone
  <2> QED
    BY <2>1, <2>2, Zenon
<1>8. <<FlattenSeq(ss), FlattenSeq(tt)>> \in R
  <2>1. << <<>>, <<>> >> \in R
    <3>1. <<>> \in Seq(L) /\ <<>> \in Seq(E)
      OBVIOUS
    <3> HIDE DEF Reads
    <3>2. << <<>>, <<>> >> \in Seq(L) \X Seq(E)
      BY <3>1
    <3> QED
      BY <1>7, <3>2
  <2>2. \A r \in 1 .. Len(ss) : <<ss[r], tt[r]>> \in R
    BY <1>3, <1>4, <1>6
  <2>3. \A s, u \in Seq(L), t, w \in Seq(E) :
          <<s, t>> \in R /\ <<u, w>> \in R => <<s \o u, t \o w>> \in R
    <3> SUFFICES ASSUME NEW s \in Seq(L), NEW u \in Seq(L), NEW t \in Seq(E), NEW w \in Seq(E),
                        <<s, t>> \in R, <<u, w>> \in R
                 PROVE  <<s \o u, t \o w>> \in R
      OBVIOUS
    <3>1. Reads(s, t, E) /\ Reads(u, w, E)
      OBVIOUS
    <3>2. Reads(s \o u, t \o w, E)
      BY <3>1, ReadsOn, Zenon
    <3>3. s \o u \in Seq(L) /\ t \o w \in Seq(E)
      OBVIOUS
    <3> QED
      BY <3>2, <3>3
  <2> HIDE DEF R
  <2> QED
    BY <1>3, <1>4, <2>1, <2>2, <2>3, FlattenAlike
<1>9. FlattenSeq(ss) \in Seq(L)
  BY <1>3, Flattened
<1>10. Reads(FlattenSeq(ss), FlattenSeq(tt), E)
  BY <1>8
<1> QED
  BY <1>3, <1>5, <1>9, <1>10 DEF ss, L

\* The body of a frame.
LEMMA ParsesBody ==
  ASSUME NEW L, NEW E, NEW v, NEW st, Line("NONCE", v) \in L, Line("STATUS", st) \in L,
         NEW mid \in Seq(L), NEW es \in Seq(E), Reads(mid, es, E)
  PROVE  _parse_body(<<Line("NONCE", v), Line("STATUS", st)>> \o mid) = Between(es, {v}, {st})
<1> DEFINE s1 == <<Line("NONCE", v)>>
           s2 == <<Line("STATUS", st)>>
           head == <<Line("NONCE", v), Line("STATUS", st)>>
           a1 == State(FALSE, <<>>, NoHeaders, <<>>, {v}, {})
           a2 == Between(<<>>, {v}, {st})
           z == Between(es, {v}, {st})
<1>1. s1 \in Seq(L) /\ s2 \in Seq(L) /\ head = s1 \o s2
  OBVIOUS
<1>2. Scanned(s1, Unread, a1)
  <2>1. ScanLine(Unread, Line("NONCE", v)) = a1
    BY DEF Unread, ScanLine, State, Line, NoHeaders
  <2> QED
    BY <2>1, ScansOne, Zenon
<1>3. Scanned(s2, a1, a2)
  <2>1. ScanLine(a1, Line("STATUS", st)) = a2
    BY DEF ScanLine, State, Line, NoHeaders, Between
  <2> QED
    BY <2>1, ScansOne, Zenon
<1>4. Scanned(mid, a2, z)
  <2>1. <<>> \in Seq(E) /\ <<>> \o es = es
    OBVIOUS
  <2>2. Scanned(mid, Between(<<>>, {v}, {st}), Between(<<>> \o es, {v}, {st}))
    BY <2>1, Zenon DEF Reads
  <2> QED
    BY <2>1, <2>2, Zenon
<1>5. z.inside = FALSE
  BY DEF Between, State
<1> HIDE DEF s1, s2, head, a1, a2, z
<1>6. head \in Seq(L) /\ Scanned(head, Unread, a2)
  <2>1. Scanned(s1 \o s2, Unread, a2)
    BY <1>1, <1>2, <1>3, ScansOn, Zenon
  <2>2. s1 \o s2 \in Seq(L)
    BY <1>1
  <2> QED
    BY <1>1, <2>1, <2>2, Zenon
<1>7. Scanned(head \o mid, Unread, z)
  BY <1>4, <1>6, ScansOn, Zenon
<1>8. head \o mid \in Seq(L)
  BY <1>6
<1>9. _parse_body(head \o mid) = z
  BY <1>5, <1>7, <1>8, ScansAll, Zenon
<1> QED
  BY <1>9 DEF head, z

-----------------------------------------------------------------------------
(***************************************************************************)
(* The frames of a text.                                                   *)
(***************************************************************************)
\* Where the frame that begins at p stops.
Stop(text, p) ==
  Min({j \in p + 1 .. Len(text) : IsBegin(text[j]) \/ IsEnd(text[j])} \cup {Len(text) + 1})

\* A text with one REPLY line holds one frame.
LEMMA FindsOne ==
  ASSUME NEW L, NEW text \in Seq(L), NEW p \in 1 .. Len(text),
         \A i \in 1 .. Len(text) : IsBegin(text[i]) <=> i = p
  PROVE  find_reply_frames(text)
           = <<[version |-> text[p].val,
                terminated |-> Stop(text, p) <= Len(text) /\ IsEnd(text[Stop(text, p)]),
                body |-> _parse_body(SubSeq(text, p + 1, Stop(text, p) - 1))]>>
<1> DEFINE begins == {i \in DOMAIN text : IsBegin(text[i])}
           frameAt(i) ==
             [version |-> text[i].val,
              terminated |-> Stop(text, i) <= Len(text) /\ IsEnd(text[Stop(text, i)]),
              body |-> _parse_body(SubSeq(text, i + 1, Stop(text, i) - 1))]
<1>1. find_reply_frames(text) = [k \in DOMAIN Ascending(begins) |-> frameAt(Ascending(begins)[k])]
  BY DEF find_reply_frames, Stop
<1>2. begins = {p}
  OBVIOUS
<1>3. Ascending({p}) = <<p>>
  <2>1. IsFiniteSet({p}) /\ Cardinality({p}) = 1
    BY FS_Singleton
  <2>2. {p} \in SUBSET Nat
    OBVIOUS
  <2>3. Ascending({p}) \in [1 .. 1 -> {p}]
    BY <2>1, <2>2, AscendingLists
  <2> QED
    BY <2>3
<1> HIDE DEF begins, frameAt
<1>4. DOMAIN <<p>> = 1 .. 1 /\ <<p>>[1] = p
  OBVIOUS
<1>5. find_reply_frames(text) = [k \in 1 .. 1 |-> frameAt(<<p>>[k])]
  BY <1>1, <1>2, <1>3, <1>4
<1>6. [k \in 1 .. 1 |-> frameAt(<<p>>[k])] = <<frameAt(p)>>
  BY <1>4
<1> QED
  BY <1>5, <1>6 DEF frameAt

\* The place of the first END line after a REPLY line with none in between.
LEMMA Stops ==
  ASSUME NEW L, NEW text \in Seq(L), NEW p \in 1 .. Len(text), NEW q \in p + 1 .. Len(text) + 1,
         q <= Len(text) => IsEnd(text[q]),
         \A i \in p + 1 .. q - 1 : ~IsBegin(text[i]) /\ ~IsEnd(text[i])
  PROVE  Stop(text, p) = q
<1> DEFINE T == {j \in p + 1 .. Len(text) : IsBegin(text[j]) \/ IsEnd(text[j])}
                  \cup {Len(text) + 1}
<1>1. Len(text) \in Nat
  OBVIOUS
<1>2. T \in SUBSET Nat /\ q \in T
  BY <1>1
<1>3. \A j \in T : q <= j
  <2> SUFFICES ASSUME NEW j \in T, j < q PROVE FALSE
    BY <1>1, <1>2
  <2>1. j \in p + 1 .. q - 1 /\ (IsBegin(text[j]) \/ IsEnd(text[j]))
    BY <1>1
  <2> QED
    BY <2>1
<1> HIDE DEF T
<1>4. Min(T) \in T /\ \A k \in T : Min(T) <= k
  <2>1. T # {} /\ T \in SUBSET Nat
    BY <1>2
  <2> QED
    BY <2>1, Smallest, Zenon
<1>5. Min(T) = q
  <2>1. Min(T) <= q /\ q <= Min(T) /\ Min(T) \in Nat /\ q \in Nat
    BY <1>2, <1>3, <1>4
  <2> QED
    BY <2>1
<1> QED
  BY <1>5 DEF Stop, T

\* Neither a REPLY nor an END line.
Calm(s) == \A i \in 1 .. Len(s) : ~IsBegin(s[i]) /\ ~IsEnd(s[i])

\* The lines that open and close a reply.
Opening == Line("begin", PROTOCOL_VERSION)
Ending == Line("end", 1)

\* The one frame that the parser finds.
FrameOf(terminated, body) ==
  <<[version |-> PROTOCOL_VERSION, terminated |-> terminated, body |-> _parse_body(body)]>>

\* Only the first opens a reply and only the last closes one.
LEMMA Markers ==
  /\ IsBegin(Opening) /\ ~IsEnd(Opening) /\ ~IsBegin(Ending) /\ IsEnd(Ending)
  /\ Opening.val = PROTOCOL_VERSION
  BY DEF IsBegin, IsEnd, Opening, Ending, Line

\* Whatever stands before and after it, a reply is found as one frame.
LEMMA CalmFrame ==
  ASSUME NEW L, NEW pre \in Seq(L), NEW body \in Seq(L), NEW post \in Seq(L),
         Opening \in L, Ending \in L, Calm(pre), Calm(body), Calm(post)
  PROVE  find_reply_frames(pre \o (<<Opening>> \o body \o <<Ending>>) \o post)
           = FrameOf(TRUE, body)
<1> DEFINE m == Len(pre)
           n == Len(body)
           k == Len(post)
           a == <<Opening>> \o body
           b == a \o <<Ending>>
           c == pre \o b
           text == c \o post
           p == m + 1
           q == m + n + 2
<1>1. m \in Nat /\ n \in Nat /\ k \in Nat
  OBVIOUS
<1>2. a \in Seq(L) /\ Len(a) = n + 1 /\ a[1] = Opening /\ \A i \in 1 .. n : a[i + 1] = body[i]
  OBVIOUS
<1> HIDE DEF a
<1>3. /\ b \in Seq(L) /\ Len(b) = n + 2 /\ b[n + 2] = Ending
      /\ \A i \in 1 .. n + 1 : b[i] = a[i]
  BY <1>1, <1>2
<1> HIDE DEF b
<1>4. /\ c \in Seq(L) /\ Len(c) = m + n + 2
      /\ \A i \in 1 .. m : c[i] = pre[i]
      /\ \A i \in 1 .. n + 2 : c[m + i] = b[i]
  <2>1. /\ c \in Seq(L) /\ Len(c) = Len(pre) + Len(b)
        /\ \A i \in 1 .. Len(pre) : c[i] = pre[i]
        /\ \A i \in 1 .. Len(b) : c[Len(pre) + i] = b[i]
    <3> HIDE DEF m, n, k, p, q
    <3>1. b \in Seq(L)
      BY <1>3
    <3> QED
      BY <3>1
  <2> HIDE DEF c
  <2> QED
    BY <1>1, <1>3, <2>1
<1> HIDE DEF c
<1>5. /\ text \in Seq(L) /\ Len(text) = m + n + 2 + k
      /\ \A i \in 1 .. m + n + 2 : text[i] = c[i]
      /\ \A i \in 1 .. k : text[m + n + 2 + i] = post[i]
  <2>1. /\ text \in Seq(L) /\ Len(text) = Len(c) + Len(post)
        /\ \A i \in 1 .. Len(c) : text[i] = c[i]
        /\ \A i \in 1 .. Len(post) : text[Len(c) + i] = post[i]
    <3> HIDE DEF m, n, k, p, q
    <3>1. c \in Seq(L)
      BY <1>4
    <3> QED
      BY <3>1
  <2> HIDE DEF text
  <2> QED
    BY <1>1, <1>4, <2>1
<1> HIDE DEF text
<1>6. \A i \in 1 .. m : ~IsBegin(text[i]) /\ ~IsEnd(text[i])
  <2> SUFFICES ASSUME NEW i \in 1 .. m PROVE ~IsBegin(text[i]) /\ ~IsEnd(text[i])
    OBVIOUS
  <2>1. text[i] = pre[i]
    BY <1>1, <1>4, <1>5
  <2> QED
    BY <2>1 DEF Calm
<1>7. text[p] = Opening
  <2>1. text[m + 1] = c[m + 1] /\ c[m + 1] = b[1] /\ b[1] = a[1]
    BY <1>1, <1>3, <1>4, <1>5
  <2> QED
    BY <1>2, <2>1
<1>8. \A i \in 1 .. n : text[p + i] = body[i]
  <2> SUFFICES ASSUME NEW i \in 1 .. n PROVE text[p + i] = body[i]
    OBVIOUS
  <2>1. i + 1 \in 1 .. n + 2 /\ i + 1 \in 1 .. n + 1 /\ p + i = m + (i + 1)
        /\ p + i \in 1 .. m + n + 2
    BY <1>1
  <2>2. text[p + i] = c[m + (i + 1)] /\ c[m + (i + 1)] = b[i + 1] /\ b[i + 1] = a[i + 1]
    BY <1>3, <1>4, <1>5, <2>1
  <2> QED
    BY <1>2, <2>2
<1>9. text[q] = Ending
  <2>1. text[q] = c[m + (n + 2)] /\ c[m + (n + 2)] = b[n + 2]
    BY <1>1, <1>3, <1>4, <1>5
  <2> QED
    BY <1>3, <2>1
<1>10. \A i \in 1 .. k : ~IsBegin(text[q + i])
  BY <1>5 DEF Calm
<1>11. p \in 1 .. Len(text) /\ q \in p + 1 .. Len(text) + 1 /\ q <= Len(text)
  BY <1>1, <1>5
<1>12. \A i \in p + 1 .. q - 1 : ~IsBegin(text[i]) /\ ~IsEnd(text[i])
  <2> SUFFICES ASSUME NEW i \in p + 1 .. q - 1 PROVE ~IsBegin(text[i]) /\ ~IsEnd(text[i])
    OBVIOUS
  <2>1. PICK j \in 1 .. n : i = p + j
    <3>1. i - p \in 1 .. n /\ i = p + (i - p)
      BY <1>1
    <3> QED
      BY <3>1, Zenon
  <2>2. text[i] = body[j]
    BY <1>8, <2>1, Zenon
  <2> QED
    BY <2>2 DEF Calm
<1>13. \A i \in 1 .. Len(text) : IsBegin(text[i]) <=> i = p
  <2> SUFFICES ASSUME NEW i \in 1 .. Len(text), i # p PROVE ~IsBegin(text[i])
    BY <1>7, Markers
  <2>1. CASE i <= m
    BY <1>6, <2>1
  <2>2. CASE i > p /\ i < q
    BY <1>1, <1>12, <2>2
  <2>3. CASE i = q
    BY <1>9, <2>3, Markers
  <2>4. CASE i > q
    <3>1. PICK j \in 1 .. k : i = q + j
      <4>1. i - q \in 1 .. k /\ i = q + (i - q)
        BY <1>1, <1>5, <2>4
      <4> QED
        BY <4>1, Zenon
    <3> QED
      BY <1>10, <3>1, Zenon
  <2> QED
    BY <1>1, <2>1, <2>2, <2>3, <2>4
<1>14. SubSeq(text, p + 1, q - 1) = body
  <2> DEFINE u == SubSeq(text, p + 1, q - 1)
  <2>1. u \in Seq(L) /\ Len(u) = n /\ \A i \in 1 .. n : u[i] = text[p + i]
    BY <1>1, <1>5, <1>11
  <2> HIDE DEF u
  <2>2. u = body
    BY <1>8, <2>1
  <2> QED
    BY <2>2 DEF u
<1> HIDE DEF p, q
<1>15. Stop(text, p) = q
  BY <1>5, <1>9, <1>11, <1>12, Markers, Stops
<1>16. find_reply_frames(text)
         = <<[version |-> text[p].val,
              terminated |-> Stop(text, p) <= Len(text) /\ IsEnd(text[Stop(text, p)]),
              body |-> _parse_body(SubSeq(text, p + 1, Stop(text, p) - 1))]>>
  BY <1>5, <1>11, <1>13, FindsOne
<1>17. (Stop(text, p) <= Len(text) /\ IsEnd(text[Stop(text, p)])) = TRUE
  BY <1>9, <1>11, <1>15, Markers
<1>18. find_reply_frames(text) = FrameOf(TRUE, body)
  BY <1>7, <1>14, <1>15, <1>16, <1>17, Markers DEF FrameOf
<1> QED
  BY <1>18 DEF text, c, b, a

\* Without its END line, the frame runs to the end of the text.
LEMMA CutFrame ==
  ASSUME NEW L, NEW body \in Seq(L), Opening \in L, Calm(body)
  PROVE  find_reply_frames(<<Opening>> \o body) = FrameOf(FALSE, body)
<1> DEFINE n == Len(body)
           text == <<Opening>> \o body
<1>1. n \in Nat
  OBVIOUS
<1>2. /\ text \in Seq(L) /\ Len(text) = n + 1 /\ text[1] = Opening
      /\ \A i \in 1 .. n : text[1 + i] = body[i]
  OBVIOUS
<1> HIDE DEF text
<1>3. \A i \in 2 .. n + 1 : ~IsBegin(text[i]) /\ ~IsEnd(text[i])
  <2> SUFFICES ASSUME NEW i \in 2 .. n + 1 PROVE ~IsBegin(text[i]) /\ ~IsEnd(text[i])
    OBVIOUS
  <2>1. PICK j \in 1 .. n : i = 1 + j
    <3>1. i - 1 \in 1 .. n /\ i = 1 + (i - 1)
      BY <1>1
    <3> QED
      BY <3>1, Zenon
  <2>2. text[i] = body[j]
    BY <1>2, <2>1, Zenon
  <2> QED
    BY <2>2 DEF Calm
<1>4. \A i \in 1 .. Len(text) : IsBegin(text[i]) <=> i = 1
  BY <1>1, <1>2, <1>3, Markers
<1>5. SubSeq(text, 1 + 1, (n + 2) - 1) = body
  <2> DEFINE u == SubSeq(text, 1 + 1, (n + 2) - 1)
  <2>1. u \in Seq(L) /\ Len(u) = n /\ \A i \in 1 .. n : u[i] = text[1 + i]
    BY <1>1, <1>2
  <2> HIDE DEF u
  <2>2. u = body
    BY <1>2, <2>1
  <2> QED
    BY <2>2 DEF u
<1>6. Stop(text, 1) = n + 2
  <2>1. 1 \in 1 .. Len(text) /\ n + 2 \in 1 + 1 .. Len(text) + 1 /\ ~(n + 2 <= Len(text))
    BY <1>1, <1>2
  <2>2. \A i \in 1 + 1 .. (n + 2) - 1 : ~IsBegin(text[i]) /\ ~IsEnd(text[i])
    BY <1>1, <1>3
  <2> QED
    BY <1>2, <2>1, <2>2, Stops
<1>7. find_reply_frames(text)
         = <<[version |-> text[1].val,
              terminated |-> Stop(text, 1) <= Len(text) /\ IsEnd(text[Stop(text, 1)]),
              body |-> _parse_body(SubSeq(text, 1 + 1, Stop(text, 1) - 1))]>>
  <2>1. 1 \in 1 .. Len(text)
    BY <1>1, <1>2
  <2> QED
    BY <1>2, <1>4, <2>1, FindsOne
<1>8. (Stop(text, 1) <= Len(text) /\ IsEnd(text[Stop(text, 1)])) = FALSE
  BY <1>1, <1>2, <1>6
<1>9. find_reply_frames(text) = FrameOf(FALSE, body)
  BY <1>2, <1>5, <1>6, <1>7, <1>8, Markers DEF FrameOf
<1> QED
  BY <1>9 DEF text

\* What stands between REPLY and END has no marker of a frame.
LEMMA LinesAreCalm ==
  ASSUME NEW V, NEW s \in Seq(Lines(V))
  PROVE  Calm(s)
<1>1. \A l \in Lines(V) : ~IsBegin(l) /\ ~IsEnd(l)
  BY DEF Lines, Kinds, Line, IsBegin, IsEnd
<1>2. \A i \in 1 .. Len(s) : s[i] \in Lines(V)
  OBVIOUS
<1> QED
  BY <1>1, <1>2 DEF Calm

\* A reply between its markers, and what the parser reads in it.
Heading(v, st) == <<Line("NONCE", v), Line("STATUS", st)>>
Reply(v, st, mid) == <<Opening>> \o (Heading(v, st) \o mid) \o <<Ending>>
Reading(terminated, es, v, st) ==
  [version |-> PROTOCOL_VERSION, terminated |-> terminated, body |-> Between(es, {v}, {st})]

\* The two header lines of a reply are lines over V.
LEMMA HeadingIsLines ==
  ASSUME NEW V, NEW v \in V, NEW st \in V, NEW mid \in Seq(Lines(V))
  PROVE  Line("NONCE", v) \in Lines(V) /\ Line("STATUS", st) \in Lines(V)
         /\ Heading(v, st) \o mid \in Seq(Lines(V))
<1>1. Line("NONCE", v) \in Lines(V) /\ Line("STATUS", st) \in Lines(V)
  BY DEF Lines, Kinds
<1>2. Heading(v, st) \in Seq(Lines(V))
  BY <1>1 DEF Heading
<1> QED
  BY <1>1, <1>2

\* A reply is found, and read, whatever stands before and after it.
Finds(pre, v, st, mid, post, es) ==
  find_reply_frames(pre \o Reply(v, st, mid) \o post) = <<Reading(TRUE, es, v, st)>>

\* A reply is found, and read as what it says, whatever stands before and after it.
LEMMA FindsReply ==
  ASSUME NEW V, NEW v \in V, NEW st \in V, NEW mid \in Seq(Lines(V)),
         NEW E, NEW es \in Seq(E), Reads(mid, es, E),
         NEW pre \in Seq(Lines(V)), NEW post \in Seq(Lines(V))
  PROVE  Finds(pre, v, st, mid, post, es)
<1> DEFINE body == Heading(v, st) \o mid
           K == Lines(V)
           L == K \cup {Opening, Ending}
<1>1. /\ Line("NONCE", v) \in K /\ Line("STATUS", st) \in K /\ body \in Seq(K)
      /\ Calm(body) /\ Calm(pre) /\ Calm(post)
  BY HeadingIsLines, LinesAreCalm
<1>2. _parse_body(body) = Between(es, {v}, {st})
  <2>1. _parse_body(<<Line("NONCE", v), Line("STATUS", st)>> \o mid) = Between(es, {v}, {st})
    BY <1>1, ParsesBody, SMTT(20)
  <2> QED
    BY <2>1 DEF Heading
<1> HIDE DEF body, K
<1>3. pre \in Seq(L) /\ body \in Seq(L) /\ post \in Seq(L) /\ Opening \in L /\ Ending \in L
  BY <1>1 DEF K
<1> HIDE DEF L
<1>4. find_reply_frames(pre \o (<<Opening>> \o body \o <<Ending>>) \o post) = FrameOf(TRUE, body)
  BY <1>1, <1>3, CalmFrame, Zenon
<1> QED
  BY <1>2, <1>4, Zenon DEF FrameOf, Reply, Reading, body, Finds

\* A reply without its END is found too, and is not terminated.
LEMMA FindsCut ==
  ASSUME NEW V, NEW v \in V, NEW st \in V, NEW mid \in Seq(Lines(V)),
         NEW E, NEW es \in Seq(E), Reads(mid, es, E)
  PROVE  find_reply_frames(<<Opening>> \o (Heading(v, st) \o mid)) = <<Reading(FALSE, es, v, st)>>
<1> DEFINE body == Heading(v, st) \o mid
           K == Lines(V)
           L == K \cup {Opening}
<1>1. /\ Line("NONCE", v) \in K /\ Line("STATUS", st) \in K /\ body \in Seq(K) /\ Calm(body)
  BY HeadingIsLines, LinesAreCalm
<1>2. _parse_body(body) = Between(es, {v}, {st})
  <2>1. _parse_body(<<Line("NONCE", v), Line("STATUS", st)>> \o mid) = Between(es, {v}, {st})
    BY <1>1, ParsesBody
  <2> QED
    BY <2>1 DEF Heading
<1> HIDE DEF body, K
<1>3. body \in Seq(L) /\ Opening \in L
  BY <1>1
<1> HIDE DEF L
<1>4. find_reply_frames(<<Opening>> \o body) = FrameOf(FALSE, body)
  BY <1>1, <1>3, CutFrame, Zenon
<1> QED
  BY <1>2, <1>4, Zenon DEF FrameOf, Reading, body

-----------------------------------------------------------------------------
(***************************************************************************)
(* The ladder, for the one frame that was found.                           *)
(***************************************************************************)
Texts(es, r) == [b \in DOMAIN es |-> Payload(es[b], r)]
Unchecked(es) == \E b \in DOMAIN es : Checksums(es[b]) = {}

\* The verdict on a text with one frame: the first layer that objects, else the election.
LEMMA Judges ==
  ASSUME NEW text, NEW r, NEW x, find_reply_frames(text) = <<x>>
  PROVE  validate(text, r)
           = IF Framing(x, r) # "OK" THEN Failed(Framing(x, r))
             ELSE IF BlocksStatus(x.body.blocks, r) # "OK"
               THEN Failed(BlocksStatus(x.body.blocks, r))
             ELSE IF ~Elects(Texts(x.body.blocks, r)) THEN Failed("NO_QUORUM")
             ELSE Accepted(Texts(x.body.blocks, r), r, Unchecked(x.body.blocks))
<1> DEFINE frames == <<x>>
           matching == {k \in DOMAIN frames : _nonce_matches(frames[k].body.nonce, r)}
<1>1. Selected(frames, r) = x
  <2>1. DOMAIN frames = {1} /\ frames[1] = x /\ Last(frames) = x
    BY DEF Last
  <2>2. matching # {} => Max(matching) = 1
    <3>1. matching \in SUBSET (0 .. 1) /\ \A k \in matching : k = 1
      BY <2>1
    <3> HIDE DEF matching
    <3>2. matching # {} => Max(matching) \in matching
      BY <3>1, Greatest
    <3> QED
      BY <3>1, <3>2
  <2> HIDE DEF frames
  <2>3. Selected(frames, r) = IF matching # {} THEN frames[Max(matching)] ELSE Last(frames)
    BY DEF Selected
  <2> QED
    BY <2>1, <2>2, <2>3
<1>2. frames # <<>>
  OBVIOUS
<1> HIDE DEF frames, matching
<1>3. find_reply_frames(text) = frames
  BY DEF frames
<1> QED
  BY <1>1, <1>2, <1>3 DEF validate, Texts, Unchecked

\* The first two layers, for n blocks.
Shown(es, n) == Len(es) = n /\ (\A b \in 1 .. Len(es) : es[b].closed = TRUE) /\ \E E : es \in Seq(E)

\* What the framing layer says of a frame with n closed blocks.
Framed(es, n, v, st, r) ==
  /\ Framing(Reading(FALSE, es, v, st), r) = "MALFORMED"
  /\ v # r.nonce => Framing(Reading(TRUE, es, v, st), r) = "BAD_NONCE"
  /\ v = r.nonce => Framing(Reading(TRUE, es, v, "REFUSED"), r) = "REFUSED"
  /\ v = r.nonce => Framing(Reading(TRUE, es, v, "OK"), r)
                      = IF n # r.replicas \/ n = 0 THEN "MALFORMED" ELSE "OK"

\* It says so whatever the blocks hold.
LEMMA FramingOf ==
  ASSUME NEW es, NEW n, Shown(es, n), NEW v, NEW st, NEW r
  PROVE  Framed(es, n, v, st, r)
<1>8. PICK E : es \in Seq(E)
  BY DEF Shown
<1>9. Len(es) = n /\ \A b \in 1 .. Len(es) : es[b].closed = TRUE
  BY DEF Shown
<1> DEFINE x(s) == Reading(TRUE, es, v, s)
           y == Reading(FALSE, es, v, st)
<1>1. \A s : /\ x(s).terminated = TRUE /\ x(s).version = PROTOCOL_VERSION
             /\ x(s).body.nonce = {v} /\ x(s).body.status = {s} /\ x(s).body.blocks = es
  BY DEF Reading, Between, State
<1>0. y.terminated = FALSE
  BY DEF Reading
<1>2. ~ \E b \in DOMAIN es : ~es[b].closed
  <2>1. DOMAIN es = 1 .. Len(es)
    BY <1>8
  <2> QED
    BY <1>9, <2>1
<1>10. es = <<>> <=> n = 0
  BY <1>8, <1>9
<1>3. {"REFUSED"} \cap Refusals # {} /\ {"OK"} \cap Refusals = {}
  BY DEF Refusals
<1> HIDE DEF x, y
<1>4. Framing(y, r) = "MALFORMED"
  BY <1>0 DEF Framing
<1>5. v # r.nonce => Framing(x(st), r) = "BAD_NONCE"
  BY <1>1 DEF Framing, _nonce_matches
<1>6. v = r.nonce => Framing(x("REFUSED"), r) = "REFUSED"
  BY <1>1, <1>3 DEF Framing, _nonce_matches
<1>7. v = r.nonce => Framing(x("OK"), r)
                       = IF n # r.replicas \/ n = 0 THEN "MALFORMED" ELSE "OK"
  BY <1>1, <1>2, <1>3, <1>9, <1>10 DEF Framing, _nonce_matches
<1> QED
  BY <1>4, <1>5, <1>6, <1>7, Zenon DEF x, y, Framed

\* What the integrity layers say of a closed block: its length first, then its checksums.
LEMMA EntryStatus ==
  ASSUME NEW len, NEW c, NEW text, NEW r, NEW p, p = Payload(Entry(len, c, text), r)
  PROVE  BlockStatus(Entry(len, c, text), r)
           = IF len # Len(p) THEN "BAD_LENGTH"
             ELSE IF (\E x \in c : x # Checksum(p)) \/ (c = {} /\ r.strict) THEN "BAD_CHECKSUM"
             ELSE "OK"
<1> DEFINE b == Entry(len, c, text)
<1>1. Checksums(b) = c /\ b.headers["LEN"] = {len} /\ Payload(b, r) = p
  <2>1. Checksums(b) = c
    BY DEF Entry, Checksums
  <2>2. b.headers["LEN"] = {len}
    BY DEF Entry
  <2> QED
    BY <2>1, <2>2
<1> HIDE DEF b
<1>2. {len} # {Len(p)} <=> len # Len(p)
  OBVIOUS
<1>3. BlockStatus(b, r)
           = IF len # Len(p) THEN "BAD_LENGTH"
             ELSE IF (\E x \in c : x # Checksum(p)) \/ (c = {} /\ r.strict) THEN "BAD_CHECKSUM"
             ELSE "OK"
  BY <1>1, <1>2 DEF BlockStatus
<1> QED
  BY <1>3 DEF b

\* Blocks that all fail alike, or none.
LEMMA AlikeStatus ==
  ASSUME NEW E, NEW es \in Seq(E), es # <<>>, NEW r, NEW status,
         \A b \in 1 .. Len(es) : BlockStatus(es[b], r) = status
  PROVE  BlocksStatus(es, r) = status
<1> DEFINE bad == {b \in DOMAIN es : BlockStatus(es[b], r) # "OK"}
<1>1. DOMAIN es = 1 .. Len(es) /\ 1 \in 1 .. Len(es)
  OBVIOUS
<1>2. BlocksStatus(es, r) = IF bad = {} THEN "OK" ELSE BlockStatus(es[Min(bad)], r)
  BY DEF BlocksStatus
<1>3. CASE status = "OK"
  <2>1. bad = {}
    BY <1>1, <1>3
  <2> QED
    BY <1>2, <1>3, <2>1
<1>4. CASE status # "OK"
  <2>1. bad = 1 .. Len(es)
    BY <1>1, <1>4
  <2>2. bad # {} /\ bad \in SUBSET Nat
    BY <1>1, <2>1
  <2> HIDE DEF bad
  <2>3. Min(bad) \in bad
    BY <2>2, Smallest, Zenon
  <2> QED
    BY <1>2, <2>1, <2>2, <2>3
<1> QED
  BY <1>3, <1>4

-----------------------------------------------------------------------------
(***************************************************************************)
(* Rewriting a text line by line: g says what becomes of a line.           *)
(***************************************************************************)
\* What g rewrites, and into what.
Rules(g, L, M) == g \in [L -> Seq(M)]

\* The text in which every line of s has been replaced by its translation.
Translated(g, s) == FlattenSeq([i \in DOMAIN s |-> g[s[i]]])

\* A text of lines is translated into a text of lines.
LEMMA TranslatedLines ==
  ASSUME NEW L, NEW M, NEW g, Rules(g, L, M), NEW s \in Seq(L)
  PROVE  /\ [i \in DOMAIN s |-> g[s[i]]] \in Seq(Seq(M))
         /\ Len([i \in DOMAIN s |-> g[s[i]]]) = Len(s)
         /\ Translated(g, s) \in Seq(M)
<1> DEFINE x == [i \in DOMAIN s |-> g[s[i]]]
<1>1. x \in [1 .. Len(s) -> Seq(M)] /\ Len(s) \in Nat
  BY DEF Rules
<1>2. Translated(g, s) = FlattenSeq(x)
  BY DEF Translated
<1> HIDE DEF x
<1>3. x \in Seq(Seq(M)) /\ Len(x) = Len(s)
  <2> DEFINE n == Len(s)
             D == Seq(M)
  <2>1. x \in [1 .. n -> D] /\ n \in Nat
    BY <1>1
  <2> HIDE DEF n, D
  <2>2. x \in Seq(D) /\ Len(x) = n
    BY <2>1
  <2> QED
    BY <2>2 DEF n, D
<1>4. Translated(g, s) \in Seq(M)
  BY <1>2, <1>3, Flattened
<1> QED
  BY <1>3, <1>4 DEF x

\* Two texts are rewritten one after the other.
LEMMA TranslatesOn ==
  ASSUME NEW L, NEW M, NEW g, Rules(g, L, M), NEW s \in Seq(L), NEW t \in Seq(L)
  PROVE  Translated(g, s \o t) = Translated(g, s) \o Translated(g, t)
<1> DEFINE x == [i \in DOMAIN s |-> g[s[i]]]
           y == [i \in DOMAIN t |-> g[t[i]]]
           u == s \o t
           z == [i \in DOMAIN u |-> g[u[i]]]
           m == Len(s)
           n == Len(t)
<1>1. x \in Seq(Seq(M)) /\ Len(x) = m /\ y \in Seq(Seq(M)) /\ Len(y) = n
  <2>1. x \in Seq(Seq(M)) /\ Len(x) = Len(s) /\ Translated(g, s) \in Seq(M)
    BY TranslatedLines
  <2>2. y \in Seq(Seq(M)) /\ Len(y) = Len(t) /\ Translated(g, t) \in Seq(M)
    BY TranslatedLines
  <2> QED
    BY <2>1, <2>2
<1>2. m \in Nat /\ n \in Nat /\ u \in Seq(L) /\ Len(u) = m + n
  OBVIOUS
<1>3. z \in Seq(Seq(M)) /\ Len(z) = m + n
  <2> HIDE DEF u
  <2>1. z \in Seq(Seq(M)) /\ Len(z) = Len(u) /\ Translated(g, u) \in Seq(M)
    <3>1. u \in Seq(L)
      BY <1>2
    <3> QED
      BY <3>1, TranslatedLines
  <2> QED
    BY <1>2, <2>1
<1>4. /\ \A i \in 1 .. m : u[i] = s[i]
      /\ \A i \in 1 .. n : u[m + i] = t[i]
  OBVIOUS
<1>5. /\ \A i \in 1 .. m : x[i] = g[s[i]]
      /\ \A i \in 1 .. n : y[i] = g[t[i]]
  OBVIOUS
<1>6. \A i \in 1 .. m + n : z[i] = g[u[i]]
  BY <1>2
<1>7. Translated(g, s) = FlattenSeq(x) /\ Translated(g, t) = FlattenSeq(y)
      /\ Translated(g, u) = FlattenSeq(z)
  BY DEF Translated
<1> HIDE DEF x, y, z, u, m, n
<1> DEFINE w == x \o y
<1>8. w \in Seq(Seq(M)) /\ Len(w) = m + n
      /\ (\A i \in 1 .. m : w[i] = x[i]) /\ \A i \in 1 .. n : w[m + i] = y[i]
  <2> DEFINE D == Seq(M)
  <2>1. x \in Seq(D) /\ y \in Seq(D) /\ Len(x) = m /\ Len(y) = n
    BY <1>1
  <2> HIDE DEF D
  <2>2. /\ w \in Seq(D) /\ Len(w) = Len(x) + Len(y)
        /\ \A i \in 1 .. Len(x) : w[i] = x[i]
        /\ \A i \in 1 .. Len(y) : w[Len(x) + i] = y[i]
    <3>1. x \in Seq(D) /\ y \in Seq(D)
      BY <2>1
    <3> QED
      BY <3>1
  <2> HIDE DEF w
  <2>3. w \in Seq(D) /\ Len(w) = m + n
        /\ (\A i \in 1 .. m : w[i] = x[i]) /\ \A i \in 1 .. n : w[m + i] = y[i]
    BY <2>1, <2>2
  <2> QED
    BY <2>3 DEF D
<1> HIDE DEF w
<1>9. \A i \in 1 .. m + n : w[i] = z[i]
  <2> SUFFICES ASSUME NEW i \in 1 .. m + n PROVE w[i] = z[i]
    OBVIOUS
  <2>1. CASE i <= m
    <3>1. i \in 1 .. m
      BY <1>2, <2>1
    <3>2. w[i] = x[i] /\ u[i] = s[i] /\ x[i] = g[s[i]]
      BY <1>4, <1>5, <1>8, <3>1
    <3> QED
      BY <1>6, <3>2
  <2>2. CASE i > m
    <3>1. PICK j \in 1 .. n : i = m + j
      <4>1. i - m \in 1 .. n /\ i = m + (i - m)
        BY <1>2, <2>2
      <4> QED
        BY <4>1, Zenon
    <3>2. w[i] = y[j] /\ z[i] = g[u[i]] /\ u[i] = t[j]
      BY <1>4, <1>6, <1>8, <3>1
    <3> QED
      BY <1>5, <3>2
  <2> QED
    BY <1>2, <2>1, <2>2
<1>10. w = z
  BY <1>3, <1>8, <1>9
<1>11. FlattenSeq(w) = FlattenSeq(x) \o FlattenSeq(y)
  BY <1>1, FlattenConcat DEF w
<1> QED
  BY <1>7, <1>10, <1>11 DEF u

\* A single line becomes its translation.
LEMMA TranslatesOne ==
  ASSUME NEW L, NEW M, NEW g, Rules(g, L, M), NEW l \in L
  PROVE  Translated(g, <<l>>) = g[l]
<1>1. [i \in DOMAIN <<l>> |-> g[<<l>>[i]]] = <<g[l]>>
  OBVIOUS
<1>2. FlattenSeq(<<g[l]>>) = g[l]
  <2>1. <<g[l]>> \in Seq(Seq(M)) /\ Len(<<g[l]>>) = 1 /\ <<g[l]>>[1] = g[l] /\ g[l] \in Seq(M)
    BY DEF Rules
  <2> DEFINE ss == <<g[l]>>
  <2>2. PICK f \in [0 .. Len(ss) -> Seq(M)] :
          /\ f[0] = <<>> /\ f[Len(ss)] = FlattenSeq(ss)
          /\ \A k \in 0 .. Len(ss) - 1 : f[k + 1] = f[k] \o ss[k + 1]
    BY <2>1, FlattenUnrolls
  <2> HIDE DEF ss
  <2>3. f[0 + 1] = f[0] \o ss[0 + 1]
    <3>1. 0 \in 0 .. Len(ss) - 1
      BY <2>1 DEF ss
    <3> QED
      BY <2>2, <3>1
  <2>4. f[1] = <<>> \o g[l]
    BY <2>1, <2>2, <2>3 DEF ss
  <2>5. f[1] = g[l]
    BY <2>1, <2>4
  <2> QED
    BY <2>1, <2>2, <2>5 DEF ss
<1> QED
  BY <1>1, <1>2 DEF Translated

\* Lines that stay as they are.
LEMMA TranslatesSame ==
  ASSUME NEW L, NEW M, NEW g, Rules(g, L, M), NEW T, T \subseteq L, NEW s \in Seq(T),
         \A l \in T : g[l] = <<l>>
  PROVE  Translated(g, s) = s
<1> DEFINE n == Len(s)
<1>1. n \in Nat /\ s \in [1 .. n -> T]
  OBVIOUS
<1>2. [i \in DOMAIN s |-> g[s[i]]] = [k \in 1 .. n |-> <<s[k]>>]
  OBVIOUS
<1> HIDE DEF n
<1>3. FlattenSeq([k \in 1 .. n |-> <<s[k]>>]) = s
  BY <1>1, FlattenSingles
<1> QED
  BY <1>2, <1>3 DEF Translated

\* One line for each line.
Each(L, h) == [l \in L |-> <<h[l]>>]
Changes(h, L, M) == h \in [L -> M]

\* Where every line becomes one line, translating is mapping.
LEMMA TranslatesEach ==
  ASSUME NEW L, NEW M, NEW h, Changes(h, L, M), NEW s \in Seq(L)
  PROVE  Translated(Each(L, h), s) = [i \in DOMAIN s |-> h[s[i]]]
<1> DEFINE n == Len(s)
           x == [i \in 1 .. n |-> h[s[i]]]
           g == [l \in L |-> <<h[l]>>]
<1>1. n \in Nat /\ DOMAIN s = 1 .. n /\ x \in [1 .. n -> M]
  BY DEF Changes
<1>2. [i \in DOMAIN s |-> g[s[i]]] = [k \in 1 .. n |-> <<x[k]>>]
  OBVIOUS
<1>3. x = [i \in DOMAIN s |-> h[s[i]]]
  OBVIOUS
<1> HIDE DEF n, x
<1>4. FlattenSeq([k \in 1 .. n |-> <<x[k]>>]) = x
  BY <1>1, FlattenSingles
<1> QED
  BY <1>2, <1>3, <1>4 DEF Translated, Each

\* The lines of a whole reply.
AllLines(V) == Lines(V) \cup {Opening, Ending}

\* The text s is rewritten as t.
Becomes(g, L, M, s, t) ==
  Rules(g, L, M) /\ s \in Seq(L) /\ t \in Seq(M) /\ Translated(g, s) = t

\* Texts that are rewritten one by one may be rewritten together.
LEMMA BecomesOn ==
  ASSUME NEW g, NEW L, NEW M, NEW s, NEW t, NEW x, NEW y,
         Becomes(g, L, M, s, x), Becomes(g, L, M, t, y)
  PROVE  Becomes(g, L, M, s \o t, x \o y)
<1>1. /\ Rules(g, L, M) /\ s \in Seq(L) /\ t \in Seq(L) /\ x \in Seq(M) /\ y \in Seq(M)
      /\ Translated(g, s) = x /\ Translated(g, t) = y
  BY DEF Becomes
<1>2. Translated(g, s \o t) = Translated(g, s) \o Translated(g, t)
  <2>1. s \in Seq(L)
    BY <1>1
  <2>2. t \in Seq(L)
    BY <1>1
  <2>3. Rules(g, L, M)
    BY <1>1
  <2> QED
    BY <2>1, <2>2, <2>3, TranslatesOn
<1>3. s \o t \in Seq(L) /\ x \o y \in Seq(M)
  BY <1>1
<1> QED
  BY <1>1, <1>2, <1>3, Zenon DEF Becomes

\* One line is rewritten as the rules say.
LEMMA BecomesOne ==
  ASSUME NEW L, NEW M, NEW g, Rules(g, L, M), NEW l \in L, NEW t, g[l] = t
  PROVE  Becomes(g, L, M, <<l>>, t)
<1>1. Translated(g, <<l>>) = g[l]
  BY TranslatesOne
<1>2. <<l>> \in Seq(L) /\ g[l] \in Seq(M)
  BY DEF Rules
<1> QED
  BY <1>1, <1>2 DEF Becomes

\* A text of lines that the rules keep is kept.
LEMMA BecomesSame ==
  ASSUME NEW L, NEW M, NEW g, Rules(g, L, M), NEW T, T \subseteq L, NEW s \in Seq(T),
         \A l \in T : g[l] = <<l>>
  PROVE  Becomes(g, L, M, s, s)
<1>1. s \in Seq(L)
  OBVIOUS
<1>2. Translated(g, s) = s
  BY TranslatesSame
<1>3. Translated(g, s) \in Seq(M)
  BY <1>1, TranslatedLines
<1> QED
  BY <1>1, <1>2, <1>3 DEF Becomes

\* A text of parts is rewritten part by part.
LEMMA BecomesFlat ==
  ASSUME NEW L, NEW M, NEW g, Rules(g, L, M), NEW n \in Nat, NEW ss, NEW tt,
         ss = [k \in 1 .. n |-> ss[k]], tt = [k \in 1 .. n |-> tt[k]],
         \A k \in 1 .. n : Becomes(g, L, M, ss[k], tt[k])
  PROVE  Becomes(g, L, M, FlattenSeq(ss), FlattenSeq(tt))
<1> DEFINE A == Seq(L)
           B == Seq(M)
<1>1. \A k \in 1 .. n : ss[k] \in A /\ tt[k] \in B /\ Translated(g, ss[k]) = tt[k]
  BY DEF Becomes
<1>2. ss \in Seq(A) /\ tt \in Seq(B) /\ Len(ss) = n /\ Len(tt) = n
  <2> HIDE DEF A, B
  <2>1. ss \in [1 .. n -> A] /\ tt \in [1 .. n -> B]
    BY <1>1
  <2> QED
    BY <2>1
<1>3. \A k \in 1 .. Len(ss) : Translated(g, ss[k]) = tt[k]
  BY <1>1, <1>2
<1>4. ss \in Seq(Seq(L)) /\ tt \in Seq(Seq(M)) /\ Len(ss) = Len(tt)
  BY <1>2
<1> DEFINE R == {p \in A \X B : Becomes(g, L, M, p[1], p[2])}
<1>5. << <<>>, <<>> >> \in R
  <2>1. Translated(g, <<>>) = <<>>
    <3>1. <<>> \in Seq(Seq(M)) /\ Len(<<>>) = 0
      OBVIOUS
    <3>2. FlattenSeq(<<>>) = <<>>
      BY <3>1, FlattenUnrolls, ZenonT(30)
    <3>3. [i \in DOMAIN <<>> |-> g[<<>>[i]]] = <<>>
      OBVIOUS
    <3> QED
      BY <3>2, <3>3 DEF Translated
  <2>2. <<>> \in A /\ <<>> \in B
    OBVIOUS
  <2>3. Becomes(g, L, M, <<>>, <<>>)
    BY <2>1, <2>2 DEF Becomes
  <2> HIDE DEF A, B
  <2> QED
    BY <2>2, <2>3
<1>6. \A k \in 1 .. Len(ss) : <<ss[k], tt[k]>> \in R
  <2> HIDE DEF A, B
  <2> QED
    BY <1>1, <1>2
<1>7. \A s, u \in Seq(L), t, v \in Seq(M) :
        <<s, t>> \in R /\ <<u, v>> \in R => <<s \o u, t \o v>> \in R
  <2> SUFFICES ASSUME NEW s \in Seq(L), NEW u \in Seq(L), NEW t \in Seq(M), NEW v \in Seq(M),
                      <<s, t>> \in R, <<u, v>> \in R
               PROVE  <<s \o u, t \o v>> \in R
    OBVIOUS
  <2>1. Becomes(g, L, M, s, t) /\ Becomes(g, L, M, u, v)
    OBVIOUS
  <2>2. Becomes(g, L, M, s \o u, t \o v)
    BY <2>1, BecomesOn, Zenon
  <2>3. s \o u \in A /\ t \o v \in B
    OBVIOUS
  <2> HIDE DEF A, B
  <2> QED
    BY <2>2, <2>3
<1>8. <<FlattenSeq(ss), FlattenSeq(tt)>> \in R
  <2> HIDE DEF R
  <2> QED
    BY <1>4, <1>5, <1>6, <1>7, FlattenAlike
<1> QED
  BY <1>8

\* The lines that no rewriting touches.
KeepsText(g, S) ==
  /\ \A l \in TextLine(S) : g[l] = <<l>>
  /\ g[Line("open", 1)] = <<Line("open", 1)>>
  /\ g[Line("close", 1)] = <<Line("close", 1)>>

\* The rules keep the opening and the headers of the reply itself.
KeepsHeading(g, V) ==
  /\ g[Opening] = <<Opening>>
  /\ \A x \in V : g[Line("NONCE", x)] = <<Line("NONCE", x)>>
  /\ \A x \in V : g[Line("STATUS", x)] = <<Line("STATUS", x)>>

\* The rewriting of one block, piece by piece.
LEMMA FencedBecomes ==
  ASSUME NEW L, NEW M, NEW g, Rules(g, L, M), NEW S, NEW text \in Seq(S), Plain(text),
         NEW V, Seq(S) \subseteq V, 1 \in V, L = AllLines(V), KeepsText(g, S),
         NEW len \in V, NEW c, NEW len2, NEW c2,
         g[Line("LEN", len)] = <<Line("LEN", len2)>>,
         Becomes(g, L, M, Vouched(c), Vouched(c2))
  PROVE  Becomes(g, L, M, Fenced(len, c, text), Fenced(len2, c2, text))
<1> DEFINE s1 == <<Line("LEN", len)>>
           s2 == Vouched(c)
           s3 == <<Line("open", 1)>>
           s4 == Split(text)
           s5 == <<Line("close", 1)>>
           t1 == <<Line("LEN", len2)>>
           t2 == Vouched(c2)
           T == TextLine(S)
<1>1. Line("LEN", len) \in L /\ Line("open", 1) \in L /\ Line("close", 1) \in L
  BY DEF AllLines, Lines, Kinds
<1>2. Becomes(g, L, M, s1, t1)
  BY <1>1, BecomesOne
<1>3. Becomes(g, L, M, s3, s3)
  BY <1>1, BecomesOne DEF KeepsText
<1>4. Becomes(g, L, M, s5, s5)
  BY <1>1, BecomesOne DEF KeepsText
<1>5. Becomes(g, L, M, s4, s4)
  <2>1. s4 \in Seq(T)
    BY Rejoined
  <2>2. T \subseteq L
    BY DEF TextLine, AllLines, Lines, Kinds
  <2>3. \A l \in T : g[l] = <<l>>
    BY DEF KeepsText
  <2> HIDE DEF s4, T
  <2> QED
    BY <2>1, <2>2, <2>3, BecomesSame
<1>6. Becomes(g, L, M, s2, t2)
  OBVIOUS
<1> HIDE DEF s1, s2, s3, s4, s5, t1, t2
<1>7. Becomes(g, L, M, s1 \o s2, t1 \o t2)
  BY <1>2, <1>6, BecomesOn, Zenon
<1>8. Becomes(g, L, M, s1 \o s2 \o s3, t1 \o t2 \o s3)
  BY <1>3, <1>7, BecomesOn, Zenon
<1>9. Becomes(g, L, M, s1 \o s2 \o s3 \o s4, t1 \o t2 \o s3 \o s4)
  BY <1>5, <1>8, BecomesOn, Zenon
<1>10. Becomes(g, L, M, s1 \o s2 \o s3 \o s4 \o s5, t1 \o t2 \o s3 \o s4 \o s5)
  BY <1>4, <1>9, BecomesOn, Zenon
<1> QED
  BY <1>10, Zenon DEF Fenced, s1, s2, s3, s4, s5, t1, t2

\* The rewriting of a reply.
LEMMA ReplyBecomes ==
  ASSUME NEW V, NEW M, NEW g, KeepsHeading(g, V), NEW v \in V, NEW st \in V,
         NEW mid, NEW new, Becomes(g, AllLines(V), M, mid, new)
  PROVE  Becomes(g, AllLines(V), M, Reply(v, st, mid),
                 <<Opening>> \o (Heading(v, st) \o new) \o g[Ending])
<1> DEFINE L == AllLines(V)
<1>0. Rules(g, L, M) /\ Becomes(g, L, M, mid, new)
  BY DEF Becomes
<1>1. Opening \in L /\ Ending \in L /\ Line("NONCE", v) \in L /\ Line("STATUS", st) \in L
  BY DEF AllLines, Lines, Kinds
<1> DEFINE a == <<Line("NONCE", v)>>
           b == <<Line("STATUS", st)>>
           x == <<Opening>>
           z == <<Ending>>
<1>2. Becomes(g, L, M, a, a)
  BY <1>0, <1>1, BecomesOne DEF KeepsHeading
<1>3. Becomes(g, L, M, b, b)
  BY <1>0, <1>1, BecomesOne DEF KeepsHeading
<1>4. Becomes(g, L, M, x, x)
  BY <1>0, <1>1, BecomesOne DEF KeepsHeading
<1>5. Becomes(g, L, M, z, g[Ending])
  BY <1>0, <1>1, BecomesOne
<1>6. Heading(v, st) = a \o b
  BY DEF Heading
<1> HIDE DEF a, b, x, z, L
<1>7. Becomes(g, L, M, Heading(v, st), Heading(v, st))
  BY <1>2, <1>3, <1>6, BecomesOn, Zenon
<1>8. Becomes(g, L, M, Heading(v, st) \o mid, Heading(v, st) \o new)
  BY <1>0, <1>7, BecomesOn, Zenon
<1>9. Becomes(g, L, M, x \o (Heading(v, st) \o mid), x \o (Heading(v, st) \o new))
  BY <1>4, <1>8, BecomesOn, Zenon
<1>10. Becomes(g, L, M, x \o (Heading(v, st) \o mid) \o z, x \o (Heading(v, st) \o new) \o g[Ending])
  BY <1>5, <1>9, BecomesOn, Zenon
<1> QED
  BY <1>10, Zenon DEF Reply, x, z, L

\* A whole reply, block by block.
Said(v, st, n, len, c, text) == Reply(v, st, FlattenSeq(Fences(n, len, c, text)))

\* Texts without markers over S, and lengths and checksums out of V.
Fit(n, len, c, text, S, V) ==
  n \in Nat /\ Seq(S) \subseteq V /\ 1 \in V /\ BlocksOver(n, len, c, text, S, V)

\* Lines of other kinds than these stay.
KeepsOther(g, L, kinds) == \A l \in L : l.is \notin kinds => g[l] = <<l>>

\* Rules about headers of blocks and END keep the payloads and the heading.
LEMMA Keeps ==
  ASSUME NEW V, NEW S, Seq(S) \subseteq V, 1 \in V,
         NEW kinds, kinds \subseteq {"CRC", "SUM", "LEN", "end"}, NEW g,
         KeepsOther(g, AllLines(V), kinds)
  PROVE  KeepsText(g, S) /\ KeepsHeading(g, V)
<1> DEFINE L == AllLines(V)
<1>1. \A k \in Kinds, x \in V : Line(k, x) \in L /\ Line(k, x).is = k
  <2>1. \A k \in Kinds, x \in V : Line(k, x) \in Lines(V)
    BY DEF Lines
  <2>2. \A k \in Kinds, x \in V : Line(k, x).is = k
    BY DEF Line
  <2>3. Lines(V) \subseteq L
    BY DEF AllLines
  <2> QED
    BY <2>1, <2>2, <2>3, Zenon
<1>2. \A k \in Kinds \ {"LEN", "CRC"}, x \in V : g[Line(k, x)] = <<Line(k, x)>>
  BY <1>1 DEF KeepsOther, Kinds
<1>3. {"open", "close", "text", "NONCE", "STATUS"} \subseteq Kinds \ {"LEN", "CRC"}
  BY DEF Kinds
<1>4. KeepsText(g, S)
  BY <1>2, <1>3 DEF KeepsText, TextLine
<1>5. Opening \in L /\ Opening.is = "begin"
  BY DEF AllLines, Opening, Line
<1>6. g[Opening] = <<Opening>>
  BY <1>5 DEF KeepsOther
<1> QED
  BY <1>2, <1>3, <1>4, <1>6 DEF KeepsHeading

\* Rewriting lengths, checksums and the END line of a reply.
LEMMA SaidBecomes ==
  ASSUME NEW V, NEW L, L = AllLines(V), NEW M, NEW g, Rules(g, L, M),
         NEW v \in V, NEW st \in V, NEW n, NEW len, NEW c, NEW text, NEW S,
         KeepsText(g, S), KeepsHeading(g, V), Fit(n, len, c, text, S, V), NEW len2, NEW c2,
         \A r \in 1 .. n : g[Line("LEN", len[r])] = <<Line("LEN", len2[r])>>,
         \A r \in 1 .. n : Becomes(g, L, M, Vouched(c[r]), Vouched(c2[r]))
  PROVE  Becomes(g, L, M, Said(v, st, n, len, c, text),
                 <<Opening>> \o (Heading(v, st) \o FlattenSeq(Fences(n, len2, c2, text))) \o g[Ending])
<1>1. n \in Nat /\ Seq(S) \subseteq V /\ 1 \in V /\ BlocksOver(n, len, c, text, S, V)
  BY DEF Fit
<1> DEFINE ss == Fences(n, len, c, text)
           tt == Fences(n, len2, c2, text)
<1>3. ASSUME NEW r \in 1 .. n PROVE Becomes(g, L, M, ss[r], tt[r])
  <2> DEFINE a == len[r]
             b == c[r]
             d == text[r]
             a2 == len2[r]
             b2 == c2[r]
  <2>1. d \in Seq(S) /\ Plain(d) /\ a \in V
    BY <1>1 DEF BlocksOver
  <2>2. g[Line("LEN", a)] = <<Line("LEN", a2)>> /\ Becomes(g, L, M, Vouched(b), Vouched(b2))
    OBVIOUS
  <2>3. ss[r] = Fenced(a, b, d) /\ tt[r] = Fenced(a2, b2, d)
    BY DEF Fences
  <2> HIDE DEF a, b, d, a2, b2, ss, tt
  <2>4. Becomes(g, L, M, Fenced(a, b, d), Fenced(a2, b2, d))
    BY <1>1, <2>1, <2>2, FencedBecomes
  <2> QED
    BY <2>3, <2>4
<1>4. ss = [r \in 1 .. n |-> ss[r]] /\ tt = [r \in 1 .. n |-> tt[r]]
  BY DEF Fences
<1> HIDE DEF ss, tt
<1>5. Becomes(g, L, M, FlattenSeq(ss), FlattenSeq(tt))
  BY <1>1, <1>3, <1>4, BecomesFlat
<1> DEFINE mid == FlattenSeq(ss)
           new == FlattenSeq(tt)
<1> HIDE DEF mid, new
<1>6. Becomes(g, L, M, mid, new)
  BY <1>5 DEF mid, new
<1>7. Becomes(g, L, M, Reply(v, st, mid), <<Opening>> \o (Heading(v, st) \o new) \o g[Ending])
  <2>1. Becomes(g, AllLines(V), M, mid, new)
    BY <1>6
  <2> QED
    BY <2>1, ReplyBecomes, Zenon
<1> QED
  BY <1>7 DEF Said, mid, new, ss, tt

-----------------------------------------------------------------------------
(***************************************************************************)
(* The faults that rewrite a reply line by line: no_checksum, bad_length,  *)
(* unterminated, bad_checksum.                                             *)
(***************************************************************************)

\* A line with another value.
LEMMA Revalued ==
  ASSUME NEW k, NEW x, NEW y
  PROVE  [Line(k, x) EXCEPT !.val = y] = Line(k, y)
<1> DEFINE l == Line(k, x)
           m == [l EXCEPT !.val = y]
           z == Line(k, y)
<1>1. m.is = z.is /\ m.at = z.at /\ m.val = z.val
  BY DEF Line
<1>2. m = [i \in {"is", "at", "val"} |-> m[i]] /\ z = [i \in {"is", "at", "val"} |-> z[i]]
  BY DEF Line
<1> QED
  BY <1>1, <1>2

\* The empty text stays empty.
LEMMA BecomesNone ==
  ASSUME NEW g, NEW L, NEW M, Rules(g, L, M)
  PROVE  Becomes(g, L, M, <<>>, <<>>)
<1>1. Translated(g, <<>>) = <<>>
  <2>1. <<>> \in Seq(Seq(M)) /\ Len(<<>>) = 0
    OBVIOUS
  <2>2. FlattenSeq(<<>>) = <<>>
    BY <2>1, FlattenUnrolls, ZenonT(30)
  <2>3. [i \in DOMAIN <<>> |-> g[<<>>[i]]] = <<>>
    OBVIOUS
  <2> QED
    BY <2>2, <2>3 DEF Translated
<1>2. <<>> \in Seq(L) /\ <<>> \in Seq(M)
  OBVIOUS
<1> QED
  BY <1>1, <1>2 DEF Becomes

\* The checksum of a block, rewritten or dropped.
LEMMA VouchedBecomes ==
  ASSUME NEW V, NEW L, L = AllLines(V), NEW M, NEW g, Rules(g, L, M),
         NEW c, NEW c2, c = {} => c2 = {},
         \A x : c = {x} => x \in V /\ g[Line("CRC", x)] = Vouched(c2),
         c = {} \/ \E x : c = {x}
  PROVE  Becomes(g, L, M, Vouched(c), Vouched(c2))
<1>1. CASE c = {}
  <2>1. Vouched(c) = <<>> /\ Vouched(c2) = <<>>
    BY <1>1 DEF Vouched
  <2> QED
    BY <2>1, BecomesNone
<1>2. ASSUME NEW x, c = {x} PROVE Becomes(g, L, M, Vouched(c), Vouched(c2))
  <2>1. Vouched(c) = <<Line("CRC", x)>>
    BY <1>2 DEF Vouched
  <2>2. Line("CRC", x) \in L /\ g[Line("CRC", x)] = Vouched(c2)
    BY <1>2 DEF AllLines, Lines, Kinds
  <2>3. Becomes(g, L, M, <<Line("CRC", x)>>, Vouched(c2))
    BY <2>2, BecomesOne
  <2> QED
    BY <2>1, <2>3
<1> QED
  BY <1>1, <1>2

\* What Fit says of one block.
FitOne(len, c, text, S, V) ==
  /\ len \in V /\ text \in Seq(S) /\ Plain(text)
  /\ c = {} \/ \E x : c = {x}
  /\ \A x : c = {x} => x \in V

\* What Fit says of one block.
LEMMA FitsOne ==
  ASSUME NEW n, NEW len, NEW c, NEW text, NEW S, NEW V, Fit(n, len, c, text, S, V),
         NEW r \in 1 .. n
  PROVE  FitOne(len[r], c[r], text[r], S, V)
  BY DEF Fit, BlocksOver, FitOne

\* What Fit says of all of them.
LEMMA FitsAll ==
  ASSUME NEW n, NEW len, NEW c, NEW text, NEW S, NEW V, Fit(n, len, c, text, S, V)
  PROVE  n \in Nat /\ Seq(S) \subseteq V /\ 1 \in V
  BY DEF Fit

\* Lines of some kinds left out.
Left(L, kinds) == [l \in L |-> IF l.is \in kinds THEN <<>> ELSE <<l>>]

\* Without leaves the lines of the given kinds out and keeps the others.
LEMMA WithoutIs ==
  ASSUME NEW L, NEW kinds, NEW s, NEW t, Becomes(Left(L, kinds), L, L, s, t)
  PROVE  Without(s, kinds) = t
<1> DEFINE g == Left(L, kinds)
<1>1. s \in Seq(L) /\ Translated(g, s) = t
  BY DEF Becomes
<1>2. \A i \in DOMAIN s : s[i] \in L
  BY <1>1
<1>3. \A l \in L : g[l] = IF l.is \in kinds THEN <<>> ELSE <<l>>
  BY DEF Left
<1> HIDE DEF g
<1>4. [i \in DOMAIN s |-> IF s[i].is \in kinds THEN <<>> ELSE <<s[i]>>]
        = [i \in DOMAIN s |-> g[s[i]]]
  BY <1>2, <1>3
<1> QED
  BY <1>1, <1>4 DEF Without, Translated

\* The rules that do so.
LEMMA LeftRules ==
  ASSUME NEW L, NEW kinds
  PROVE  /\ Rules(Left(L, kinds), L, L) /\ KeepsOther(Left(L, kinds), L, kinds)
         /\ \A l \in L : l.is \in kinds => Left(L, kinds)[l] = <<>>
<1>1. \A l \in L : (IF l.is \in kinds THEN <<>> ELSE <<l>>) \in Seq(L)
  OBVIOUS
<1> QED
  BY <1>1 DEF Rules, KeepsOther, Left

\* The fault no_checksum.
LEMMA Unvouches ==
  ASSUME NEW V, NEW v \in V, NEW st \in V, NEW n, NEW len, NEW c, NEW text, NEW S,
         Fit(n, len, c, text, S, V)
  PROVE  Without(Said(v, st, n, len, c, text), {"CRC", "SUM"})
           = Said(v, st, n, len, [r \in 1 .. n |-> {}], text)
<1> DEFINE L == AllLines(V)
           kinds == {"CRC", "SUM"}
           g == Left(L, kinds)
           c2 == [r \in 1 .. n |-> {}]
<1>1. /\ Rules(g, L, L) /\ KeepsOther(g, L, kinds)
      /\ \A l \in L : l.is \in kinds => g[l] = <<>>
  BY LeftRules
<1>2. KeepsText(g, S) /\ KeepsHeading(g, V)
  BY <1>1, FitsAll, Keeps
<1>3. \A x \in V : Line("CRC", x) \in L /\ Line("LEN", x) \in L /\ Ending \in L
  BY DEF AllLines, Lines, Kinds
<1>4. \A x : Line("CRC", x).is = "CRC" /\ Line("LEN", x).is = "LEN" /\ Ending.is = "end"
  BY DEF Line, Ending
<1>5. ASSUME NEW r \in 1 .. n
      PROVE  /\ g[Line("LEN", len[r])] = <<Line("LEN", len[r])>>
             /\ Becomes(g, L, L, Vouched(c[r]), Vouched(c2[r]))
  <2>1. /\ len[r] \in V /\ (c[r] = {} \/ \E x : c[r] = {x})
        /\ \A x : c[r] = {x} => x \in V
    <3>1. FitOne(len[r], c[r], text[r], S, V)
      BY FitsOne
    <3> QED
      BY <3>1 DEF FitOne
  <2>2. g[Line("LEN", len[r])] = <<Line("LEN", len[r])>>
    BY <1>1, <1>3, <1>4, <2>1 DEF KeepsOther
  <2>3. c2[r] = {} /\ Vouched({}) = <<>>
    BY DEF Vouched
  <2>4. \A x : c[r] = {x} => x \in V /\ g[Line("CRC", x)] = Vouched(c2[r])
    BY <1>1, <1>3, <1>4, <2>1, <2>3
  <2> HIDE DEF c2, g, L
  <2>5. Becomes(g, L, L, Vouched(c[r]), Vouched(c2[r]))
    BY <1>1, <2>1, <2>3, <2>4, VouchedBecomes DEF L
  <2> QED
    BY <2>2, <2>5
<1>6. g[Ending] = <<Ending>>
  BY <1>1, <1>3, <1>4 DEF KeepsOther, AllLines
<1> HIDE DEF g, c2
<1>7. Becomes(g, L, L, Said(v, st, n, len, c, text),
              <<Opening>> \o (Heading(v, st) \o FlattenSeq(Fences(n, len, c2, text))) \o g[Ending])
  BY <1>1, <1>2, <1>5, SaidBecomes
<1>8. Becomes(g, L, L, Said(v, st, n, len, c, text), Said(v, st, n, len, c2, text))
  BY <1>6, <1>7 DEF Said, Reply
<1> QED
  BY <1>8, WithoutIs DEF g, c2

\* The fault unterminated.
LEMMA Unends ==
  ASSUME NEW V, NEW v \in V, NEW st \in V, NEW n, NEW len, NEW c, NEW text, NEW S,
         Fit(n, len, c, text, S, V)
  PROVE  Without(Said(v, st, n, len, c, text), {"end"})
           = <<Opening>> \o (Heading(v, st) \o FlattenSeq(Fences(n, len, c, text)))
<1> DEFINE L == AllLines(V)
           kinds == {"end"}
           g == Left(L, kinds)
           u == <<Opening>> \o (Heading(v, st) \o FlattenSeq(Fences(n, len, c, text)))
<1>1. /\ Rules(g, L, L) /\ KeepsOther(g, L, kinds)
      /\ \A l \in L : l.is \in kinds => g[l] = <<>>
  BY LeftRules
<1>2. KeepsText(g, S) /\ KeepsHeading(g, V)
  BY <1>1, FitsAll, Keeps
<1>3. \A x \in V : Line("CRC", x) \in L /\ Line("LEN", x) \in L /\ Ending \in L
  BY DEF AllLines, Lines, Kinds
<1>4. \A x : Line("CRC", x).is = "CRC" /\ Line("LEN", x).is = "LEN" /\ Ending.is = "end"
  BY DEF Line, Ending
<1>5. ASSUME NEW r \in 1 .. n
      PROVE  /\ g[Line("LEN", len[r])] = <<Line("LEN", len[r])>>
             /\ Becomes(g, L, L, Vouched(c[r]), Vouched(c[r]))
  <2>1. /\ len[r] \in V /\ (c[r] = {} \/ \E x : c[r] = {x})
        /\ \A x : c[r] = {x} => x \in V
    <3>1. FitOne(len[r], c[r], text[r], S, V)
      BY FitsOne
    <3> QED
      BY <3>1 DEF FitOne
  <2>2. g[Line("LEN", len[r])] = <<Line("LEN", len[r])>>
    BY <1>1, <1>3, <1>4, <2>1 DEF KeepsOther
  <2>3. \A x : Vouched({x}) = <<Line("CRC", x)>>
    BY DEF Vouched
  <2>4. \A x : c[r] = {x} => x \in V /\ g[Line("CRC", x)] = Vouched(c[r])
    BY <1>1, <1>3, <1>4, <2>1, <2>3 DEF KeepsOther
  <2> HIDE DEF g, L
  <2>5. Becomes(g, L, L, Vouched(c[r]), Vouched(c[r]))
    BY <1>1, <2>1, <2>4, VouchedBecomes DEF L
  <2> QED
    BY <2>2, <2>5
<1>6. g[Ending] = <<>>
  <2>1. Ending \in L
    BY DEF AllLines
  <2> QED
    BY <1>1, <1>4, <2>1
<1> HIDE DEF g
<1>7. Becomes(g, L, L, Said(v, st, n, len, c, text), u \o g[Ending])
  BY <1>1, <1>2, <1>5, SaidBecomes
<1>8. u \o <<>> = u
  <2>1. FlattenSeq(Fences(n, len, c, text)) \in Seq(L)
    <3> DEFINE E == EntriesOf(n, len, c, text)
               mid == FlattenSeq(Fences(n, len, c, text))
    <3>1. mid \in Seq(Lines(V))
      BY ReadsBlocks DEF Fit
    <3> HIDE DEF mid
    <3> QED
      BY <3>1 DEF AllLines, mid
  <2> DEFINE mid == FlattenSeq(Fences(n, len, c, text))
  <2> HIDE DEF mid
  <2>2. mid \in Seq(L \cup {Opening, Line("NONCE", v), Line("STATUS", st)})
    BY <2>1 DEF mid
  <2>3. <<Opening>> \o (Heading(v, st) \o mid) \o <<>> = <<Opening>> \o (Heading(v, st) \o mid)
    BY <2>2 DEF Heading
  <2> QED
    BY <2>3 DEF mid
<1> HIDE DEF u
<1>9. Becomes(g, L, L, Said(v, st, n, len, c, text), u)
  BY <1>6, <1>7, <1>8
<1> QED
  BY <1>9, WithoutIs DEF g, u

\* A rule with one line for each line is a map over the text.
LEMMA EachIs ==
  ASSUME NEW L, NEW M, NEW h, Changes(h, L, M), NEW s, NEW t, Becomes(Each(L, h), L, M, s, t)
  PROVE  [i \in DOMAIN s |-> h[s[i]]] = t /\ \A i \in DOMAIN s : s[i] \in L
<1>1. s \in Seq(L) /\ Translated(Each(L, h), s) = t
  BY DEF Becomes
<1>2. Translated(Each(L, h), s) = [i \in DOMAIN s |-> h[s[i]]]
  BY <1>1, TranslatesEach
<1> QED
  BY <1>1, <1>2

\* Such rules keep the lines they do not change.
LEMMA EachRules ==
  ASSUME NEW L, NEW M, NEW h, Changes(h, L, M), NEW kinds,
         \A l \in L : l.is \notin kinds => h[l] = l
  PROVE  /\ Rules(Each(L, h), L, M) /\ KeepsOther(Each(L, h), L, kinds)
         /\ \A l \in L : Each(L, h)[l] = <<h[l]>>
<1>1. \A l \in L : <<h[l]>> \in Seq(M)
  BY DEF Changes
<1>2. \A l \in L : Each(L, h)[l] = <<h[l]>>
  BY DEF Each
<1>3. Rules(Each(L, h), L, M)
  BY <1>1 DEF Rules, Each
<1>4. KeepsOther(Each(L, h), L, kinds)
  BY <1>2 DEF KeepsOther
<1> QED
  BY <1>2, <1>3, <1>4

\* Each length and each checksum replaced by another.
LEMMA EachSaid ==
  ASSUME NEW V, NEW L, L = AllLines(V), NEW M, NEW h, Changes(h, L, M),
         \A l \in L : l.is \notin {"LEN", "CRC", "SUM"} => h[l] = l,
         NEW v \in V, NEW st \in V, NEW n, NEW len, NEW c, NEW text, NEW S,
         Fit(n, len, c, text, S, V), NEW len2, NEW c2,
         \A r \in 1 .. n : h[Line("LEN", len[r])] = Line("LEN", len2[r]),
         \A r \in 1 .. n : c[r] = {} => c2[r] = {},
         \A r \in 1 .. n : \A x : c[r] = {x} =>
                              \E y : c2[r] = {y} /\ h[Line("CRC", x)] = Line("CRC", y)
  PROVE  Becomes(Each(L, h), L, M, Said(v, st, n, len, c, text), Said(v, st, n, len2, c2, text))
<1> DEFINE g == Each(L, h)
           kinds == {"LEN", "CRC", "SUM"}
<1>1. Rules(g, L, M) /\ KeepsOther(g, L, kinds) /\ \A l \in L : g[l] = <<h[l]>>
  BY EachRules
<1>2. KeepsText(g, S) /\ KeepsHeading(g, V)
  BY <1>1, FitsAll, Keeps
<1>3. \A x \in V : Line("CRC", x) \in L /\ Line("LEN", x) \in L
  BY DEF AllLines, Lines, Kinds
<1> HIDE DEF g, kinds
<1>4. ASSUME NEW r \in 1 .. n
      PROVE  /\ g[Line("LEN", len[r])] = <<Line("LEN", len2[r])>>
             /\ Becomes(g, L, M, Vouched(c[r]), Vouched(c2[r]))
  <2>1. /\ len[r] \in V /\ (c[r] = {} \/ \E x : c[r] = {x})
        /\ \A x : c[r] = {x} => x \in V
    <3>1. FitOne(len[r], c[r], text[r], S, V)
      BY FitsOne
    <3> QED
      BY <3>1 DEF FitOne
  <2>2. g[Line("LEN", len[r])] = <<Line("LEN", len2[r])>>
    BY <1>1, <1>3, <2>1
  <2>3. \A y : Vouched({y}) = <<Line("CRC", y)>>
    BY DEF Vouched
  <2>4. ASSUME NEW x, c[r] = {x} PROVE x \in V /\ g[Line("CRC", x)] = Vouched(c2[r])
    <3>1. PICK y : c2[r] = {y} /\ h[Line("CRC", x)] = Line("CRC", y)
      BY <2>4
    <3>2. x \in V /\ Line("CRC", x) \in L
      BY <1>3, <2>1, <2>4
    <3> QED
      BY <1>1, <2>3, <3>1, <3>2
  <2>5. Becomes(g, L, M, Vouched(c[r]), Vouched(c2[r]))
    BY <1>1, <2>1, <2>4, VouchedBecomes
  <2> QED
    BY <2>2, <2>5
<1>5. g[Ending] = <<Ending>>
  <2>1. Ending \in L /\ Ending.is = "end"
    BY DEF AllLines, Ending, Line
  <2> QED
    BY <1>1, <2>1 DEF KeepsOther, kinds
<1>6. Becomes(g, L, M, Said(v, st, n, len, c, text),
              <<Opening>> \o (Heading(v, st) \o FlattenSeq(Fences(n, len2, c2, text))) \o g[Ending])
  BY <1>1, <1>2, <1>4, SaidBecomes
<1> QED
  BY <1>5, <1>6 DEF Said, Reply, g

\* The fault bad_length.
LEMMA Miscounts ==
  ASSUME NEW V, NEW v \in V, NEW st \in V, NEW n, NEW len, NEW c, NEW text, NEW S,
         Fit(n, len, c, text, S, V)
  PROVE  Miscount(Said(v, st, n, len, c, text))
           = Said(v, st, n, [r \in 1 .. n |-> len[r] + 3], c, text)
<1> DEFINE L == AllLines(V)
           h == [l \in L |-> IF l.is = "LEN" THEN [l EXCEPT !.val = @ + 3] ELSE l]
           M == {h[l] : l \in L}
           len2 == [r \in 1 .. n |-> len[r] + 3]
           s == Said(v, st, n, len, c, text)
           t == Said(v, st, n, len2, c, text)
<1>1. Changes(h, L, M) /\ \A l \in L : l.is \notin {"LEN", "CRC", "SUM"} => h[l] = l
  BY DEF Changes
<1>2. \A x \in V : Line("CRC", x) \in L /\ Line("LEN", x) \in L
  BY DEF AllLines, Lines, Kinds
<1>3. \A l \in L : h[l] = IF l.is = "LEN" THEN [l EXCEPT !.val = @ + 3] ELSE l
  OBVIOUS
<1>4. \A x : /\ Line("CRC", x).is = "CRC" /\ Line("LEN", x).is = "LEN"
             /\ [Line("LEN", x) EXCEPT !.val = @ + 3] = Line("LEN", x + 3)
  <2>1. ASSUME NEW x PROVE [Line("LEN", x) EXCEPT !.val = @ + 3] = Line("LEN", x + 3)
    <3>1. Line("LEN", x).val = x
      BY DEF Line
    <3>2. [Line("LEN", x) EXCEPT !.val = x + 3] = Line("LEN", x + 3)
      BY Revalued
    <3> QED
      BY <3>1, <3>2
  <2>2. \A x : Line("CRC", x).is = "CRC" /\ Line("LEN", x).is = "LEN"
    BY DEF Line
  <2> QED
    BY <2>1, <2>2
<1> HIDE DEF h, M, L
<1>5. \A x \in V : h[Line("LEN", x)] = Line("LEN", x + 3) /\ h[Line("CRC", x)] = Line("CRC", x)
  BY <1>2, <1>3, <1>4
<1>6. \A r \in 1 .. n : h[Line("LEN", len[r])] = Line("LEN", len2[r])
  BY <1>5, FitsOne DEF FitOne
<1>7. \A r \in 1 .. n : \A x : c[r] = {x} =>
                           \E y : c[r] = {y} /\ h[Line("CRC", x)] = Line("CRC", y)
  <2> SUFFICES ASSUME NEW r \in 1 .. n, NEW x, c[r] = {x}
               PROVE  \E y : c[r] = {y} /\ h[Line("CRC", x)] = Line("CRC", y)
    OBVIOUS
  <2>1. x \in V
    BY FitsOne DEF FitOne
  <2> QED
    BY <1>5, <2>1
<1> HIDE DEF len2
<1>8. Becomes(Each(L, h), L, M, Said(v, st, n, len, c, text), Said(v, st, n, len2, c, text))
  BY <1>1, <1>6, <1>7, EachSaid DEF L
<1> HIDE DEF s, t
<1>9. Becomes(Each(L, h), L, M, s, t)
  BY <1>8 DEF s, t
<1>10. [i \in DOMAIN s |-> h[s[i]]] = t /\ \A i \in DOMAIN s : s[i] \in L
  BY <1>1, <1>9, EachIs
<1>11. Miscount(s) = [i \in DOMAIN s |-> h[s[i]]]
  BY <1>3, <1>10 DEF Miscount
<1> QED
  BY <1>10, <1>11 DEF s, t, len2

\* Nothing is lost when sequences are joined.
LEMMA FlattenHolds ==
  ASSUME NEW S, NEW ss \in Seq(Seq(S)), NEW k \in 1 .. Len(ss), NEW i \in 1 .. Len(ss[k])
  PROVE  \E j \in 1 .. Len(FlattenSeq(ss)) : FlattenSeq(ss)[j] = ss[k][i]
<1> DEFINE n == Len(ss)
           B == Seq(S)
           x == ss[k][i]
           Holds(s) == \E j \in 1 .. Len(s) : s[j] = x
<1>1. n \in Nat /\ \A m \in 1 .. n : ss[m] \in B
  OBVIOUS
<1>2. PICK f \in [0 .. n -> B] : /\ f[0] = <<>> /\ f[n] = FlattenSeq(ss)
                                 /\ \A m \in 0 .. n - 1 : f[m + 1] = f[m] \o ss[m + 1]
  BY FlattenUnrolls
<1>3. \A s, t \in B : Holds(s) \/ Holds(t) => Holds(s \o t)
  <2> SUFFICES ASSUME NEW s \in B, NEW t \in B, Holds(s) \/ Holds(t) PROVE Holds(s \o t)
    OBVIOUS
  <2>1. CASE Holds(s)
    <3>1. PICK j \in 1 .. Len(s) : s[j] = x
      BY <2>1
    <3>2. j \in 1 .. Len(s \o t) /\ (s \o t)[j] = s[j]
      OBVIOUS
    <3> QED
      BY <3>1, <3>2
  <2>2. CASE Holds(t)
    <3>1. PICK j \in 1 .. Len(t) : t[j] = x
      BY <2>2
    <3>2. Len(s) + j \in 1 .. Len(s \o t) /\ (s \o t)[Len(s) + j] = t[j]
      OBVIOUS
    <3> QED
      BY <3>1, <3>2
  <2> QED
    BY <2>1, <2>2
<1>4. Holds(ss[k])
  OBVIOUS
<1> DEFINE K == {m \in 0 .. n : m >= k => Holds(f[m])}
<1> HIDE DEF Holds, B
<1>5. 0 \in K
  BY <1>1
<1>6. ASSUME NEW m \in 0 .. n - 1, m \in K PROVE m + 1 \in K
  <2>1. m + 1 \in 0 .. n /\ m + 1 \in 1 .. n /\ m \in 0 .. n
    BY <1>1
  <2>2. f[m] \in B /\ ss[m + 1] \in B /\ f[m + 1] = f[m] \o ss[m + 1]
    BY <1>1, <1>2, <2>1
  <2>3. ASSUME m + 1 >= k PROVE Holds(f[m]) \/ Holds(ss[m + 1])
    <3>1. CASE m + 1 = k
      BY <1>4, <3>1
    <3>2. CASE m + 1 # k
      BY <1>6, <2>1, <2>3, <3>2
    <3> QED
      BY <3>1, <3>2
  <2>4. m + 1 >= k => Holds(f[m + 1])
    BY <1>3, <2>2, <2>3, Zenon
  <2> QED
    BY <2>1, <2>4
<1> HIDE DEF K
<1>7. \A m \in 0 .. n : m \in K
  BY <1>1, <1>5, <1>6, Induction
<1>8. Holds(FlattenSeq(ss))
  <2>1. n \in K /\ n >= k
    BY <1>1, <1>7
  <2>2. Holds(f[n])
    BY <2>1 DEF K
  <2> QED
    BY <1>2, <2>2
<1> QED
  BY <1>8 DEF Holds

\* The blocks of a fitting reply, as lines.
LEMMA FitsLines ==
  ASSUME NEW n, NEW len, NEW c, NEW text, NEW S, NEW V, Fit(n, len, c, text, S, V)
  PROVE  /\ Fences(n, len, c, text) \in Seq(Seq(Lines(V))) /\ Len(Fences(n, len, c, text)) = n
         /\ FlattenSeq(Fences(n, len, c, text)) \in Seq(Lines(V))
<1> DEFINE E == EntriesOf(n, len, c, text)
<1>1. E \subseteq E /\ n \in Nat /\ Seq(S) \subseteq V /\ 1 \in V /\ BlocksOver(n, len, c, text, S, V)
  BY DEF Fit
<1> QED
  BY <1>1, ReadsBlocks

\* A checksum in a block is a line of the reply.
LEMMA SaysChecksum ==
  ASSUME NEW V, NEW v \in V, NEW st \in V, NEW n, NEW len, NEW c, NEW text, NEW S,
         Fit(n, len, c, text, S, V), NEW r \in 1 .. n, NEW x, c[r] = {x}
  PROVE  \E i \in DOMAIN Said(v, st, n, len, c, text) :
            Said(v, st, n, len, c, text)[i] = Line("CRC", x)
<1> DEFINE ss == Fences(n, len, c, text)
           mid == FlattenSeq(ss)
           K == Lines(V)
           L == K \cup {Opening, Ending}
<1>1. ss \in Seq(Seq(K)) /\ Len(ss) = n /\ mid \in Seq(K)
  <2>1. /\ Fences(n, len, c, text) \in Seq(Seq(Lines(V))) /\ Len(Fences(n, len, c, text)) = n
        /\ FlattenSeq(Fences(n, len, c, text)) \in Seq(Lines(V))
    BY FitsLines, Zenon
  <2> HIDE DEF K
  <2> QED
    BY <2>1 DEF ss, mid, K
<1>2. ss[r] = Fenced(len[r], c[r], text[r]) /\ ss[r] \in Seq(K)
  <2>1. ss[r] = Fenced(len[r], c[r], text[r])
    BY DEF Fences
  <2> DEFINE D == Seq(K)
  <2> HIDE DEF ss, D
  <2>2. ss \in Seq(D) /\ r \in 1 .. Len(ss)
    BY <1>1 DEF D
  <2>3. ss[r] \in D
    BY <2>2
  <2> QED
    BY <2>1, <2>3 DEF D
<1>3. 2 \in 1 .. Len(ss[r]) /\ ss[r][2] = Line("CRC", x)
  <2> DEFINE s4 == Split(text[r])
             T == TextLine(S)
             D == T \cup {Line("LEN", len[r]), Line("CRC", x), Line("open", 1), Line("close", 1)}
  <2>1. s4 \in Seq(T)
    <3>1. text[r] \in Seq(S) /\ Plain(text[r])
      BY FitsOne DEF FitOne
    <3> QED
      BY <3>1, Rejoined
  <2>2. Vouched(c[r]) = <<Line("CRC", x)>>
    BY DEF Vouched
  <2> HIDE DEF s4, T
  <2>3. s4 \in Seq(D)
    BY <2>1
  <2> DEFINE u == <<Line("LEN", len[r])>> \o <<Line("CRC", x)>> \o <<Line("open", 1)>> \o s4
                    \o <<Line("close", 1)>>
  <2>4. 2 \in 1 .. Len(u) /\ u[2] = Line("CRC", x)
    BY <2>3
  <2>5. ss[r] = u
    BY <1>2, <2>2 DEF Fenced, s4
  <2> QED
    BY <2>4, <2>5
<1> HIDE DEF ss
<1>4. PICK j \in 1 .. Len(mid) : mid[j] = Line("CRC", x)
  BY <1>1, <1>3, FlattenHolds
<1>5. Heading(v, st) \in Seq(K) /\ Len(Heading(v, st)) = 2
  BY DEF Heading, Lines, Kinds
<1> HIDE DEF mid, K
<1> DEFINE head == Heading(v, st)
           body == head \o mid
           u == <<Opening>> \o body \o <<Ending>>
<1> HIDE DEF head
<1>6. body \in Seq(K) /\ Len(body) = 2 + Len(mid) /\ body[2 + j] = mid[j] /\ Len(mid) \in Nat
  <2>1. mid \in Seq(K)
    BY <1>1
  <2>2. head \in Seq(K)
    BY <1>5 DEF head
  <2>3. Len(head) = 2
    BY <1>5 DEF head
  <2>4. j \in 1 .. Len(mid)
    OBVIOUS
  <2>5. Len(mid) \in Nat
    BY <2>1
  <2>6. body \in Seq(K) /\ Len(body) = Len(head) + Len(mid)
    BY <2>1, <2>2
  <2>7. body[Len(head) + j] = mid[j]
    BY <2>1, <2>2, <2>4
  <2> QED
    BY <2>3, <2>5, <2>6, <2>7
<1> HIDE DEF body
<1>7. body \in Seq(L) /\ Opening \in L /\ Ending \in L
  BY <1>6
<1> HIDE DEF L
<1>8. 3 + j \in DOMAIN u /\ u[3 + j] = body[2 + j]
  <2>1. 2 + j \in 1 .. Len(body) /\ 3 + j = 1 + (2 + j)
    BY <1>6
  <2> QED
    BY <1>7, <2>1
<1>9. Said(v, st, n, len, c, text) = u
  BY DEF Said, Reply, body, head, mid, ss
<1> HIDE DEF u
<1> QED
  BY <1>4, <1>6, <1>8, <1>9

\* Checksums after bad_checksum.
Tampered(c) == {[of |-> x.of, tampered |-> TRUE] : x \in c}

\* The fault bad_checksum, where there are checksums.
LEMMA Tampers ==
  ASSUME NEW V, NEW v \in V, NEW st \in V, NEW n, NEW len, NEW c, NEW text, NEW S,
         Fit(n, len, c, text, S, V), n > 0, NEW p, \A r \in 1 .. n : c[r] = {Checksum(p[r])}
  PROVE  Tamper(Said(v, st, n, len, c, text))
           = Said(v, st, n, len, [r \in 1 .. n |-> Tampered(c[r])], text)
<1> DEFINE L == AllLines(V)
           h == [l \in L |-> IF IsChecksum(l) THEN [l EXCEPT !.val.tampered = TRUE] ELSE l]
           M == {h[l] : l \in L}
           c2 == [r \in 1 .. n |-> Tampered(c[r])]
           s == Said(v, st, n, len, c, text)
           t == Said(v, st, n, len, c2, text)
<1>1. Changes(h, L, M) /\ \A l \in L : l.is \notin {"LEN", "CRC", "SUM"} => h[l] = l
  BY DEF Changes, IsChecksum
<1>2. \A x \in V : Line("CRC", x) \in L /\ Line("LEN", x) \in L
  BY DEF AllLines, Lines, Kinds
<1>3. \A l \in L : h[l] = IF IsChecksum(l) THEN [l EXCEPT !.val.tampered = TRUE] ELSE l
  OBVIOUS
<1>4. ASSUME NEW q PROVE [Line("CRC", Checksum(q)) EXCEPT !.val.tampered = TRUE]
                           = Line("CRC", [of |-> q, tampered |-> TRUE])
  <2> DEFINE l == Line("CRC", Checksum(q))
             y == [l.val EXCEPT !.tampered = TRUE]
  <2>1. l.val = Checksum(q)
    BY DEF Line
  <2>2. y = [of |-> q, tampered |-> TRUE]
    <3> DEFINE z == [of |-> q, tampered |-> TRUE]
    <3>1. y = [i \in {"of", "tampered"} |-> y[i]] /\ z = [i \in {"of", "tampered"} |-> z[i]]
      BY <2>1 DEF Checksum
    <3>2. y.of = z.of
      BY <2>1 DEF Checksum
    <3>3. y["tampered"] = z["tampered"]
      BY <2>1 DEF Checksum
    <3> QED
      BY <3>1, <3>2, <3>3
  <2>3. [l EXCEPT !.val.tampered = TRUE] = [l EXCEPT !.val = y]
    OBVIOUS
  <2> HIDE DEF y
  <2>4. [l EXCEPT !.val = y] = Line("CRC", y)
    BY Revalued
  <2> QED
    BY <2>2, <2>3, <2>4
<1> HIDE DEF h, M, L
<1>5. \A x : IsChecksum(Line("CRC", x)) /\ ~IsChecksum(Line("LEN", x))
  BY DEF IsChecksum, Line
<1>6. \A r \in 1 .. n : h[Line("LEN", len[r])] = Line("LEN", len[r])
  <2> SUFFICES ASSUME NEW r \in 1 .. n PROVE h[Line("LEN", len[r])] = Line("LEN", len[r])
    OBVIOUS
  <2>1. len[r] \in V
    BY FitsOne DEF FitOne
  <2> QED
    BY <1>2, <1>3, <1>5, <2>1
<1>7. ASSUME NEW r \in 1 .. n, NEW x, c[r] = {x}
      PROVE  \E y : c2[r] = {y} /\ h[Line("CRC", x)] = Line("CRC", y)
  <2>1. x \in V
    BY <1>7, FitsOne DEF FitOne
  <2>2. x = Checksum(p[r])
    BY <1>7
  <2> DEFINE q == p[r]
             y == [of |-> q, tampered |-> TRUE]
  <2>3. h[Line("CRC", x)] = Line("CRC", y)
    BY <1>2, <1>3, <1>4, <1>5, <2>1, <2>2
  <2>4. c2[r] = {y}
    <3>1. c2[r] = Tampered(c[r]) /\ c[r] = {Checksum(q)} /\ Checksum(q).of = q
      BY DEF Checksum
    <3> QED
      BY <3>1 DEF Tampered
  <2> QED
    BY <2>3, <2>4
<1>8. \A r \in 1 .. n : c[r] = {} => c2[r] = {}
  OBVIOUS
<1> HIDE DEF c2
<1>9. Becomes(Each(L, h), L, M, Said(v, st, n, len, c, text), Said(v, st, n, len, c2, text))
  BY <1>1, <1>6, <1>7, <1>8, EachSaid DEF L
<1>10. \E i \in DOMAIN s : IsChecksum(s[i])
  <2>1. n \in Nat /\ 1 \in 1 .. n
    BY FitsAll
  <2>2. PICK i \in DOMAIN s : s[i] = Line("CRC", Checksum(p[1]))
    BY <2>1, SaysChecksum
  <2> QED
    BY <1>5, <2>2
<1> HIDE DEF s, t
<1>11. Becomes(Each(L, h), L, M, s, t)
  BY <1>9 DEF s, t
<1>12. [i \in DOMAIN s |-> h[s[i]]] = t /\ \A i \in DOMAIN s : s[i] \in L
  BY <1>1, <1>11, EachIs
<1>13. Tamper(s) = [i \in DOMAIN s |-> h[s[i]]]
  BY <1>3, <1>10, <1>12 DEF Tamper
<1> QED
  BY <1>12, <1>13 DEF s, t, c2

-----------------------------------------------------------------------------
(***************************************************************************)
(* The faults that change one place of a reply: another nonce, a block     *)
(* more.                                                                   *)
(***************************************************************************)

\* The least member of a set of naturals.
LEMMA LeastIs ==
  ASSUME NEW S \in SUBSET Nat, NEW m \in S, \A k \in S : m <= k
  PROVE  Min(S) = m
<1>1. Min(S) \in S /\ \A k \in S : Min(S) <= k
  BY Smallest
<1>2. Min(S) <= m /\ m <= Min(S) /\ m \in Nat /\ Min(S) \in Nat
  BY <1>1
<1> QED
  BY <1>2

\* The greatest member of a bounded one.
LEMMA GreatestIs ==
  ASSUME NEW n \in Nat, NEW S \in SUBSET (0 .. n), NEW m \in S, \A k \in S : k <= m
  PROVE  Max(S) = m
<1>1. Max(S) \in S /\ \A k \in S : k <= Max(S)
  BY Greatest
<1>2. \A k \in S : k \in Nat
  OBVIOUS
<1>3. Max(S) <= m /\ m <= Max(S) /\ m \in Nat /\ Max(S) \in Nat
  BY <1>1, <1>2, Zenon
<1> QED
  BY <1>3

\* A reply, line by line.
ReplyAre(u, v, st, mid, V) ==
  /\ u \in Seq(AllLines(V)) /\ Len(u) = Len(mid) + 4
  /\ u[1] = Opening /\ u[2] = Line("NONCE", v) /\ u[3] = Line("STATUS", st)
  /\ \A i \in 1 .. Len(mid) : u[i + 3] = mid[i]
  /\ u[Len(mid) + 4] = Ending

\* Where the lines of a reply stand.
LEMMA ReplyIs ==
  ASSUME NEW V, NEW v \in V, NEW st \in V, NEW mid \in Seq(Lines(V))
  PROVE  ReplyAre(Reply(v, st, mid), v, st, mid, V)
<1> DEFINE L == AllLines(V)
           head == Heading(v, st)
           body == head \o mid
           a == <<Opening>> \o body
           u == a \o <<Ending>>
<1>1. /\ Line("NONCE", v) \in L /\ Line("STATUS", st) \in L /\ Opening \in L /\ Ending \in L
  BY HeadingIsLines DEF AllLines
<1>2. mid \in Seq(L) /\ Len(mid) \in Nat
  BY DEF AllLines
<1> HIDE DEF L
<1>3. head \in Seq(L) /\ Len(head) = 2 /\ head[1] = Line("NONCE", v) /\ head[2] = Line("STATUS", st)
  BY <1>1 DEF Heading
<1> HIDE DEF head
<1>4. /\ body \in Seq(L) /\ Len(body) = Len(mid) + 2
      /\ body[1] = head[1] /\ body[2] = head[2] /\ \A i \in 1 .. Len(mid) : body[2 + i] = mid[i]
  <2>1. mid \in Seq(L)
    BY <1>2
  <2>2. head \in Seq(L)
    BY <1>3
  <2>3. /\ body \in Seq(L) /\ Len(body) = Len(head) + Len(mid)
        /\ \A i \in 1 .. Len(head) : body[i] = head[i]
        /\ \A i \in 1 .. Len(mid) : body[Len(head) + i] = mid[i]
    BY <2>1, <2>2
  <2> HIDE DEF body
  <2> QED
    BY <1>2, <1>3, <2>3
<1> HIDE DEF body
<1>5. /\ a \in Seq(L) /\ Len(a) = Len(mid) + 3 /\ a[1] = Opening
      /\ \A i \in 1 .. Len(mid) + 2 : a[i + 1] = body[i]
  BY <1>1, <1>2, <1>4
<1> HIDE DEF a
<1>6. /\ u \in Seq(L) /\ Len(u) = Len(mid) + 4 /\ u[Len(mid) + 4] = Ending
      /\ \A i \in 1 .. Len(mid) + 3 : u[i] = a[i]
  BY <1>1, <1>2, <1>5
<1> HIDE DEF u
<1>7. u[1] = Opening /\ u[2] = Line("NONCE", v) /\ u[3] = Line("STATUS", st)
  <2>1. u[1] = a[1] /\ u[2] = a[1 + 1] /\ u[3] = a[2 + 1]
    BY <1>2, <1>6
  <2>2. a[1 + 1] = body[1] /\ a[2 + 1] = body[2]
    BY <1>2, <1>5
  <2> QED
    BY <1>3, <1>4, <1>5, <2>1, <2>2
<1>8. \A i \in 1 .. Len(mid) : u[i + 3] = mid[i]
  <2> SUFFICES ASSUME NEW i \in 1 .. Len(mid) PROVE u[i + 3] = mid[i]
    OBVIOUS
  <2>1. u[i + 3] = a[(2 + i) + 1] /\ a[(2 + i) + 1] = body[2 + i]
    BY <1>2, <1>5, <1>6, SMTT(20)
  <2> QED
    BY <1>4, <2>1
<1>9. Reply(v, st, mid) = u
  BY DEF Reply, u, a, body, head
<1> QED
  BY <1>6, <1>7, <1>8, <1>9 DEF ReplyAre, L

\* The faults stale_nonce and bad_nonce.
LEMMA Readdresses ==
  ASSUME NEW V, NEW v \in V, NEW st \in V, NEW w \in V, NEW mid \in Seq(Lines(V))
  PROVE  _replace_header(Reply(v, st, mid), "NONCE", w) = Reply(w, st, mid)
<1> DEFINE u == Reply(v, st, mid)
           t == Reply(w, st, mid)
           n == Len(mid)
           L == AllLines(V)
           I == {i \in 1 .. Len(u) : u[i].is = "NONCE"}
           new == [u EXCEPT ![2].val = w]
<1>1. ReplyAre(u, v, st, mid, V) /\ ReplyAre(t, w, st, mid, V) /\ n \in Nat
  BY ReplyIs
<1> HIDE DEF u, t
<1>2. /\ u \in Seq(L) /\ t \in Seq(L) /\ Len(u) = n + 4 /\ Len(t) = n + 4
      /\ u[1] = t[1] /\ u[2] = Line("NONCE", v) /\ t[2] = Line("NONCE", w) /\ u[3] = t[3]
      /\ (\A i \in 1 .. n : u[i + 3] = mid[i] /\ t[i + 3] = mid[i]) /\ u[n + 4] = t[n + 4]
      /\ u[1] = Opening
  BY <1>1 DEF ReplyAre
<1> HIDE DEF L
<1>3. I # {} /\ Min(I) = 2
  <2>1. 2 \in I /\ 1 \notin I
    <3>1. Opening.is # "NONCE" /\ Line("NONCE", v).is = "NONCE"
      BY DEF Opening, Line
    <3>2. 2 \in 1 .. Len(u)
      BY <1>1, <1>2
    <3> QED
      BY <1>2, <3>1, <3>2
  <2>2. I \in SUBSET Nat /\ \A k \in I : k \in 1 .. Len(u)
    BY <1>1, <1>2
  <2> HIDE DEF I
  <2>3. \A k \in I : 2 <= k
    BY <2>1, <2>2
  <2> QED
    BY <2>1, <2>2, <2>3, LeastIs
<1> DEFINE at(first) == IF first = 0 THEN u ELSE [u EXCEPT ![first].val = w]
<1>4. _replace_header(u, "NONCE", w) = new
  <2>1. _replace_header(u, "NONCE", w) = at(IF I # {} THEN Min(I) ELSE 0)
    BY Zenon DEF _replace_header, SelectInSeq
  <2>2. 2 # 0 => at(2) = new
    BY Zenon
  <2> HIDE DEF at, I, new
  <2> QED
    BY <1>3, <2>1, <2>2
<1> HIDE DEF I, at
<1>5. new = [i \in 1 .. n + 4 |-> IF i = 2 THEN [u[2] EXCEPT !.val = w] ELSE u[i]]
  <2>1. DOMAIN u = 1 .. n + 4
    BY <1>2
  <2> QED
    BY <2>1
<1>6. [u[2] EXCEPT !.val = w] = t[2]
  BY <1>2, Revalued
<1> HIDE DEF new
<1>7. \A i \in 1 .. n + 4 : new[i] = t[i]
  <2> SUFFICES ASSUME NEW i \in 1 .. n + 4 PROVE new[i] = t[i]
    OBVIOUS
  <2>1. new[i] = IF i = 2 THEN t[2] ELSE u[i]
    BY <1>5, <1>6
  <2>2. CASE i > 3 /\ i < n + 4
    <3>1. PICK j \in 1 .. n : i = j + 3
      <4>1. i - 3 \in 1 .. n /\ i = (i - 3) + 3
        BY <1>1, <2>2
      <4> QED
        BY <4>1, Zenon
    <3>2. u[i] = mid[j] /\ t[i] = mid[j]
      BY <1>2, <3>1, Zenon
    <3> QED
      BY <2>1, <2>2, <3>2
  <2>3. CASE i \in {1, 2, 3} \/ i = n + 4
    BY <1>2, <2>1, <2>3
  <2> QED
    BY <1>1, <2>2, <2>3
<1>8. new = t
  <2>1. t = [i \in 1 .. n + 4 |-> t[i]]
    BY <1>2
  <2>2. new = [i \in 1 .. n + 4 |-> new[i]]
    BY <1>5
  <2> QED
    BY <1>7, <2>1, <2>2
<1> QED
  BY <1>4, <1>8 DEF u, t

\* The fault extra_block.
LEMMA ExtraIsFenced == ExtraBlock = Fenced(1, {}, <<"?">>)
<1> DEFINE s == <<"?">>
           S == {"?"}
<1>1. s \in Seq(S) /\ Len(s) = 1 /\ s[1] = "?"
  OBVIOUS
<1>2. Plain(s)
  BY <1>1 DEF Plain, Special, Marker, FF
<1> HIDE DEF s
<1>3. PICK n \in Nat \ {0} : \E c : SplitAt(s, n, c)
  BY <1>1, <1>2, Pieces
<1>4. PICK c : SplitAt(s, n, c)
  BY <1>3
<1>5. n = 1
  <2>1. 2 \notin 1 .. n
    <3> SUFFICES ASSUME 2 \in 1 .. n PROVE FALSE
      OBVIOUS
    <3>1. 2 \in 2 .. n
      BY <1>3
    <3>2. c[2] \in 1 .. Len(s) /\ s[c[2]] = NL
      BY <1>4, <3>1 DEF SplitAt
    <3> QED
      BY <1>1, <3>2 DEF NL
  <2> QED
    BY <1>3, <2>1
<1>6. Split(s) = [k \in 1 .. 1 |-> Line("text", SubSeq(s, c[k] + 1, c[k + 1] - 1))]
      /\ c[1] = 0 /\ c[1 + 1] = 2
  BY <1>1, <1>4, <1>5 DEF SplitAt
<1>7. SubSeq(s, 0 + 1, 2 - 1) = s
  <2> DEFINE y == SubSeq(s, 0 + 1, 2 - 1)
  <2>1. y \in Seq(S) /\ Len(y) = 1 /\ y[1] = s[1]
    BY <1>1
  <2> HIDE DEF y
  <2>2. y = s
    BY <1>1, <2>1
  <2> QED
    BY <2>2 DEF y
<1>8. Split(s) = <<Line("text", s)>>
  <2>1. \A k \in 1 .. 1 : Line("text", SubSeq(s, c[k] + 1, c[k + 1] - 1)) = Line("text", s)
    <3>1. \A k \in 1 .. 1 : k = 1
      OBVIOUS
    <3>2. Line("text", SubSeq(s, c[1] + 1, c[1 + 1] - 1)) = Line("text", s)
      BY <1>6, <1>7
    <3> QED
      BY <3>1, <3>2, Zenon
  <2>2. Split(s) = [k \in 1 .. 1 |-> Line("text", s)]
    BY <1>6, <2>1, Zenon
  <2> QED
    BY <2>2
<1>9. Vouched({}) = <<>>
  BY DEF Vouched
<1>10. Fenced(1, {}, s) = <<Line("LEN", 1)>> \o <<>> \o <<Line("open", 1)>> \o <<Line("text", s)>>
                            \o <<Line("close", 1)>>
  BY <1>8, <1>9 DEF Fenced
<1>11. Fenced(1, {}, s) = <<Line("LEN", 1), Line("open", 1), Line("text", s), Line("close", 1)>>
  BY <1>10
<1> QED
  BY <1>11 DEF ExtraBlock, s

\* extra_block inserts its block before END, after every block of the reply.
LEMMA Inserts ==
  ASSUME NEW V, NEW v \in V, NEW st \in V, NEW mid \in Seq(Lines(V)),
         ExtraBlock \in Seq(Lines(V))
  PROVE  InsertExtraBlock(Reply(v, st, mid)) = Reply(v, st, mid \o ExtraBlock)
<1> DEFINE L == AllLines(V)
           head == Heading(v, st)
           x == ExtraBlock
           body == head \o mid
           a == <<Opening>> \o body
           u == a \o <<Ending>>
           n == Len(u)
           I == {i \in 1 .. Len(u) : u[i].is = "end"}
<1>0. Reply(v, st, mid) = u /\ Reply(v, st, mid \o x) = <<Opening>> \o (head \o (mid \o x)) \o <<Ending>>
  BY DEF Reply
<1>1. Opening \in L /\ Ending \in L /\ Ending.is = "end"
  BY DEF AllLines, Ending, Line
<1>2. head \in Seq(L)
  BY HeadingIsLines DEF AllLines, Heading
<1>3. mid \in Seq(L)
  BY DEF AllLines
<1>4. x \in Seq(L)
  BY DEF AllLines
<1> HIDE DEF L, head, x
<1>5. body \in Seq(L)
  BY <1>2, <1>3
<1> HIDE DEF body
<1>6. a \in Seq(L) /\ Len(a) \in Nat
  BY <1>1, <1>5
<1> HIDE DEF a
<1>7. /\ u \in Seq(L) /\ n = Len(a) + 1 /\ u[n] = Ending /\ n \in Nat /\ n > 0
      /\ SubSeq(u, 1, n - 1) = a /\ SubSeq(u, n, n) = <<Ending>>
  <2>1. /\ u \in Seq(L) /\ n = Len(a) + 1 /\ u[n] = Ending /\ n \in Nat /\ n > 0
        /\ \A i \in 1 .. Len(a) : u[i] = a[i]
    BY <1>1, <1>6
  <2> HIDE DEF u
  <2>2. SubSeq(u, 1, n - 1) = a
    <3> DEFINE y == SubSeq(u, 1, n - 1)
    <3>1. y \in Seq(L) /\ Len(y) = Len(a) /\ \A i \in 1 .. Len(a) : y[i] = u[i]
      BY <1>6, <2>1
    <3> HIDE DEF y
    <3>2. y = a
      BY <1>6, <2>1, <3>1
    <3> QED
      BY <3>2 DEF y
  <2>3. SubSeq(u, n, n) = <<Ending>>
    <3> DEFINE y == SubSeq(u, n, n)
    <3>1. y \in Seq(L) /\ Len(y) = 1 /\ y[1] = u[n]
      BY <2>1
    <3> HIDE DEF y
    <3>2. y = <<Ending>>
      BY <2>1, <3>1
    <3> QED
      BY <3>2 DEF y
  <2> QED
    BY <2>1, <2>2, <2>3
<1> HIDE DEF u
<1>8. I # {} /\ Max(I) = n
  <2>1. n \in I /\ I \in SUBSET (0 .. n) /\ \A k \in I : k <= n
    BY <1>1, <1>7
  <2> HIDE DEF I
  <2> QED
    BY <1>7, <2>1, GreatestIs
<1>9. InsertExtraBlock(u) = a \o x \o <<Ending>>
  <2> DEFINE at(last) == IF last = 0 THEN u \o ExtraBlock
                         ELSE SubSeq(u, 1, last - 1) \o ExtraBlock \o SubSeq(u, last, Len(u))
  <2>0. InsertExtraBlock(u) = at(IF I # {} THEN Max(I) ELSE 0)
    BY Zenon DEF InsertExtraBlock, SelectLastInSeq
  <2>1. InsertExtraBlock(u) = SubSeq(u, 1, n - 1) \o x \o SubSeq(u, n, n)
    <3>1. n # 0 => at(n) = SubSeq(u, 1, n - 1) \o x \o SubSeq(u, n, n)
      BY Zenon DEF x
    <3> HIDE DEF at, I, n
    <3>2. (IF I # {} THEN Max(I) ELSE 0) = n
      BY <1>8
    <3>3. n # 0
      BY <1>7
    <3> QED
      BY <2>0, <3>1, <3>2, <3>3, Zenon
  <2> QED
    BY <1>7, <2>1
<1>10. a \o x = <<Opening>> \o (head \o (mid \o x))
  <2>1. body \o x = head \o (mid \o x)
    BY <1>2, <1>3, <1>4 DEF body
  <2>2. a \o x = <<Opening>> \o (body \o x)
    BY <1>1, <1>4, <1>5 DEF a
  <2> QED
    BY <2>1, <2>2
<1> QED
  BY <1>0, <1>9, <1>10 DEF x

-----------------------------------------------------------------------------
(***************************************************************************)
(* The faults that rewrite the payloads and leave LEN and checksums.       *)
(***************************************************************************)

\* Four texts in a row, however they are grouped.
Grouped(a, b, c, d) == a \o (b \o c \o d) = a \o b \o c \o d

\* Concatenation is associative.
LEMMA Regroup ==
  ASSUME NEW L, NEW a \in Seq(L), NEW b \in Seq(L), NEW c \in Seq(L), NEW d \in Seq(L)
  PROVE  Grouped(a, b, c, d)
<1>1. b \o c \in Seq(L)
  OBVIOUS
<1>2. a \o ((b \o c) \o d) = (a \o (b \o c)) \o d
  BY <1>1, ConcatAssociative
<1>3. a \o (b \o c) = a \o b \o c
  BY ConcatAssociative, SMTT(20)
<1> QED
  BY <1>2, <1>3, Zenon DEF Grouped

\* Where the rewriting of a payload is.
Copied(out, inside, buffer) == [out |-> out, inside |-> inside, buffer |-> buffer]

\* The lines s, met outside of a fence, are copied as the lines t.
Copies(fault, s, t, L) ==
  \A out \in Seq(L) : Passed(fault, s, Copied(out, FALSE, <<>>), Copied(out \o t, FALSE, <<>>))

\* Rewriting payloads of two texts one after the other is rewriting their concatenation.
LEMMA CopiesOn ==
  ASSUME NEW fault, NEW L, NEW s \in Seq(L), NEW t \in Seq(L), NEW d \in Seq(L), NEW e \in Seq(L),
         Copies(fault, s, d, L), Copies(fault, t, e, L)
  PROVE  Copies(fault, s \o t, d \o e, L)
<1> SUFFICES ASSUME NEW out \in Seq(L)
             PROVE  Passed(fault, s \o t, Copied(out, FALSE, <<>>),
                           Copied(out \o (d \o e), FALSE, <<>>))
  BY DEF Copies
<1> DEFINE od == out \o d
           x == Copied(out, FALSE, <<>>)
           y == Copied(od, FALSE, <<>>)
           z == Copied(od \o e, FALSE, <<>>)
<1>1. od \in Seq(L) /\ od \o e = out \o (d \o e)
  OBVIOUS
<1> HIDE DEF od
<1>2. Passed(fault, t, y, z)
  <2>1. od \in Seq(L)
    BY <1>1
  <2> QED
    BY <2>1, Zenon DEF Copies
<1>3. Passed(fault, s, x, y)
  BY Zenon DEF Copies, od
<1> HIDE DEF x, y, z
<1>4. Passed(fault, s \o t, x, z)
  BY <1>2, <1>3, PassesOn, Zenon
<1> QED
  BY <1>1, <1>4, Zenon DEF x, z

\* A line that opens no fence is copied as it is.
LEMMA CopiesOne ==
  ASSUME NEW fault, fault # "read", NEW L, NEW l \in L, l.is # "open"
  PROVE  Copies(fault, <<l>>, <<l>>, L)
<1> SUFFICES ASSUME NEW out \in Seq(L)
             PROVE  Passed(fault, <<l>>, Copied(out, FALSE, <<>>), Copied(out \o <<l>>, FALSE, <<>>))
  BY DEF Copies
<1>1. Append(out, l) = out \o <<l>>
  OBVIOUS
<1>2. MapLine(Copied(out, FALSE, <<>>), l, fault) = Copied(Append(out, l), FALSE, <<>>)
  BY DEF MapLine, Copied
<1>3. Passed(fault, <<l>>, Copied(out, FALSE, <<>>), Advance(fault, Copied(out, FALSE, <<>>), l))
  BY PassesOne
<1>4. Advance(fault, Copied(out, FALSE, <<>>), l) = Copied(out \o <<l>>, FALSE, <<>>)
  BY <1>1, <1>2, Zenon DEF Advance
<1> QED
  BY <1>3, <1>4, Zenon

\* Inside of a fence, lines of text are kept for later.
LEMMA Buffers ==
  ASSUME NEW fault, fault # "read", NEW S, NEW t \in Seq(TextLine(S)), NEW out
  PROVE  Passed(fault, t, Copied(out, TRUE, <<>>), Copied(out, TRUE, t))
<1> DEFINE n == Len(t)
           f == [i \in 0 .. n |-> Copied(out, TRUE, SubSeq(t, 1, i))]
<1>1. n \in Nat
  OBVIOUS
<1>2. SubSeq(t, 1, 0) = <<>> /\ SubSeq(t, 1, n) = t
  OBVIOUS
<1>3. \A i \in 0 .. n : f[i] = Copied(out, TRUE, SubSeq(t, 1, i))
  OBVIOUS
<1> HIDE DEF f
<1>4. ASSUME NEW k \in 0 .. n - 1 PROVE f[k + 1] = MapLine(f[k], t[k + 1], fault)
  <2>1. t[k + 1] \in TextLine(S)
    OBVIOUS
  <2>2. PICK x : t[k + 1] = Line("text", x)
    BY <2>1 DEF TextLine
  <2>3. Append(SubSeq(t, 1, k), t[k + 1]) = SubSeq(t, 1, k + 1)
    <3> DEFINE y == SubSeq(t, 1, k)
               z == SubSeq(t, 1, k + 1)
    <3>1. y \in Seq(TextLine(S)) /\ Len(y) = k /\ \A i \in 1 .. k : y[i] = t[i]
      OBVIOUS
    <3>2. z \in Seq(TextLine(S)) /\ Len(z) = k + 1 /\ \A i \in 1 .. k + 1 : z[i] = t[i]
      OBVIOUS
    <3> HIDE DEF y, z
    <3>3. Append(y, t[k + 1]) = z
      BY <2>1, <3>1, <3>2
    <3> QED
      BY <3>3 DEF y, z
  <2>4. MapLine(Copied(out, TRUE, SubSeq(t, 1, k)), Line("text", x), fault)
          = Copied(out, TRUE, Longer(SubSeq(t, 1, k), x))
    BY DEF MapLine, Copied, Line, Longer
  <2>5. k \in 0 .. n /\ k + 1 \in 0 .. n
    BY <1>1
  <2>6. f[k] = Copied(out, TRUE, SubSeq(t, 1, k))
    BY <1>3, <2>5, Zenon
  <2>7. f[k + 1] = Copied(out, TRUE, SubSeq(t, 1, k + 1))
    BY <1>3, <2>5, Zenon
  <2> QED
    BY <2>2, <2>3, <2>4, <2>6, <2>7, Zenon DEF Longer
<1>5. 0 \in 0 .. n /\ n \in 0 .. n
  BY <1>1
<1>6. f[0] = Copied(out, TRUE, <<>>) /\ f[n] = Copied(out, TRUE, t)
  BY <1>2, <1>3, <1>5, Zenon
<1>7. \A k \in 0 .. n - 1 : f[k + 1] = Advance(fault, f[k], t[k + 1])
  BY <1>4, Zenon DEF Advance
<1> QED
  BY <1>6, <1>7, Zenon DEF Passed

\* A block is copied with its payload rewritten.
LEMMA CopiesFenced ==
  ASSUME NEW fault, fault # "read", NEW S, NEW text \in Seq(S), Plain(text),
         Rewritten(text, fault) \in Seq(S), Plain(Rewritten(text, fault)),
         NEW V, Seq(S) \subseteq V, 1 \in V, NEW len \in V, NEW c, c = {} \/ \E x \in V : c = {x},
         NEW L, Lines(V) \subseteq L
  PROVE  /\ Fenced(len, c, text) \in Seq(L)
         /\ Fenced(len, c, Rewritten(text, fault)) \in Seq(L)
         /\ Copies(fault, Fenced(len, c, text), Fenced(len, c, Rewritten(text, fault)), L)
<1> DEFINE new == Rewritten(text, fault)
           s1 == <<Line("LEN", len)>>
           s2 == Vouched(c)
           s3 == <<Line("open", 1)>>
           s4 == Split(text)
           s5 == <<Line("close", 1)>>
           t4 == Split(new)
<1>1. s4 \in Seq(TextLine(S)) /\ Join(s4) = text /\ t4 \in Seq(TextLine(S))
  BY Rejoined
<1>2. /\ Line("LEN", len) \in L /\ Line("open", 1) \in L /\ Line("close", 1) \in L
      /\ TextLine(S) \subseteq L /\ \A x \in V : Line("CRC", x) \in L
  BY DEF TextLine, Lines, Kinds
<1>3. \A x : /\ Line("LEN", x).is = "LEN" /\ Line("CRC", x).is = "CRC"
             /\ Line("open", x).is = "open" /\ Line("close", x).is = "close"
  BY DEF Line
<1>0. Fenced(len, c, text) = s1 \o s2 \o s3 \o s4 \o s5 /\ Fenced(len, c, new) = s1 \o s2 \o s3 \o t4 \o s5
  BY DEF Fenced
<1> HIDE DEF s4, t4, new
<1>4. s4 \in Seq(L) /\ t4 \in Seq(L)
  BY <1>1, <1>2
<1>5. s1 \in Seq(L) /\ s3 \in Seq(L) /\ s5 \in Seq(L)
  BY <1>2
<1>6. Copies(fault, s1, s1, L)
  <2>1. Line("LEN", len) \in L /\ Line("LEN", len).is # "open"
    BY <1>2, <1>3
  <2> QED
    BY <2>1, CopiesOne
<1>7. s2 \in Seq(L) /\ Copies(fault, s2, s2, L)
  <2>1. CASE c = {}
    <3>1. s2 = <<>>
      BY <2>1 DEF Vouched
    <3>2. \A out \in Seq(L) : out \o <<>> = out
      OBVIOUS
    <3>3. Copies(fault, <<>>, <<>>, L)
      BY <3>2, PassesNone DEF Copies
    <3> QED
      BY <3>1, <3>3
  <2>2. ASSUME NEW x \in V, c = {x} PROVE s2 \in Seq(L) /\ Copies(fault, s2, s2, L)
    <3>1. s2 = <<Line("CRC", x)>>
      BY <2>2 DEF Vouched
    <3>2. Line("CRC", x) \in L /\ Line("CRC", x).is # "open"
      BY <1>2, <1>3
    <3>3. Copies(fault, <<Line("CRC", x)>>, <<Line("CRC", x)>>, L)
      BY <3>2, CopiesOne
    <3>4. <<Line("CRC", x)>> \in Seq(L)
      BY <3>2
    <3> QED
      BY <3>1, <3>3, <3>4
  <2> QED
    BY <2>1, <2>2
<1> DEFINE s == s3 \o s4 \o s5
           t == s3 \o t4 \o s5
<1>8. s \in Seq(L) /\ t \in Seq(L)
  <2> HIDE DEF s3, s5
  <2> QED
    BY <1>4, <1>5
<1>9. Copies(fault, s, t, L)
  <2> SUFFICES ASSUME NEW out \in Seq(L)
               PROVE  Passed(fault, s, Copied(out, FALSE, <<>>), Copied(out \o t, FALSE, <<>>))
    BY DEF Copies
  <2> DEFINE a0 == Copied(out, FALSE, <<>>)
             a1 == Copied(Append(out, Line("open", 1)), TRUE, <<>>)
             a2 == Copied(Append(out, Line("open", 1)), TRUE, s4)
             a3 == Copied(Append(out, Line("open", 1)) \o t4 \o <<Line("close", 1)>>, FALSE, <<>>)
  <2>1. Passed(fault, s3, a0, a1)
    <3>1. MapLine(a0, Line("open", 1), fault) = a1
      BY <1>3 DEF MapLine, Copied
    <3>2. Passed(fault, s3, a0, Advance(fault, a0, Line("open", 1)))
      BY PassesOne
    <3> HIDE DEF a0, a1
    <3> QED
      BY <3>1, <3>2, Zenon DEF Advance
  <2>2. Passed(fault, s4, a1, a2)
    BY <1>1, Buffers
  <2>3. Passed(fault, s5, a2, a3)
    <3> DEFINE o == Append(out, Line("open", 1))
               close == Line("close", 1)
    <3>1. MapLine(Copied(o, TRUE, s4), close, fault)
            = Copied(o \o Split(Rewritten(Join(s4), fault)) \o <<close>>, FALSE, <<>>)
      <4>1. close.is = "close"
        BY <1>3
      <4> HIDE DEF o, close
      <4> QED
        BY <4>1, Zenon DEF MapLine, Copied
    <3>2. MapLine(a2, close, fault) = a3
      BY <1>1, <3>1, Zenon DEF t4, new
    <3>3. Passed(fault, s5, a2, Advance(fault, a2, close))
      BY PassesOne
    <3> HIDE DEF a2, a3
    <3> QED
      BY <3>2, <3>3, Zenon DEF Advance
  <2>4. Append(out, Line("open", 1)) \o t4 \o <<Line("close", 1)>> = out \o t
    <3> DEFINE open == Line("open", 1)
               close == Line("close", 1)
    <3>1. open \in L /\ close \in L
      BY <1>2
    <3> HIDE DEF open, close
    <3>2. Append(out, open) = out \o <<open>>
      OBVIOUS
    <3>3. <<open>> \in Seq(L)
      BY <3>1
    <3>4. <<close>> \in Seq(L)
      BY <3>1
    <3>5. Grouped(out, <<open>>, t4, <<close>>)
      BY <1>4, <3>3, <3>4, Regroup
    <3> QED
      BY <3>2, <3>5, Zenon DEF open, close, Grouped
  <2> HIDE DEF a0, a1, a2, s3, s5
  <2>5. Passed(fault, s3 \o s4, a0, a2)
    BY <1>4, <1>5, <2>1, <2>2, PassesOn, Zenon
  <2>6. s3 \o s4 \in Seq(L)
    BY <1>4, <1>5
  <2> HIDE DEF a3
  <2>7. Passed(fault, s3 \o s4 \o s5, a0, a3)
    BY <1>5, <2>3, <2>5, <2>6, PassesOn, Zenon
  <2> QED
    BY <2>4, <2>7, Zenon DEF a0, a3
<1> HIDE DEF s1, s2, s, t
<1>10. s1 \o s2 \in Seq(L) /\ Copies(fault, s1 \o s2, s1 \o s2, L)
  BY <1>5, <1>6, <1>7, CopiesOn
<1> DEFINE u == s1 \o s2
<1> HIDE DEF u
<1>11. u \in Seq(L) /\ Copies(fault, u, u, L)
  BY <1>10 DEF u
<1>12. u \o s \in Seq(L) /\ u \o t \in Seq(L) /\ Copies(fault, u \o s, u \o t, L)
  BY <1>8, <1>9, <1>11, CopiesOn
<1>13. s1 \o s2 \o s3 \o s4 \o s5 = u \o s /\ s1 \o s2 \o s3 \o t4 \o s5 = u \o t
  <2> HIDE DEF s3, s5
  <2>3. u \in Seq(L)
    BY <1>11
  <2>4. s3 \in Seq(L)
    BY <1>5
  <2>5. s5 \in Seq(L)
    BY <1>5
  <2>1. Grouped(u, s3, s4, s5)
    BY <1>4, <2>3, <2>4, <2>5, Regroup
  <2>2. Grouped(u, s3, t4, s5)
    BY <1>4, <2>3, <2>4, <2>5, Regroup
  <2> QED
    BY <2>1, <2>2, Zenon DEF u, s, t, Grouped
<1> QED
  BY <1>0, <1>12, <1>13 DEF new

\* The faults that rewrite payloads.
LEMMA Maps ==
  ASSUME NEW fault, fault # "read", NEW V, NEW v \in V, NEW st \in V,
         NEW n, NEW len, NEW c, NEW text, NEW S, Fit(n, len, c, text, S, V),
         NEW new, \A r \in 1 .. n : new[r] = Rewritten(text[r], fault), Fit(n, len, c, new, S, V)
  PROVE  _map_payload(Said(v, st, n, len, c, text), fault) = Said(v, st, n, len, c, new)
<1> DEFINE L == AllLines(V)
           ss == Fences(n, len, c, text)
           tt == Fences(n, len, c, new)
<1>1. /\ Lines(V) \subseteq L /\ Opening \in L /\ Ending \in L
      /\ Line("NONCE", v) \in L /\ Line("STATUS", st) \in L
  BY DEF AllLines, Lines, Kinds
<1>2. n \in Nat /\ Seq(S) \subseteq V /\ 1 \in V
  BY DEF Fit
<1> HIDE DEF L
<1>3. ASSUME NEW r \in 1 .. n
      PROVE  ss[r] \in Seq(L) /\ tt[r] \in Seq(L) /\ Copies(fault, ss[r], tt[r], L)
  <2> DEFINE a == len[r]
             b == c[r]
             d == text[r]
             e == new[r]
  <2>1. FitOne(a, b, d, S, V) /\ FitOne(a, b, e, S, V)
    BY FitsOne
  <2>2. e = Rewritten(d, fault)
    OBVIOUS
  <2>3. ss[r] = Fenced(a, b, d) /\ tt[r] = Fenced(a, b, e)
    BY DEF Fences
  <2> HIDE DEF a, b, d, e, ss, tt
  <2>4. /\ d \in Seq(S) /\ Plain(d) /\ Rewritten(d, fault) \in Seq(S) /\ Plain(Rewritten(d, fault))
        /\ a \in V /\ (b = {} \/ \E x \in V : b = {x})
    BY <2>1, <2>2 DEF FitOne
  <2>5. /\ Fenced(a, b, d) \in Seq(L) /\ Fenced(a, b, Rewritten(d, fault)) \in Seq(L)
        /\ Copies(fault, Fenced(a, b, d), Fenced(a, b, Rewritten(d, fault)), L)
    BY <1>1, <1>2, <2>4, CopiesFenced
  <2> QED
    BY <2>2, <2>3, <2>5, Zenon
<1>4. ss \in Seq(Seq(L)) /\ tt \in Seq(Seq(L)) /\ Len(ss) = n /\ Len(tt) = n
  <2> DEFINE D == Seq(L)
  <2>1. \A r \in 1 .. n : ss[r] \in D /\ tt[r] \in D
    BY <1>3
  <2>2. ss = [r \in 1 .. n |-> ss[r]] /\ tt = [r \in 1 .. n |-> tt[r]]
    BY DEF Fences
  <2> HIDE DEF D, ss, tt
  <2>3. ss \in Seq(D) /\ tt \in Seq(D) /\ Len(ss) = n /\ Len(tt) = n
    BY <1>2, <2>1, <2>2, SMTT(20)
  <2> QED
    BY <2>3 DEF D
<1> HIDE DEF ss, tt
<1> DEFINE R == {p \in Seq(L) \X Seq(L) : Copies(fault, p[1], p[2], L)}
           mid == FlattenSeq(ss)
           rep == FlattenSeq(tt)
<1>5. <<mid, rep>> \in R
  <2>1. << <<>>, <<>> >> \in R
    <3>1. \A out \in Seq(L) : out \o <<>> = out
      OBVIOUS
    <3>2. Copies(fault, <<>>, <<>>, L)
      BY <3>1, PassesNone DEF Copies
    <3>3. <<>> \in Seq(L)
      OBVIOUS
    <3> QED
      BY <3>2, <3>3
  <2>2. \A r \in 1 .. Len(ss) : <<ss[r], tt[r]>> \in R
    BY <1>3, <1>4
  <2>3. \A s, u \in Seq(L), t, w \in Seq(L) :
          <<s, t>> \in R /\ <<u, w>> \in R => <<s \o u, t \o w>> \in R
    <3> SUFFICES ASSUME NEW s \in Seq(L), NEW u \in Seq(L), NEW t \in Seq(L), NEW w \in Seq(L),
                        <<s, t>> \in R, <<u, w>> \in R
                 PROVE  <<s \o u, t \o w>> \in R
      OBVIOUS
    <3>1. Copies(fault, s, t, L) /\ Copies(fault, u, w, L)
      OBVIOUS
    <3>2. Copies(fault, s \o u, t \o w, L)
      BY <3>1, CopiesOn, Zenon
    <3>3. s \o u \in Seq(L) /\ t \o w \in Seq(L)
      OBVIOUS
    <3> QED
      BY <3>2, <3>3
  <2> HIDE DEF R
  <2> QED
    BY <1>4, <2>1, <2>2, <2>3, FlattenAlike
<1>6. mid \in Seq(L) /\ rep \in Seq(L) /\ Copies(fault, mid, rep, L)
  BY <1>5
<1> HIDE DEF mid, rep, R
<1> DEFINE a == <<Line("NONCE", v)>>
           b == <<Line("STATUS", st)>>
           x == <<Opening>>
           z == <<Ending>>
<1>7. a \in Seq(L) /\ b \in Seq(L) /\ x \in Seq(L) /\ z \in Seq(L)
  BY <1>1
<1>8. /\ Copies(fault, a, a, L) /\ Copies(fault, b, b, L)
      /\ Copies(fault, x, x, L) /\ Copies(fault, z, z, L)
  <2>1. /\ Line("NONCE", v).is # "open" /\ Line("STATUS", st).is # "open"
        /\ Opening.is # "open" /\ Ending.is # "open"
    BY DEF Line, Opening, Ending
  <2>2. Copies(fault, a, a, L)
    BY <1>1, <2>1, CopiesOne
  <2>3. Copies(fault, b, b, L)
    BY <1>1, <2>1, CopiesOne
  <2>4. Copies(fault, x, x, L)
    BY <1>1, <2>1, CopiesOne
  <2>5. Copies(fault, z, z, L)
    BY <1>1, <2>1, CopiesOne
  <2> QED
    BY <2>2, <2>3, <2>4, <2>5
<1> HIDE DEF a, b, x, z
<1> DEFINE h == a \o b
<1>9. h \in Seq(L) /\ Copies(fault, h, h, L)
  BY <1>7, <1>8, CopiesOn
<1>10. Heading(v, st) = h
  BY DEF Heading, a, b
<1> HIDE DEF h
<1> DEFINE p == h \o mid
           q == h \o rep
<1>11. p \in Seq(L) /\ q \in Seq(L) /\ Copies(fault, p, q, L)
  BY <1>6, <1>9, CopiesOn
<1> HIDE DEF p, q
<1> DEFINE p2 == x \o p
           q2 == x \o q
<1>12. p2 \in Seq(L) /\ q2 \in Seq(L) /\ Copies(fault, p2, q2, L)
  BY <1>7, <1>8, <1>11, CopiesOn
<1> HIDE DEF p2, q2
<1> DEFINE p3 == p2 \o z
           q3 == q2 \o z
<1>13. p3 \in Seq(L) /\ q3 \in Seq(L) /\ Copies(fault, p3, q3, L)
  BY <1>7, <1>8, <1>12, CopiesOn
<1>14. Said(v, st, n, len, c, text) = p3 /\ Said(v, st, n, len, c, new) = q3
  BY <1>10 DEF Said, Reply, p2, q2, p, q, x, z, mid, rep, ss, tt
<1> HIDE DEF p3, q3
<1>15. Passed(fault, p3, Copied(<<>>, FALSE, <<>>), Copied(<<>> \o q3, FALSE, <<>>))
  <2>1. <<>> \in Seq(L)
    OBVIOUS
  <2> QED
    BY <1>13, <2>1, Zenon DEF Copies
<1>16. <<>> \o q3 = q3
  BY <1>13
<1>17. _map_payload(p3, fault) = Copied(<<>> \o q3, FALSE, <<>>).out
  <2> DEFINE y == Copied(<<>> \o q3, FALSE, <<>>)
  <2>1. Passed(fault, p3, [out |-> <<>>, inside |-> FALSE, buffer |-> <<>>], y)
    BY <1>15 DEF Copied
  <2>2. p3 \in Seq(L)
    BY <1>13
  <2> HIDE DEF y
  <2>3. _map_payload(p3, fault) = y.out
    BY <2>1, <2>2, MapsAll
  <2> QED
    BY <2>3 DEF y
<1> QED
  BY <1>14, <1>16, <1>17 DEF Copied

-----------------------------------------------------------------------------
(***************************************************************************)
(* The replies that render_reply makes.                                    *)
(***************************************************************************)

\* The reply that render_reply makes.
Canonical(payloads) == [r \in DOMAIN payloads |-> Trim(payloads[r])]
Sums(texts, checksum) ==
  [r \in DOMAIN texts |-> IF checksum = "none" THEN {} ELSE {Checksum(texts[r])}]
Sizes(texts) == [r \in DOMAIN texts |-> Len(texts[r])]

\* What fits into a reply: texts without markers.
Texted(n, texts, S) ==
  n \in Nat /\ DOMAIN texts = 1 .. n /\ \A r \in 1 .. n : texts[r] \in Seq(S) /\ Plain(texts[r])

\* What lines carry, for texts over S.
Tampering(p) == [of |-> p, tampered |-> TRUE]
Carried(S) ==
  Nat \cup Seq(S) \cup {"OK", "REFUSED"}
    \cup {Checksum(p) : p \in Seq(S)} \cup {Tampering(p) : p \in Seq(S)}

\* What Carried holds: payloads, numbers, statuses, checksums true and forged.
LEMMA Carries ==
  ASSUME NEW S
  PROVE  /\ Seq(S) \subseteq Carried(S) /\ 1 \in Carried(S) /\ Nat \subseteq Carried(S)
         /\ "OK" \in Carried(S) /\ "REFUSED" \in Carried(S)
         /\ \A p \in Seq(S) : Checksum(p) \in Carried(S) /\ Tampering(p) \in Carried(S)
  BY DEF Carried

\* render_reply as Said, its blocks in order.
Rendered(v, status, checksum, payloads, n, S) ==
  LET texts == Canonical(payloads)
      sums == Sums(texts, checksum)
  IN /\ render_reply(v, payloads, status, checksum) = Said(v, status, n, Sizes(texts), sums, texts)
     /\ Fit(n, Sizes(texts), sums, texts, S, Carried(S))

\* So it is for every list of payloads that hold no marker line.
LEMMA Renders ==
  ASSUME NEW v, NEW status, NEW checksum \in {"none", "CRC"}, NEW payloads, NEW S,
         NEW n, Texted(n, Canonical(payloads), S), v \in Carried(S), status \in Carried(S)
  PROVE  Rendered(v, status, checksum, payloads, n, S)
<1> DEFINE texts == Canonical(payloads)
           len == Sizes(texts)
           c == Sums(texts, checksum)
           V == Carried(S)
<1>1. /\ DOMAIN texts = DOMAIN payloads /\ DOMAIN payloads = 1 .. n
      /\ \A r \in 1 .. n : texts[r] = Trim(payloads[r])
  BY DEF Canonical, Texted
<1>2. /\ n \in Nat
      /\ \A r \in 1 .. n : /\ texts[r] \in Seq(S) /\ Plain(texts[r])
                           /\ len[r] = Len(texts[r]) /\ len[r] \in Nat
                           /\ c[r] = IF checksum = "none" THEN {} ELSE {Checksum(texts[r])}
  BY <1>1 DEF Texted, Sizes, Sums
<1> HIDE DEF texts, len, c
<1>3. Fit(n, len, c, texts, S, V)
  <2>1. \A r \in 1 .. n : len[r] \in V /\ (c[r] = {} \/ \E x \in V : c[r] = {x})
    BY <1>2, Carries
  <2>2. Seq(S) \subseteq V /\ 1 \in V
    BY Carries
  <2> HIDE DEF V
  <2>3. BlocksOver(n, len, c, texts, S, V)
    BY <1>2, <2>1 DEF BlocksOver
  <2> QED
    BY <1>2, <2>2, <2>3 DEF Fit
<1>4. \A r \in 1 .. n : ReplyBlock(payloads[r], checksum) = Fenced(len[r], c[r], texts[r])
  <2> SUFFICES ASSUME NEW r \in 1 .. n
               PROVE  ReplyBlock(payloads[r], checksum) = Fenced(len[r], c[r], texts[r])
    OBVIOUS
  <2> DEFINE t == texts[r]
             p == payloads[r]
  <2>1. t = Trim(p) /\ len[r] = Len(t) /\ c[r] = IF checksum = "none" THEN {} ELSE {Checksum(t)}
    BY <1>1, <1>2
  <2> HIDE DEF t, p
  <2>2. ReplyBlock(p, checksum)
          = <<Line("LEN", Len(t))>>
            \o (IF checksum = "none" THEN <<>> ELSE <<Line(checksum, Checksum(t))>>)
            \o <<Line("open", 1)>> \o Split(t) \o <<Line("close", 1)>>
    BY <2>1 DEF ReplyBlock
  <2>3. (IF checksum = "none" THEN <<>> ELSE <<Line(checksum, Checksum(t))>>) = Vouched(c[r])
    <3>1. Vouched({}) = <<>> /\ Vouched({Checksum(t)}) = <<Line("CRC", Checksum(t))>>
      BY DEF Vouched
    <3> QED
      BY <2>1, <3>1
  <2>4. ReplyBlock(p, checksum) = Fenced(len[r], c[r], t)
    BY <2>1, <2>2, <2>3, Zenon DEF Fenced
  <2> QED
    BY <2>4 DEF t, p
<1> DEFINE mid == FlattenSeq(Fences(n, len, c, texts))
<1>5. [r \in DOMAIN payloads |-> ReplyBlock(payloads[r], checksum)] = Fences(n, len, c, texts)
  BY <1>1, <1>4, Zenon DEF Fences
<1>6. mid \in Seq(Lines(V))
  BY <1>3, FitsLines
<1>7. render_reply(v, payloads, status, checksum)
        = <<Opening, Line("NONCE", v), Line("STATUS", status)>> \o mid \o <<Ending>>
  BY <1>5, Zenon DEF render_reply, Opening, Ending
<1> HIDE DEF mid
<1>8. <<Opening, Line("NONCE", v), Line("STATUS", status)>> \o mid = <<Opening>> \o (Heading(v, status) \o mid)
  <2> DEFINE a == Line("NONCE", v)
             b == Line("STATUS", status)
             D == Lines(V) \cup {a, b, Opening}
  <2>1. mid \in Seq(D)
    BY <1>6
  <2>2. a \in D /\ b \in D /\ Opening \in D
    OBVIOUS
  <2> HIDE DEF a, b, D
  <2>3. <<Opening, a, b>> \o mid = <<Opening>> \o (<<a, b>> \o mid)
    BY <2>1, <2>2
  <2> QED
    BY <2>3 DEF Heading, a, b
<1>9. render_reply(v, payloads, status, checksum) = Said(v, status, n, len, c, texts)
  BY <1>7, <1>8, Zenon DEF Said, Reply, mid
<1> QED
  BY <1>3, <1>9, Zenon DEF Rendered, texts, len, c, V

\* A reply is found, and read, whatever stands before and after it.
FoundSaid(pre, v, st, n, len, c, text, post) ==
  find_reply_frames(pre \o Said(v, st, n, len, c, text) \o post)
    = <<Reading(TRUE, Entries(n, len, c, text), v, st)>>
FoundCut(v, st, n, len, c, text) ==
  find_reply_frames(<<Opening>> \o (Heading(v, st) \o FlattenSeq(Fences(n, len, c, text))))
    = <<Reading(FALSE, Entries(n, len, c, text), v, st)>>

\* A reply that says n blocks is found and read, terminated or not.
LEMMA FindsSaid ==
  ASSUME NEW V, NEW v \in V, NEW st \in V, NEW n, NEW len, NEW c, NEW text, NEW S,
         Fit(n, len, c, text, S, V), NEW pre \in Seq(Lines(V)), NEW post \in Seq(Lines(V))
  PROVE  /\ FoundSaid(pre, v, st, n, len, c, text, post)
         /\ FoundCut(v, st, n, len, c, text)
         /\ Shown(Entries(n, len, c, text), n)
<1> DEFINE E == EntriesOf(n, len, c, text)
           es == Entries(n, len, c, text)
           mid == FlattenSeq(Fences(n, len, c, text))
<1>1. E \subseteq E /\ n \in Nat /\ Seq(S) \subseteq V /\ 1 \in V /\ BlocksOver(n, len, c, text, S, V)
  BY DEF Fit
<1>2. mid \in Seq(Lines(V)) /\ es \in Seq(E) /\ Len(es) = n /\ Reads(mid, es, E)
  BY <1>1, ReadsBlocks
<1>3. \A r \in 1 .. n : es[r].closed = TRUE
  <2>1. \A r \in 1 .. n : es[r] = Entry(len[r], c[r], text[r])
    BY DEF Entries
  <2>2. \A r \in 1 .. n : Entry(len[r], c[r], text[r]).closed = TRUE
    BY DEF Entry
  <2> QED
    BY <2>1, <2>2
<1>4. Said(v, st, n, len, c, text) = Reply(v, st, mid)
  BY DEF Said
<1> HIDE DEF E, es, mid
<1>5. find_reply_frames(pre \o Reply(v, st, mid) \o post) = <<Reading(TRUE, es, v, st)>>
  <2>1. mid \in Seq(Lines(V))
    BY <1>2
  <2>2. es \in Seq(E)
    BY <1>2
  <2>3. Reads(mid, es, E)
    BY <1>2
  <2>4. Finds(pre, v, st, mid, post, es)
    BY <2>1, <2>2, <2>3, FindsReply
  <2> QED
    BY <2>4, Zenon DEF Finds
<1>6. find_reply_frames(<<Opening>> \o (Heading(v, st) \o mid)) = <<Reading(FALSE, es, v, st)>>
  BY <1>2, FindsCut
<1>7. Shown(es, n)
  BY <1>2, <1>3 DEF Shown
<1> QED
  <2>1. FoundSaid(pre, v, st, n, len, c, text, post)
    BY <1>4, <1>5, Zenon DEF FoundSaid, es
  <2>2. FoundCut(v, st, n, len, c, text)
    BY <1>6, Zenon DEF FoundCut, es, mid
  <2> QED
    BY <2>1, <2>2, <1>7, Zenon DEF es

-----------------------------------------------------------------------------
(***************************************************************************)
(* The ladder.                                                             *)
(***************************************************************************)

\* The one frame that a text holds.
FoundAs(text, terminated, es, v, st) ==
  find_reply_frames(text) = <<Reading(terminated, es, v, st)>>

\* A frame that fails one of the first two layers.
FrameVerdict(text, r, es, n, v, st) ==
  /\ FoundAs(text, FALSE, es, v, st) => validate(text, r).status = "MALFORMED"
  /\ FoundAs(text, TRUE, es, v, st) /\ v # r.nonce => validate(text, r).status = "BAD_NONCE"
  /\ FoundAs(text, TRUE, es, v, "REFUSED") /\ v = r.nonce => validate(text, r).status = "REFUSED"
  /\ FoundAs(text, TRUE, es, v, "OK") /\ v = r.nonce /\ n # r.replicas
       => validate(text, r).status = "MALFORMED"

\* The verdict of the ladder on a text whose one frame is known.
LEMMA JudgesFrame ==
  ASSUME NEW text, NEW r, NEW es, NEW n, Shown(es, n), NEW v, NEW st
  PROVE  FrameVerdict(text, r, es, n, v, st)
<1>1. Framed(es, n, v, st, r)
  BY FramingOf
<1>2. /\ Framing(Reading(FALSE, es, v, st), r) = "MALFORMED"
      /\ v # r.nonce => Framing(Reading(TRUE, es, v, st), r) = "BAD_NONCE"
      /\ v = r.nonce => Framing(Reading(TRUE, es, v, "REFUSED"), r) = "REFUSED"
      /\ v = r.nonce /\ n # r.replicas => Framing(Reading(TRUE, es, v, "OK"), r) = "MALFORMED"
  BY <1>1 DEF Framed
<1>4. \A x : find_reply_frames(text) = <<x>> /\ Framing(x, r) # "OK"
               => validate(text, r).status = Framing(x, r)
  <2> SUFFICES ASSUME NEW x, find_reply_frames(text) = <<x>>, Framing(x, r) # "OK"
               PROVE  validate(text, r).status = Framing(x, r)
    OBVIOUS
  <2>1. validate(text, r) = Failed(Framing(x, r))
    BY Judges
  <2> QED
    BY <2>1 DEF Failed
<1> QED
  BY <1>2, <1>4 DEF FoundAs, FrameVerdict

\* The verdict on a reply whose blocks all have the same status.
Verdict(text, r, status, payloads, unchecked) ==
  validate(text, r) = IF status # "OK" THEN Failed(status)
                      ELSE IF ~Elects(payloads) THEN Failed("NO_QUORUM")
                      ELSE Accepted(payloads, r, unchecked)
AllSay(es, n, r, status) == \A b \in 1 .. n : BlockStatus(es[b], r) = status

\* A frame with one block per replica, all of which fail alike or pass.
LEMMA JudgesBlocks ==
  ASSUME NEW text, NEW r, NEW es, NEW n, Shown(es, n), n = r.replicas, n \in Nat \ {0},
         find_reply_frames(text) = <<Reading(TRUE, es, r.nonce, "OK")>>,
         NEW status, AllSay(es, n, r, status)
  PROVE  Verdict(text, r, status, Texts(es, r), Unchecked(es))
<1> DEFINE x == Reading(TRUE, es, r.nonce, "OK")
<1>1. PICK E : es \in Seq(E)
  BY DEF Shown
<1>2. Len(es) = n /\ \A b \in 1 .. Len(es) : es[b].closed = TRUE
  BY DEF Shown
<1>3. es # <<>>
  BY <1>2
<1>4. Framing(x, r) = "OK"
  <2>1. Framed(es, n, r.nonce, "OK", r)
    BY FramingOf
  <2> QED
    BY <2>1 DEF Framed
<1>5. x.body.blocks = es
  BY DEF Reading, Between, State
<1>6. BlocksStatus(es, r) = status
  BY <1>1, <1>2, <1>3, AlikeStatus DEF AllSay
<1> HIDE DEF x
<1>7. find_reply_frames(text) = <<x>>
  BY DEF x
<1> QED
  BY <1>4, <1>5, <1>6, <1>7, Judges DEF Verdict

\* What L5 makes of a text is one number, if any.
LEMMA EncodesOnce ==
  ASSUME NEW p, NEW mode \in {"TEXT", "NUM", "BYTES"}, NEW n \in Encoded(p, mode)
  PROVE  Encoded(p, mode) = {n}
<1>1. CASE mode = "TEXT"
  BY <1>1 DEF Encoded
<1>2. CASE mode = "NUM"
  BY <1>2 DEF Encoded
<1>3. CASE mode = "BYTES"
  BY <1>3 DEF Encoded
<1> QED
  BY <1>1, <1>2, <1>3

\* Usable answers are accepted.
LEMMA Accepts ==
  ASSUME NEW payloads, NEW r, r.mode \in {"TEXT", "NUM", "BYTES"}, NEW unchecked,
         NEW n \in Encoded(Elected(payloads), r.mode),
         r.allow_truncate \/ ~(n > r.capacity)
  PROVE  /\ Accepted(payloads, r, unchecked).status = IF unchecked THEN "DEGRADED" ELSE "OK"
         /\ Accepted(payloads, r, unchecked).text = Elected(payloads)
<1> DEFINE length == Encoded(Elected(payloads), r.mode)
<1>1. length = {n}
  BY EncodesOnce
<1>2. Accepted(payloads, r, unchecked)
        = [status |-> IF unchecked THEN "DEGRADED" ELSE "OK",
           text |-> Elected(payloads),
           stored |-> Min(length \cup {r.capacity}),
           corrected |-> Cardinality(Corrected(payloads)),
           discarded |-> Cardinality(Discarded(payloads))]
  BY <1>1 DEF Accepted
<1> QED
  BY <1>2

\* All blocks get the same status.
Alike(n, len, c, text, r, status) ==
  \A b \in 1 .. n : BlockStatus(Entry(len[b], c[b], text[b]), r) = status

\* The payloads as the ladder reads them, and whether one has no checksum.
Read(n, text, r) == [b \in 1 .. n |-> IF r.no_trim THEN text[b] ELSE Trim(text[b])]
Unsummed(n, c) == \E b \in 1 .. n : c[b] = {}

\* Both are what the definitions of the ladder say of the blocks.
LEMMA EntriesRead ==
  ASSUME NEW n, NEW len, NEW c, NEW text, NEW r
  PROVE  /\ Texts(Entries(n, len, c, text), r) = Read(n, text, r)
         /\ Unchecked(Entries(n, len, c, text)) = Unsummed(n, c)
         /\ \A status : Alike(n, len, c, text, r, status)
                         => AllSay(Entries(n, len, c, text), n, r, status)
<1> DEFINE es == Entries(n, len, c, text)
<1>1. DOMAIN es = 1 .. n /\ \A b \in 1 .. n : es[b] = Entry(len[b], c[b], text[b])
  BY DEF Entries
<1> HIDE DEF es
<1>2. \A b \in 1 .. n : Payload(es[b], r) = IF r.no_trim THEN text[b] ELSE Trim(text[b])
  <2> SUFFICES ASSUME NEW b \in 1 .. n
               PROVE  Payload(es[b], r) = IF r.no_trim THEN text[b] ELSE Trim(text[b])
    OBVIOUS
  <2>1. es[b].text = text[b]
    BY <1>1 DEF Entry
  <2> QED
    BY <2>1, Zenon DEF Payload
<1>3. \A b \in 1 .. n : Checksums(es[b]) = c[b]
  BY <1>1 DEF Checksums, Entry
<1>4. Texts(es, r) = Read(n, text, r)
  BY <1>1, <1>2, Zenon DEF Texts, Read
<1>5. Unchecked(es) = Unsummed(n, c)
  BY <1>1, <1>3 DEF Unchecked, Unsummed
<1>6. \A status : Alike(n, len, c, text, r, status) => AllSay(es, n, r, status)
  BY <1>1 DEF Alike, AllSay
<1> QED
  BY <1>4, <1>5, <1>6 DEF es

\* The verdict on a reply whose blocks all get the same status, whatever surrounds it.
LEMMA JudgesSaid ==
  ASSUME NEW V, "OK" \in V, NEW r, r.nonce \in V, NEW n, n = r.replicas, n > 0,
         NEW len, NEW c, NEW text, NEW S, Fit(n, len, c, text, S, V),
         NEW pre \in Seq(Lines(V)), NEW post \in Seq(Lines(V)),
         NEW status, Alike(n, len, c, text, r, status)
  PROVE  Verdict(pre \o Said(r.nonce, "OK", n, len, c, text) \o post, r, status,
                 Read(n, text, r), Unsummed(n, c))
<1> DEFINE es == Entries(n, len, c, text)
           v == r.nonce
           st == "OK"
           t == pre \o Said(v, st, n, len, c, text) \o post
<1>1. n \in Nat \ {0}
  BY DEF Fit
<1>2. v \in V /\ st \in V
  OBVIOUS
<1> HIDE DEF v, st
<1>3. FoundSaid(pre, v, st, n, len, c, text, post) /\ Shown(es, n)
  BY <1>2, FindsSaid
<1>4. find_reply_frames(t) = <<Reading(TRUE, es, v, st)>>
  BY <1>3, Zenon DEF FoundSaid
<1>5. AllSay(es, n, r, status)
  BY EntriesRead
<1> HIDE DEF es, t
<1>6. find_reply_frames(t) = <<Reading(TRUE, es, r.nonce, "OK")>>
  BY <1>4 DEF v, st
<1>7. Verdict(t, r, status, Texts(es, r), Unchecked(es))
  BY <1>1, <1>3, <1>5, <1>6, JudgesBlocks
<1>8. Texts(es, r) = Read(n, text, r) /\ Unchecked(es) = Unsummed(n, c)
  BY EntriesRead DEF es
<1> QED
  BY <1>7, <1>8, Zenon DEF t, v, st

\* Trimming makes nothing longer.
LEMMA TrimIsShorter ==
  ASSUME NEW S, NEW x \in Seq(S)
  PROVE  Len(Trim(x)) \in 0 .. Len(x)
<1>1. Len(Trim(x)) <= Len(x)
  <2>1. CASE {i \in DOMAIN x : x[i] \notin Blank} = {}
    BY <2>1 DEF Trim
  <2>2. CASE {i \in DOMAIN x : x[i] \notin Blank} # {}
    <3> DEFINE kept == {i \in DOMAIN x : x[i] \notin Blank}
               a == Min(kept)
               b == Max(kept)
    <3>1. /\ kept \in SUBSET Nat /\ kept \in SUBSET (0 .. Len(x)) /\ kept # {}
          /\ Len(x) \in Nat /\ kept \subseteq 1 .. Len(x)
      BY <2>2
    <3>2. Trim(x) = SubSeq(x, a, b)
      BY <2>2 DEF Trim
    <3> HIDE DEF kept
    <3>3. a \in kept
      BY <3>1, Smallest
    <3>4. b \in kept
      BY <3>1, Greatest
    <3>5. a \in 1 .. Len(x) /\ b \in 1 .. Len(x)
      BY <3>1, <3>3, <3>4
    <3> HIDE DEF a, b
    <3>6. Len(SubSeq(x, a, b)) <= Len(x)
      BY <3>5
    <3> QED
      BY <3>2, <3>6
  <2> QED
    BY <2>1, <2>2
<1>2. Len(Trim(x)) \in Nat
  <2>1. Trim(x) \in Seq(S)
    BY Trims
  <2> QED
    BY <2>1
<1> QED
  BY <1>1, <1>2

\* What layers L2 and L3 say of a block that gives the payload p.
BlockVerdict(l, d, p, r) ==
  IF l # Len(p) THEN "BAD_LENGTH"
  ELSE IF (\E y \in d : y # Checksum(p)) \/ (d = {} /\ r.strict) THEN "BAD_CHECKSUM"
  ELSE "OK"

\* A block is judged on its length, its checksums and its trimmed text alone.
LEMMA BlockJudged ==
  ASSUME NEW x, NEW l, NEW d, NEW r
  PROVE  BlockStatus(Entry(l, d, x), r)
           = BlockVerdict(l, d, IF r.no_trim THEN x ELSE Trim(x), r)
<1> DEFINE p == IF r.no_trim THEN x ELSE Trim(x)
<1>1. p = Payload(Entry(l, d, x), r)
  <2>1. Entry(l, d, x).text = x
    BY DEF Entry
  <2> QED
    BY <2>1, Zenon DEF Payload
<1> HIDE DEF p
<1>2. BlockStatus(Entry(l, d, x), r) = BlockVerdict(l, d, p, r)
  BY <1>1, EntryStatus DEF BlockVerdict
<1> QED
  BY <1>2 DEF p

\* A block whose LEN is not that of its text.
LEMMA LengthJudged ==
  ASSUME NEW S, NEW x \in Seq(S), NEW l, NEW d, NEW r,
         (l # Len(x) /\ Stripped(x)) \/ l \notin 0 .. Len(x)
  PROVE  BlockStatus(Entry(l, d, x), r) = "BAD_LENGTH"
<1> DEFINE p == IF r.no_trim THEN x ELSE Trim(x)
<1>1. BlockStatus(Entry(l, d, x), r) = BlockVerdict(l, d, p, r)
  BY BlockJudged
<1>2. l # Len(p)
  <2>1. Stripped(x) => p = x
    BY Trims
  <2>2. Len(p) \in 0 .. Len(x)
    BY TrimIsShorter
  <2> QED
    BY <2>1, <2>2
<1> QED
  BY <1>1, <1>2 DEF BlockVerdict

\* A stripped text of the length it should have, and its checksum.
LEMMA SumJudged ==
  ASSUME NEW S, NEW x \in Seq(S), Stripped(x), NEW d, NEW r
  PROVE  BlockStatus(Entry(Len(x), d, x), r) = BlockVerdict(Len(x), d, x, r)
<1>1. (IF r.no_trim THEN x ELSE Trim(x)) = x
  BY Trims
<1> QED
  BY <1>1, BlockJudged

\* A block with its own length is refused only for want of a checksum, under strict.
LEMMA Vouching ==
  ASSUME NEW x, NEW r
  PROVE  /\ BlockVerdict(Len(x), {Checksum(x)}, x, r) = "OK"
         /\ r.strict => BlockVerdict(Len(x), {}, x, r) = "BAD_CHECKSUM"
         /\ ~r.strict => BlockVerdict(Len(x), {}, x, r) = "OK"
  BY DEF BlockVerdict

\* A checksum that is forged or of another text is refused.
LEMMA Forging ==
  ASSUME NEW x, NEW t, NEW r
  PROVE  /\ BlockVerdict(Len(x), {Tampering(t)}, x, r) = "BAD_CHECKSUM"
         /\ t # x => BlockVerdict(Len(x), {Checksum(t)}, x, r) = "BAD_CHECKSUM"
<1>1. Tampering(t) # Checksum(x)
  <2>1. Tampering(t)["tampered"] = TRUE /\ Checksum(x)["tampered"] = FALSE
    BY DEF Tampering, Checksum
  <2> QED
    BY <2>1
<1>2. Checksum(t) = Checksum(x) => t = x
  <2>1. Checksum(t).of = t /\ Checksum(x).of = x
    BY DEF Checksum
  <2> QED
    BY <2>1
<1> QED
  BY <1>1, <1>2 DEF BlockVerdict

=============================================================================
