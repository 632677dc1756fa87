---------------------------- MODULE Lists_proofs ----------------------------
(* Induction over numbers, and sequences of elements of which nothing is known:
   what the other proofs need for definitions that go through a sequence from
   one end to the other.  The induction theorems of the library take an operator
   as a parameter, which the provers cannot instantiate; here the claims are
   sets of numbers. *)
EXTENDS Lists, SequencesExt, WellFoundedInduction, FiniteSetTheorems, SequenceTheorems, TLAPS

-----------------------------------------------------------------------------
(***************************************************************************)
(* Induction over numbers, with sets for the claims: the induction         *)
(* theorems of the library take an operator, which the provers cannot      *)
(* instantiate.                                                            *)
(***************************************************************************)
\* A set of natural numbers that is not empty has a least one.
LEMMA Least ==
  ASSUME NEW S \in SUBSET Nat, S # {}
  PROVE  \E m \in S : \A k \in S : m <= k
<1> DEFINE R == OpToRel(<, Nat)
<1>1. IsWellFoundedOn(R, Nat)
  BY NatLessThanWellFounded
<1>2. \A x, y \in Nat : <<x, y>> \in R <=> x < y
  BY DEF OpToRel
<1> HIDE DEF R
<1>3. PICK m \in S : \A y \in S : ~ (<<y, m>> \in R)
  BY <1>1, WFMin
<1>4. \A k \in S : ~ (k < m)
  BY <1>2, <1>3
<1> QED
  BY <1>4

\* The greatest number of a bounded set.
LEMMA Greatest ==
  ASSUME NEW n \in Nat, NEW S \in SUBSET (0 .. n), S # {}
  PROVE  Max(S) \in S /\ \A k \in S : k <= Max(S)
<1> DEFINE T == {n - k : k \in S}
<1>1. T \in SUBSET Nat /\ T # {}
  <2>1. \A k \in S : n - k \in Nat
    OBVIOUS
  <2> QED
    BY <2>1
<1>2. PICK t \in T : \A u \in T : t <= u
  BY <1>1, Least
<1>3. PICK x \in S : t = n - x
  BY <1>2
<1>4. \A k \in S : x >= k
  <2> SUFFICES ASSUME NEW k \in S PROVE x >= k
    OBVIOUS
  <2>1. n - x <= n - k
    BY <1>2, <1>3
  <2> QED
    BY <2>1
<1>5. Max(S) \in S /\ \A k \in S : Max(S) >= k
  BY <1>3, <1>4 DEF Max
<1> QED
  BY <1>5

\* What holds at 0, and at k + 1 when it holds at k, holds up to n.
LEMMA Induction ==
  ASSUME NEW n \in Nat, NEW S, 0 \in S, \A k \in 0 .. n - 1 : k \in S => k + 1 \in S
  PROVE  \A k \in 0 .. n : k \in S
<1> DEFINE T == {k \in 0 .. n : k \notin S}
<1>1. ASSUME T # {} PROVE FALSE
  <2>0. T \in SUBSET Nat
    OBVIOUS
  <2>1. PICK m \in T : \A k \in T : m <= k
    BY <1>1, <2>0, Least
  <2>2. m \in 1 .. n /\ m - 1 \in S
    BY <2>1
  <2> QED
    BY <2>1, <2>2
<1> QED
  BY <1>1

-----------------------------------------------------------------------------
(***************************************************************************)
(* Sequences of lines, of which nothing is known but that they are         *)
(* sequences.                                                              *)
(***************************************************************************)
IsSeq(s) == Len(s) \in Nat /\ s = [i \in 1 .. Len(s) |-> s[i]]

\* A sequence is one over its own elements, whatever they are.
LEMMA SeqOfOwn ==
  ASSUME NEW s, IsSeq(s)
  PROVE  s \in Seq({s[i] : i \in 1 .. Len(s)}) /\ DOMAIN s = 1 .. Len(s)
<1> DEFINE S == {s[i] : i \in 1 .. Len(s)}
<1>1. s \in [1 .. Len(s) -> S]
  BY DEF IsSeq
<1> QED
  BY <1>1, SeqDef DEF IsSeq

\* A sequence of the library is one by its own length.
LEMMA SeqIsSeq ==
  ASSUME NEW S, NEW s \in Seq(S)
  PROVE  IsSeq(s)
  BY LenProperties DEF IsSeq

\* A function over 1 .. n is a sequence of length n.
LEMMA FunctionIsSeq ==
  ASSUME NEW n \in Nat, NEW s, s = [i \in 1 .. n |-> s[i]]
  PROVE  IsSeq(s) /\ Len(s) = n
<1> DEFINE S == {s[i] : i \in 1 .. n}
<1>1. s \in [1 .. n -> S]
  OBVIOUS
<1>2. s \in Seq(S)
  BY <1>1, SeqDef
<1>3. DOMAIN s = 1 .. Len(s) /\ Len(s) \in Nat
  BY <1>2, LenProperties
<1>4. Len(s) = n
  BY <1>1, <1>3
<1> QED
  BY <1>2, <1>4, SeqIsSeq

\* Concatenation under a name, which the provers do not take apart.
Chained(s, t) == s \o t

\* Where the elements of a concatenation come from.
LEMMA Concat ==
  ASSUME NEW s, IsSeq(s), NEW t, IsSeq(t)
  PROVE  /\ IsSeq(Chained(s, t))
         /\ Len(Chained(s, t)) = Len(s) + Len(t)
         /\ \A i \in 1 .. Len(s) : Chained(s, t)[i] = s[i]
         /\ \A i \in 1 .. Len(t) : Chained(s, t)[Len(s) + i] = t[i]
<1> DEFINE S == {s[i] : i \in 1 .. Len(s)} \cup {t[i] : i \in 1 .. Len(t)}
<1>1. s \in Seq(S) /\ t \in Seq(S)
  <2> DEFINE U == {s[i] : i \in 1 .. Len(s)}
             V == {t[i] : i \in 1 .. Len(t)}
  <2>1. s \in Seq(U) /\ t \in Seq(V)
    BY SeqOfOwn
  <2>2. U \subseteq S /\ V \subseteq S
    OBVIOUS
  <2> HIDE DEF U, V, S
  <2> QED
    BY <2>1, <2>2, SeqMonotonic
<1> HIDE DEF S
<1>2. Len(s) \in Nat /\ Len(t) \in Nat
  BY DEF IsSeq
<1>3. /\ s \o t \in Seq(S) /\ Len(s \o t) = Len(s) + Len(t)
      /\ \A i \in 1 .. Len(s) + Len(t) :
           (s \o t)[i] = IF i <= Len(s) THEN s[i] ELSE t[i - Len(s)]
  BY <1>1, ConcatProperties
<1>4. IsSeq(s \o t)
  BY <1>3, SeqIsSeq
<1>5. ASSUME NEW i \in 1 .. Len(t) PROVE (s \o t)[Len(s) + i] = t[i]
  BY <1>2, <1>3
<1> QED
  BY <1>2, <1>3, <1>4, <1>5 DEF Chained

\* The sequence of one element, and the empty one.
LEMMA One ==
  ASSUME NEW a
  PROVE  IsSeq(<<a>>) /\ Len(<<a>>) = 1 /\ <<a>>[1] = a
<1>1. <<a>> \in Seq({a}) /\ Len(<<a>>) = 1 /\ <<a>>[1] = a
  OBVIOUS
<1> QED
  BY <1>1, SeqIsSeq

LEMMA Empty == IsSeq(<<>>) /\ Len(<<>>) = 0
<1>1. <<>> \in Seq({})
  OBVIOUS
<1> QED
  BY <1>1, SeqIsSeq

\* What Append adds, and what it keeps.
LEMMA Appended ==
  ASSUME NEW s, IsSeq(s), NEW a
  PROVE  /\ IsSeq(Append(s, a)) /\ Len(Append(s, a)) = Len(s) + 1
         /\ \A i \in 1 .. Len(s) : Append(s, a)[i] = s[i]
         /\ Append(s, a)[Len(s) + 1] = a
<1> DEFINE S == {s[i] : i \in 1 .. Len(s)} \cup {a}
<1>1. s \in Seq(S)
  <2> DEFINE U == {s[i] : i \in 1 .. Len(s)}
  <2>1. s \in Seq(U) /\ U \subseteq S
    BY SeqOfOwn
  <2> HIDE DEF U, S
  <2> QED
    BY <2>1, SeqMonotonic
<1>2. a \in S
  OBVIOUS
<1> HIDE DEF S
<1> DEFINE u == Append(s, a)
<1>3. /\ u \in Seq(S) /\ Len(u) = Len(s) + 1
      /\ \A i \in 1 .. Len(s) : u[i] = s[i]
      /\ u[Len(s) + 1] = a
  BY <1>1, <1>2, AppendProperties
<1> HIDE DEF u
<1>4. IsSeq(u)
  BY <1>3, SeqIsSeq
<1> QED
  BY <1>3, <1>4 DEF u

\* Sequences with the same elements are the same.
LEMMA SameSeq ==
  ASSUME NEW s, IsSeq(s), NEW t, IsSeq(t), Len(s) = Len(t), \A i \in 1 .. Len(s) : s[i] = t[i]
  PROVE  s = t
  BY DEF IsSeq

\* What SubSeq takes out of a sequence.
LEMMA Part ==
  ASSUME NEW s, NEW m \in Int, NEW n \in Int
  PROVE  /\ IsSeq(SubSeq(s, m, n))
         /\ Len(SubSeq(s, m, n)) = IF m <= n THEN n - m + 1 ELSE 0
         /\ \A i \in 1 .. n - m + 1 : SubSeq(s, m, n)[i] = s[m + i - 1]
<1> DEFINE S == {s[i] : i \in m .. n}
<1>1. \A i \in m .. n : s[i] \in S
  OBVIOUS
<1> HIDE DEF S
<1> DEFINE u == SubSeq(s, m, n)
<1>2. /\ u \in Seq(S)
      /\ Len(u) = IF m <= n THEN n - m + 1 ELSE 0
      /\ \A i \in 1 .. n - m + 1 : u[i] = s[m + i - 1]
  BY <1>1, SubSeqProperties
<1> HIDE DEF u
<1>3. IsSeq(u)
  BY <1>2, SeqIsSeq
<1> QED
  BY <1>2, <1>3 DEF u

\* Every finite set of numbers can be listed in ascending order.
IsAscending(s) == \A i, j \in DOMAIN s : i < j => s[i] < s[j]

LEMMA AscendingExists ==
  ASSUME NEW S \in SUBSET Nat, IsFiniteSet(S)
  PROVE  \E s \in [1 .. Cardinality(S) -> S] : IsAscending(s)
<1> DEFINE Listed(T) == \E s \in [1 .. Cardinality(T) -> T] : IsAscending(s)
           K == {k \in Nat : \A T \in SUBSET S : Cardinality(T) = k => Listed(T)}
<1>1. \A T \in SUBSET S : IsFiniteSet(T) /\ Cardinality(T) \in Nat /\ T \subseteq Nat
  BY FS_Subset, FS_CardinalityType
<1>2. 0 \in K
  <2> SUFFICES ASSUME NEW T \in SUBSET S, Cardinality(T) = 0 PROVE Listed(T)
    OBVIOUS
  <2>1. [i \in 1 .. 0 |-> i] \in [1 .. Cardinality(T) -> T] /\ IsAscending([i \in 1 .. 0 |-> i])
    BY DEF IsAscending
  <2> QED
    BY <2>1
<1>3. ASSUME NEW k \in Nat, k \in K PROVE k + 1 \in K
  <2> SUFFICES ASSUME NEW T \in SUBSET S, Cardinality(T) = k + 1 PROVE Listed(T)
    OBVIOUS
  <2>1. T # {}
    BY FS_EmptySet
  <2>2. PICK m \in T : \A x \in T : m <= x
    BY <1>1, <2>1, Least
  <2>3. T \ {m} \in SUBSET S /\ Cardinality(T \ {m}) = k
    BY <1>1, <2>2, FS_RemoveElement
  <2>4. PICK s \in [1 .. k -> T \ {m}] : IsAscending(s)
    BY <1>3, <2>3
  <2> DEFINE t == [i \in 1 .. k + 1 |-> IF i = 1 THEN m ELSE s[i - 1]]
  <2>5. t \in [1 .. k + 1 -> T]
    BY <2>2, <2>4
  <2>6. ASSUME NEW i \in 1 .. k + 1, NEW j \in 1 .. k + 1, i < j PROVE t[i] < t[j]
    <3>1. CASE i = 1
      <4>1. t[i] = m /\ t[j] = s[j - 1] /\ j - 1 \in 1 .. k
        BY <3>1, <2>6
      <4>2. t[j] \in T \ {m}
        BY <4>1, <2>4
      <4>3. m <= t[j] /\ m # t[j] /\ m \in Nat /\ t[j] \in Nat
        BY <4>2, <2>2, <1>1
      <4> QED
        BY <4>1, <4>3
    <3>2. CASE i # 1
      <4>1. t[i] = s[i - 1] /\ t[j] = s[j - 1] /\ i - 1 \in 1 .. k /\ j - 1 \in 1 .. k
        BY <3>2, <2>6
      <4> QED
        BY <4>1, <2>4, <2>6 DEF IsAscending
    <3> QED
      BY <3>1, <3>2
  <2>7. IsAscending(t)
    BY <2>6 DEF IsAscending
  <2> QED
    BY <2>5, <2>7
<1> HIDE DEF K
<1>4. \A k \in 0 .. Cardinality(S) : k \in K
  BY <1>1, <1>2, <1>3, Induction
<1> QED
  BY <1>1, <1>4 DEF K

\* Ascending lists every element of the set, in order, and nothing else.
LEMMA AscendingLists ==
  ASSUME NEW S \in SUBSET Nat, IsFiniteSet(S)
  PROVE  /\ Cardinality(S) \in Nat
         /\ Ascending(S) \in [1 .. Cardinality(S) -> S]
         /\ IsAscending(Ascending(S))
         /\ \A a \in S : \E i \in 1 .. Cardinality(S) : Ascending(S)[i] = a
<1> DEFINE n == Cardinality(S)
           Below(x) == {y \in S : y < x}
<1>1. n \in Nat
  BY FS_CardinalityType
<1>2. PICK s \in [1 .. n -> S] : IsAscending(s)
  BY AscendingExists
<1>3. \A i, j \in 1 .. n : i < j => s[i] < s[j]
  BY <1>2 DEF IsAscending
<1>4. ASSUME NEW i \in 1 .. n, NEW j \in 1 .. n, s[i] = s[j] PROVE i = j
  <2>1. s[i] \in Nat /\ s[j] \in Nat
    BY <1>2
  <2>2. ~ (i < j) /\ ~ (j < i)
    BY <1>3, <1>4, <2>1
  <2> QED
    BY <1>1, <2>2
<1>5. \A a \in S : \E i \in 1 .. n : s[i] = a
  <2>1. s \in Injection(1 .. n, S)
    BY <1>2, <1>4 DEF Injection, IsInjective
  <2>2. Cardinality(1 .. n) = n
    BY <1>1, FS_Interval
  <2>3. s \in Surjection(1 .. n, S)
    BY <1>1, <2>1, <2>2, FS_Injection
  <2> QED
    BY <2>3 DEF Surjection
<1>6. ASSUME NEW k \in 1 .. n PROVE Cardinality(Below(s[k])) = k - 1
  <2> DEFINE t == [i \in 1 .. k - 1 |-> s[i]]
  <2>1. \A i \in 1 .. k - 1 : i \in 1 .. n /\ t[i] = s[i] /\ s[i] \in S /\ s[i] < s[k]
    BY <1>1, <1>2, <1>3
  <2>2. t \in Injection(1 .. k - 1, Below(s[k]))
    BY <1>4, <2>1 DEF Injection, IsInjective
  <2>3. ASSUME NEW y \in Below(s[k]) PROVE \E i \in 1 .. k - 1 : t[i] = y
    <3>1. PICK i \in 1 .. n : s[i] = y
      BY <1>5, <2>3
    <3>2. ~ (k < i) /\ i # k
      <4>1. s[i] < s[k] /\ s[i] \in Nat /\ s[k] \in Nat
        BY <1>2, <2>3, <3>1
      <4> QED
        BY <1>3, <4>1
    <3>3. i \in 1 .. k - 1
      BY <1>1, <3>2
    <3> QED
      BY <2>1, <3>1, <3>3
  <2>4. t \in Bijection(1 .. k - 1, Below(s[k]))
    BY <2>2, <2>3 DEF Bijection, Surjection, Injection
  <2>5. IsFiniteSet(1 .. k - 1) /\ Cardinality(1 .. k - 1) = k - 1
    <3>1. 1 \in Int /\ k - 1 \in Int /\ (1 > k - 1 <=> k - 1 = 0)
      BY <1>1
    <3>2. /\ IsFiniteSet(1 .. k - 1)
          /\ Cardinality(1 .. k - 1) = IF 1 > k - 1 THEN 0 ELSE k - 1 - 1 + 1
      BY <3>1, FS_Interval
    <3> QED
      BY <3>1, <3>2
  <2>6. ExistsBijection(1 .. k - 1, Below(s[k]))
    BY <2>4 DEF ExistsBijection
  <2>7. Cardinality(Below(s[k])) = Cardinality(1 .. k - 1)
    BY <2>5, <2>6, FS_Bijection
  <2> QED
    BY <2>5, <2>7
<1>7. ASSUME NEW k \in 1 .. n PROVE Ascending(S)[k] = s[k]
  <2>1. Ascending(S)[k] = CHOOSE x \in S : Cardinality(Below(x)) = k - 1
    BY DEF Ascending
  <2>2. ASSUME NEW x \in S, Cardinality(Below(x)) = k - 1 PROVE x = s[k]
    <3>1. PICK j \in 1 .. n : s[j] = x
      BY <1>5
    <3>2. j - 1 = k - 1
      BY <1>6, <2>2, <3>1
    <3> QED
      BY <1>1, <3>1, <3>2
  <2>3. s[k] \in S /\ Cardinality(Below(s[k])) = k - 1
    BY <1>2, <1>6
  <2> HIDE DEF Below
  <2> QED
    BY <2>1, <2>2, <2>3
<1>8. Ascending(S) = s
  <2> DEFINE u == Ascending(S)
           e(k) == CHOOSE x \in S : Cardinality({y \in S : y < x}) = k - 1
  <2>0. u = [k \in 1 .. n |-> e(k)]
    BY DEF Ascending
  <2> HIDE DEF e, u
  <2>1. u = [k \in DOMAIN u |-> u[k]] /\ DOMAIN u = 1 .. n
    BY <2>0
  <2>2. \A k \in 1 .. n : u[k] = s[k]
    BY <1>7 DEF u
  <2> QED
    BY <1>2, <2>1, <2>2 DEF u
<1> QED
  BY <1>1, <1>2, <1>5, <1>8

-----------------------------------------------------------------------------
(***************************************************************************)
(* Recursion: functions that are defined from one number to the next, and  *)
(* the sequences that FlattenSeq joins.                                    *)
(***************************************************************************)
\* The function f begins with b, and goes on from each value to the next as G says.
Unrolled(f, n, X, b, G) ==
  f \in [0 .. n -> X] /\ f[0] = b /\ \A k \in 1 .. n : f[k] = G[k][f[k - 1]]

\* There is such a function up to every n.
LEMMA Recursion ==
  ASSUME NEW n \in Nat, NEW X, NEW b \in X, NEW G \in [1 .. n -> [X -> X]]
  PROVE  \E f : Unrolled(f, n, X, b, G)
<1> DEFINE Goes(f, m) == f[0] = b /\ \A k \in 1 .. m : f[k] = G[k][f[k - 1]]
           K == {m \in 0 .. n : \E f \in [0 .. m -> X] : Goes(f, m)}
<1>1. 0 \in K
  <2> DEFINE f == [i \in 0 .. 0 |-> b]
  <2>1. f \in [0 .. 0 -> X]
    OBVIOUS
  <2>2. f[0] = b
    OBVIOUS
  <2>3. 1 .. 0 = {} /\ 0 \in 0 .. n
    OBVIOUS
  <2> HIDE DEF f
  <2>4. Goes(f, 0)
    BY <2>2, <2>3
  <2> HIDE DEF Goes
  <2> QED
    BY <2>1, <2>3, <2>4
<1>2. ASSUME NEW m \in 0 .. n - 1, m \in K PROVE m + 1 \in K
  <2>1. PICK f \in [0 .. m -> X] : Goes(f, m)
    BY <1>2
  <2> DEFINE g == [i \in 0 .. m + 1 |-> IF i <= m THEN f[i] ELSE G[m + 1][f[m]]]
  <2>2. m + 1 \in 1 .. n /\ f[m] \in X
    BY <2>1
  <2>3. g \in [0 .. m + 1 -> X]
    BY <2>1, <2>2
  <2>4. \A i \in 0 .. m : g[i] = f[i]
    OBVIOUS
  <2>5. g[m + 1] = G[m + 1][f[m]]
    OBVIOUS
  <2> HIDE DEF g
  <2>6. ASSUME NEW k \in 1 .. m + 1 PROVE g[k] = G[k][g[k - 1]]
    <3>1. CASE k = m + 1
      BY <3>1, <2>4, <2>5
    <3>2. CASE k \in 1 .. m
      <4>1. f[k] = G[k][f[k - 1]]
        BY <2>1, <3>2
      <4>2. g[k] = f[k] /\ g[k - 1] = f[k - 1]
        BY <2>4, <3>2
      <4> QED
        BY <4>1, <4>2
    <3> QED
      BY <3>1, <3>2
  <2>7. g[0] = b
    BY <2>1, <2>4
  <2>8. Goes(g, m + 1) /\ m + 1 \in 0 .. n
    BY <2>6, <2>7
  <2> HIDE DEF Goes
  <2> QED
    BY <2>3, <2>8
<1> HIDE DEF K
<1>3. \A k \in 0 .. n : k \in K
  BY <1>1, <1>2, Induction
<1> QED
  BY <1>3 DEF K, Unrolled

\* FlattenSeq joins one sequence after the other.
LEMMA FlattenUnrolls ==
  ASSUME NEW S, NEW ss \in Seq(Seq(S))
  PROVE  \E f \in [0 .. Len(ss) -> Seq(S)] :
           /\ f[0] = <<>> /\ f[Len(ss)] = FlattenSeq(ss)
           /\ \A k \in 0 .. Len(ss) - 1 : f[k + 1] = f[k] \o ss[k + 1]
<1> DEFINE n == Len(ss)
           E == Seq(S)
<1>1. n \in Nat /\ (\A i \in 1 .. n : ss[i] \in E) /\ <<>> \in E
  OBVIOUS
<1>0. \A s, t \in E : s \o t \in E
  BY ConcatProperties
<1>2. CASE n = 0
  <2>1. FlattenSeq(ss) = ss /\ ss = <<>>
    BY <1>2 DEF FlattenSeq
  <2> DEFINE f == [i \in 0 .. 0 |-> <<>>]
  <2>2. f \in [0 .. n -> E] /\ f[0] = <<>>
    BY <1>1, <1>2
  <2>3. 0 .. n - 1 = {} /\ f[n] = FlattenSeq(ss)
    BY <1>2, <2>1
  <2> HIDE DEF f
  <2> QED
    BY <2>2, <2>3
<1>3. CASE n # 0
  <2> HIDE DEF n, E
  <2> DEFINE Joins(f) == f = [i \in 1 .. n |-> IF i = 1 THEN ss[i] ELSE f[i - 1] \o ss[i]]
             G == [i \in 1 .. n |-> [s \in E |-> s \o ss[i]]]
             chosen == CHOOSE f : Joins(f)
  <2>1. G \in [1 .. n -> [E -> E]]
    BY <1>0, <1>1
  <2>2. \A i \in 1 .. n, s \in E : G[i][s] = s \o ss[i]
    OBVIOUS
  <2> HIDE DEF G
  <2>0. PICK f : Unrolled(f, n, E, <<>>, G)
    BY <1>1, <2>1, Recursion, Zenon
  <2>3. f \in [0 .. n -> E] /\ f[0] = <<>> /\ \A k \in 1 .. n : f[k] = G[k][f[k - 1]]
    BY <2>0 DEF Unrolled
  <2> DEFINE g == [i \in 1 .. n |-> f[i]]
  <2>4. ASSUME NEW i \in 1 .. n PROVE g[i] = IF i = 1 THEN ss[i] ELSE g[i - 1] \o ss[i]
    <3>0. i - 1 \in 0 .. n
      BY <1>1
    <3>1. i - 1 \in 0 .. n /\ f[i - 1] \in E
      BY <2>3, <3>0
    <3>2. g[i] = f[i - 1] \o ss[i]
      BY <2>2, <2>3, <3>1
    <3>3. CASE i = 1
      <4>1. f[i - 1] = <<>> /\ ss[i] \in Seq(S)
        BY <1>1, <2>3, <3>3 DEF E
      <4> QED
        BY <3>2, <3>3, <4>1
    <3>4. CASE i # 1
      <4>1. i - 1 \in 1 .. n
        BY <1>1, <3>4
      <4>2. g[i - 1] = f[i - 1]
        BY <4>1
      <4> QED
        BY <3>2, <3>4, <4>2
    <3> QED
      BY <3>3, <3>4
  <2>5. Joins(g)
    <3>1. g = [i \in 1 .. n |-> g[i]]
      OBVIOUS
    <3> HIDE DEF g
    <3> QED
      BY <2>4, <3>1
  <2> HIDE DEF g, Joins
  <2>6. Joins(chosen)
    BY <2>5
  <2> HIDE DEF chosen
  <2>7. \A i \in 1 .. n : chosen[i] = IF i = 1 THEN ss[i] ELSE chosen[i - 1] \o ss[i]
    BY <2>6 DEF Joins
  <2> DEFINE K == {k \in 0 .. n : k = 0 \/ chosen[k] \in E}
  <2>8. 0 \in K
    BY <1>1
  <2>9. ASSUME NEW k \in 0 .. n - 1, k \in K PROVE k + 1 \in K
    <3>1. k + 1 \in 1 .. n /\ ss[k + 1] \in E
      BY <1>1
    <3>2. chosen[k + 1] = IF k + 1 = 1 THEN ss[k + 1] ELSE chosen[k + 1 - 1] \o ss[k + 1]
      BY <2>7, <3>1
    <3>3. CASE k = 0
      BY <3>1, <3>2, <3>3
    <3>4. CASE k # 0
      <4>1. chosen[k] \in E /\ k + 1 - 1 = k /\ k + 1 # 1
        BY <2>9, <3>4
      <4>2. chosen[k + 1] = chosen[k] \o ss[k + 1]
        BY <3>2, <4>1
      <4>3. chosen[k] \o ss[k + 1] \in E
        BY <1>0, <3>1, <4>1
      <4>4. k + 1 \in 0 .. n
        BY <1>1
      <4> HIDE DEF E
      <4> QED
        BY <4>2, <4>3, <4>4
    <3> QED
      BY <3>3, <3>4
  <2>11. \A k \in 1 .. n : chosen[k] \in E
    <3>1. \A k \in 0 .. n - 1 : k \in K => k + 1 \in K
      BY <2>9
    <3> HIDE DEF K
    <3>2. \A k \in 0 .. n : k \in K
      BY <1>1, <2>8, <3>1, Induction
    <3> QED
      BY <3>2 DEF K
  <2>12. FlattenSeq(ss) = chosen[n]
    BY <1>3 DEF FlattenSeq, chosen, Joins, n
  <2> DEFINE h == [i \in 0 .. n |-> IF i = 0 THEN <<>> ELSE chosen[i]]
  <2>13. h \in [0 .. n -> E] /\ h[0] = <<>> /\ \A i \in 1 .. n : h[i] = chosen[i]
    BY <1>1, <2>11
  <2> HIDE DEF h
  <2>14. ASSUME NEW k \in 1 .. n PROVE h[k] = h[k - 1] \o ss[k]
    <3>1. CASE k = 1
      <4>1. h[k] = ss[k] /\ h[k - 1] = <<>> /\ ss[k] \in Seq(S)
        BY <1>1, <2>7, <2>13, <3>1 DEF E
      <4> QED
        BY <4>1
    <3>2. CASE k # 1
      <4>1. k - 1 \in 1 .. n
        BY <1>1, <3>2
      <4> QED
        BY <2>7, <2>13, <3>2, <4>1
    <3> QED
      BY <3>1, <3>2
  <2>15. h[n] = FlattenSeq(ss)
    BY <1>1, <1>3, <2>12, <2>13
  <2>16. ASSUME NEW k \in 0 .. n - 1 PROVE h[k + 1] = h[k] \o ss[k + 1]
    <3>1. PICK j \in 1 .. n : j = k + 1 /\ j - 1 = k
      BY <1>1
    <3>2. h[j] = h[j - 1] \o ss[j]
      BY <2>14, Zenon
    <3> QED
      BY <3>1, <3>2, Zenon
  <2> QED
    BY <2>13, <2>15, <2>16 DEF E, n
<1> QED
  BY <1>2, <1>3

\* Sequences over S, joined, are a sequence over S.
LEMMA Flattened ==
  ASSUME NEW S, NEW ss \in Seq(Seq(S))
  PROVE  FlattenSeq(ss) \in Seq(S)
<1>1. Len(ss) \in 0 .. Len(ss)
  OBVIOUS
<1>2. PICK f \in [0 .. Len(ss) -> Seq(S)] : f[Len(ss)] = FlattenSeq(ss)
  BY FlattenUnrolls
<1> QED
  BY <1>1, <1>2

\* What holds of pairs of sequences and survives joining them pair by pair.
LEMMA FlattenAlike ==
  ASSUME NEW A, NEW B, NEW R, << <<>>, <<>> >> \in R,
         \A s, u \in Seq(A), t, v \in Seq(B) :
           <<s, t>> \in R /\ <<u, v>> \in R => <<s \o u, t \o v>> \in R,
         NEW ss \in Seq(Seq(A)), NEW tt \in Seq(Seq(B)), Len(ss) = Len(tt),
         \A k \in 1 .. Len(ss) : <<ss[k], tt[k]>> \in R
  PROVE  <<FlattenSeq(ss), FlattenSeq(tt)>> \in R
<1> DEFINE n == Len(ss)
<1>1. PICK f \in [0 .. n -> Seq(A)] :
        /\ f[0] = <<>> /\ f[n] = FlattenSeq(ss)
        /\ \A k \in 0 .. n - 1 : f[k + 1] = f[k] \o ss[k + 1]
  BY FlattenUnrolls
<1>2. PICK g \in [0 .. n -> Seq(B)] :
        /\ g[0] = <<>> /\ g[n] = FlattenSeq(tt)
        /\ \A k \in 0 .. n - 1 : g[k + 1] = g[k] \o tt[k + 1]
  BY FlattenUnrolls
<1>3. n \in Nat /\ \A k \in 1 .. n : ss[k] \in Seq(A) /\ tt[k] \in Seq(B)
  OBVIOUS
<1> HIDE DEF n
<1> DEFINE K == {k \in 0 .. n : <<f[k], g[k]>> \in R}
<1>4. 0 \in K
  <2>1. 0 \in 0 .. n
    BY <1>3
  <2> QED
    BY <1>1, <1>2, <2>1, Zenon
<1>5. ASSUME NEW k \in 0 .. n - 1, k \in K PROVE k + 1 \in K
  <2>1. k + 1 \in 1 .. n /\ k \in 0 .. n /\ k + 1 \in 0 .. n
    BY <1>3
  <2>2. f[k + 1] = f[k] \o ss[k + 1] /\ g[k + 1] = g[k] \o tt[k + 1]
    BY <1>1, <1>2, Zenon
  <2>3. /\ f[k] \in Seq(A) /\ g[k] \in Seq(B)
        /\ ss[k + 1] \in Seq(A) /\ tt[k + 1] \in Seq(B)
    BY <1>1, <1>2, <1>3, <2>1
  <2>4. <<ss[k + 1], tt[k + 1]>> \in R
    BY <2>1 DEF n
  <2>5. <<f[k] \o ss[k + 1], g[k] \o tt[k + 1]>> \in R
    BY <1>5, <2>3, <2>4, Zenon
  <2> QED
    BY <2>1, <2>2, <2>5, Zenon
<1> HIDE DEF K
<1>6. \A k \in 0 .. n : k \in K
  BY <1>3, <1>4, <1>5, Induction
<1> QED
  BY <1>1, <1>2, <1>3, <1>6 DEF K

\* Sequences of one element, joined.
LEMMA FlattenSingles ==
  ASSUME NEW A, NEW n \in Nat, NEW x \in [1 .. n -> A]
  PROVE  FlattenSeq([k \in 1 .. n |-> <<x[k]>>]) = x
<1> DEFINE ss == [k \in 1 .. n |-> <<x[k]>>]
<1>1. ss \in Seq(Seq(A)) /\ Len(ss) = n
  <2>1. ss \in [1 .. n -> Seq(A)]
    OBVIOUS
  <2> HIDE DEF ss
  <2> QED
    BY <2>1
<1>2. \A k \in 1 .. n : ss[k] = <<x[k]>>
  OBVIOUS
<1> HIDE DEF ss
<1>3. PICK f \in [0 .. n -> Seq(A)] :
        /\ f[0] = <<>> /\ f[n] = FlattenSeq(ss)
        /\ \A k \in 0 .. n - 1 : f[k + 1] = f[k] \o ss[k + 1]
  BY <1>1, FlattenUnrolls
<1> DEFINE K == {k \in 0 .. n : Len(f[k]) = k /\ \A i \in 1 .. k : f[k][i] = x[i]}
<1>4. 0 \in K
  BY <1>3
<1>5. ASSUME NEW k \in 0 .. n - 1, k \in K PROVE k + 1 \in K
  <2>1. k + 1 \in 1 .. n /\ k + 1 - 1 = k /\ k + 1 \in 0 .. n /\ k \in 0 .. n
    OBVIOUS
  <2>2. f[k + 1] = f[k] \o <<x[k + 1]>> /\ x[k + 1] \in A
    <3>1. f[k + 1] = f[k] \o ss[k + 1] /\ ss[k + 1] = <<x[k + 1]>>
      BY <1>2, <1>3, <2>1, Zenon
    <3> QED
      BY <2>1, <3>1, Zenon
  <2>3. f[k] \in Seq(A) /\ Len(f[k]) = k /\ \A i \in 1 .. k : f[k][i] = x[i]
    BY <1>5, <2>1
  <2>4. Len(f[k + 1]) = k + 1 /\ \A i \in 1 .. k + 1 : f[k + 1][i] = x[i]
    BY <2>2, <2>3
  <2> QED
    BY <2>1, <2>4
<1> HIDE DEF K
<1>6. \A k \in 0 .. n : k \in K
  BY <1>4, <1>5, Induction
<1>7. f[n] \in Seq(A) /\ Len(f[n]) = n /\ \A i \in 1 .. n : f[n][i] = x[i]
  BY <1>6 DEF K
<1>8. f[n] = x
  BY <1>7
<1> QED
  BY <1>3, <1>8 DEF ss

\* FlattenSeq of a concatenation.
LEMMA FlattenConcat ==
  ASSUME NEW A, NEW ss \in Seq(Seq(A)), NEW tt \in Seq(Seq(A))
  PROVE  FlattenSeq(ss \o tt) = FlattenSeq(ss) \o FlattenSeq(tt)
<1> DEFINE m == Len(ss)
           n == Len(tt)
           uu == ss \o tt
<1>1. m \in Nat /\ n \in Nat /\ uu \in Seq(Seq(A)) /\ Len(uu) = m + n
  OBVIOUS
<1>2. /\ \A k \in 1 .. m : uu[k] = ss[k] /\ ss[k] \in Seq(A)
      /\ \A k \in 1 .. n : uu[m + k] = tt[k] /\ tt[k] \in Seq(A)
  OBVIOUS
<1> HIDE DEF uu
<1>3. PICK f \in [0 .. m -> Seq(A)] :
        /\ f[0] = <<>> /\ f[m] = FlattenSeq(ss)
        /\ \A k \in 0 .. m - 1 : f[k + 1] = f[k] \o ss[k + 1]
  BY FlattenUnrolls
<1>4. PICK g \in [0 .. n -> Seq(A)] :
        /\ g[0] = <<>> /\ g[n] = FlattenSeq(tt)
        /\ \A k \in 0 .. n - 1 : g[k + 1] = g[k] \o tt[k + 1]
  BY FlattenUnrolls
<1>5. PICK h \in [0 .. Len(uu) -> Seq(A)] :
        /\ h[0] = <<>> /\ h[Len(uu)] = FlattenSeq(uu)
        /\ \A k \in 0 .. Len(uu) - 1 : h[k + 1] = h[k] \o uu[k + 1]
  BY <1>1, FlattenUnrolls, Zenon
<1> HIDE DEF m, n
<1> DEFINE K == {k \in 0 .. m : h[k] = f[k]}
           J == {k \in 0 .. n : h[m + k] = f[m] \o g[k]}
<1>6. \A k \in 0 .. m : k \in K
  <2>1. 0 \in K
    BY <1>1, <1>3, <1>5
  <2>2. ASSUME NEW k \in 0 .. m - 1, k \in K PROVE k + 1 \in K
    <3>1. k + 1 \in 1 .. m /\ k + 1 \in 0 .. m /\ k \in 0 .. Len(uu) - 1
      BY <1>1
    <3>2. h[k + 1] = h[k] \o uu[k + 1] /\ f[k + 1] = f[k] \o ss[k + 1] /\ uu[k + 1] = ss[k + 1]
      BY <1>2, <1>3, <1>5, <3>1, Zenon
    <3> QED
      BY <2>2, <3>1, <3>2, Zenon
  <2> HIDE DEF K
  <2> QED
    BY <1>1, <2>1, <2>2, Induction
<1>7. \A k \in 0 .. n : k \in J
  <2>1. 0 \in J
    <3>1. m \in K /\ f[m] \in Seq(A)
      BY <1>1, <1>6
    <3>2. m + 0 = m /\ f[m] = f[m] \o <<>> /\ 0 \in 0 .. n
      BY <1>1, <3>1
    <3>3. h[m] = f[m]
      BY <3>1, Zenon
    <3>4. h[m + 0] = f[m] \o g[0]
      BY <1>4, <3>2, <3>3, Zenon
    <3> QED
      BY <3>2, <3>4, Zenon
  <2>2. ASSUME NEW k \in 0 .. n - 1, k \in J PROVE k + 1 \in J
    <3>1. /\ k + 1 \in 1 .. n /\ k + 1 \in 0 .. n /\ k \in 0 .. n /\ m \in 0 .. m
          /\ m + k \in 0 .. Len(uu) - 1 /\ m + (k + 1) = m + k + 1
      BY <1>1
    <3>2. h[m + k + 1] = h[m + k] \o uu[m + k + 1] /\ uu[m + (k + 1)] = tt[k + 1]
      BY <1>2, <1>5, <3>1, Zenon
    <3>3. h[m + k] = f[m] \o g[k] /\ g[k + 1] = g[k] \o tt[k + 1]
      BY <1>4, <2>2, Zenon
    <3>4. f[m] \in Seq(A) /\ g[k] \in Seq(A) /\ tt[k + 1] \in Seq(A)
      BY <1>2, <1>3, <1>4, <3>1, Zenon
    <3>5. (f[m] \o g[k]) \o tt[k + 1] = f[m] \o (g[k] \o tt[k + 1])
      <4>1. \A a, b, c \in Seq(A) : (a \o b) \o c = a \o (b \o c)
        OBVIOUS
      <4> QED
        BY <3>4, <4>1, Zenon
    <3>6. h[m + (k + 1)] = f[m] \o g[k + 1]
      BY <3>1, <3>2, <3>3, <3>5, Zenon
    <3> QED
      BY <3>1, <3>6, Zenon
  <2> HIDE DEF J
  <2> QED
    BY <1>1, <2>1, <2>2, Induction
<1>8. h[m + n] = f[m] \o g[n] /\ Len(uu) = m + n
  BY <1>1, <1>7
<1> QED
  BY <1>3, <1>4, <1>5, <1>8, Zenon DEF uu
=============================================================================
