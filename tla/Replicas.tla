----------------------------- MODULE Replicas -----------------------------
(***************************************************************************)
(* The election among the replicas of one answer: vote() of                *)
(* trapcpu/protocol.py.  A payload is a sequence of bytes; which ones is   *)
(* of no concern here.                                                     *)
(***************************************************************************)
EXTENDS Integers, Sequences, FiniteSets

\* collections.Counter of the values of a function: how many times v occurs...
Tally(f, v) == Cardinality({i \in DOMAIN f : f[i] = v})

\* ... and most_common(1).  The code breaks a tie by order of appearance; no
\* tied leader has a majority, so which of them leads is left open.
Leader(f) ==
  CHOOSE v \in {f[i] : i \in DOMAIN f} :
    \A i \in DOMAIN f : Tally(f, f[i]) <= Tally(f, v)

\* A strict majority.  Seeded fault: a plurality, as long as it is half.
HasLeaderHalf(f) == 2 * Tally(f, Leader(f)) >= Cardinality(DOMAIN f)

HasLeader(f) == 2 * Tally(f, Leader(f)) > Cardinality(DOMAIN f)

Lengths(payloads) == [i \in DOMAIN payloads |-> Len(payloads[i])]

\* The replicas that agree on the elected length.
Survivors(payloads) ==
  {i \in DOMAIN payloads : Len(payloads[i]) = Leader(Lengths(payloads))}

Column(payloads, position) ==
  [i \in Survivors(payloads) |-> payloads[i][position]]

Positions(payloads) == 1 .. Leader(Lengths(payloads))

\* VoteResult.ok.  The code's shortcut for one payload is this for one payload.
Elects(payloads) ==
  /\ payloads # <<>>
  /\ HasLeader(Lengths(payloads))
  /\ \A p \in Positions(payloads) : HasLeader(Column(payloads, p))

Elected(payloads) ==
  [p \in Positions(payloads) |-> Leader(Column(payloads, p))]

\* The positions where a surviving replica was outvoted.
Corrected(payloads) ==
  {p \in Positions(payloads) :
     Tally(Column(payloads, p), Leader(Column(payloads, p)))
       # Cardinality(Survivors(payloads))}

Discarded(payloads) == DOMAIN payloads \ Survivors(payloads)

=============================================================================
