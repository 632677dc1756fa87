---------------------------- MODULE SourceLines ----------------------------
(***************************************************************************)
(* How the assemblers of cpu.py and of MiniOS read a line: they look for   *)
(* comments and blanks before they look for quotes.                        *)
(***************************************************************************)
EXTENDS Basics

CONSTANTS
  Decimal    \* the numerals in base ten

\* Numerals are integers, those in base ten naturals, and code points are.
ASSUME NumeralsAssumption ==
  /\ \A numeral \in DOMAIN Numeral : Numeral[numeral] # Error => Numeral[numeral] \in Int
  /\ \A numeral \in Decimal : numeral \in DOMAIN Numeral /\ Numeral[numeral] \in Nat
  /\ \A c \in DOMAIN ord : ord[c] \in Nat

Places(tokens, c) == {i \in DOMAIN tokens : tokens[i] = c}

Code(raw) ==
  Strip(IF Places(raw, ";") = {} THEN raw ELSE Before(raw, Min(Places(raw, ";"))))

\* The words of a line; a comma is a blank.
Words(line) ==
  LET Blank(i) == line[i] \in {" ", ","}
      words[i \in 0 .. Len(line)] ==
        CASE i = 0 -> <<>>
          [] i > 0 /\ Blank(i) -> words[i - 1]
          [] i > 0 /\ ~Blank(i) /\ (i = 1 \/ Blank(i - 1)) -> Append(words[i - 1], <<line[i]>>)
          [] OTHER -> [words[i - 1] EXCEPT ![Len(words[i - 1])] = Append(@, line[i])]
  IN words[Len(line)]

number(word) ==
  LET signed == Len(word) = 2 /\ word[1] \in {"+", "-"} /\ word[2] \in Decimal
  IN CASE Len(word) = 1 /\ word[1] \in DOMAIN Numeral -> Numeral[word[1]]
       [] Len(word) = 3 /\ word[1] = "'" /\ word[3] = "'" /\ word[2] \in DOMAIN ord ->
            ord[word[2]]
       [] signed -> IF word[1] = "-" THEN -Numeral[word[2]] ELSE Numeral[word[2]]
       [] OTHER -> Error
=============================================================================
