------------------------------- MODULE Basics -------------------------------
(***************************************************************************)
(* What the two machines and their assemblers share: words of 16 bits,     *)
(* sparse memories, and lines of source as sequences of tokens.            *)
(*                                                                         *)
(* The characters a lexer looks at (quotes, backslash, semicolon, comma,   *)
(* colon, sign, blank) are tokens; a longer run of ordinary characters,    *)
(* which the lexers only copy, is one token.                               *)
(***************************************************************************)
EXTENDS Integers, Sequences, SequencesExt, FiniteSetsExt

CONSTANTS
  Error,     \* what stands for an exception of an assembler
  Numeral,   \* numeric literals: their values; Error: malformed
  ord,       \* the code points of the tokens that are one character
  Upper      \* tokens that upper() changes

\* What the lexers look at is no numeral and has no capitals.
Marks == {" ", ",", ":", ";", "'", "\"", "\\", "+", "-"}

ASSUME MarksAssumption ==
  /\ DOMAIN Numeral \cap Marks = {} /\ DOMAIN Upper \cap Marks = {}
  /\ \A token \in DOMAIN Upper : Upper[token] \in STRING \ Marks

Byte == 0 .. 255
WordSize == 65536
Word == 0 .. WordSize - 1

Low(word) == word % 256
High(word) == (word \div 256) % 256
\* A word in memory: low byte first.
Bytes16(word) == <<Low(word), High(word)>>

Wrap(n) == n % WordSize
Bit(test) == IF test THEN 1 ELSE 0

\* What the bits of a word weigh, which of them are set, and the word that has
\* them.
Weight == <<1, 2, 4, 8, 16, 32, 64, 128, 256, 512, 1024, 2048, 4096, 8192, 16384, 32768>>
Bits(word) == {i \in DOMAIN Weight : (word \div Weight[i]) % 2 = 1}
OfBits(bits) ==
  LET Sum[n \in 0 .. Len(Weight)] ==
        IF n = 0 THEN 0 ELSE Sum[n - 1] + (IF n \in bits THEN Weight[n] ELSE 0)
  IN Sum[Len(Weight)]

\* f, with value at x.
With(f, x, value) == [y \in DOMAIN f \cup {x} |-> IF y = x THEN value ELSE f[y]]

\* A memory is a function on the addresses that hold something else than zero.
At(memory, address) == IF address \in DOMAIN memory THEN memory[address] ELSE 0

Put(memory, address, value) ==
  IF value = 0 THEN [a \in DOMAIN memory \ {address} |-> memory[a]]
  ELSE With(memory, address, value)

-----------------------------------------------------------------------------
Backslash == "\\"

upper(tokens) ==
  [i \in DOMAIN tokens |->
     IF tokens[i] \in DOMAIN Upper THEN Upper[tokens[i]] ELSE tokens[i]]

Strip(tokens) ==
  LET solid == {i \in DOMAIN tokens : tokens[i] # " "}
  IN IF solid = {} THEN <<>> ELSE SubSeq(tokens, Min(solid), Max(solid))

\* The bytes of several pieces, one after the other; Error if one has none.
Joined(made) ==
  IF \E i \in DOMAIN made : made[i] = Error THEN Error ELSE FlattenSeq(made)

Before(tokens, i) == SubSeq(tokens, 1, i - 1)
After(tokens, i) == SubSeq(tokens, i + 1, Len(tokens))
=============================================================================
