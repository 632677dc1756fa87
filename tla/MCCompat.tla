------------------------------ MODULE MCCompat ------------------------------
(* Sessions with the original system, small in one respect each: what a    *)
(* line may be written like, what a program may do, what a session does.   *)
EXTENDS Compat

Numerals ==
  "0" :> 0 @@ "1" :> 1 @@ "5" :> 5 @@ "10" :> 10 @@ "0x10" :> 16 @@ "0x20" :> 32 @@
  "0x39" :> 57 @@ "0x100" :> 256 @@ "0x101" :> 257 @@ "0x7FFF" :> 32767 @@
  "0x8001" :> 32769 @@ "0xFFFF" :> 65535 @@ "0o17" :> 15 @@
  "0xZZ" :> Error
Octals == {"0o17"}
Decimals == {"0", "1", "5", "10"}
Codes == "X" :> 88 @@ ";" :> 59 @@ " " :> 32 @@ "'" :> 39 @@ "\"" :> 34 @@ Backslash :> 92
UpperCase == "l" :> "L" @@ "ldia" :> "LDIA" @@ "0xZZ" :> "0XZZ"
NoEncoding == <<>>
NoFiles == <<>>
Randoms == {0, 200}

Op(op) == <<op>>
Op1(op, operand) == <<op, " ", operand>>

Prog == "/prog"
Demo == "/programs/demo.asm"
\* The comments are gone, the blank lines with them.
DemoLines == <<<<"LDIA", " ", "'", "X", "'">>, Op1("LDIB", "10"), Op1("LDIC", "5"),
               Op1("OUTP", "0x10"), Op("HLT")>>

\* The texts of at most n of the lines, between two others.
Between(first, n, lines, last) ==
  {first \o middle \o last : middle \in UNION {[1 .. k -> lines] : k \in 0 .. n}}

\* How lines are written.
WritingKit ==
  [paths |-> {Prog}, keys |-> {}, commands |-> 1, before |-> 0, restarts |-> 0,
   texts |-> Between(<<>>, 3,
     {<<"L", ":">>, <<" ", "l", ":", " ", "NOP", ";", "L", ":", "'">>, <<"JMP", " ", "L">>,
      <<"10", ":", "JMP", " ", "10">>, <<"0xZZ", ":", "JMP", " ", "0xZZ">>,
      <<".INCLUDE", " ", ":", "NOP">>, <<"ldia", " ", "'", "X", "'">>, <<"LDIA", " ", "'", ";", "'">>,
      <<"LDIA", " ", "'", " ", "'">>, <<"LDIA", " ", "'", "'", "'">>, <<"LDIA", " ", "'", "\"", "'">>,
      <<"LDIA", " ", "'", Backslash, "'">>, <<"LDIA", ",", "-", "1">>, <<"LDIB", " ", "-", "1">>,
      <<"LDIB", " ", "L", "-", "1">>, <<"L", "-", "1", ":">>, <<"NOP", " ", "5">>,
      <<"INP", " ", "0x101">>, <<"M", ":", "JMP", " ", "L", ":", "HLT">>, <<"LDIC">>,
      <<"LDIA", " ", "0o17">>},
     <<>>)]

\* What programs do.
AllLines ==
  {Op(op) : op \in {"NOP", "ADD", "SUB", "INC", "DEC", "CMP", "PUSH", "POP", "RET", "OUT", "IN", "HLT",
                    "MOVAB", "MOVBA", "ADDC", "ADDD", "SUBC", "SUBD", "XOR", "AND", "OR", "NOT"}}
  \cup {Op1(op, "L") : op \in {"JMP", "JZ", "JNZ", "CALL"}}
  \cup {Op1("LDIA", "0"), Op1("STA", "0xFFFF"), Op1("LDA", "0xFFFF"), Op1("INP", "0x20"),
        Op1("INP", "1"), Op1("OUTP", "0x10"), Op1("OUTP", "0x39")}
Branching == {Op("CMP"), Op("SUB"), Op("DEC"), Op1("JZ", "L"), Op1("JNZ", "L")}

ProgramKit(a, b, lines) ==
  [paths |-> {Prog}, keys |-> {}, commands |-> 2, before |-> 0, restarts |-> 0,
   texts |-> Between(<<Op1("LDIA", a), Op1("LDIB", b), Op1("LDIC", "5"), Op1("LDID", "0x8001")>>,
                     2, lines, <<<<"L", ":", "INC">>, Op("PUSH"), Op("HLT")>>)]

\* What MiniOS runs.
MiniKit ==
  [paths |-> {Prog}, keys |-> {}, commands |-> 2, before |-> 0, restarts |-> 0,
   texts |-> Between(<<Op1("LDIA", "0x8001"), Op1("LDIB", "0x7FFF")>>, 3,
                     {Op(op) : op \in {"NOP", "ADD", "SUB", "INC", "DEC", "OUT"}}, <<Op("HLT")>>)
             \cup {<<Op("DEC")>>, <<Op1("LDIA", "0xFFFF"), Op("ADD"), Op1("LDIA", "0x20")>>}]

\* What a session does.
SessionKit ==
  [paths |-> {Prog, Demo}, keys |-> {1, 97}, commands |-> 4, before |-> 3, restarts |-> 1,
   texts |-> {<<Op1("INP", "0"), Op("OUT"), Op1("OUTP", "0x10"), Op("HLT")>>,
              <<<<"L", ":", "INP", " ", "0">>, Op1("JZ", "L"), Op("PUSH"), Op("RET")>>}]

AllKits ==
  [writing |-> WritingKit, mini |-> MiniKit, wide |-> ProgramKit("0x8001", "0x7FFF", AllLines),
   equal |-> ProgramKit("5", "5", Branching), less |-> ProgramKit("0", "1", Branching),
   session |-> SessionKit]
=============================================================================
