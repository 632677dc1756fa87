----------------------------- MODULE MCProgram -----------------------------
(* Small kits of source lines.  Each asks one question of the assembler or *)
(* of the processor: what a line may contain, where sections and segments  *)
(* lie, when constants are known, how contexts nest, what W^X stops,       *)
(* where the device stores.                                                *)
EXTENDS Program

Numerals ==
  "0" :> 0 @@ "1" :> 1 @@ "2" :> 2 @@ "3" :> 3 @@ "4" :> 4 @@ "0x20" :> 32 @@
  "0x38" :> 56 @@ "0x39" :> 57 @@ "0xFF" :> 255 @@ "0x100" :> 256 @@
  "0x101" :> 257 @@ "0x1FF" :> 511 @@ "0x203" :> 515 @@ "0xFF01" :> 65281 @@
  "0xFFFE" :> 65534 @@ "0xZZ" :> Error @@
  "INCB" :> OPS["INCB"] @@ "RETX" :> OPS["RETX"] @@ "RET" :> OPS["RET"] @@
  "POP" :> OPS["POP"] @@ "0x524F" :> DESCRIPTOR_MAGIC @@ "0x200" :> 512 @@ "0x201" :> 513 @@ "0x1FE" :> 510 @@ "0x300" :> 768 @@ "0x301" :> 769 @@
  "0x302" :> 770 @@
  "0x30" :> PORT_ORACLE @@ "0xFFE8" :> 65512 @@ "0xFFFC" :> 65532 @@ "0x102" :> 258 @@ "CALL" :> OPS["CALL"] @@ "LDIA" :> OPS["LDIA"]
Encoding ==
  ";" :> <<59>> @@ ":" :> <<58>> @@ "," :> <<44>> @@ "\"" :> <<34>> @@ "'" :> <<39>> @@
  "A" :> <<65>> @@ "LF" :> <<10>> @@ Backslash :> <<92>> @@ "e acute" :> <<195, 169>> @@
  "inc" :> <<105>>
Codes == ";" :> 59 @@ "," :> 44 @@ "'" :> 39 @@ "LF" :> 10 @@ "A" :> 65 @@ "e acute" :> 233
UpperCase == "l" :> "L" @@ "ldia" :> "LDIA"
Included ==
  <<"inc">> :> << <<"P", ":", " ", ".DB", " ", "3">>, <<"HLT">> >> @@
  <<"A">> :> << <<".INCLUDE", " ", "\"", "A", "\"">> >>

T(name) == <<name>>
At1(label, op, operand) == Line(T(label), op, <<T(operand)>>)
Op1(op, operand) == Line(NoLabel, op, <<T(operand)>>)
Op(op) == Line(NoLabel, op, <<>>)
Equal(name, value) == Line(NoLabel, ".EQU", <<T(name), value>>)
None == {<<>>}

\* What a line may contain.
LexingKit ==
  [given |-> <<>>, free |-> 2, run |-> FALSE, keys |-> <<>>,
   comments |-> {<<>>, <<";", "'", "A">>, <<" ", ";", "\"", ":", ",", ";">>},
   lines |->
     {Line(T("l"), ".ASCII", << <<"\"", ";", ":", ",", "\"">> >>),
      Line(NoLabel, ".ASCIIZ", << <<"\"", Backslash, "\"", ";", "\"">>, <<"\"", "'", "e acute", "\"">> >>),
      Line(T("L"), "ldia", << <<"'", ",", "'", "-", "1">> >>),
      Line(NoLabel, ".DB", << <<"'", Backslash, "'", "'">>, <<"'", ";", "'", "+", "1">>, <<"-", "-", "1">> >>),
      Line(NoLabel, ".DB", << <<"'", Backslash, "n", "'">>, <<"'", "e acute", "'">> >>),
      Line(T("M"), "", <<>>),
      Line(NoLabel, ".ASCII", << <<"\"", Backslash, "q", "\"">> >>)}]

\* Where sections and segments lie.
LayoutKit ==
  [given |-> <<>>, free |-> 3, run |-> FALSE, keys |-> <<>>, comments |-> None,
   lines |->
     {Op1(".DB", "1"), At1("L", ".DW", "0x203"), Op1(".ORG", "2"), Op1(".ORG", "1"),
      Op1(".RESB", "2"), Op(".DATA"), Op(".CODE"), Op1(".ALIGN", "4"), Op1("JMP", "L"),
      Line(T("M"), ".ASCIIZ", << <<"\"", "e acute", "\"">> >>),
      Line(NoLabel, ".INCLUDE", << <<"\"", "inc", "\"">> >>),
      Line(NoLabel, ".INCLUDE", << <<"\"", "A", "\"">> >>), At1("L", ".ORG", "4")}]

OverlapKit ==
  [LayoutKit EXCEPT
     !.given = <<Op1(".DB", "1"), Op1(".ORG", "2"), Op1(".DB", "3")>>,
     !.lines = {Op1(".ORG", "1"), Op1(".ORG", "0"), Op1(".DW", "0x203"), Op1(".DB", "2"),
                Op(".DATA"), Op(".CODE")}]

\* When constants are known.
ConstantsKit ==
  [LayoutKit EXCEPT
     !.lines = {Equal("A", <<"B", "+", "1">>), Equal("B", <<"C", "-", "1">>), Equal("C", T("3")),
                Equal("B", T("A")), Equal("D", T("0xZZ")), Op1(".RESB", "A"),
                Line(NoLabel, ".DB", <<T("A"), T("B")>>), Op1(".ORG", "C"), At1("C", "LDIA", "C")}]

\* Instructions to be listed.
ListingKit ==
  [LayoutKit EXCEPT
     !.lines = {Op1("JMP", "L"), At1("L", "INP", "0x20"), Line(NoLabel, "LDIA", << <<"A", "+", "1">> >>),
                Op("HLT"), Equal("A", T("2")), At1("M", "CALLX", "0x100"), Op1("OUTP", "0x39")}]

\* A request with its response buffer and its descriptor where the kit puts them.
Request(at, mode, response, capacity, retries) ==
  <<Op(".DATA"), Line(T("PROMPT"), ".ASCIIZ", << <<"\"", "A", "\"">> >>), Op1(".ORG", at),
    At1("DESC", ".DW", "0x524F"), Line(NoLabel, ".DB", <<T("1"), T(mode)>>),
    Line(NoLabel, ".DW", <<T("PROMPT"), T(response), T(capacity)>>),
    Line(NoLabel, ".DB", <<T("1"), T(retries)>>),
    Op(".CODE"), Op1("LDIA", "DESC"), Op1("OUTP", "0x30")>>

\* A handler, a subroutine, and routines in RAM that are called as code.
Contexts(handler) ==
  Request("0x200", "1", "0x20", "4", "0")
  \o <<Op(".DATA"), Op1(".ORG", "0x100"),
    Line(T("RAMF"), ".DB", <<T("INCB"), T("RETX")>>),
    Line(T("RAMG"), ".DB", <<T("CALL"), T("4"), T("1"), T("RETX")>>), Op1(".DB", "RET"),
    Op(".CODE"),
    Op1("LDIA", "ISR"), Op1("OUTP", "0x38"), Op1("LDIA", "0x101"), Op1("OUTP", "0x39"),
    Op1("JMP", "MAIN"),
    Line(T("SUB"), "CALLX", <<T("RAMF")>>), Op("RET")>>
  \o handler \o <<Line(T("MAIN"), "STI", <<>>)>>

CallsKit(handler) ==
  [given |-> Contexts(handler), free |-> 3, run |-> TRUE, keys |-> <<1>>, comments |-> None,
   lines |-> {Op("TRAPA"), Op1("CALLX", "RAMF"), Op1("CALLX", "RAMG"), Op1("CALL", "SUB"),
              Op("PUSH"), Op("POP"), Op("WFI"), Op1("STA", "0xFFFE"), Op("RET"), Op("CLI")}]

ShortHandler == <<Line(T("ISR"), "INCC", <<>>), Op("IRET")>>
NestedHandler == <<At1("ISR", "CALLX", "RAMF"), Op("STI"), Op("TRAPA"), Op("IRET")>>

\* Contexts that are left in other ways than by their own return: a callee in
\* RAM drops its frame, a routine returns over a frame that it made itself.
StraysKit ==
  [given |-> <<Op(".DATA"), Op1(".ORG", "0x100"),
               Line(T("RAMF"), ".DB", <<T("POP"), T("POP"), T("RET")>>),
               Op(".CODE"), Op1("LDIA", "0x101"), Op1("OUTP", "0x39"), Op1("JMP", "MAIN"),
               Line(T("RAMG"), "LDIA", <<T("1")>>), Op("PUSH"), Op1("LDIA", "0x102"), Op("PUSH"), Op("RETX"),
               Line(T("SUB"), "CALLX", <<T("RAMF")>>), Op("RET"),
               Line(T("MAIN"), "NOP", <<>>)>>,
   free |-> 3, run |-> TRUE, keys |-> <<>>, comments |-> None,
   lines |-> {Op1("CALL", "SUB"), Op1("CALL", "RAMG"), Op1("CALLX", "RAMF"), Op("RET"), Op("PUSH"), Op("POP")}]

\* Pages that become executable and stop being so, the stack's among them.
PagesKit ==
  [given |-> <<Op(".DATA"), Op1(".ORG", "0x1FF"), Op1(".DB", "LDIA"), Op(".CODE"),
               Op1("LDIB", "0xFF"), Op1("LDIA", "0x101"), Op1("OUTP", "0x39")>>,
   free |-> 3, run |-> TRUE, keys |-> <<>>, comments |-> None,
   lines |-> {Op1("LDIA", "0xFF01"), Op1("LDIA", "0x100"), Op1("OUTP", "0x39"), Op("PUSH"),
              Op1("CALL", "0x100"), Op1("CALLX", "0x1FF"), Op1("STA", "0xFF"), Op("STW"), Op("STB"),
              Op1("LDIB", "0x100"), Op("TRAP")}]

DeviceKit(given, lines) ==
  [given |-> given, free |-> 3, run |-> TRUE, keys |-> <<>>, comments |-> None, lines |-> lines]

\* The buffer, or the value of the descriptor, over the frames of the stack.
StackedKit(at, mode, response) ==
  DeviceKit(Request(at, mode, response, "4", "1")
              \o <<Op1("LDIA", "ISR"), Op1("OUTP", "0x38"), Op1("JMP", "MAIN"),
                   Line(T("SUB"), "TRAP", <<>>), Line(T("ISR"), "RET", <<>>),
                   Line(T("MAIN"), "STI", <<>>)>>,
            {Op("TRAP"), Op("TRAPA"), Op1("CALL", "SUB"), Op("PUSH"), Op("RET"), Op("WFI")})

\* The buffer ends before a page of code; the descriptor's page may become code.
EdgeKit ==
  DeviceKit(Request("0x300", "0", "0x1FE", "4", "1")
              \o <<Op(".DATA"), Op1(".ORG", "0x200"), Op1(".DB", "RETX"), Op(".CODE"),
                   Op1("LDIA", "0x201"), Op1("OUTP", "0x39"), Op1("LDIA", "0x301")>>,
            {Op("TRAP"), Op("TRAPA"), Op1("OUTP", "0x39"), Op1("CALLX", "0x200"), Op("WFI"),
             Op1("STA", "0x300"), Op1("STA", "0x302")})

AllKits ==
  [lexing |-> LexingKit, layout |-> LayoutKit, overlap |-> OverlapKit,
   constants |-> ConstantsKit, listing |-> ListingKit, calls |-> CallsKit(ShortHandler),
   nested |-> CallsKit(NestedHandler), pages |-> PagesKit, strays |-> StraysKit,
   buffer |-> StackedKit("0x100", "0", "0xFFFC"), value |-> StackedKit("0xFFE8", "1", "0x1FE"),
   edge |-> EdgeKit]

\* The nonce of a retry is not the one of the attempt before.
SomeInputs ==
  {[random |-> 7, nonce |-> 513, spent |-> FALSE], [random |-> 7, nonce |-> 770, spent |-> TRUE]}

\* Texts with and without room for a terminator, a number, and failures.
SomeReplies ==
  {[status |-> OK, payload |-> payload, value |-> NoValue, corrected |-> 0] :
     payload \in {<<>>, <<7, 7>>, <<1, 0, 0, 0>>}}
  \cup {[status |-> DEGRADED, payload |-> <<3, 0>>, value |-> 3, corrected |-> 0], Failure(18)}
SomeAborts == {35}
=============================================================================
