-------------------------------- MODULE Isa --------------------------------
(***************************************************************************)
(* The instruction set and the ports of trapcpu/isa.py.                    *)
(***************************************************************************)
EXTENDS Basics

\* The mnemonics in the order of their opcodes, from 0x00.
Mnemonics ==
  <<"NOP", "LDIA", "LDIB", "LDIC", "LDID", "ADD", "SUB", "INC", "DEC", "STA",
    "LDA", "JMP", "JZ", "JNZ", "CMP", "PUSH", "POP", "CALL", "RET", "OUT", "IN",
    "HLT", "MOVAB", "MOVBA", "ADDC", "ADDD", "SUBC", "SUBD", "XOR", "AND", "OR",
    "NOT", "INP", "OUTP", "TRAP", "STB", "LDB", "STW", "LDW", "INCB", "DECB",
    "INCC", "DECC", "MOVAC", "MOVCA", "MOVAD", "MOVDA", "JN", "JNN", "JC", "JNC",
    "MUL", "DIV", "SHL", "SHR", "OUTS", "CMPC", "TRAPA", "WFI", "CLI", "STI",
    "IRET", "CALLX", "RETX">>

OPS == [name \in {Mnemonics[i] : i \in DOMAIN Mnemonics} |->
          (CHOOSE i \in DOMAIN Mnemonics : Mnemonics[i] = name) - 1]

Opcode == 0 .. Len(Mnemonics) - 1
Mnemonic(opcode) == Mnemonics[opcode + 1]

\* Mnemonics with an operand of one byte, and of two.
ARG8_OPS == {"INP", "OUTP"}
\* Seeded fault: CALL was forgotten.
ARG16WithoutCall == {"LDIA", "LDIB", "LDIC", "LDID", "STA", "LDA", "JMP", "JZ", "JNZ",
                     "CALLX", "JN", "JNN", "JC", "JNC"}

ARG16_OPS == {"LDIA", "LDIB", "LDIC", "LDID", "STA", "LDA", "JMP", "JZ", "JNZ",
              "CALL", "CALLX", "JN", "JNN", "JC", "JNC"}

width(name) ==
  IF name \in ARG8_OPS THEN 2 ELSE IF name \in ARG16_OPS THEN 3 ELSE 1

PORT_KEY == 0
PORT_KEY_STATE == 1
PORT_SCREEN == 16
PORT_RANDOM == 32
PORT_ORACLE == 48
PORT_ORACLE_END == 55
PORT_ORACLE_STAT == 49
PORT_IVEC == 56
PORT_MPROT == 57
=============================================================================
