---------------------------- MODULE AvmBytecode ----------------------------
(***************************************************************************)
(* The decoding of AVM bytecode (vm/avm_trace/avm_deserialization.cpp).    *)
(* Bytecode is a sequence of bytes, here the numbers 0 .. 15; an opcode and*)
(* a tag take one byte, an operand as many as OPERAND_TYPE_SIZE says, most *)
(* significant first.  The widths of the operands are scaled to 1 and 2.   *)
(*                                                                         *)
(* An instruction is the sequence of its opcode and its operands, so that  *)
(* operands.at(i) is inst[i + 2].                                          *)
(***************************************************************************)
EXTENDS Naturals, Sequences

Radix == 16

\* The opcodes the builder knows, then MOV for the valid ones without a wire format.
OpCode == <<"ADD", "SUB", "MUL", "DIV", "EQ", "NOT", "CALLDATACOPY", "JUMP",
            "INTERNALCALL", "INTERNALRETURN", "SET", "RETURN", "MOV">>
is_valid(byte) == byte < Len(OpCode)

AvmMemoryTag == <<"U0", "U8", "U128", "FF">>
MAX_MEM_TAG == 3

OPERAND_TYPE_SIZEFault(type) == IF type \in {"UINT32", "UINT128"} THEN 2 ELSE 0

OPERAND_TYPE_SIZE(type) == IF type \in {"UINT32", "UINT128"} THEN 2 ELSE 1

three_operand_format == <<"TAG", "UINT32", "UINT32", "UINT32">>

OPCODE_WIRE_FORMAT ==
    [ADD |-> three_operand_format, SUB |-> three_operand_format, MUL |-> three_operand_format,
     DIV |-> three_operand_format, EQ |-> three_operand_format,
     NOT |-> <<"TAG", "UINT32", "UINT32">>,
     CALLDATACOPY |-> <<"UINT32", "UINT32", "UINT32">>,
     JUMP |-> <<"UINT32">>, INTERNALCALL |-> <<"UINT32">>, INTERNALRETURN |-> <<>>,
     RETURN |-> <<"UINT32", "UINT32">>]

SetFormat == [U8 |-> <<"TAG", "UINT8", "UINT32">>, U128 |-> <<"TAG", "UINT128", "UINT32">>]

Failed == [ok |-> FALSE]

-----------------------------------------------------------------------------
(* parse.  Positions count from 0 as in the code.                          *)

\* The operands of a format that start at pos: their values and the position after them.
Operands(bytecode, pos, format) ==
    LET end[n \in 0 .. Len(format)] ==
            IF n = 0 THEN pos ELSE end[n - 1] + OPERAND_TYPE_SIZE(format[n])
        at(p)  == bytecode[p + 1]
        Missing(n) == Len(bytecode) < end[n]
        BadTag(n)  == format[n] = "TAG" /\ (at(end[n - 1]) = 0 \/ at(end[n - 1]) > MAX_MEM_TAG)
        Value(n) ==
            IF format[n] = "TAG" THEN AvmMemoryTag[at(end[n - 1]) + 1]
            ELSE IF OPERAND_TYPE_SIZE(format[n]) = 2 THEN at(end[n - 1]) * Radix + at(end[n] - 1)
            ELSE at(end[n - 1])
    IN  IF \E n \in 1 .. Len(format) : Missing(n) \/ BadTag(n) THEN Failed
        ELSE [ok |-> TRUE, pos |-> end[Len(format)], operands |-> [n \in 1 .. Len(format) |-> Value(n)]]

\* One turn of the loop of parse: the instruction whose opcode is at pos.
ParseInstruction(bytecode, pos) ==
    LET byte    == bytecode[pos + 1]
        opcode  == OpCode[byte + 1]
        tag     == AvmMemoryTag[bytecode[pos + 2] + 1]
        format  == IF opcode = "SET" THEN SetFormat[tag] ELSE OPCODE_WIRE_FORMAT[opcode]
        decoded == Operands(bytecode, pos + 1, format)
    IN  IF \/ ~is_valid(byte)
           \/ opcode = "SET" /\ pos + 1 = Len(bytecode)
           \/ opcode = "SET" /\ (bytecode[pos + 2] > MAX_MEM_TAG \/ tag \notin DOMAIN SetFormat)
           \/ opcode # "SET" /\ opcode \notin DOMAIN OPCODE_WIRE_FORMAT
           \/ ~decoded.ok
        THEN Failed
        ELSE [ok |-> TRUE, pos |-> decoded.pos, inst |-> <<opcode>> \o decoded.operands]

-----------------------------------------------------------------------------
(* The reference: the bytes that stand for a list of instructions.         *)

Code(seq, x) == CHOOSE i \in 0 .. Len(seq) - 1 : seq[i + 1] = x

EncodeOperand(type, val) ==
    IF type = "TAG" THEN <<Code(AvmMemoryTag, val)>>
    ELSE IF type = "UINT8" THEN <<val>> ELSE <<val \div Radix, val % Radix>>

EncodeInstruction(inst) ==
    LET format == IF inst[1] = "SET" THEN SetFormat[inst[2]] ELSE OPCODE_WIRE_FORMAT[inst[1]]
        to[n \in 0 .. Len(format)] ==
            IF n = 0 THEN <<Code(OpCode, inst[1])>> ELSE to[n - 1] \o EncodeOperand(format[n], inst[n + 1])
    IN  to[Len(format)]

Encode(instructions) ==
    LET to[n \in 0 .. Len(instructions)] ==
            IF n = 0 THEN <<>> ELSE to[n - 1] \o EncodeInstruction(instructions[n])
    IN  to[Len(instructions)]
=============================================================================
