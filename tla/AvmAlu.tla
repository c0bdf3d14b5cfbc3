------------------------------- MODULE AvmAlu -------------------------------
(***************************************************************************)
(* The arithmetic unit of the AVM trace builder                            *)
(* (vm/avm_trace/avm_alu_trace.cpp) and the relations its rows are to      *)
(* satisfy (pil/avm/avm_alu.pil).  Widths are scaled down: u128 has Word   *)
(* bits, u8 has Byte bits, the field has P elements; u16, u32 and u64      *)
(* differ from u8 in the width alone and are left out.                     *)
(*                                                                         *)
(* An operation returns its result c and the rows it appends.  The 8- and  *)
(* 16-bit registers of a row are kept as the number they decompose.        *)
(***************************************************************************)
EXTENDS Integers, Sequences

CONSTANTS P, Word, Byte

Half == Word \div 2

\* invert(): P is (P \div x) * x + P % x, so the inverse of x follows from that of P % x.
Inverse(a) ==
    LET inv[x \in 1 .. P - 1] == IF x = 1 THEN 1 ELSE ((P - (P \div x)) * inv[P % x]) % P
    IN  inv[a]

\* The relations are equations of integers that must not wrap around in the field.
ASSUME AluAssumption ==
    /\ {P, Word, Byte} \subseteq Nat \ {0} /\ Word = 2 * Half /\ Byte <= Half
    /\ 2^Word * 2^Half + 2^(3 * Half) < P
    /\ \A a \in 2 .. P - 1 : a * a <= P => P % a # 0

Tags == {"U0", "U8", "U128", "FF"}
Bits(tag) == IF tag = "U8" THEN Byte ELSE Word
Limit(tag) == IF tag = "FF" THEN P ELSE 2^Bits(tag)

u128(a) == a % 2^Word

\* The cast of the 128-bit result to the width of the tag, or the field result.
Cast(tag, c_u128, ff) == IF tag = "FF" THEN ff ELSE c_u128 % 2^Bits(tag)

Entry(op, in_tag, a, b, c, clk) ==
    [clk |-> clk, op |-> op, tag |-> in_tag, ia |-> a, ib |-> b, ic |-> c,
     cf |-> FALSE, regs |-> 0, r0 |-> 0, diff_inv |-> 0]

op_add(a, b, in_tag, clk) ==
    LET c_u128 == (u128(a) + u128(b)) % 2^Word
        c      == Cast(in_tag, c_u128, (a + b) % P)
    IN  [c |-> c,
         rows |-> <<[Entry("ADD", in_tag, a, b, c, clk) EXCEPT
                        !.cf   = in_tag # "FF" /\ c_u128 < u128(a),
                        !.regs = IF in_tag = "FF" THEN 0 ELSE c_u128]>>]

op_subFault(a, b, in_tag, clk) ==
    LET c == Cast("U128", u128(a) - u128(b), (a - b) % P)
    IN  [c |-> c, rows |-> <<[Entry("SUB", in_tag, a, b, c, clk) EXCEPT !.cf = u128(a) < u128(b), !.regs = c]>>]

op_sub(a, b, in_tag, clk) ==
    LET c_u128 == (u128(a) - u128(b)) % 2^Word
        c      == Cast(in_tag, c_u128, (a - b) % P)
    IN  [c |-> c,
         rows |-> <<[Entry("SUB", in_tag, a, b, c, clk) EXCEPT
                        !.cf   = in_tag # "FF" /\ u128(a) < u128(b),
                        !.regs = IF in_tag = "FF" THEN 0 ELSE c_u128]>>]

MulU128Fault(a, b, clk) ==
    LET c     == (u128(a) * u128(b)) % 2^Word
        cross == a * b - (a \div 2^Half) * (b \div 2^Half) * 2^Word
    IN  [c |-> c,
         rows |-> <<[Entry("MUL", "U128", a, b, c, clk) EXCEPT
                        !.cf = FALSE, !.r0 = (cross \div 2^Word) % 2^Half, !.regs = u128(a)],
                    [Entry("none", "U0", 0, 0, 0, 0) EXCEPT !.regs = u128(b)]>>]

\* cross is c_u256 - c_high, a * b_l + a_l * b_h * 2^64 when nothing wraps around.
MulU128(a, b, clk) ==
    LET c     == (u128(a) * u128(b)) % 2^Word
        cross == (a * b - (a \div 2^Half) * (b \div 2^Half) * 2^Word) % 2^(2 * Word)
    IN  [c |-> c,
         rows |-> <<[Entry("MUL", "U128", a, b, c, clk) EXCEPT
                        !.cf = cross \div 2^(Word + Half) > 0,
                        !.r0 = (cross \div 2^Word) % 2^Half,
                        !.regs = u128(a)],
                    [Entry("none", "U0", 0, 0, 0, 0) EXCEPT !.regs = u128(b)]>>]

op_mul(a, b, in_tag, clk) ==
    LET c_u128 == (u128(a) * u128(b)) % 2^Word
        c      == Cast(in_tag, c_u128, (a * b) % P)
    IN  IF in_tag = "U128" THEN MulU128(a, b, clk)
        ELSE [c |-> c,
              rows |-> <<[Entry("MUL", in_tag, a, b, c, clk) EXCEPT
                             !.regs = IF in_tag = "FF" THEN 0 ELSE c_u128]>>]

\* The field tag is not supported: zero, and no row.
op_not(a, in_tag, clk) ==
    LET c == Cast(in_tag, 2^Word - 1 - u128(a), 0)
    IN  [c |-> c, rows |-> IF in_tag = "FF" THEN <<>> ELSE <<Entry("NOT", in_tag, a, 0, c, clk)>>]

op_eq(a, b, in_tag, clk) ==
    LET c   == (a - b) % P
        res == IF c = 0 THEN 1 ELSE 0
    IN  [c |-> res,
         rows |-> <<[Entry("EQ", in_tag, a, b, res, clk) EXCEPT
                        !.diff_inv = IF c = 0 THEN 0 ELSE Inverse(c)]>>]

-----------------------------------------------------------------------------
Bit(x) == IF x THEN 1 ELSE 0
Zero(x) == x % P = 0

\* The relations of avm_alu.pil on a row e and the row after it.
AluRow(e, next) ==
    CASE e.op = "ADD" /\ e.tag = "FF" -> Zero(e.ia + e.ib - e.ic)
      [] e.op = "SUB" /\ e.tag = "FF" -> Zero(e.ia - e.ib - e.ic)
      [] e.op = "MUL" /\ e.tag = "FF" -> Zero(e.ia * e.ib - e.ic)
      [] e.op = "ADD" /\ e.tag # "FF" ->
            Zero(e.regs + Bit(e.cf) * 2^Word - e.ia - e.ib) /\ Zero(Cast(e.tag, e.regs, 0) - e.ic)
      [] e.op = "SUB" /\ e.tag # "FF" ->
            Zero(e.regs - Bit(e.cf) * 2^Word - e.ia + e.ib) /\ Zero(Cast(e.tag, e.regs, 0) - e.ic)
      [] e.op = "MUL" /\ e.tag = "U8" -> Zero(e.regs - e.ia * e.ib) /\ Zero(Cast(e.tag, e.regs, 0) - e.ic)
      [] e.op = "MUL" /\ e.tag = "U128" ->
            /\ Zero(e.regs - e.ia) /\ Zero(next.regs - e.ib)
            /\ Zero(e.ia * (next.regs % 2^Half) + (e.regs % 2^Half) * (next.regs \div 2^Half) * 2^Half
                      - (Bit(e.cf) * 2^Half + e.r0) * 2^Word - e.ic)
      [] e.op = "NOT" -> e.tag # "FF" /\ Zero(e.ia + e.ic - Limit(e.tag) + 1)
      [] e.op = "EQ" ->
            /\ e.ic \in {0, 1}
            /\ Zero((e.ia - e.ib) * (e.ic * (1 - e.diff_inv) + e.diff_inv) - 1 + e.ic)
      [] OTHER -> TRUE
=============================================================================
