-------------------------------- MODULE Avm --------------------------------
(***************************************************************************)
(* The AVM witness generator (vm/avm_trace): bytecode is parsed, executed  *)
(* one instruction at a time by a trace builder that records main, memory  *)
(* and arithmetic rows, and finalised into the table that the relations of *)
(* pil/avm are checked on.  The builder is driven by gen_trace, or called  *)
(* directly, operation after operation, as the tests do (op_not, op_eq and *)
(* halt can only be reached that way).                                     *)
(*                                                                         *)
(* A row names its operation instead of carrying selector columns, and its *)
(* memory accesses as a set of <<register, address, write>>; clk is its    *)
(* position.  m_one_min_inv is left out: it is the inverse that exists     *)
(* exactly when the two tags differ.                                       *)
(***************************************************************************)
EXTENDS AvmAlu, AvmBytecode, FiniteSets, TLC

CONSTANTS MEM_SIZE, CALLSTACK_OFFSET, AVM_TRACE_SIZE, UINT32_MAX,
          Programs,      \* run_and_prove is given the bytecode of one of them,
          Corrupted,     \* or one of these bytecodes
          Scripts,       \* the sequences of direct calls
          CallData,      \* call_data_mem
          MaxRows        \* bound: rows of the main trace of a program that loops

ASSUME AvmAssumption ==
    /\ {MEM_SIZE, CALLSTACK_OFFSET, AVM_TRACE_SIZE, MaxRows} \subseteq Nat \ {0}
    /\ CALLSTACK_OFFSET < MEM_SIZE /\ UINT32_MAX \in Nat /\ UINT32_MAX > MaxRows

VARIABLES driver,        \* "gen_trace" or "direct"
          bytecode, pos, program,
          calls,         \* direct calls made so far
          outcome,       \* "parsing", "unparsed", "running", "threw", "asserted", "undefined", "done"
          pc, internal_return_ptr, internal_call_stack,
          mem,           \* the AvmMemTraceBuilder
          alu_trace, main_trace,
          trace          \* what finalize returned

machine == <<pc, internal_return_ptr, internal_call_stack>>
vars == <<driver, bytecode, pos, program, calls, outcome, machine, mem, alu_trace, main_trace, trace>>

Addresses == 0 .. MEM_SIZE - 1
WellFormed == {Encode(p) : p \in Programs}

EmptyMem == [memory |-> [i \in Addresses |-> 0], tag |-> [i \in Addresses |-> "U0"],
             trace |-> <<>>, counts |-> [c \in {} |-> 0]]

NoTrace == [main |-> <<>>, mem |-> <<>>, alu |-> <<>>]

Init ==
    /\ \/ /\ driver = "gen_trace" /\ bytecode \in WellFormed \cup Corrupted /\ program = <<>> /\ outcome = "parsing"
       \/ /\ driver = "direct" /\ bytecode = <<>> /\ program \in Scripts /\ outcome = "running"
    /\ pos = 0 /\ calls = 0
    /\ pc = 0 /\ internal_return_ptr = CALLSTACK_OFFSET /\ internal_call_stack = <<>>
    /\ mem = EmptyMem /\ alu_trace = <<>> /\ main_trace = <<>> /\ trace = NoTrace

-----------------------------------------------------------------------------
(* The memory trace builder.                                               *)

SUB_CLKFault(reg, rw) == (CHOOSE i \in 0 .. 2 : <<"IA", "IB", "IC">>[i + 1] = reg) + (IF rw THEN 0 ELSE 3)

SUB_CLK(reg, rw) == (CHOOSE i \in 0 .. 2 : <<"IA", "IB", "IC">>[i + 1] = reg) + (IF rw THEN 3 ELSE 0)

tagMatch(addr, in_tag) == mem.tag[addr] \in {"U0", in_tag}

\* The entry of a load: the tag of the cell when it does not match, else the instruction's.
Load(clk, reg, addr, in_tag) ==
    [clk |-> clk, sub_clk |-> SUB_CLK(reg, FALSE), addr |-> addr, val |-> mem.memory[addr],
     tag |-> IF tagMatch(addr, in_tag) THEN in_tag ELSE mem.tag[addr], in_tag |-> in_tag,
     rw |-> FALSE, tag_err |-> ~tagMatch(addr, in_tag)]

Store(clk, reg, addr, val, in_tag) ==
    [clk |-> clk, sub_clk |-> SUB_CLK(reg, TRUE), addr |-> addr, val |-> val,
     tag |-> in_tag, in_tag |-> in_tag, rw |-> TRUE, tag_err |-> FALSE]

AddCountsFault(counts, loads) ==
    LET errors == {i \in DOMAIN loads : loads[i].tag_err}
    IN  [c \in DOMAIN counts \cup {loads[i].clk : i \in errors} |-> 1]

\* m_tag_err_lookup_counts after some loads.
AddCounts(counts, loads) ==
    LET errors == {i \in DOMAIN loads : loads[i].tag_err}
    IN  [c \in DOMAIN counts \cup {loads[i].clk : i \in errors} |->
            (IF c \in DOMAIN counts THEN counts[c] ELSE 0) + Cardinality({i \in errors : loads[i].clk = c})]

\* read_and_load_from_memory and then write_into_memory, each any number of times; no
\* operation stores twice to one address.  Loading leaves the tag of the cell alone.
Access(loads, stores) ==
    LET Stored(f, g) == [a \in Addresses |-> IF \E i \in DOMAIN stores : stores[i].addr = a
                                             THEN g[CHOOSE i \in DOMAIN stores : stores[i].addr = a] ELSE f[a]]
    IN  mem' = [memory |-> Stored(mem.memory, [i \in DOMAIN stores |-> stores[i].val]),
                tag    |-> Stored(mem.tag, [i \in DOMAIN stores |-> stores[i].tag]),
                trace  |-> mem.trace \o loads \o stores,
                counts |-> AddCounts(mem.counts, loads)]

\* operator< of the entries; no two of one address share clk and sub_clk.
Before(x, y) ==
    \/ x.addr < y.addr
    \/ x.addr = y.addr /\ x.clk < y.clk
    \/ x.addr = y.addr /\ x.clk = y.clk /\ x.sub_clk < y.sub_clk

-----------------------------------------------------------------------------
(* The operations of the trace builder.                                    *)

Clk == Len(main_trace)

NewRow(op, in_tag, tag_err, ia, ib, ic, accesses) ==
    [op |-> op, pc |-> pc, ptr |-> internal_return_ptr, in_tag |-> in_tag, op_err |-> FALSE,
     tag_err |-> tag_err, inv |-> 0, ia |-> ia, ib |-> ib, ic |-> ic, mem |-> accesses]

AbcAccesses(a_offset, b_offset, dst_offset) ==
    {<<"IA", a_offset, FALSE>>, <<"IB", b_offset, FALSE>>, <<"IC", dst_offset, TRUE>>}

Sequential == pc' = pc + 1 /\ UNCHANGED <<internal_return_ptr, internal_call_stack>>

Alu(op, a, b, in_tag) ==
    CASE op = "ADD" -> op_add(a, b, in_tag, Clk)
      [] op = "SUB" -> op_sub(a, b, in_tag, Clk)
      [] op = "MUL" -> op_mul(a, b, in_tag, Clk)
      [] op = "EQ"  -> op_eq(a, b, in_tag, Clk)

\* op_add, op_sub, op_mul and op_eq: operands whose tags do not both match count as zero.
Binary(op, a_offset, b_offset, dst_offset, in_tag) ==
    LET read_a == Load(Clk, "IA", a_offset, in_tag)
        read_b == Load(Clk, "IB", b_offset, in_tag)
        match  == ~read_a.tag_err /\ ~read_b.tag_err
        a      == IF match THEN read_a.val ELSE 0
        b      == IF match THEN read_b.val ELSE 0
        r      == Alu(op, a, b, in_tag)
    IN  /\ Access(<<read_a, read_b>>, <<Store(Clk, "IC", dst_offset, r.c, in_tag)>>)
        /\ alu_trace' = alu_trace \o r.rows
        /\ main_trace' = Append(main_trace, NewRow(op, in_tag, ~match, a, b, r.c,
                                                   AbcAccesses(a_offset, b_offset, dst_offset)))
        /\ Sequential

op_divFault(a_offset, b_offset, dst_offset, in_tag) ==
    LET read_a == Load(Clk, "IA", a_offset, in_tag)
        read_b == Load(Clk, "IB", b_offset, in_tag)
        match  == ~read_a.tag_err /\ ~read_b.tag_err
        error  == read_b.val = 0
        inv    == IF error THEN 1 ELSE Inverse(read_b.val)
        c      == IF error THEN 0 ELSE (read_a.val * inv) % P
        Shown(x) == IF match THEN x ELSE 0
    IN  /\ Access(<<read_a, read_b>>, <<Store(Clk, "IC", dst_offset, c, in_tag)>>)
        /\ main_trace' = Append(main_trace,
               [NewRow("DIV", in_tag, ~match, Shown(read_a.val), Shown(read_b.val), Shown(c),
                       AbcAccesses(a_offset, b_offset, dst_offset))
                    EXCEPT !.op_err = error, !.inv = inv])
        /\ Sequential /\ UNCHANGED alu_trace

\* The quotient of the values read is stored whether or not the tags match.
op_div(a_offset, b_offset, dst_offset, in_tag) ==
    LET read_a == Load(Clk, "IA", a_offset, in_tag)
        read_b == Load(Clk, "IB", b_offset, in_tag)
        match  == ~read_a.tag_err /\ ~read_b.tag_err
        error  == read_b.val = 0
        inv    == IF error THEN 1 ELSE Inverse(read_b.val)
        c      == IF error THEN 0 ELSE (read_a.val * inv) % P
        Shown(x) == IF match THEN x ELSE 0
    IN  /\ Access(<<read_a, read_b>>, <<Store(Clk, "IC", dst_offset, c, in_tag)>>)
        /\ main_trace' = Append(main_trace,
               [NewRow("DIV", in_tag, ~match, Shown(read_a.val), Shown(read_b.val), Shown(c),
                       AbcAccesses(a_offset, b_offset, dst_offset))
                    EXCEPT !.op_err = match => error, !.inv = IF match THEN inv ELSE 1])
        /\ Sequential /\ UNCHANGED alu_trace

Not(a_offset, dst_offset, in_tag) ==
    LET read_a == Load(Clk, "IA", a_offset, in_tag)
        a      == IF read_a.tag_err THEN 0 ELSE read_a.val
        r      == op_not(a, in_tag, Clk)
    IN  /\ Access(<<read_a>>, <<Store(Clk, "IC", dst_offset, r.c, in_tag)>>)
        /\ alu_trace' = alu_trace \o r.rows
        /\ main_trace' = Append(main_trace, NewRow("NOT", in_tag, read_a.tag_err, a, 0, r.c,
                                    {<<"IA", a_offset, FALSE>>, <<"IC", dst_offset, TRUE>>}))
        /\ Sequential

set(val, dst_offset, in_tag) ==
    /\ Access(<<>>, <<Store(Clk, "IC", dst_offset, val, in_tag)>>)
    /\ main_trace' = Append(main_trace, NewRow("none", in_tag, FALSE, 0, 0, val, {<<"IC", dst_offset, TRUE>>}))
    /\ Sequential /\ UNCHANGED alu_trace

\* calldata_copy and return_op take the values three by three, one per register and
\* one row for every three: value i, from 0, is in row i \div 3.
Registers == <<"IA", "IB", "IC">>
RegisterOf(i) == Registers[(i % 3) + 1]
Chunks(size) == (size + 2) \div 3
ChunkAccesses(offset, size, k, rw) ==
    {<<RegisterOf(i), offset + i, rw>> : i \in {j \in 0 .. size - 1 : j \div 3 = k}}

calldata_copyFault(cd_offset, copy_size, dst_offset) ==
    LET val(i) == IF i < copy_size THEN CallData[cd_offset + i + 1] ELSE 0
    IN  /\ Access(<<>>, [i \in 1 .. copy_size |->
                            Store(Clk + (i - 1) \div 3, RegisterOf(i - 1), dst_offset + i - 1, val((i - 1) % 3), "FF")])
        /\ main_trace' = main_trace \o [k \in 1 .. Chunks(copy_size) |->
               [NewRow("none", "FF", FALSE, val(3 * k - 3), val(3 * k - 2), val(3 * k - 1),
                       ChunkAccesses(dst_offset, copy_size, k - 1, TRUE)) EXCEPT !.pc = pc + k - 1]]
        /\ pc' = pc + Chunks(copy_size)
        /\ UNCHANGED <<internal_return_ptr, internal_call_stack, alu_trace>>

\* pc is incremented for every row.
calldata_copy(cd_offset, copy_size, dst_offset) ==
    LET val(i) == IF i < copy_size THEN CallData[cd_offset + i + 1] ELSE 0
    IN  /\ Access(<<>>, [i \in 1 .. copy_size |->
                            Store(Clk + (i - 1) \div 3, RegisterOf(i - 1), dst_offset + i - 1, val(i - 1), "FF")])
        /\ main_trace' = main_trace \o [k \in 1 .. Chunks(copy_size) |->
               [NewRow("none", "FF", FALSE, val(3 * k - 3), val(3 * k - 2), val(3 * k - 1),
                       ChunkAccesses(dst_offset, copy_size, k - 1, TRUE)) EXCEPT !.pc = pc + k - 1]]
        /\ pc' = pc + Chunks(copy_size)
        /\ UNCHANGED <<internal_return_ptr, internal_call_stack, alu_trace>>

halt ==
    /\ main_trace' = Append(main_trace, NewRow("HALT", "U0", FALSE, 0, 0, 0, {}))
    /\ pc' = UINT32_MAX
    /\ UNCHANGED <<internal_return_ptr, internal_call_stack, mem, alu_trace>>

\* The registers ib and ic of a row keep the value 0 of the outer variables, which
\* the variables of the two inner blocks hide.
ReturnRows(ret_offset, ret_size) ==
    LET loads == [i \in 1 .. ret_size |-> Load(Clk + (i - 1) \div 3, RegisterOf(i - 1), ret_offset + i - 1, "FF")]
        match(k) == \A i \in 1 .. ret_size : loads[i].tag_err => (i - 1) \div 3 # k
    IN  /\ Access(loads, <<>>)
        /\ main_trace' = main_trace \o [k \in 1 .. Chunks(ret_size) |->
               NewRow("HALT", "FF", ~match(k - 1), IF match(k - 1) THEN loads[3 * k - 2].val ELSE 0, 0, 0,
                      ChunkAccesses(ret_offset, ret_size, k - 1, FALSE))]
        /\ UNCHANGED <<internal_return_ptr, internal_call_stack, alu_trace>>

return_opFault(ret_offset, ret_size) ==
    IF ret_size = 0 THEN halt ELSE ReturnRows(ret_offset, ret_size) /\ UNCHANGED pc

return_op(ret_offset, ret_size) ==
    IF ret_size = 0 THEN halt ELSE ReturnRows(ret_offset, ret_size) /\ pc' = UINT32_MAX

jump(jmp_dest) ==
    /\ main_trace' = Append(main_trace, NewRow("JUMP", "U0", FALSE, jmp_dest, 0, 0, {}))
    /\ pc' = jmp_dest
    /\ UNCHANGED <<internal_return_ptr, internal_call_stack, mem, alu_trace>>

internal_call(jmp_dest) ==
    /\ internal_call_stack' = <<pc + 1>> \o internal_call_stack
    /\ Access(<<>>, <<Store(Clk, "IB", internal_return_ptr, pc + 1, "FF")>>)
    /\ main_trace' = Append(main_trace, NewRow("INTERNALCALL", "U0", FALSE, jmp_dest, pc + 1, 0,
                                               {<<"IB", internal_return_ptr, TRUE>>}))
    /\ pc' = jmp_dest /\ internal_return_ptr' = internal_return_ptr + 1
    /\ UNCHANGED alu_trace

internal_returnFault ==
    LET read_a == Load(Clk, "IA", internal_return_ptr - 1, "FF")
    IN  /\ Access(<<read_a>>, <<>>)
        /\ main_trace' = Append(main_trace, NewRow("INTERNALRETURN", "U0", read_a.tag_err,
                                    IF read_a.tag_err THEN 0 ELSE read_a.val, 0, 0,
                                    {<<"IA", internal_return_ptr - 1, FALSE>>}))
        /\ pc' = Head(internal_call_stack) /\ internal_call_stack' = Tail(internal_call_stack)
        /\ UNCHANGED <<internal_return_ptr, alu_trace>>

\* The value loaded is recorded; execution goes on where internal_call_stack says.
internal_return ==
    LET read_a == Load(Clk, "IA", internal_return_ptr - 1, "FF")
    IN  /\ Access(<<read_a>>, <<>>)
        /\ main_trace' = Append(main_trace, NewRow("INTERNALRETURN", "U0", read_a.tag_err,
                                    IF read_a.tag_err THEN 0 ELSE read_a.val, 0, 0,
                                    {<<"IA", internal_return_ptr - 1, FALSE>>}))
        /\ pc' = Head(internal_call_stack) /\ internal_call_stack' = Tail(internal_call_stack)
        /\ internal_return_ptr' = internal_return_ptr - 1
        /\ UNCHANGED alu_trace

-----------------------------------------------------------------------------
(* run_and_prove and gen_trace.                                            *)

\* One turn of the loop of parse.
Parse ==
    LET one == ParseInstruction(bytecode, pos)
    IN  /\ outcome = "parsing" /\ pos < Len(bytecode)
        /\ IF one.ok THEN /\ pos' = one.pos /\ program' = Append(program, one.inst)
                          /\ UNCHANGED outcome
           ELSE outcome' = "unparsed" /\ UNCHANGED <<pos, program>>
        /\ UNCHANGED <<driver, bytecode, calls, machine, mem, alu_trace, main_trace, trace>>

Parsed ==
    /\ outcome = "parsing" /\ pos = Len(bytecode)
    /\ outcome' = "running"
    /\ UNCHANGED <<driver, bytecode, pos, program, calls, machine, mem, alu_trace, main_trace, trace>>

NextIndex == IF driver = "gen_trace" THEN pc ELSE calls
Inst == program[NextIndex + 1]

\* The addresses an instruction reads or writes; memory.at throws outside of the memory.
Touched(inst) ==
    CASE inst[1] \in {"ADD", "SUB", "MUL", "DIV", "EQ"} -> {inst[3], inst[4], inst[5]}
      [] inst[1] = "NOT" -> {inst[3], inst[4]}
      [] inst[1] = "SET" -> {inst[4]}
      [] inst[1] = "CALLDATACOPY" -> inst[4] .. inst[4] + inst[3] - 1
      [] inst[1] = "RETURN" -> inst[2] .. inst[2] + inst[3] - 1
      [] inst[1] = "INTERNALCALL" -> {internal_return_ptr}
      [] inst[1] = "INTERNALRETURN" -> {internal_return_ptr - 1}
      [] OTHER -> {}

\* gen_trace takes the destination of NOT from operands.at(3), its format has three.
Throws(inst) ==
    \/ driver = "gen_trace" /\ inst[1] = "NOT"
    \/ ~(driver = "gen_trace" /\ inst[1] = "EQ") /\ ~(Touched(inst) \subseteq Addresses)
    \/ inst[1] = "CALLDATACOPY" /\ inst[3] > 0 /\ inst[2] + inst[3] > Len(CallData)

\* top() and pop() of an empty stack.
Undefined(inst) == inst[1] = "INTERNALRETURN" /\ internal_call_stack = <<>>

Dispatching ==
    /\ outcome = "running" /\ NextIndex < Len(program) /\ Len(main_trace) < MaxRows

Executes(ops) ==
    /\ Dispatching /\ Inst[1] \in ops /\ ~Throws(Inst) /\ ~Undefined(Inst)
    /\ calls' = IF driver = "direct" THEN calls + 1 ELSE calls
    /\ UNCHANGED <<driver, bytecode, pos, program, outcome, trace>>

Arithmetic == Executes({"ADD", "SUB", "MUL"}) /\ Binary(Inst[1], Inst[3], Inst[4], Inst[5], Inst[2])
Divide     == Executes({"DIV"}) /\ op_div(Inst[3], Inst[4], Inst[5], Inst[2])
BitwiseNot == Executes({"NOT"}) /\ Not(Inst[3], Inst[4], Inst[2])
CallDataCopy == Executes({"CALLDATACOPY"}) /\ calldata_copy(Inst[2], Inst[3], Inst[4])
Set        == Executes({"SET"}) /\ set(Inst[3], Inst[4], Inst[2])
Jump       == Executes({"JUMP"}) /\ jump(Inst[2])
InternalCall   == Executes({"INTERNALCALL"}) /\ internal_call(Inst[2])
InternalReturn == Executes({"INTERNALRETURN"}) /\ internal_return
Return     == Executes({"RETURN"}) /\ return_op(Inst[2], Inst[3])
Halt       == Executes({"HALT"}) /\ halt

Equal == driver = "direct" /\ Executes({"EQ"}) /\ Binary("EQ", Inst[3], Inst[4], Inst[5], Inst[2])

\* The switch of gen_trace has no case for EQ: the loop goes round with the same pc.
Ignored == driver = "gen_trace" /\ Dispatching /\ Inst[1] = "EQ" /\ UNCHANGED vars

Throw ==
    /\ Dispatching /\ Throws(Inst)
    /\ outcome' = "threw"
    /\ UNCHANGED <<driver, bytecode, pos, program, calls, machine, mem, alu_trace, main_trace, trace>>

PopEmpty ==
    /\ Dispatching /\ ~Throws(Inst) /\ Undefined(Inst)
    /\ outcome' = "undefined"
    /\ UNCHANGED <<driver, bytecode, pos, program, calls, machine, mem, alu_trace, main_trace, trace>>

-----------------------------------------------------------------------------
(* finalize.                                                               *)

ZeroRow == [op |-> "none", pc |-> 0, ptr |-> 0, in_tag |-> "U0", op_err |-> FALSE, tag_err |-> FALSE,
            inv |-> 0, ia |-> 0, ib |-> 0, ic |-> 0, mem |-> {}, tag_err_counts |-> 0, last |-> FALSE]
ZeroMem == [clk |-> 0, sub_clk |-> 0, addr |-> 0, val |-> 0, tag |-> "U0", in_tag |-> "U0",
            rw |-> FALSE, tag_err |-> FALSE, lastAccess |-> FALSE]
ZeroAlu == Entry("none", "U0", 0, 0, 0, 0)

finalise_mem_trace_lookup_counts(rows, counts) ==
    [i \in 1 .. Len(rows) |->
        rows[i] @@ [tag_err_counts |-> IF i - 1 \in DOMAIN counts THEN counts[i - 1] ELSE 0,
                    last |-> i = Len(rows)]]

LastAccesses(sorted) ==
    [i \in 1 .. Len(sorted) |->
        sorted[i] @@ [lastAccess |-> i = Len(sorted) \/ sorted[i].addr # sorted[i + 1].addr]]

Fits == {Len(mem.trace), Len(alu_trace), Len(main_trace)} \subseteq 0 .. AVM_TRACE_SIZE - 1

\* The padding rows are left out.  Not all of the state goes back to its initial
\* value: the tags, the counts and the registers of the machine stay.
Finalize ==
    /\ outcome = "running" /\ NextIndex >= Len(program)
    /\ Fits /\ main_trace # <<>>
    /\ outcome' = "done"
    /\ trace' = [main |-> <<ZeroRow>> \o finalise_mem_trace_lookup_counts(main_trace, mem.counts),
                 mem  |-> <<[ZeroMem EXCEPT !.lastAccess = TRUE]>> \o LastAccesses(SortSeq(mem.trace, Before)),
                 alu  |-> <<ZeroAlu>> \o alu_trace]
    /\ mem' = [mem EXCEPT !.trace = <<>>, !.memory = [i \in Addresses |-> 0]]
    /\ alu_trace' = <<>> /\ main_trace' = <<>>
    /\ UNCHANGED <<driver, bytecode, pos, program, calls, machine>>

\* A table that is too long fails an assertion, an empty one main_trace.at(-1).
FinalizeFails ==
    /\ outcome = "running" /\ NextIndex >= Len(program)
    /\ ~(Fits /\ main_trace # <<>>)
    /\ outcome' = IF Fits THEN "threw" ELSE "asserted"
    /\ UNCHANGED <<driver, bytecode, pos, program, calls, machine, mem, alu_trace, main_trace, trace>>

Execute ==
    \/ Arithmetic \/ Divide \/ BitwiseNot \/ Equal \/ CallDataCopy \/ Set \/ Jump
    \/ InternalCall \/ InternalReturn \/ Return \/ Halt \/ Ignored \/ Throw \/ PopEmpty

Next == Parse \/ Parsed \/ Execute \/ Finalize \/ FinalizeFails

\* run_and_prove is a sequential loop: it goes on as long as it can.
Spec == Init /\ [][Next]_vars /\ WF_vars(Next)

-----------------------------------------------------------------------------
(* Properties.  The relations are those of pil/avm/avm_main.pil and        *)
(* avm_mem.pil; what a row may do although a relation forbids it is stated *)
(* with the reason.                                                        *)

Values == 0 .. P - 1

\* Every component of the builder is of its C++ type; registers, memory and rows hold
\* field elements, and the call stack in the machine and internal_return_ptr agree.
TypeOK ==
    /\ outcome \in {"parsing", "unparsed", "running", "threw", "asserted", "undefined", "done"}
    /\ pc \in 0 .. UINT32_MAX
    /\ internal_return_ptr = CALLSTACK_OFFSET + Len(internal_call_stack)
    /\ mem.memory \in [Addresses -> Values] /\ mem.tag \in [Addresses -> Tags]
    /\ \A i \in DOMAIN mem.trace :
          mem.trace[i].addr \in Addresses /\ mem.trace[i].val \in Values /\ mem.trace[i].clk < UINT32_MAX
    /\ \A i \in DOMAIN main_trace : {main_trace[i].ia, main_trace[i].ib, main_trace[i].ic, main_trace[i].inv} \subseteq Values

RowAfter(t, i, zero) == IF i < Len(t) THEN t[i + 1] ELSE zero
MainRow(clk) == trace.main[clk + 2]
MemRows(clk) == {i \in 2 .. Len(trace.mem) : trace.mem[i].clk = clk}

\* avm_mem.pil on the sorted memory rows (insert_in_mem_trace, finalize): rows of an
\* address are contiguous and in the order of execution, a load returns the value and
\* the tag before it, a first load zero.  Only the tag of a cell that was never written
\* may change, when it is loaded under two tags.
MemoryRelations ==
    \A i \in DOMAIN trace.mem :
        LET e == trace.mem[i]
            n == RowAfter(trace.mem, i, ZeroMem)
            unwritten == \A j \in 2 .. i : trace.mem[j].addr = e.addr => ~trace.mem[j].rw
        IN  /\ ~e.lastAccess => n.addr = e.addr
            /\ ~e.lastAccess => n.clk > e.clk \/ (n.clk = e.clk /\ n.sub_clk > e.sub_clk)
            /\ e.lastAccess /\ 1 < i /\ i < Len(trace.mem) => n.addr > e.addr
            /\ ~e.lastAccess /\ ~n.rw => n.val = e.val /\ (n.tag = e.tag \/ unwritten)
            /\ e.lastAccess /\ ~n.rw => n.val = 0
            /\ e.tag_err <=> e.in_tag # e.tag

Register(row, reg) == IF reg = "IA" THEN row.ia ELSE IF reg = "IB" THEN row.ib ELSE row.ic

\* The correspondence of avm_main.pil's last TODO: every access a main row announces is
\* one memory row, with the value of the register if no tag error was met, and there are
\* no other memory rows.  Exempt are the registers ib and ic of return_op.
RegistersMatchMemory ==
    \A c \in 0 .. Len(trace.main) - 2 :
        /\ Cardinality(MemRows(c)) = Cardinality(MainRow(c).mem)
        /\ \A access \in MainRow(c).mem : \E i \in MemRows(c) :
              /\ trace.mem[i].addr = access[2] /\ trace.mem[i].rw = access[3]
              /\ trace.mem[i].sub_clk = SUB_CLK(access[1], access[3])
              /\ \/ MainRow(c).tag_err
                 \/ trace.mem[i].val = Register(MainRow(c), access[1])
                 \/ MainRow(c).op = "HALT" /\ access[1] # "IA"

\* The equiv_tag_err lookup of avm_main.pil (load_mismatch_tag_in_mem_trace,
\* finalise_mem_trace_lookup_counts): the count of a row is the number of its mismatched
\* loads, its flag is set exactly when there is one, and its registers are zero then,
\* except ic of NOT and EQ (TODO 4613).
TagErrorsCounted ==
    \A c \in 0 .. Len(trace.main) - 2 :
        LET row == MainRow(c)
        IN  /\ row.tag_err_counts = Cardinality({i \in MemRows(c) : trace.mem[i].tag_err})
            /\ row.tag_err <=> row.tag_err_counts > 0
            /\ row.tag_err => row.ia = 0 /\ row.ib = 0 /\ (row.ic = 0 \/ row.op \in {"NOT", "EQ"})

\* Did the cell that an INTERNALRETURN of clock c loads get its value from an
\* INTERNALCALL?  Other instructions may write to the call stack too.
ReturnCellIntact(c) ==
    LET writes == {i \in 2 .. Len(trace.mem) :
                      trace.mem[i].rw /\ trace.mem[i].clk < c /\ trace.mem[i].addr = MainRow(c).ptr - 1}
    IN  \E i \in writes : /\ \A j \in writes : j <= i
                          /\ MainRow(trace.mem[i].clk).op = "INTERNALCALL"

\* The control flow relations of avm_main.pil: where the next row's pc and
\* internal_return_ptr come from, after jump, internal_call, internal_return and the
\* arithmetic operations.  They fail on the last row of a program that runs off its end,
\* and on an INTERNALRETURN whose cell was overwritten.
ControlFlow ==
    \A c \in 0 .. Len(trace.main) - 2 :
        LET r == MainRow(c)
            n == RowAfter(trace.main, c + 2, ZeroRow)
        IN  \/ r.last /\ r.op # "HALT"
            \/ /\ r.op \in {"JUMP", "INTERNALCALL"} => n.pc = r.ia
               /\ r.op = "INTERNALCALL" => r.ib = r.pc + 1 /\ n.ptr = r.ptr + 1
               /\ r.op = "INTERNALRETURN" => n.ptr = r.ptr - 1 /\ (ReturnCellIntact(c) => n.pc = r.ia)
               /\ r.op \in {"ADD", "SUB", "MUL", "DIV", "NOT", "EQ"} => n.pc = r.pc + 1
               /\ r.op \notin {"INTERNALCALL", "INTERNALRETURN", "HALT"} => n.ptr = r.ptr

\* The SUBOP_DIVISION relations (op_div): without op_err the quotient times the divisor is
\* the dividend and the divisor is not zero; op_err is set for DIV only, with inv 1.
DivisionRelations ==
    \A i \in DOMAIN trace.main :
        LET r == trace.main[i]
        IN  /\ r.op_err => r.op = "DIV" /\ r.inv = 1 /\ r.ib = 0
            /\ r.op = "DIV" /\ ~r.op_err => Zero(r.ic * r.ib - r.ia) /\ Zero(r.ib * r.inv - 1)

\* avm_alu.pil, and the tie of its rows to the main rows (op_add ... op_eq): each row is
\* the one row of the operation of its clock, has its operands and result, and satisfies
\* its relations when the operands are in the range of the tag.  NOT of a field element
\* has no row.
AluExplainsMain ==
    /\ \A i \in DOMAIN trace.alu :
          LET e == trace.alu[i]
              r == MainRow(e.clk)
          IN  e.op # "none" => /\ <<r.op, r.in_tag, r.ia, r.ib, r.ic>> = <<e.op, e.tag, e.ia, e.ib, e.ic>>
                               /\ {e.ia, e.ib} \subseteq 0 .. Limit(e.tag) - 1 =>
                                      AluRow(e, RowAfter(trace.alu, i, ZeroAlu))
    /\ \A c \in 0 .. Len(trace.main) - 2 :
          LET r == MainRow(c)
          IN  Cardinality({i \in DOMAIN trace.alu : trace.alu[i].op = r.op /\ trace.alu[i].clk = c /\ r.op # "none"})
                = IF r.op \in {"ADD", "SUB", "MUL", "EQ"} \/ (r.op = "NOT" /\ r.in_tag # "FF") THEN 1 ELSE 0

\* A cell holds a value of the range of its tag (the casts of avm_alu_trace.cpp), unless
\* a division was done under an integer tag: its quotient is one of the field.
ValuesFit ==
    \/ \A a \in Addresses : mem.memory[a] < Limit(mem.tag[a])
    \/ \E i \in DOMAIN main_trace : main_trace[i].op = "DIV" /\ main_trace[i].in_tag # "FF"

\* parse inverts the encoding: bytecode that stands for instructions is never refused,
\* and whatever is accepted stands for exactly the instructions that are executed.
ParseInverts ==
    driver = "gen_trace" =>
        /\ outcome = "unparsed" => bytecode \notin WellFormed
        /\ outcome \notin {"parsing", "unparsed"} => Encode(program) = bytecode

\* No jump back, no EQ and no empty CALLDATACOPY.
Forward(p) ==
    \A i \in DOMAIN p :
        /\ p[i][1] \in {"JUMP", "INTERNALCALL"} => p[i][2] >= i
        /\ p[i][1] # "EQ" /\ (p[i][1] = "CALLDATACOPY" => p[i][3] > 0)

\* gen_trace comes to an end, with a table or an exception, on every program without jumps
\* back, unless it meets EQ or a CALLDATACOPY of size 0, where pc never moves.
Ends == (outcome = "running" /\ Forward(program)) ~> outcome # "running"

\* The table that finalize returns satisfies the relations it is checked on, whatever was
\* executed, with the exceptions each part names.
SatisfiesRelations ==
    /\ MemoryRelations /\ RegistersMatchMemory /\ TagErrorsCounted
    /\ ControlFlow /\ DivisionRelations /\ AluExplainsMain

\* From the bytecode to the last instruction the machine is sound: what is executed is what
\* the bytecode stands for, the two call stacks agree, and cells are in the range of their tag.
MachineSound == TypeOK /\ ParseInverts /\ ValuesFit

=============================================================================
