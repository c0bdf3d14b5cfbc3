--------------------------- MODULE CircuitBuilder ---------------------------
(***************************************************************************)
(* The Ultra circuit builder (proof_system/circuit_builder): copy classes, *)
(* generalised-permutation tags, range lists, ROM and RAM transcripts, and *)
(* check_circuit, which finalises the circuit "in the head", evaluates     *)
(* every gate and the tag permutation, and puts the builder back.          *)
(*                                                                         *)
(* The builder is one record; every method is an operator from a builder   *)
(* to a builder, and an action is one call of its user.  Indices start at  *)
(* 1, so that variable 1 is zero_idx and 0 stands for the sentinels        *)
(* REAL_VARIABLE and FIRST_VARIABLE_IN_CLASS.                              *)
(* The random challenges eta and gamma are modelled by what they separate: *)
(* a memory record is the tuple of its wires and its flag, and two tag     *)
(* products are equal when they are over the same multiset.                *)
(***************************************************************************)
EXTENDS Integers, SequencesExt

CONSTANTS Sessions,   \* bound: the users of a builder: [ops, values, fixes, calls, rom, ram]
          Ranges,     \* the ranges asked of create_new_range_constraint
          NumBits,    \* the widths asked of decompose_into_default_range
          LimbBits    \* target_range_bitnum

VARIABLES session,    \* the session of this behaviour
          builder,    \* the UltraCircuitBuilder_
          wit,        \* the variables the user knows: its own, and those reads returned
          asked,      \* the calls so far
          checked     \* the result of check_circuit for this builder, or "none"

vars == <<session, builder, wit, asked, checked>>

None == 0
Unset == <<>>        \* a cell holds its witnesses, or UNINITIALIZED_MEMORY_RECORD
DUMMY_TAG == 0
zero_idx == 1
NUM_WIRES == 4
STEP_SIZE == 3       \* DEFAULT_PLOOKUP_RANGE_STEP_SIZE

-----------------------------------------------------------------------------
(* Variables and their copy classes (circuit_builder_base). *)

get_variable(b, x) == b.val[b.real[x]]

add_variable(b, v) ==
    [b EXCEPT !.val = Append(@, v), !.real = Append(@, Len(@) + 1), !.tag = Append(@, DUMMY_TAG),
              !.next = Append(@, None), !.prev = Append(@, None)]

\* The index add_variable returned.
Added(b) == Len(b.val)

get_first_variable_in_class(b, x) ==
    LET first[i \in DOMAIN b.prev] == IF b.prev[i] = None THEN i ELSE first[b.prev[i]]
    IN  first[x]

\* The variables of a chain from x on.
ChainFrom(b, x) ==
    LET from[i \in DOMAIN b.next \cup {None}] == IF i = None THEN {} ELSE {i} \cup from[b.next[i]]
    IN  from[x]

\* A slip: only the variable itself moves to the new class.
update_real_variable_indicesFault(b, x, new_real) == [b EXCEPT !.real[x] = new_real]

update_real_variable_indices(b, x, new_real) ==
    [b EXCEPT !.real = [i \in DOMAIN @ |-> IF i \in ChainFrom(b, x) THEN new_real ELSE @[i]]]

assert_equal(b, x, y) ==
    LET a_real == b.real[x]
        b_real == b.real[y]
        a_start == get_first_variable_in_class(b, x)
        mismatch == get_variable(b, x) # get_variable(b, y)
        clash == b.tag[a_real] # b.tag[b_real] /\ DUMMY_TAG \notin {b.tag[a_real], b.tag[b_real]}
    IN  IF a_real = b_real THEN [b EXCEPT !.failed = @ \/ mismatch]
        ELSE [update_real_variable_indices(b, get_first_variable_in_class(b, y), a_real) EXCEPT
                  !.next[b_real] = a_start, !.prev[a_start] = b_real,
                  !.failed = @ \/ mismatch \/ clash,
                  !.tag[a_real] = IF @ = DUMMY_TAG THEN b.tag[b_real] ELSE @]

set_variable_name(b, x) ==
    LET first == get_first_variable_in_class(b, x)
    IN  IF first \in b.names THEN [b EXCEPT !.failed = TRUE] ELSE [b EXCEPT !.names = @ \cup {first}]

\* The first named variable of a chain from x on, None when no variable is named.
FirstNamed(b, x) ==
    LET from[i \in DOMAIN b.next \cup {None}] == IF i = None \/ i \in b.names THEN i ELSE from[b.next[i]]
    IN  from[x]

\* A slip: the name further down the chain is taken away and not put on the first variable.
update_variable_namesFault(b, x) ==
    LET first == get_first_variable_in_class(b, x)
        cur   == FirstNamed(b, b.next[first])
    IN  IF cur = None /\ first \notin b.names THEN [b EXCEPT !.failed = TRUE]
        ELSE [b EXCEPT !.names = @ \ {cur}]

update_variable_names(b, x) ==
    LET first == get_first_variable_in_class(b, x)
        cur   == FirstNamed(b, b.next[first])
    IN  IF cur = None /\ first \notin b.names THEN [b EXCEPT !.failed = TRUE]
        ELSE [b EXCEPT !.names = (@ \ {cur}) \cup {first}]

-----------------------------------------------------------------------------
(* Gates: four wires, the selectors q_1 .. q_4 and q_c, q_arith, q_sort and *)
(* the memory check that q_aux selects (apply_aux_selectors).               *)

AddGate(b, w, q, arith, sort, aux) ==
    [b EXCEPT !.gates = Append(@, [w |-> w, q |-> q, arith |-> arith, sort |-> sort, aux |-> aux])]

NoSelectors == <<0, 0, 0, 0, 0>>

create_add_gate(b, x, y, z, q) ==
    AddGate(b, <<x, y, z, zero_idx>>, <<q[1], q[2], q[3], 0, q[4]>>, 1, FALSE, "none")

create_big_add_gate(b, w, q, include_next_gate_w_4) ==
    AddGate(b, w, q, IF include_next_gate_w_4 THEN 2 ELSE 1, FALSE, "none")

fix_witness(b, x, v) ==
    AddGate(b, <<x, zero_idx, zero_idx, zero_idx>>, <<1, 0, 0, 0, -v>>, 1, FALSE, "none")

put_constant_variable(b, v) ==
    IF v \in DOMAIN b.constants THEN b
    ELSE LET n == add_variable(b, v)
         IN  [fix_witness(n, Added(n), v) EXCEPT !.constants = @ @@ (v :> Added(n))]

\* A vector of variables, four to a row; only the first row has the selectors q.
Rows(b, xs, q, arith, sort) ==
    FoldLeft(LAMBDA acc, i : AddGate(acc, SubSeq(xs, NUM_WIRES * i - 3, NUM_WIRES * i),
                                     IF i = 1 THEN q ELSE NoSelectors, IF i = 1 THEN arith ELSE 0, sort, "none"),
             b, [i \in 1 .. (Len(xs) \div NUM_WIRES) |-> i])

Padding(n) == (NUM_WIRES - (n % NUM_WIRES)) % NUM_WIRES
Zeros(n) == [i \in 1 .. n |-> zero_idx]

create_dummy_constraints(b, xs) ==
    Rows(b, xs \o Zeros(Padding(Len(xs))), NoSelectors, 0, FALSE)

\* The first row also says that the list begins at `start`; the row after the last one closes the
\* differences and says that the list ends at `end`.
create_sort_constraint_with_edges(b, xs, start, end) ==
    AddGate(Rows(b, xs, <<1, 0, 0, 0, -start>>, 1, TRUE),
            <<Last(xs), zero_idx, zero_idx, zero_idx>>, <<1, 0, 0, 0, -end>>, 1, FALSE, "none")

-----------------------------------------------------------------------------
(* Tags and range lists. *)

\* A finite set of naturals in order.
Ascending(S) == IF S = {} THEN <<>> ELSE SelectSeq([i \in 1 .. Max(S) + 1 |-> i - 1], LAMBDA i : i \in S)

assign_tag(b, x, tag) == [b EXCEPT !.tag[b.real[x]] = tag]

\* Two calls of get_new_tag and two of create_tag, which count current_tag up once more each.
NewTagPair(b) ==
    LET t == b.current_tag + 1
        u == b.current_tag + 2
    IN  [b EXCEPT !.tau = @ @@ (t :> u) @@ (u :> t), !.current_tag = @ + 4]

RangeListValues(target) == [i \in 1 .. (target \div STEP_SIZE) + 1 |-> STEP_SIZE * (i - 1)] \o <<target>>

create_range_list(b, target) ==
    LET tag   == b.current_tag + 1
        n     == Len(RangeListValues(target))
        xs    == [i \in 1 .. n |-> Added(b) + i]
        added == FoldLeft(LAMBDA acc, v : assign_tag(add_variable(acc, v), Added(acc) + 1, tag),
                          NewTagPair(b), RangeListValues(target))
    IN  create_dummy_constraints([added EXCEPT !.ranges = @ @@ (target :> [range_tag |-> tag, tau_tag |-> tag + 1,
                                                                         variable_indices |-> xs])], xs)

\* Tag an untagged variable for a list that exists and note it there.
Enlist(b, x, target) ==
    [assign_tag(b, x, b.ranges[target].range_tag) EXCEPT !.ranges[target].variable_indices = Append(@, x)]

\* A slip: a variable that has a range keeps it, even when the new one is narrower.
create_new_range_constraintFault(b, x, target) ==
    LET flagged  == [b EXCEPT !.failed = @ \/ get_variable(b, x) > target]
        c        == IF target \in DOMAIN b.ranges THEN flagged ELSE create_range_list(flagged, target)
    IN  IF c.tag[c.real[x]] = DUMMY_TAG THEN Enlist(c, x, target) ELSE c

\* The stricter of two ranges wins: a later wider range is dropped, a later narrower one is put on a
\* copy of the variable (the recursive call meets the copy untagged).
create_new_range_constraint(b, x, target) ==
    LET flagged  == [b EXCEPT !.failed = @ \/ get_variable(b, x) > target]
        c        == IF target \in DOMAIN b.ranges THEN flagged ELSE create_range_list(flagged, target)
        existing == c.tag[c.real[x]]
        copied   == create_add_gate(add_variable(c, get_variable(c, x)), x, Added(c) + 1, zero_idx, <<1, -1, 0, 0>>)
    IN  CASE existing = c.ranges[target].range_tag -> c
          [] existing = DUMMY_TAG -> Enlist(c, x, target)
          [] OTHER -> IF \E r \in DOMAIN c.ranges : c.ranges[r].range_tag = existing /\ r < target THEN c
                      ELSE Enlist(copied, Added(copied), target)

\* A slip: the list is not brought to the real variables, so that a merged variable counts twice.
process_range_listFault(b, target) ==
    LET list   == b.ranges[target]
        n      == Len(list.variable_indices)
        values == SortSeq([i \in 1 .. n |-> get_variable(b, list.variable_indices[i])], <)
        pad    == Padding(n) + (IF n <= NUM_WIRES THEN NUM_WIRES ELSE 0)
        mirror == FoldLeft(LAMBDA acc, v : assign_tag(add_variable(acc, v), Added(acc) + 1, list.tau_tag), b, values)
    IN  create_sort_constraint_with_edges(mirror, Zeros(pad) \o [i \in 1 .. n |-> Added(b) + i], 0, target)

\* The distinct real variables of the list, mirrored in order of value under the other tag.
process_range_list(b, target) ==
    LET list    == b.ranges[target]
        indices == Ascending({b.real[x] : x \in ToSet(list.variable_indices)})
        n       == Len(indices)
        values  == SortSeq([i \in 1 .. n |-> get_variable(b, indices[i])], <)
        pad     == Padding(n) + (IF n <= NUM_WIRES THEN NUM_WIRES ELSE 0)
        mirror  == FoldLeft(LAMBDA acc, v : assign_tag(add_variable(acc, v), Added(acc) + 1, list.tau_tag), b, values)
    IN  create_sort_constraint_with_edges([mirror EXCEPT !.ranges[target].variable_indices = indices],
                                          Zeros(pad) \o [i \in 1 .. n |-> Added(b) + i], 0, target)

process_range_lists(b) == FoldLeft(process_range_list, b, Ascending(DOMAIN b.ranges))

\* Limbs of LimbBits bits, the last one with the bits that remain; each a new variable with its range.
AddLimb(s, limb) ==
    LET added == add_variable(s.b, limb.value)
    IN  [b |-> create_new_range_constraint(added, Added(added), limb.range), xs |-> Append(s.xs, Added(added))]

\* One big addition gate for three limbs; all but the last add the fourth wire of the next row.
AddTriple(s, i, xs, limbs, last) ==
    LET xOf(k) == IF 3 * i + k <= Len(xs) THEN xs[3 * i + k] ELSE zero_idx
        shift(k) == 2^(LimbBits * (3 * i + k - 1))
        limb(k)  == IF 3 * i + k <= Len(xs) THEN limbs[3 * i + k].value ELSE 0
        left     == s.accumulator - limb(1) * shift(1) - limb(2) * shift(2) - limb(3) * shift(3)
        gated    == create_big_add_gate(s.b, <<xOf(1), xOf(2), xOf(3), s.x>>,
                                        <<shift(1), shift(2), shift(3), -1, 0>>, ~last)
    IN  [b |-> add_variable(gated, left), accumulator |-> left, x |-> Added(gated) + 1]

decompose_into_default_range(b, x, num_bits) ==
    LET value   == get_variable(b, x)
        rest    == num_bits % LimbBits
        num     == (num_bits \div LimbBits) + (IF rest # 0 THEN 1 ELSE 0)
        limbs   == [i \in 1 .. num |-> [value |-> (value \div 2^(LimbBits * (i - 1))) % 2^LimbBits,
                                        range |-> IF i = num /\ rest # 0 THEN 2^rest - 1 ELSE 2^LimbBits - 1]]
        flagged == [b EXCEPT !.failed = @ \/ value >= 2^num_bits]
        limbed  == FoldLeft(AddLimb, [b |-> flagged, xs |-> <<>>], limbs)
        triples == (num + 2) \div 3
    IN  FoldLeft(LAMBDA s, i : AddTriple(s, i, limbed.xs, limbs, i = triples - 1),
                 [b |-> limbed.b, accumulator |-> value, x |-> x], [i \in 1 .. triples |-> i - 1]).b

-----------------------------------------------------------------------------
(* ROM and RAM.  A record keeps the index it had when it was made besides   *)
(* the witness of the index; its own variable gets its value in check.      *)

ConstantIndex(b, v) == IF v = 0 THEN zero_idx ELSE put_constant_variable(b, v).constants[v]

\* A gate over three wires and a new record variable.
MemoryGate(b, x, y, z, aux) == AddGate(add_variable(b, 0), <<x, y, z, Added(b) + 1>>, NoSelectors, 0, FALSE, aux)

RomRecord(b, index_witness, c1, c2, index) ==
    LET g == MemoryGate(b, index_witness, c1, c2, "read")
    IN  [g EXCEPT !.rom.records = Append(@, [index |-> index, c1 |-> c1, c2 |-> c2,
                                             record |-> Added(g), gate |-> Len(g.gates)])]

set_ROM_element_pair(b, index, c1, c2) ==
    RomRecord([(IF index = 0 THEN b ELSE put_constant_variable(b, index)) EXCEPT !.rom.state[index] = <<c1, c2>>],
              ConstantIndex(b, index), c1, c2, index)

set_ROM_element(b, index, x) == set_ROM_element_pair(b, index, x, zero_idx)

read_ROM_array(b, index_witness) ==
    LET index == get_variable(b, index_witness)
        added == add_variable(b, get_variable(b, b.rom.state[index][1]))
    IN  RomRecord(added, index_witness, Added(added), zero_idx, index)

read_ROM_array_pair(b, index_witness) ==
    LET index == get_variable(b, index_witness)
        one   == add_variable(b, get_variable(b, b.rom.state[index][1]))
        two   == add_variable(one, get_variable(b, b.rom.state[index][2]))
    IN  RomRecord(two, index_witness, Added(one), Added(two), index)

\* The timestamp is the number of accesses so far, as a constant.
RamRecord(b, index_witness, x, index, access) ==
    LET time  == b.ram.access_count
        timed == put_constant_variable(b, time)
        g     == MemoryGate(timed, index_witness, timed.constants[time], x, access)
    IN  [g EXCEPT !.ram.access_count = @ + 1,
                  !.ram.records = Append(@, [index |-> index, time |-> time, x |-> x, access |-> access,
                                             record |-> Added(g), gate |-> Len(g.gates)])]

init_RAM_element(b, index, x) ==
    [RamRecord(IF index = 0 THEN b ELSE put_constant_variable(b, index), ConstantIndex(b, index), x, index, "write")
        EXCEPT !.ram.state[index] = <<x>>]

read_RAM_array(b, index_witness) ==
    LET index == get_variable(b, index_witness)
        added == add_variable(b, get_variable(b, b.ram.state[index][1]))
    IN  RamRecord(added, index_witness, Added(added), index, "read")

write_RAM_array(b, index_witness, x) ==
    LET index == get_variable(b, index_witness)
    IN  [RamRecord(b, index_witness, x, index, "write") EXCEPT !.ram.state[index] = <<x>>]

Cells(memory) == [i \in 1 .. Cardinality(DOMAIN memory.state) |-> i - 1]

\* A mirror of a record over new variables, the two under the two tags.
SortedRom(b, r, tag) ==
    LET vs == add_variable(add_variable(add_variable(b, r.index), get_variable(b, r.c1)), get_variable(b, r.c2))
        n  == Added(vs)
        g  == MemoryGate(vs, n - 2, n - 1, n, "rom")
    IN  [assign_tag(assign_tag(g, r.record, tag), Added(g), tag + 1) EXCEPT !.reads = @ \cup {Len(g.gates), r.gate}]

\* std::sort leaves the order of records with one index open; nothing below depends on it.
process_ROM_array(b) ==
    LET tag    == b.current_tag + 1
        size   == Cardinality(DOMAIN b.rom.state)
        set    == FoldLeft(LAMBDA acc, i : IF acc.rom.state[i] # Unset THEN acc
                                           ELSE set_ROM_element_pair(acc, i, zero_idx, zero_idx),
                           NewTagPair(b), Cells(b.rom))
        sorted == SortSeq(set.rom.records, LAMBDA r, s : r.index < s.index)
        mirror == FoldLeft(LAMBDA acc, r : SortedRom(acc, r, tag), [set EXCEPT !.rom.records = sorted], sorted)
    IN  create_big_add_gate(add_variable(mirror, size), <<Added(mirror) + 1, zero_idx, zero_idx, zero_idx>>,
                            <<1, 0, 0, 0, -size>>, FALSE)

\* The last record of the list has an addition gate that says its index is the last cell.
SortedRam(b, r, tag, last, size) ==
    LET vs == add_variable(add_variable(add_variable(b, r.index), r.time), get_variable(b, r.x))
        n  == Added(vs)
        g  == IF last THEN create_big_add_gate(add_variable(vs, 0), <<n - 2, n - 1, n, n + 1>>,
                                               <<1, 0, 0, 0, 1 - size>>, FALSE)
              ELSE MemoryGate(vs, n - 2, n - 1, n, "ram")
    IN  [assign_tag(assign_tag(g, r.record, tag), n + 1, tag + 1) EXCEPT
            !.reads  = IF r.access = "read" THEN @ \cup {Len(g.gates), r.gate} ELSE @,
            !.writes = IF r.access = "write" THEN @ \cup {Len(g.gates), r.gate} ELSE @]

\* The gate that says what the time between two neighbours in the sorted list is.
TimestampGate(b, index_witness, r, s) ==
    LET delta == IF r.index = s.index THEN s.time - r.time ELSE 0
    IN  AddGate(add_variable(b, delta), <<index_witness, index_witness + 1, Added(b) + 1, zero_idx>>,
                NoSelectors, 0, FALSE, "time")

process_RAM_array(b) ==
    LET tag    == b.current_tag + 1
        size   == Cardinality(DOMAIN b.ram.state)
        set    == FoldLeft(LAMBDA acc, i : IF acc.ram.state[i] # Unset THEN acc ELSE init_RAM_element(acc, i, zero_idx),
                           NewTagPair(b), Cells(b.ram))
        sorted == SortSeq(set.ram.records, LAMBDA r, s : r.index < s.index \/ (r.index = s.index /\ r.time < s.time))
        n      == Len(sorted)
        first(i) == Added(set) + 4 * i - 3        \* the index witness of the i-th sorted record
        mirror == FoldLeft(LAMBDA acc, i : SortedRam(acc, sorted[i], tag, i = n, size),
                           [set EXCEPT !.ram.records = sorted], [i \in 1 .. n |-> i])
        timed  == FoldLeft(LAMBDA acc, i : TimestampGate(acc, first(i), sorted[i], sorted[i + 1]),
                           mirror, [i \in 1 .. n - 1 |-> i])
        closed == create_big_add_gate(timed, <<first(n), first(n) + 1, zero_idx, zero_idx>>, NoSelectors, FALSE)
    IN  FoldLeft(LAMBDA acc, i : create_new_range_constraint(acc, Added(mirror) + i, set.ram.access_count - 1),
                 closed, [i \in 1 .. n - 1 |-> i])

finalize_circuit(b) ==
    IF b.finalized THEN b
    ELSE LET rom == IF b.rom.state = <<>> THEN b ELSE process_ROM_array(b)
             ram == IF b.ram.state = <<>> THEN rom ELSE process_RAM_array(rom)
         IN  [process_range_lists(ram) EXCEPT !.finalized = TRUE]

-----------------------------------------------------------------------------
(* check_circuit. *)

\* The first three wires of a gate and the fourth, which is a record in the gates of the transcripts;
\* behind the last gate all wires are 0.
Wires(b, i) ==
    IF i > Len(b.gates) THEN [v |-> <<0, 0, 0, 0>>, record |-> <<0>>]
    ELSE LET v == [k \in 1 .. NUM_WIRES |-> get_variable(b, b.gates[i].w[k])]
         IN  [v |-> v, record |-> IF i \in b.reads THEN <<v[1], v[2], v[3], 0>>
                                  ELSE IF i \in b.writes THEN <<v[1], v[2], v[3], 1>> ELSE <<v[4]>>]

arithmetic_identity(g, c, n) ==
    g.arith # 0 => 0 = g.q[1] * c.v[1] + g.q[2] * c.v[2] + g.q[3] * c.v[3] + g.q[4] * c.v[4] + g.q[5]
                       + (g.arith - 1) * n.v[4]

genperm_sort_identity(g, c, n) ==
    g.sort => /\ \A k \in 1 .. 3 : c.v[k + 1] - c.v[k] \in 0 .. STEP_SIZE
              /\ n.v[1] - c.v[4] \in 0 .. STEP_SIZE

IsRecord(c, flag) == c.record = <<c.v[1], c.v[2], c.v[3], flag>>

auxilary_identity(g, c, n) ==
    LET index_delta == n.v[1] - c.v[1]
    IN  /\ g.aux = "read" => IsRecord(c, 0)
        /\ g.aux = "write" => IsRecord(c, 1)
        /\ g.aux = "rom" => IsRecord(c, 0) /\ index_delta \in {0, 1} /\ (index_delta = 0 => n.record = c.record)
        /\ g.aux = "ram" => /\ \E flag \in {0, 1} : IsRecord(c, flag)
                            /\ \E flag \in {0, 1} : IsRecord(n, flag)
                            /\ index_delta \in {0, 1}
                            /\ index_delta = 0 /\ IsRecord(n, 0) => n.v[3] = c.v[3]
        /\ g.aux = "time" => (1 - index_delta) * (n.v[2] - c.v[2]) = c.v[3]

\* Every tagged real variable of the gates once: its value under its tag, and under tau of its tag.
TagProductsEqual(b) ==
    LET seen    == {b.real[b.gates[i].w[k]] : i \in DOMAIN b.gates, k \in 1 .. NUM_WIRES}
        tagged  == {x \in seen : b.tag[x] # DUMMY_TAG}
        records == {i \in b.reads \cup b.writes : i \in DOMAIN b.gates}
        value   == [x \in tagged |-> LET own == {i \in records : b.real[b.gates[i].w[4]] = x}
                                     IN  IF own = {} THEN <<b.val[x]>> ELSE Wires(b, CHOOSE i \in own : TRUE).record]
    IN  \A p \in {<<value[x], b.tag[x]>> : x \in tagged} \cup {<<value[x], b.tau[b.tag[x]]>> : x \in tagged} :
            Cardinality({x \in tagged : <<value[x], b.tag[x]>> = p})
                = Cardinality({x \in tagged : <<value[x], b.tau[b.tag[x]]>> = p})

Satisfied(b) ==
    /\ \A i \in DOMAIN b.gates : LET g == b.gates[i]
                                     c == Wires(b, i)
                                     n == Wires(b, i + 1)
                                 IN  arithmetic_identity(g, c, n) /\ auxilary_identity(g, c, n) /\ genperm_sort_identity(g, c, n)
    /\ TagProductsEqual(b)

\* A slip: the constants that finalisation made are not taken back.
restore_prefinilized_stateFault(b, stored) ==
    [stored EXCEPT !.gates = SubSeq(b.gates, 1, Len(stored.gates)), !.failed = b.failed, !.constants = b.constants]

\* What check_circuit puts back: all but the failure, and of the gates the first num_gates.
restore_prefinilized_state(b, stored) ==
    [stored EXCEPT !.gates = SubSeq(b.gates, 1, Len(stored.gates)), !.failed = b.failed]

-----------------------------------------------------------------------------
(* The user of the builder. *)

\* The constructor, and the arrays a session creates.
Constructed(s) ==
    put_constant_variable(
        [val |-> <<>>, real |-> <<>>, next |-> <<>>, prev |-> <<>>, tag |-> <<>>, names |-> {},
         gates |-> <<>>, constants |-> <<>>, current_tag |-> DUMMY_TAG, tau |-> (DUMMY_TAG :> DUMMY_TAG),
         ranges |-> <<>>, reads |-> {}, writes |-> {}, failed |-> FALSE, finalized |-> FALSE,
         rom |-> [state |-> [i \in 0 .. s.rom - 1 |-> Unset], records |-> <<>>],
         ram |-> [state |-> [i \in 0 .. s.ram - 1 |-> Unset], records |-> <<>>, access_count |-> 0]], 0)

Init ==
    /\ session \in Sessions
    /\ builder = FoldLeft(add_variable, Constructed(session), session.values)
    /\ wit = [i \in DOMAIN session.values |-> i + 1]
    /\ asked = <<>> /\ checked = "none"

\* A call: what is asked for, the builder after it, and the variables it returns.
Call(call, b, returned) ==
    /\ call[1] \in session.ops /\ Len(asked) < session.calls /\ ~builder.finalized
    /\ asked' = Append(asked, call)
    /\ builder' = b
    /\ wit' = wit \o returned
    /\ checked' = "none"
    /\ UNCHANGED session

User == ToSet(wit)
IndexOf(memory) == {x \in User : get_variable(builder, x) \in DOMAIN memory.state
                                   /\ memory.state[get_variable(builder, x)] # Unset}
Free(memory) == {i \in DOMAIN memory.state : memory.state[i] = Unset}

AssertEqual == \E x \in User : \E y \in User \ {x} : Call(<<"equal", x, y>>, assert_equal(builder, x, y), <<>>)
RangeConstraint == \E x \in User, r \in Ranges : Call(<<"range", x, r>>, create_new_range_constraint(builder, x, r), <<>>)
Decompose == \E x \in User, n \in NumBits :
    Call(<<"decompose", x, 2^n - 1>>, decompose_into_default_range(builder, x, n), <<>>)
FixWitness == \E x \in User, v \in session.fixes : Call(<<"fix", x, v>>, fix_witness(builder, x, v), <<>>)
SetVariableName == \E x \in User : Call(<<"name", x>>, set_variable_name(builder, x), <<>>)
UpdateVariableNames == \E x \in User : Call(<<"rename", x>>, update_variable_names(builder, x), <<>>)
InitRAM == \E i \in Free(builder.ram), x \in User : Call(<<"init_ram", i, x>>, init_RAM_element(builder, i, x), <<>>)
WriteRAM == \E i \in IndexOf(builder.ram), x \in User :
    Call(<<"write_ram", i, x>>, write_RAM_array(builder, i, x), <<>>)
ReadRAM == \E i \in IndexOf(builder.ram) :
    LET x == Added(builder) + 1 IN Call(<<"read_ram", i, x>>, read_RAM_array(builder, i), <<x>>)
SetROM == \E i \in Free(builder.rom), x \in User :
    Call(<<"set_rom", i, x, zero_idx>>, set_ROM_element(builder, i, x), <<>>)
SetROMPair == \E i \in Free(builder.rom), x, y \in User :
    Call(<<"set_rom_pair", i, x, y>>, set_ROM_element_pair(builder, i, x, y), <<>>)
ReadROM == \E i \in IndexOf(builder.rom) :
    LET x == Added(builder) + 1 IN Call(<<"read_rom", i, x, zero_idx>>, read_ROM_array(builder, i), <<x>>)
ReadROMPair == \E i \in IndexOf(builder.rom) :
    LET x == Added(builder) + 1
    IN  Call(<<"read_rom_pair", i, x, x + 1>>, read_ROM_array_pair(builder, i), <<x, x + 1>>)

CheckCircuit ==
    LET b == finalize_circuit(builder)
    IN  /\ checked' = IF Satisfied(b) THEN "satisfied" ELSE "unsatisfied"
        /\ builder' = restore_prefinilized_state(b, builder)
        /\ UNCHANGED <<session, wit, asked>>

FinalizeCircuit ==
    /\ ~builder.finalized
    /\ builder' = finalize_circuit(builder)
    /\ checked' = "none"
    /\ UNCHANGED <<session, wit, asked>>

Next ==
    \/ AssertEqual \/ RangeConstraint \/ Decompose \/ FixWitness \/ SetVariableName \/ UpdateVariableNames
    \/ InitRAM \/ WriteRAM \/ ReadRAM \/ SetROM \/ SetROMPair \/ ReadROM \/ ReadROMPair
    \/ CheckCircuit \/ FinalizeCircuit

Spec == Init /\ [][Next]_vars

-----------------------------------------------------------------------------
\* The state has the shape the C++ types give it, and no index points past the variables.
TypeOK ==
    LET b == builder
        Indices == DOMAIN b.val
    IN  /\ \A f \in {b.real, b.tag, b.next, b.prev} : DOMAIN f = Indices
        /\ \A x \in Indices : b.real[x] \in Indices /\ {b.next[x], b.prev[x]} \subseteq Indices \cup {None}
        /\ \A x \in Indices : b.tag[x] \in DOMAIN b.tau /\ b.tag[x] <= b.current_tag
        /\ \A v \in DOMAIN b.constants : b.constants[v] \in Indices
        /\ \A i \in DOMAIN b.gates : ToSet(b.gates[i].w) \subseteq Indices
        /\ b.reads \cup b.writes \subseteq DOMAIN b.gates
        /\ b.names \subseteq Indices
        /\ checked \in {"none", "satisfied", "unsatisfied"}

\* The sets of variables that no equality asked for leads out of.
Closed == {U \in SUBSET User : \A k \in DOMAIN asked : asked[k][1] = "equal" => (asked[k][2] \in U <=> asked[k][3] \in U)}

\* assert_equal keeps the copy classes exact: two variables of the user have one real variable just
\* when the equalities asked for imply it, and the chain of a class begins at its first variable, ends
\* at its real variable and passes every member.
CopyClasses ==
    LET b == builder
    IN  /\ \A x, y \in User : b.real[x] = b.real[y] <=> \A U \in Closed : x \in U => y \in U
        /\ \A x \in User :
              LET class == {y \in DOMAIN b.val : b.real[y] = b.real[x]}
              IN  /\ ChainFrom(b, get_first_variable_in_class(b, x)) = class
                  /\ b.next[b.real[x]] = None
                  /\ \A y \in class : b.next[y] # None => b.prev[b.next[y]] = y

-----------------------------------------------------------------------------
\* What the user asked for, in the values the variables have now.
Value(x) == get_variable(builder, x)

\* The address of an access of RAM or ROM: a cell when it is set up, a witness later.
Address(call) == IF call[1] \in {"init_ram", "set_rom", "set_rom_pair"} THEN call[2] ELSE Value(call[2])

\* A read of RAM has the value of the last access before it that wrote its address.
ReadsLastWrite(k) ==
    LET writes == {j \in 1 .. k - 1 : asked[j][1] \in {"init_ram", "write_ram"} /\ Address(asked[j]) = Value(asked[k][2])}
    IN  writes # {} /\ LET j == CHOOSE j \in writes : \A i \in writes : i <= j
                       IN  Value(asked[j][3]) = Value(asked[k][3])

\* A read of ROM has the value, or both values, of the cell.
ReadsCell(k) ==
    \E j \in 1 .. k - 1 : /\ asked[j][1] \in {"set_rom", "set_rom_pair"} /\ Address(asked[j]) = Value(asked[k][2])
                          /\ Value(asked[j][3]) = Value(asked[k][3])
                          /\ asked[k][1] = "read_rom_pair" => Value(asked[j][4]) = Value(asked[k][4])

Holds ==
    \A k \in DOMAIN asked :
        LET call == asked[k]
        IN  CASE call[1] = "equal" -> Value(call[2]) = Value(call[3])
              [] call[1] \in {"range", "decompose"} -> Value(call[2]) <= call[3]
              [] call[1] = "fix" -> Value(call[2]) = call[3]
              [] call[1] = "read_ram" -> ReadsLastWrite(k)
              [] call[1] \in {"read_rom", "read_rom_pair"} -> ReadsCell(k)
              [] OTHER -> TRUE

\* check_circuit accepts only circuits whose witness satisfies everything asked for, whatever was
\* merged, range constrained or read in between, and in which order.
AcceptsOnlyTrue == checked = "satisfied" => Holds

\* A range was asked for a variable that no gate has: create_new_range_constraint adds none, and the
\* tag permutation then misses the variable (the comment at ultra_circuit_builder.cpp:737).
Unused ==
    \E r \in DOMAIN builder.ranges : \E x \in ToSet(builder.ranges[r].variable_indices) :
        \A i \in DOMAIN builder.gates : \A k \in 1 .. NUM_WIRES : builder.real[builder.gates[i].w[k]] # builder.real[x]

\* A cell set as a pair is read as a single value, and the second value is not 0.
HalfRead ==
    \E j, k \in DOMAIN asked : /\ asked[j][1] = "set_rom_pair" /\ asked[k][1] = "read_rom"
                               /\ Address(asked[j]) = Address(asked[k]) /\ Value(asked[j][4]) # 0

\* A builder that reports no failure, for a witness that satisfies everything asked for, has a circuit
\* that is satisfied, but for the two cases above.
AcceptsTrue == checked # "none" /\ ~builder.failed /\ Holds /\ ~Unused /\ ~HalfRead => checked = "satisfied"

\* A class that was given a name keeps one through every merge and update_variable_names.
NamesKept ==
    \A k \in DOMAIN asked : asked[k][1] = "name" =>
        \E x \in builder.names : builder.real[x] = builder.real[asked[k][2]]

\* check_circuit changes nothing of the builder: the gates, tags, records and constants that the
\* finalisation in the head adds are gone, and nothing refers to them.
CheckRestores == [][checked' # "none" => UNCHANGED builder]_vars

\* However calls of assert_equal, set_variable_name, ranges and checks are mixed, the builder's
\* vectors are well formed, its copy classes exact, and named classes keep a name.
BuilderSound == TypeOK /\ CopyClasses /\ NamesKept

\* check_circuit tells true statements from false ones: it is sound, and complete but for the
\* two cases above.
ChecksExactly == AcceptsOnlyTrue /\ AcceptsTrue

=============================================================================
