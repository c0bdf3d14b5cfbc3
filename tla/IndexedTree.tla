---------------------------- MODULE IndexedTree ----------------------------
(***************************************************************************)
(* The indexed Merkle tree with parallel batch insertion                   *)
(* (crypto/merkle_tree/indexed_tree, over append_only_tree and array_store)*)
(*                                                                         *)
(* A batch first links the new leaves into the ordered list of leaves, one *)
(* after the other, then rewrites the low leaves in the tree.  That is one *)
(* worker per value, each a wavefront from its leaf to the root that       *)
(* follows the worker of the next larger value: it may touch a level only  *)
(* when the LevelSignal of its leader says that the leader is past it.     *)
(* Finally the new leaves are appended as a subtree.                       *)
(*                                                                         *)
(* A hash is modelled by what is hashed: the hash of a leaf is <<leaf>> and*)
(* hash_pair concatenates, so that a node of level l stands for its        *)
(* 2^(Depth - l) leaves and equal hashes are equal subtrees.               *)
(***************************************************************************)
EXTENDS Naturals, Sequences, FiniteSets

CONSTANTS Depth,          \* depth_
          InitialSize,    \* initial_size
          NumThreads,     \* threads of parallel_for, which hands out iterations in order
          Batches,        \* the vectors of values given to add_or_update_values
          MaxBatches      \* bound: batches inserted

Capacity == 2^Depth

ASSUME TreeAssumption ==
    /\ Depth \in Nat \ {0} /\ NumThreads \in Nat \ {0} /\ MaxBatches \in Nat
    /\ InitialSize \in 1 .. Capacity
    /\ \A b \in Batches : b \in Seq(Nat) /\ b # <<>>

VARIABLES leaves,       \* leaves_ of the LeavesCache, a function on 0 .. size - 1
          indices,      \* indices_: value -> index
          nodes,        \* the ArrayStore: <<level, index>> -> hash, <<>> when absent
          root, size,   \* root_ and size_ of the AppendOnlyTree
          phase,        \* "idle", "updating" (workers run) or "crashed"
          insertions,   \* the low leaf each worker writes: [index, leaf]
          signals,      \* signals[i] leads worker i, signals[i + 1] follows it
          worker,       \* [pc, level, index, hash, path] of each worker
          batches,      \* batches so far
          base,         \* the leaf level when the batch began
          regular       \* were all batches aligned, of a power of two new values: "yes", all
                        \* but the latest ("last"), or "no"

vars == <<leaves, indices, nodes, root, size, phase, insertions, signals, worker, batches, base, regular>>

Slots == UNION {{<<l, i>> : i \in 0 .. 2^l - 1} : l \in 0 .. Depth}

hash(leaf) == <<leaf>>
hash_pair(l, r) == l \o r

ZeroLeaf == <<0, 0, 0>>

zero_hashesFault(l) == [i \in 1 .. 2^(Depth - l + 1) |-> ZeroLeaf]

zero_hashes(l) == [i \in 1 .. 2^(Depth - l) |-> ZeroLeaf]

get_element_or_zero(ns, l, i) == IF ns[<<l, i>>] = <<>> THEN zero_hashes(l) ELSE ns[<<l, i>>]

\* The node at an index of a level and its sibling, as (left, right).
PairAt(ns, l, i) ==
    LET left == i - (i % 2)
    IN  <<get_element_or_zero(ns, l, left), get_element_or_zero(ns, l, left + 1)>>

\* The hash of the parent when the node at an index has the given new hash.
Parent(ns, l, i, new_hash) ==
    IF i % 2 = 1 THEN hash_pair(get_element_or_zero(ns, l, i - 1), new_hash)
    ELSE hash_pair(new_hash, get_element_or_zero(ns, l, i + 1))

-----------------------------------------------------------------------------
(* AppendOnlyTree::add_values.  At every level above the leaves, first the *)
(* nodes of the subtree and, once that has a single root, the path from it *)
(* to the root of the tree.  num may be odd: the last hash then has no     *)
(* parent in the subtree.                                                  *)

AddValues(ns, from, hs) ==
    LET written == [s \in Slots |-> IF s[1] = Depth /\ s[2] - from \in 0 .. Len(hs) - 1 /\ s[2] >= from
                                    THEN hs[s[2] - from + 1] ELSE ns[s]]
        climb[k \in 0 .. Depth] ==
            IF k = 0 THEN [num |-> Len(hs), index |-> from, hashes |-> hs, ns |-> written]
            ELSE LET p     == climb[k - 1]
                     num   == IF p.num > 1 THEN p.num \div 2 ELSE 1
                     index == p.index \div 2
                     hashes == IF p.num > 1
                               THEN [i \in 1 .. num |-> hash_pair(p.hashes[2 * i - 1], p.hashes[2 * i])]
                               ELSE <<Parent(p.ns, Depth - k + 1, p.index, p.hashes[1])>>
                 IN  [num |-> num, index |-> index, hashes |-> hashes,
                      ns |-> [s \in Slots |->
                                IF s[1] = Depth - k /\ s[2] >= index /\ s[2] < index + num
                                THEN hashes[s[2] - index + 1] ELSE p.ns[s]]]
    IN  climb[Depth]

\* append_subtree: the hashes of the leaves from an index on.
Subtree(ls, from) == [i \in 1 .. Cardinality(DOMAIN ls) - from |-> hash(ls[from + i - 1])]

Size(ls) == Cardinality(DOMAIN ls)

InitialLeaves ==
    [i \in 0 .. InitialSize - 1 |->
        IF i = InitialSize - 1 THEN <<i, 0, 0>> ELSE <<i, i + 1, i + 1>>]

NoNodes == [s \in Slots |-> <<>>]

Init ==
    /\ leaves = InitialLeaves
    /\ indices = [v \in 0 .. InitialSize - 1 |-> v]
    /\ LET t == AddValues(NoNodes, 0, Subtree(InitialLeaves, 0))
       IN  nodes = t.ns /\ root = t.hashes[1]
    /\ size = InitialSize /\ phase = "idle"
    /\ insertions = <<>> /\ signals = <<>> /\ worker = <<>>
    /\ batches = 0 /\ base = <<>>
    /\ regular = IF \E k \in 0 .. Depth : InitialSize = 2^k THEN "yes" ELSE "no"

-----------------------------------------------------------------------------
(* The sequential part of add_or_update_values.                            *)

\* std::sort in descending order; the order of equal values is unspecified.
SortedOrders(values) ==
    LET I == 1 .. Len(values)
    IN  {p \in [I -> I] : /\ \A i, j \in I : i # j => p[i] # p[j]
                          /\ \A i, j \in I : i < j => values[p[i]] >= values[p[j]]}

FindLowValueFault(ix, value) ==
    IF value \in DOMAIN ix THEN <<TRUE, ix[value]>>
    ELSE LET high == CHOOSE v \in DOMAIN ix : \A w \in DOMAIN ix : w <= v
         IN  <<FALSE, ix[high]>>

\* LeavesCache::find_low_value: the value itself or the largest one below it.
FindLowValue(ix, value) ==
    IF value \in DOMAIN ix THEN <<TRUE, ix[value]>>
    ELSE LET low == CHOOSE v \in DOMAIN ix : v < value /\ \A w \in DOMAIN ix : w < value => w <= v
         IN  <<FALSE, ix[low]>>

\* LeavesCache::set_at_index, which fills a gap with zero leaves.
SetAtIndex(ls, index, leaf) ==
    LET n == IF index >= Size(ls) THEN index + 1 ELSE Size(ls)
    IN  [i \in 0 .. n - 1 |-> IF i = index THEN leaf ELSE IF i < Size(ls) THEN ls[i] ELSE ZeroLeaf]

LinkFault(st, value, index_of_new_leaf) ==
    LET low     == FindLowValue(st.ix, value)
        current == st.ls[low[2]]
        linked  == <<current[1], index_of_new_leaf, value>>
    IN  [ls  |-> SetAtIndex(SetAtIndex(st.ls, low[2], linked),
                            index_of_new_leaf, <<value, current[2], current[3]>>),
         ix  |-> [v \in DOMAIN st.ix \cup {value} |-> IF v = value THEN index_of_new_leaf ELSE st.ix[v]],
         ins |-> Append(st.ins, [index |-> low[2], leaf |-> current])]

\* One round of the loop over the sorted values.
Link(st, value, index_of_new_leaf) ==
    LET low     == FindLowValue(st.ix, value)
        current == st.ls[low[2]]
        linked  == <<current[1], index_of_new_leaf, value>>
    IN  IF low[1]
        THEN [st EXCEPT !.ins = Append(@, [index |-> low[2], leaf |-> current])]
        ELSE [ls  |-> SetAtIndex(SetAtIndex(st.ls, low[2], linked),
                                 index_of_new_leaf, <<value, current[2], current[3]>>),
              ix  |-> [v \in DOMAIN st.ix \cup {value} |-> IF v = value THEN index_of_new_leaf ELSE st.ix[v]],
              ins |-> Append(st.ins, [index |-> low[2], leaf |-> linked])]

LinkAll(values, order) ==
    LET st[i \in 0 .. Len(values)] ==
            IF i = 0 THEN [ls |-> leaves, ix |-> indices, ins |-> <<>>]
            ELSE Link(st[i - 1], values[order[i]], Size(leaves) + order[i] - 1)
    IN  st[Len(values)]

InitialSignalsFault(n) == [i \in 1 .. n + 1 |-> IF i = 1 THEN 0 ELSE Depth - 1]

\* The first signal is clear; every other one is above the leaves.
InitialSignals(n) == [i \in 1 .. n + 1 |-> IF i = 1 THEN 0 ELSE 1 + Depth]

\* A batch the tree is built for: distinct new values, a power of two of them,
\* beginning at a multiple of that.
RegularBatch(values) ==
    /\ \E k \in 0 .. Depth : Len(values) = 2^k
    /\ size % Len(values) = 0 /\ Size(leaves) = size
    /\ \A i, j \in DOMAIN values : i # j => values[i] # values[j]
    /\ \A i \in DOMAIN values : values[i] \notin DOMAIN indices

AddOrUpdateValues(values) ==
    /\ phase = "idle" /\ batches < MaxBatches
    /\ Size(leaves) + Len(values) <= Capacity
    /\ \E order \in SortedOrders(values) :
           LET st == LinkAll(values, order)
           IN  /\ leaves' = st.ls /\ indices' = st.ix /\ insertions' = st.ins
    /\ signals' = InitialSignals(Len(values))
    /\ worker' = [i \in 1 .. Len(values) |->
                     [pc |-> "ready", level |-> Depth, index |-> 0, hash |-> <<>>, path |-> <<>>]]
    /\ phase' = "updating" /\ batches' = batches + 1
    /\ base' = [i \in 0 .. Capacity - 1 |-> get_element_or_zero(nodes, Depth, i)]
    /\ regular' = IF regular # "yes" THEN "no" ELSE IF RegularBatch(values) THEN "yes" ELSE "last"
    /\ UNCHANGED <<nodes, root, size>>

-----------------------------------------------------------------------------
(* update_leaf_and_hash_to_root.  A wait, a group of reads, a write and a  *)
(* signal are steps of their own.                                          *)

Workers == DOMAIN worker
Leader(i) == signals[i]

\* Worker i goes to pc with the given changes of its locals.
Become(i, w) == worker' = [worker EXCEPT ![i] = w]

same == <<leaves, indices, root, size, phase, insertions, batches, base, regular>>

StartFault(i) ==
    /\ worker[i].pc = "ready"
    /\ \A j \in i + 1 .. Len(worker) : worker[j].pc # "ready"
    /\ Cardinality({j \in Workers : worker[j].pc \notin {"ready", "done"}}) < NumThreads
    /\ Become(i, [worker[i] EXCEPT !.pc = "waitLeaf", !.index = insertions[i].index,
                                   !.hash = hash(insertions[i].leaf)])
    /\ UNCHANGED <<same, nodes, signals>>

\* parallel_for starts the iterations in order, on a bounded number of threads.
Start(i) ==
    /\ worker[i].pc = "ready"
    /\ \A j \in 1 .. i - 1 : worker[j].pc # "ready"
    /\ Cardinality({j \in Workers : worker[j].pc \notin {"ready", "done"}}) < NumThreads
    /\ Become(i, [worker[i] EXCEPT !.pc = "waitLeaf", !.index = insertions[i].index,
                                   !.hash = hash(insertions[i].leaf)])
    /\ UNCHANGED <<same, nodes, signals>>

\* leader.wait_for_level, and what it protects.
WaitForLevel(i, from, required, to) ==
    /\ worker[i].pc = from /\ Leader(i) <= required
    /\ Become(i, [worker[i] EXCEPT !.pc = to])
    /\ UNCHANGED <<same, nodes, signals>>

WaitLeaf(i)  == WaitForLevel(i, "waitLeaf", Depth - 1, "readLeaf")

WaitAbove(i) == WaitForLevel(i, "waitAbove", worker[i].level - 1, "readAbove")

WaitWriteFault(i) == WaitForLevel(i, "waitWrite", worker[i].level, "write")

WaitWrite(i) == WaitForLevel(i, "waitWrite", worker[i].level - 1, "write")

\* The pair of the leaf level, and later the pair of the level above.
ReadPair(i) ==
    LET w == worker[i]
    IN  /\ w.pc \in {"readLeaf", "readAbove"}
        /\ Become(i, IF w.pc = "readLeaf"
                     THEN [w EXCEPT !.pc = "write", !.path = <<PairAt(nodes, Depth, w.index)>>]
                     ELSE [w EXCEPT !.pc = "readSibling",
                                    !.path = Append(@, PairAt(nodes, w.level - 1, w.index \div 2))])
        /\ UNCHANGED <<same, nodes, signals>>

\* The new hash of the level above, from the sibling at this level.
ReadSibling(i) ==
    LET w == worker[i]
    IN  /\ w.pc = "readSibling"
        /\ Become(i, [w EXCEPT !.pc = IF w.level = 1 THEN "write" ELSE "waitWrite",
                               !.hash = Parent(nodes, w.level, w.index, w.hash),
                               !.index = w.index \div 2, !.level = w.level - 1])
        /\ UNCHANGED <<same, nodes, signals>>

WriteNode(i) ==
    LET w == worker[i]
    IN  /\ w.pc = "write"
        /\ nodes' = [nodes EXCEPT ![<<w.level, w.index>>] = w.hash]
        /\ Become(i, [w EXCEPT !.pc = "signal"])
        /\ UNCHANGED <<same, signals>>

\* follower.signal_level, then the next round of the loop.
SignalLevel(i) ==
    LET w == worker[i]
    IN  /\ w.pc = "signal"
        /\ signals' = [signals EXCEPT ![i + 1] = w.level]
        /\ Become(i, [w EXCEPT !.pc = CASE w.level = 0 -> "done"
                                        [] w.level = 1 -> "readSibling"
                                        [] OTHER -> "waitAbove"])
        /\ UNCHANGED <<same, nodes>>

\* parallel_for returns; root_ = append_subtree(old_size).  A batch that added
\* no leaf reads the first element of an empty vector.  (old_size is size_: both
\* grow by the leaves appended.)
AppendSubtree ==
    /\ phase = "updating" /\ \A i \in Workers : worker[i].pc = "done"
    /\ LET hs == Subtree(leaves, size)
           t  == AddValues(nodes, size, hs)
       IN  IF hs = <<>> THEN phase' = "crashed" /\ UNCHANGED <<nodes, root, size>>
           ELSE nodes' = t.ns /\ root' = t.hashes[1] /\ size' = size + Len(hs) /\ phase' = "idle"
    /\ UNCHANGED <<leaves, indices, insertions, signals, worker, batches, base, regular>>

WorkerStep(i) ==
    \/ Start(i) \/ WaitLeaf(i) \/ WaitAbove(i) \/ WaitWrite(i)
    \/ ReadPair(i) \/ ReadSibling(i) \/ WriteNode(i) \/ SignalLevel(i)

Next ==
    \/ \E b \in Batches : AddOrUpdateValues(b)
    \/ \E i \in Workers : WorkerStep(i)
    \/ AppendSubtree

\* Threads of a running batch are scheduled; nobody has to insert.
Spec == Init /\ [][Next]_vars /\ WF_vars(AppendSubtree \/ \E i \in Workers : WorkerStep(i))

-----------------------------------------------------------------------------
Leaf == Nat \X Nat \X Nat

\* A batch never grows the tree past its capacity, every stored node covers
\* exactly the leaves below its slot, and a worker climbing in
\* update_leaf_and_get_hash_path stays between the root and the leaves.
TypeOK ==
    /\ phase \in {"idle", "updating", "crashed"}
    /\ Size(leaves) <= Capacity /\ size <= Capacity
    /\ \A i \in DOMAIN leaves : leaves[i] \in Leaf
    /\ \A s \in Slots : nodes[s] = <<>> \/ Len(nodes[s]) = 2^(Depth - s[1])
    /\ Len(root) = Capacity
    /\ \A i \in Workers : worker[i].level \in 0 .. Depth

\* The slots a worker reads and writes in its next step.
Reads(w) ==
    CASE w.pc = "readLeaf"    -> {<<Depth, w.index>>, <<Depth, w.index - (w.index % 2)>>,
                                  <<Depth, w.index - (w.index % 2) + 1>>}
      [] w.pc = "readAbove"   -> LET a == w.index \div 2
                                 IN  {<<w.level - 1, a - (a % 2)>>, <<w.level - 1, a - (a % 2) + 1>>}
      [] w.pc = "readSibling" -> {<<w.level, IF w.index % 2 = 1 THEN w.index - 1 ELSE w.index + 1>>}
      [] OTHER -> {}
Writes(w) == IF w.pc = "write" THEN {<<w.level, w.index>>} ELSE {}

(***************************************************************************)
(* The slots of the store are plain memory: the level signals are all that *)
(* keeps a worker from writing a node another worker is reading or writing.*)
(***************************************************************************)
NoDataRace ==
    \A i, j \in Workers : i # j =>
        Writes(worker[i]) \cap (Writes(worker[j]) \cup Reads(worker[j])) = {}

\* The leaf level after the first k low leaves of the batch were rewritten.
After(k) ==
    LET st[j \in 0 .. k] == IF j = 0 THEN base
                            ELSE [st[j - 1] EXCEPT ![insertions[j].index] = hash(insertions[j].leaf)]
    IN  st[k]

\* The subtree under a node, from the leaf level.
Under(ls, l, i) ==
    LET n == 2^(Depth - l) IN [k \in 1 .. n |-> ls[i * n + k - 1][1]]

(***************************************************************************)
(* Whatever the interleaving, the hash path returned for a value is the    *)
(* one of a sequential insertion: its leaders' writes are in it and its    *)
(* followers' are not.  (The circuits replay the insertions one by one.)   *)
(* It takes a store that matches the leaves when the batch begins.         *)
(***************************************************************************)
PathsSequential ==
    regular # "no" => \A i \in Workers : \A k \in 1 .. Len(worker[i].path) :
        LET l == Depth - k + 1
            x == (insertions[i].index \div 2^(k - 1)) \div 2
        IN  worker[i].path[k] = <<Under(After(i - 1), l, 2 * x), Under(After(i - 1), l, 2 * x + 1)>>

(***************************************************************************)
(* Between batches every stored node, and the root, is the hash of the     *)
(* leaves below it.  It takes batches the subtree insertion is built for:  *)
(* distinct new values, a power of two of them, aligned to that power.     *)
(***************************************************************************)
TreeMatchesLeaves ==
    phase = "idle" /\ regular = "yes" =>
        LET all == [i \in 0 .. Capacity - 1 |-> IF i < Size(leaves) THEN hash(leaves[i]) ELSE hash(ZeroLeaf)]
        IN  /\ size = Size(leaves) /\ root = Under(all, 0, 0)
            /\ \A s \in Slots : nodes[s] # <<>> => nodes[s] = Under(all, s[1], s[2])
            /\ \A i \in DOMAIN leaves : nodes[<<Depth, i>>] # <<>>

(***************************************************************************)
(* The leaves form one ascending list from leaf 0 through every value that *)
(* was inserted, whatever the batches contained: duplicates and values     *)
(* already present included.                                               *)
(***************************************************************************)
SortedList ==
    LET vs == DOMAIN indices
    IN  \A v \in vs :
            LET leaf   == leaves[indices[v]]
                larger == {w \in vs : w > v}
            IN  /\ leaf[1] = v
                /\ IF larger = {} THEN leaf[2] = 0 /\ leaf[3] = 0
                   ELSE /\ leaf[3] \in larger /\ \A w \in larger : leaf[3] <= w
                        /\ leaf[2] = indices[leaf[3]]

(***************************************************************************)
(* A batch completes: with fewer threads than values, no worker holds a    *)
(* thread while it waits for a leader that has not been started.           *)
(***************************************************************************)
BatchCompletes == (phase = "updating") ~> (phase # "updating")

(***************************************************************************)
(* Between batches leaves, store, root and size describe one tree whose    *)
(* leaves are one ascending list (add_or_update_values, add_values).       *)
(***************************************************************************)
TreeSound == TypeOK /\ TreeMatchesLeaves /\ SortedList

=============================================================================
