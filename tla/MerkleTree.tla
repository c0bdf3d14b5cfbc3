----------------------------- MODULE MerkleTree -----------------------------
(***************************************************************************)
(* The sparse Merkle tree over a key-value store with transactions         *)
(* (crypto/merkle_tree/merkle_tree.hpp, memory_store.hpp), the nullifier   *)
(* tree on top of it, and the in-memory trees the repository keeps beside  *)
(* them as references (memory_tree.hpp, nullifier_memory_tree.hpp).  Both  *)
(* trees of a kind receive the same calls.                                 *)
(*                                                                         *)
(* A leaf is a raw field element Raw(v) or the hash of a nullifier leaf.   *)
(* A hash stands for what is hashed: the node of height h is the sequence  *)
(* of its 2^h leaves and hash_pair concatenates, so the store, whose keys  *)
(* are node hashes, holds one entry for all equal subtrees of the tree.    *)
(***************************************************************************)
EXTENDS Naturals, Sequences, FiniteSets

CONSTANTS Depth,         \* depth_
          Values,        \* the values inserted or written
          InitialSize,   \* initial_size of a nullifier tree
          Kinds,         \* subset of {"plain", "nullifier"}
          MaxUpdates,    \* bound: calls of update_element
          MaxCommits     \* bound: calls of commit and of rollback

ASSUME MerkleAssumption ==
    /\ Depth \in Nat \ {0} /\ {MaxUpdates, MaxCommits} \subseteq Nat /\ Values \subseteq Nat
    /\ InitialSize \in 1 .. 2^Depth /\ Kinds \subseteq {"plain", "nullifier"}

VARIABLES kind,
          store_, puts_, deletes_,  \* the MemoryStore; node keys, plus Meta for { tree_id_ }
          hashes_,                  \* MemoryTree: <<height, index>> -> hash
          leaves,                   \* NullifierTree: its vector of leaves
          memLeaves,                \* NullifierMemoryTree: leaves_, Null for an empty one
          saved,                    \* hashes_ at the last commit
          updates, commits,
          why                       \* why the two trees may differ

vars == <<kind, store_, puts_, deletes_, hashes_, leaves, memLeaves, saved, updates, commits, why>>

Indices == 0 .. 2^Depth - 1

Raw(v) == <<0, v, 0, 0>>
Hash(leaf) == <<1, leaf[1], leaf[2], leaf[3]>>
Null == <<>>
LeafHash(leaf) == IF leaf = Null THEN Raw(0) ELSE Hash(leaf)

hash_pair(l, r) == l \o r
bit_set(i, h) == (i \div 2^h) % 2 = 1
keep_n_lsb(i, n) == i % 2^n

\* zero_hashes_[h]: the constructor of the nullifier tree replaces fr(0).
zero_hashes(k, h) == [i \in 1 .. 2^h |-> IF k = "plain" THEN Raw(0) ELSE Hash(<<0, 0, 0>>)]

compute_zero_path_hash(k, height, index, value) ==
    LET up[h \in 0 .. height] ==
            IF h = 0 THEN <<value>>
            ELSE IF bit_set(index, h - 1) THEN hash_pair(zero_hashes(k, h - 1), up[h - 1])
                 ELSE hash_pair(up[h - 1], zero_hashes(k, h - 1))
    IN  up[height]

-----------------------------------------------------------------------------
(* MemoryStore.  A store is the triple [st, pu, de] of its three members.  *)

Meta == <<>>

Restrict(f, S) == [x \in DOMAIN f \cap S |-> f[x]]
Put(f, key, v) == [x \in DOMAIN f \cup {key} |-> IF x = key THEN v ELSE f[x]]

put(db, key, v) == [db EXCEPT !.pu = Put(@, key, v), !.de = @ \ {key}]

del(db, key) == [db EXCEPT !.pu = Restrict(@, DOMAIN @ \ {key}), !.de = @ \cup {key}]

present(db, key) == key \notin db.de /\ key \in DOMAIN db.pu \cup DOMAIN db.st

get(db, key) == IF key \in DOMAIN db.pu THEN db.pu[key] ELSE db.st[key]

DB == [st |-> store_, pu |-> puts_, de |-> deletes_]
SetDB(db) == store_' = db.st /\ puts_' = db.pu /\ deletes_' = db.de

NodeFault(l, r) == <<"node", r, l>>

\* A regular node and a stump; the extra byte of a stump tells them apart.
Node(l, r) == <<"node", l, r>>

Stump(value, index) == <<"stump", value, index>>

-----------------------------------------------------------------------------
(* MerkleTree.                                                             *)

size(db) == IF present(db, Meta) THEN get(db, Meta)[2] ELSE 0

root(db, k) == IF present(db, Meta) THEN get(db, Meta)[1]
               ELSE hash_pair(zero_hashes(k, Depth - 1), zero_hashes(k, Depth - 1))

binary_putFault(db, a_index, a, b, height) ==
    LET l == IF bit_set(a_index, height) THEN b ELSE a
        r == IF bit_set(a_index, height) THEN a ELSE b
    IN  [db |-> put(db, hash_pair(l, r), Node(l, r)), root |-> hash_pair(l, r)]

binary_put(db, a_index, a, b, height) ==
    LET l == IF bit_set(a_index, height - 1) THEN b ELSE a
        r == IF bit_set(a_index, height - 1) THEN a ELSE b
    IN  [db |-> put(db, hash_pair(l, r), Node(l, r)), root |-> hash_pair(l, r)]

\* The height up to which two different indices share their path.
CommonHeight(i, j) == CHOOSE h \in 1 .. Depth : i \div 2^h = j \div 2^h /\ i \div 2^(h - 1) # j \div 2^(h - 1)

\* fork_stump: the two elements part at common; above it, one branch is empty.
fork_stump(k, db, v1, i1, v2, i2, height) ==
    LET common == CommonHeight(i1, i2)
        sh     == common - 1
        s1     == compute_zero_path_hash(k, sh, keep_n_lsb(i1, sh), v1)
        s2     == compute_zero_path_hash(k, sh, keep_n_lsb(i2, sh), v2)
        stumps == put(put(db, s1, Stump(v1, keep_n_lsb(i1, sh))), s2, Stump(v2, keep_n_lsb(i2, sh)))
        up[h \in common .. height] ==
            IF h = common
            THEN binary_put(IF common = 1 THEN db ELSE stumps, i1, s1, s2, h)
            ELSE binary_put(up[h - 1].db, i1, up[h - 1].root, zero_hashes(k, h - 1), h)
    IN  up[height]

\* The subtree roots met from the root downwards, by height, as far as the nodes
\* are regular; every node is read before the first one is written.
Descent(db, k, index) ==
    LET at[n \in 0 .. Depth] ==
            IF n = 0 THEN [found |-> TRUE, root |-> root(db, k)]
            ELSE LET p == at[n - 1]
                 IN  IF p.found /\ present(db, p.root) /\ get(db, p.root)[1] = "node"
                     THEN [found |-> TRUE, root |-> get(db, p.root)[IF bit_set(index, Depth - n) THEN 3 ELSE 2]]
                     ELSE [found |-> FALSE, root |-> <<>>]
    IN  [h \in 0 .. Depth |-> at[Depth - h]]

\* update_element(root, value, index, height), from where the descent ends (a
\* leaf, an empty subtree or a stump) back to the root.
UpdateNodes(db, k, index, value) ==
    LET down   == Descent(db, k, index)
        bottom == CHOOSE h \in 0 .. Depth : down[h].found /\ \A g \in 0 .. h - 1 : ~down[g].found
        local  == keep_n_lsb(index, bottom)
        old    == down[bottom].root
        stump  == compute_zero_path_hash(k, bottom, local, value)
        first  == IF bottom = 0 THEN [db |-> db, root |-> <<value>>]
                  ELSE IF ~present(db, old) \/ get(db, old)[3] = local
                  THEN [db |-> put(db, stump, Stump(value, local)), root |-> stump]
                  ELSE fork_stump(k, db, get(db, old)[2], get(db, old)[3], value, local, bottom)
        up[h \in bottom .. Depth] ==
            IF h = bottom THEN first
            ELSE LET node  == get(db, down[h].root)
                     child == up[h - 1]
                     l     == IF bit_set(index, h - 1) THEN node[2] ELSE child.root
                     r     == IF bit_set(index, h - 1) THEN child.root ELSE node[3]
                     with  == put(child.db, hash_pair(l, r), Node(l, r))
                 IN  [root |-> hash_pair(l, r),
                      db   |-> IF down[h - 1].root = child.root THEN with ELSE del(with, down[h - 1].root)]
    IN  up[Depth]

update_elementFault(db, k, index, value) ==
    LET u == UpdateNodes(db, k, index, value) IN put(u.db, Meta, <<u.root, index + 2>>)

\* update_element(index, value): the entry of the leaf (kept under tree_id_ and
\* index, and never read again) is left out; root and size are saved under Meta.
update_element(db, k, index, value) ==
    LET u == UpdateNodes(db, k, index, value) IN put(u.db, Meta, <<u.root, index + 1>>)

\* get_hash_path: the pairs from the root down; a stump holds the rest.
get_hash_path(db, k, index) ==
    LET at == Descent(db, k, index)
        \* the height whose node is not regular, where the rest comes from
        stop == CHOOSE h \in 0 .. Depth : at[h].found /\ \A g \in 0 .. h - 1 : ~at[g].found
        node == get(db, at[stop].root)
        pair(j) ==
            LET zero    == zero_hashes(k, j)
                current == compute_zero_path_hash(k, j, node[3], node[2])
                same    == node[3] \div 2^(j + 1) = keep_n_lsb(index, stop) \div 2^(j + 1)
            IN  IF ~present(db, at[stop].root) \/ ~same THEN <<zero, zero>>
                ELSE IF bit_set(node[3], j) THEN <<zero, current>> ELSE <<current, zero>>
    IN  [j \in 0 .. Depth - 1 |->
            IF j >= stop THEN <<get(db, at[j + 1].root)[2], get(db, at[j + 1].root)[3]>> ELSE pair(j)]

\* get_sibling_path: the same walk; in a stump one sibling at most is not empty.
get_sibling_path(db, k, index) ==
    LET at == Descent(db, k, index)
        stop == CHOOSE h \in 0 .. Depth : at[h].found /\ \A g \in 0 .. h - 1 : ~at[g].found
        node == get(db, at[stop].root)
        local == keep_n_lsb(index, stop)
        sibling(j) ==
            IF present(db, at[stop].root) /\ node[3] # local /\ CommonHeight(node[3], local) = j + 1
            THEN compute_zero_path_hash(k, j, node[3], node[2]) ELSE zero_hashes(k, j)
    IN  [j \in 0 .. Depth - 1 |->
            IF j >= stop THEN get(db, at[j + 1].root)[IF bit_set(index, j) THEN 2 ELSE 3] ELSE sibling(j)]

-----------------------------------------------------------------------------
(* MemoryTree: every hash of every layer.  Depth + 1 layers here, the last *)
(* being root_.                                                            *)

Slots == UNION {{<<h, i>> : i \in 0 .. 2^(Depth - h) - 1} : h \in 0 .. Depth}

EmptyMemory(k) == [s \in Slots |-> zero_hashes(k, s[1])]

MemUpdate(hs, index, value) ==
    LET up[h \in 0 .. Depth] ==
            IF h = 0 THEN [hs EXCEPT ![<<0, index>>] = <<value>>]
            ELSE LET i == index \div 2^h
                 IN  [up[h - 1] EXCEPT ![<<h, i>>] =
                         hash_pair(up[h - 1][<<h - 1, 2 * i>>], up[h - 1][<<h - 1, 2 * i + 1>>])]
    IN  up[Depth]

MemPath(hs, index) ==
    [j \in 0 .. Depth - 1 |->
        LET i == (index \div 2^j) \div 2 IN <<hs[<<j, 2 * i>>], hs[<<j, 2 * i + 1>>]>>]

MemSiblings(hs, index) ==
    [j \in 0 .. Depth - 1 |->
        LET i == index \div 2^j IN hs[<<j, IF i % 2 = 0 THEN i + 1 ELSE i - 1>>]]

-----------------------------------------------------------------------------
(* Nullifier leaves <<value, nextIndex, nextValue>>; index 0 is element 1. *)

find_closest_leafFault(ls, value) ==
    LET diff(i) == IF ls[i] = Null THEN value
                   ELSE IF ls[i][1] > value THEN ls[i][1] - value ELSE value - ls[i][1]
        first(P(_)) == CHOOSE i \in DOMAIN ls : P(i) /\ \A j \in 1 .. i - 1 : ~P(j)
        equal(i)   == ls[i] # Null /\ ls[i][1] = value
        closest(i) == \A j \in DOMAIN ls : diff(i) <= diff(j)
    IN  IF \E i \in DOMAIN ls : equal(i) THEN <<first(equal), TRUE>> ELSE <<first(closest), FALSE>>

\* find_closest_leaf: the first leaf with the value, or the first at the least
\* distance; a larger leaf counts as far away, an empty one like leaf 0.
find_closest_leaf(ls, value) ==
    LET diff(i) == IF ls[i] = Null THEN value
                   ELSE IF ls[i][1] > value THEN ls[i][1] ELSE value - ls[i][1]
        first(P(_)) == CHOOSE i \in DOMAIN ls : P(i) /\ \A j \in 1 .. i - 1 : ~P(j)
        equal(i)   == ls[i] # Null /\ ls[i][1] = value
        closest(i) == \A j \in DOMAIN ls : diff(i) <= diff(j)
    IN  IF \E i \in DOMAIN ls : equal(i) THEN <<first(equal), TRUE>> ELSE <<first(closest), FALSE>>

LinkLeafFault(ls, value) ==
    LET found == find_closest_leaf(ls, value)
        low   == ls[found[1]]
        new   == <<value, low[2], low[3]>>
    IN  IF found[2] THEN [ls |-> ls, low |-> <<found[1] - 1, low>>, new |-> <<found[1] - 1, new>>]
        ELSE [ls  |-> Append([ls EXCEPT ![found[1]] = <<low[1], Len(ls), value>>], new),
              low |-> <<found[1] - 1, low>>, new |-> <<Len(ls), new>>]

\* The vector after a value was linked in, and the (index, leaf) of the low leaf
\* and of the new one, which is the low leaf itself when the value was there.
LinkLeaf(ls, value) ==
    LET found   == find_closest_leaf(ls, value)
        low     == ls[found[1]]
        linked  == <<low[1], Len(ls), value>>
        new     == <<value, low[2], low[3]>>
    IN  IF found[2] THEN [ls |-> ls, low |-> <<found[1] - 1, low>>, new |-> <<found[1] - 1, new>>]
        ELSE [ls  |-> Append([ls EXCEPT ![found[1]] = linked], new),
              low |-> <<found[1] - 1, linked>>, new |-> <<Len(ls), new>>]

InitialLeaves ==
    [i \in 1 .. InitialSize |-> IF i = InitialSize THEN <<i - 1, 0, 0>> ELSE <<i - 1, i, i>>]

\* The constructors insert the initial leaves one by one.
InitialTrees ==
    LET at[n \in 0 .. InitialSize] ==
            IF n = 0 THEN [db |-> [st |-> Restrict(<<>>, {}), pu |-> Restrict(<<>>, {}), de |-> {}],
                           hs |-> EmptyMemory("nullifier")]
            ELSE [db |-> update_element(at[n - 1].db, "nullifier", n - 1, Hash(InitialLeaves[n])),
                  hs |-> MemUpdate(at[n - 1].hs, n - 1, Hash(InitialLeaves[n]))]
    IN  at[InitialSize]

Init ==
    /\ kind \in Kinds
    /\ IF kind = "plain"
       THEN /\ store_ = Restrict(<<>>, {}) /\ puts_ = Restrict(<<>>, {}) /\ deletes_ = {}
            /\ hashes_ = EmptyMemory("plain") /\ leaves = <<>> /\ memLeaves = <<>>
       ELSE /\ store_ = InitialTrees.db.st /\ puts_ = InitialTrees.db.pu
            /\ deletes_ = InitialTrees.db.de /\ hashes_ = InitialTrees.hs
            /\ leaves = InitialLeaves /\ memLeaves = InitialLeaves
    /\ saved = EmptyMemory(kind)
    /\ updates = 0 /\ commits = 0 /\ why = {}

-----------------------------------------------------------------------------
\* Does writing a leaf of the reference tree take a subtree from hs whose equal
\* is elsewhere in the new tree?  Its node is then deleted for both.
Shares(hs, index, value) ==
    \E h \in 1 .. Depth - 1 :
        LET i == index \div 2^h
        IN  /\ hs[<<h, i>>] # zero_hashes(kind, h)
            /\ hs[<<h, i>>] # MemUpdate(hs, index, value)[<<h, i>>]
            /\ \E j \in 0 .. 2^(Depth - h) - 1 : j # i /\ hs[<<h, j>>] = hs[<<h, i>>]

UpdateElement(index, v) ==
    /\ kind = "plain" /\ updates < MaxUpdates
    /\ SetDB(update_element(DB, kind, index, Raw(v)))
    /\ hashes_' = MemUpdate(hashes_, index, Raw(v))
    /\ why' = why \cup IF Shares(hashes_, index, Raw(v)) THEN {"shared"} ELSE {}
    /\ updates' = updates + 1
    /\ UNCHANGED <<kind, leaves, memLeaves, saved, commits>>

\* NullifierTree::update_element and NullifierMemoryTree::update_element, which
\* treats the value 0 differently: it appends an empty leaf.
InsertNullifier(value) ==
    LET t == LinkLeaf(leaves, value)
        m == LinkLeaf(memLeaves, value)
        last == Len(memLeaves)
    IN  /\ kind = "nullifier" /\ updates < MaxUpdates
        /\ {Len(leaves), Len(memLeaves)} \subseteq Indices
        /\ SetDB(update_element(update_element(DB, kind, t.low[1], Hash(t.low[2])),
                                kind, t.new[1], Hash(t.new[2])))
        /\ leaves' = t.ls
        /\ IF value = 0
           THEN /\ memLeaves' = Append(memLeaves, Null)
                /\ hashes_' = MemUpdate(hashes_, last, LeafHash(Null))
           ELSE /\ memLeaves' = m.ls
                /\ hashes_' = MemUpdate(MemUpdate(hashes_, m.low[1], Hash(m.low[2])),
                                        m.new[1], Hash(m.new[2]))
        /\ why' = why \cup IF value = 0 THEN {"zero"} ELSE {}
        /\ updates' = updates + 1
        /\ UNCHANGED <<kind, saved, commits>>

\* commit: map::insert leaves an entry that exists as it is.
Commit ==
    /\ commits < MaxCommits /\ commits' = commits + 1
    /\ store_' = Restrict([x \in DOMAIN store_ \cup DOMAIN puts_ |->
                              IF x \in DOMAIN store_ THEN store_[x] ELSE puts_[x]],
                          (DOMAIN store_ \cup DOMAIN puts_) \ deletes_)
    /\ puts_' = Restrict(puts_, {}) /\ deletes_' = {}
    /\ why' = why \cup IF Meta \in DOMAIN store_ \cap DOMAIN puts_ /\ store_[Meta] # puts_[Meta]
                       THEN {"recommit"} ELSE {}
    /\ saved' = hashes_
    /\ UNCHANGED <<kind, hashes_, leaves, memLeaves, updates>>

\* rollback: the store forgets; the vector of leaves of a nullifier tree does not.
Rollback ==
    /\ commits < MaxCommits /\ commits' = commits + 1
    /\ puts_' = Restrict(puts_, {}) /\ deletes_' = {}
    /\ hashes_' = saved
    /\ why' = why \cup IF kind = "nullifier" /\ hashes_ # saved THEN {"rollback"} ELSE {}
    /\ UNCHANGED <<kind, store_, leaves, memLeaves, saved, updates>>

Next ==
    \/ \E i \in Indices, v \in Values : UpdateElement(i, v)
    \/ \E v \in Values : InsertNullifier(v)
    \/ Commit \/ Rollback

Spec == Init /\ [][Next]_vars

-----------------------------------------------------------------------------
\* Every node of the in-memory tree covers the leaves below it, the store never
\* holds a key as both put and deleted, and size() is at most the capacity.
TypeOK ==
    /\ kind \in Kinds /\ DOMAIN hashes_ = Slots
    /\ \A s \in Slots : Len(hashes_[s]) = 2^s[1]
    /\ DOMAIN puts_ \cap deletes_ = {}
    /\ \A x \in DOMAIN puts_ \cup DOMAIN store_ : x = Meta \/ \E h \in 0 .. Depth : Len(x) = 2^h
    /\ size(DB) \in 0 .. 2^Depth

(***************************************************************************)
(* The sparse tree and the in-memory tree agree on the root through any    *)
(* updates, commits and rollbacks, except when                             *)
(*  - an update replaced a subtree whose equal is elsewhere in the tree    *)
(*    (the store keeps one node for both and update_element removes it),   *)
(*  - commit met a root it had already stored (map::insert keeps the old), *)
(*  - a nullifier tree was rolled back (its vector of leaves was not), or  *)
(*  - the value 0 was inserted (the two nullifier trees differ on it).     *)
(***************************************************************************)
RootsAgree == why = {} => root(DB, kind) = hashes_[<<Depth, 0>>]

(***************************************************************************)
(* Under the same conditions every hash path and sibling path restored     *)
(* from nodes, stumps and empty subtrees is that of the full tree.         *)
(***************************************************************************)
PathsAgree ==
    why = {} => \A i \in Indices : /\ get_hash_path(DB, kind, i) = MemPath(hashes_, i)
                                   /\ get_sibling_path(DB, kind, i) = MemSiblings(hashes_, i)

\* The ascending list through the leaves that are not empty.
Sorted(ls) ==
    LET I == {i \in DOMAIN ls : ls[i] # Null}
    IN  \A i \in I :
            LET larger == {j \in I : ls[j][1] > ls[i][1]}
            IN  /\ \A j \in I \ {i} : ls[j][1] # ls[i][1]
                /\ IF larger = {} THEN ls[i][2] = 0 /\ ls[i][3] = 0
                   ELSE /\ ls[i][2] + 1 \in larger /\ ls[ls[i][2] + 1][1] = ls[i][3]
                        /\ \A j \in larger : ls[i][3] <= ls[j][1]

(***************************************************************************)
(* Both vectors of nullifier leaves stay one ascending list without        *)
(* repetition, whatever is inserted and however often.                     *)
(***************************************************************************)
NullifiersLinked == Sorted(leaves) /\ Sorted(memLeaves)

(***************************************************************************)
(* The root of the nullifier tree commits to its vector of leaves; a       *)
(* rollback, which the vector does not follow, or a commit that keeps the  *)
(* old root breaks it.                                                     *)
(***************************************************************************)
RootCommitsToLeaves ==
    kind = "nullifier" /\ why \subseteq {"zero"} =>
        root(DB, kind) = [i \in 1 .. 2^Depth |-> IF i <= Len(leaves) THEN Hash(leaves[i]) ELSE Hash(<<0, 0, 0>>)]

(***************************************************************************)
(* The tree of nodes and stumps represents the full tree: the same root    *)
(* and the same paths to every index (update_element, get_hash_path).      *)
(***************************************************************************)
TreesAgree == RootsAgree /\ PathsAgree

(***************************************************************************)
(* The nullifier trees: the store is well formed, the leaves are one list, *)
(* and the root commits to it (NullifierTree::update_element).             *)
(***************************************************************************)
NullifiersSound == TypeOK /\ NullifiersLinked /\ RootCommitsToLeaves

=============================================================================
