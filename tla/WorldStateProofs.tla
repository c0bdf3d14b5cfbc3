-------------------------- MODULE WorldStateProofs --------------------------
(***************************************************************************)
(* Proofs about WorldState, for every number of trees, blocks and crashes, *)
(* whatever the blocks hold, and wherever the process may end once the     *)
(* database is populated: what is committed was published, nodes and       *)
(* leaves, snapshots are exact, and the synchronizer throws only on trees  *)
(* that a crash has torn.                                                  *)
(***************************************************************************)
EXTENDS WorldState, SequenceTheorems, TLAPS

AnyTrees == [Trees -> Seq(Leaves) \cup Seq(States)]
Blocks == [body : Bodies, trees : AnyTrees]

\* Every tree holds leaves, the archive headers.
IsTrees(f) ==
    /\ f \in AnyTrees
    /\ \A t \in StateTrees : f[t] \in Seq(Leaves)
    /\ f[Archive] \in Seq(States)

\* The last header in the archive is that of the other trees.
Sealed(f) == f[Archive] # <<>> /\ f[Archive][Len(f[Archive])] = StateOf(f)

\* The trees after a block on top of the trees f.
Successor(f, body) == Seal(Extend(f, body), StateOf(Extend(f, body)))

\* Every block adds a leaf to every tree; the archive begins with one.
Sized(f, n) == Len(f[Archive]) = n + 1 /\ \A t \in StateTrees : Len(f[t]) = n

\* A block that was built on top of a published one.
Grown(b) ==
    /\ b.body \in Bodies
    /\ \E m \in 0..Len(chain) : b.trees = Successor(After(m), b.body)

\* The trees f are the trees g, those before position k with a leaf more.
GrowingFrom(g, f, body, k) ==
    \A i \in 1..Len(TreeOrder) :
        f[TreeOrder[i]] = IF i < k THEN Append(g[TreeOrder[i]], body[TreeOrder[i]])
                          ELSE g[TreeOrder[i]]

\* Trees that are being built on top of a published block.
Growing(f, body, k) == \E m \in 0..Len(chain) : GrowingFrom(After(m), f, body, k)

-----------------------------------------------------------------------------
(* The inductive invariant *)

\* Every published block is its predecessor's trees with a leaf more in each,
\* and the header of the result in the archive.
ChainOK ==
    /\ chain \in Seq(Blocks)
    /\ Len(chain) <= MaxBlocks
    /\ \A n \in 0..Len(chain) : IsTrees(After(n)) /\ Sealed(After(n)) /\ Sized(After(n), n)
    /\ \A n \in 1..Len(chain) : chain[n].trees = Successor(After(n - 1), chain[n].body)

\* The archiver follows the chain; a block that was sent was built on it.
L1OK ==
    /\ source \in 0..Len(chain)
    /\ mempool # None => mempool \in Blocks /\ Grown(mempool)

\* The trees of the database before it is populated.
CreateOK ==
    /\ created \subseteq Trees
    /\ Archive \in created => created = Trees
    /\ Archive \notin created => /\ pc \in {"down", "create", "createLeaves"}
                                  /\ committed = EmptyTrees
    /\ pc \in {"create", "createLeaves"} =>
           /\ Archive \notin created
           /\ \A i \in 1..(step - 1) : TreeOrder[i] \in created
    /\ pc = "createLeaves" => TreeOrder[step] \in created /\ TreeOrder[step] \in Indexed
    /\ pc = "populate" => /\ latest = Genesis
                          /\ \A i \in 1..(step - 1) :
                                 committed[TreeOrder[i]] = Genesis[TreeOrder[i]]
    /\ Archive \notin created \/ pc = "populate" => blockNumber = 0

\* The block before which, or in which, the trees are, and the one after it.
InBlock(t) == committed[t] = After(blockNumber)[t]
InNext(t) == blockNumber < source /\ committed[t] = After(blockNumber + 1)[t]

\* The database is populated.
Populated == Archive \in created /\ pc # "populate"

\* Every tree is committed as of the last block handled or of the next; the
\* archive comes last.
CommitOK ==
    /\ IsTrees(committed)
    /\ blockNumber \in 0..source
    /\ Populated => \A t \in Trees : InBlock(t) \/ InNext(t)
    /\ Populated /\ ~ InBlock(Archive) => \A t \in Trees : InNext(t)

\* The leaves of an indexed tree are those of its nodes.
Fresh(t) == preimages[t] = committed[t]

\* The leaves of an indexed tree, too, are committed as of the last block handled
\* or of the next; they may lag behind its nodes, and then the archive does too.
LeavesOK ==
    /\ preimages \in [Indexed -> Seq(Leaves) \cup {None}]
    /\ pc \in {"create", "createLeaves"} =>
           \A i \in 1..(step - 1) : TreeOrder[i] \in Indexed => preimages[TreeOrder[i]] = <<>>
    /\ pc = "populate" => \A t \in Indexed : preimages[t] = <<>>
    /\ Populated => \A t \in Indexed :
           Fresh(t) \/ (preimages[t] = After(blockNumber)[t] /\ InNext(t) /\ InBlock(Archive))
    /\ pc \in {"commit", "check", "snapshot", "number"} => \A t \in Indexed : Fresh(t)
    /\ pc = "commitLeaves" => \A t \in Indexed : t # TreeOrder[step] => Fresh(t)

\* Some trees are committed as of the next block and some are not.
Ripped ==
    /\ blockNumber < source
    /\ committed # After(blockNumber)
    /\ committed # After(blockNumber + 1)

\* What the synchronizer has done of the block it is handling.
SyncOK ==
    /\ pc \in {"down", "create", "createLeaves", "populate", "idle", "commit", "commitLeaves",
               "check", "snapshot", "number"}
    /\ step \in 1..Len(TreeOrder)
    /\ target \in Nat
    /\ pc \in {"commit", "commitLeaves", "check", "snapshot", "number"} => blockNumber < source
    /\ pc \in {"commit", "commitLeaves", "check", "snapshot"} => latest = After(blockNumber + 1)
    /\ pc \in {"commit", "commitLeaves"} => \A i \in 1..(step - 1) : InNext(TreeOrder[i])
    /\ pc = "commitLeaves" => TreeOrder[step] \in Indexed /\ InNext(TreeOrder[step])
    /\ pc = "check" => step = 1
    /\ pc \in {"check", "snapshot", "number"} => \A t \in Trees : InNext(t)
    /\ pc \in {"down", "create", "createLeaves"} => latest = committed
    /\ pc \in {"down", "create", "createLeaves", "populate"} => builder = NoBuild
    /\ pc = "idle" /\ committed # After(blockNumber) =>
           blockNumber < target /\ builder = NoBuild /\ latest = committed
    /\ threw => pc \in {"down", "idle"} /\ Populated /\ Ripped

\* Snapshots are those of published blocks, and of every block handled.
SnapshotsOK ==
    /\ snapshots \in [Trees -> [1..MaxBlocks -> Seq(Leaves) \cup Seq(States) \cup {None}]]
    /\ \A t \in Trees, n \in 1..MaxBlocks :
           \/ snapshots[t][n] = None /\ n > blockNumber
           \/ n <= Len(chain) /\ snapshots[t][n] = After(n)[t]
    /\ pc = "snapshot" => \A i \in 1..(step - 1) : snapshots[TreeOrder[i]][blockNumber + 1] # None
    /\ pc = "number" => \A t \in Trees : snapshots[t][blockNumber + 1] # None

\* The last block whose trees are committed, between jobs on the trees.
Done == IF pc = "number" THEN blockNumber + 1 ELSE blockNumber

\* What the sequencer has left in the uncommitted trees: the archive is as it is
\* committed or its last header is that of the other trees; and what it can
\* publish was built on top of a published block.
BuilderOK ==
    /\ IsTrees(latest)
    /\ lastPublished \in Nat
    /\ builder \in [at : {"idle", "build", "built", "rollback"}, step : Nat,
                    number : Nat, body : Bodies \cup {None}, trees : AnyTrees \cup {None}]
    /\ builder.at = "idle" => builder = NoBuild
    /\ builder.at = "build" => /\ builder.body \in Bodies
                               /\ builder.step \in 1..Len(TreeOrder)
                               /\ builder.trees \in AnyTrees
                               /\ Growing(builder.trees, builder.body, builder.step)
    /\ builder.at = "built" =>
           builder.trees \in AnyTrees /\ Grown(builder) /\ Sealed(latest)
    /\ TreesFree /\ builder.at = "build" => latest[Archive] = committed[Archive]
    /\ TreesFree /\ builder.at = "rollback" =>
           latest[Archive] = committed[Archive] \/ Sealed(latest)
    /\ TreesFree /\ builder.at = "idle" =>
           latest = committed \/ (Sealed(latest) /\ lastPublished > Done)

(* The inductive invariant.  CommittedIsPublished is not inductive: what is  *)
(* committed next is what is in memory, which a sequencer has changed.  That *)
(* a block found to be ours is exactly the published one, zero leaves        *)
(* included, rests on its header being the last leaf of the archive          *)
(* (BuilderOK, ChainOK); that a torn database is never built upon, on the    *)
(* order of the commits and on what Boot waits for (CommitOK, LeavesOK,      *)
(* SyncOK).                                                                  *)
IInv ==
    /\ ChainOK /\ L1OK /\ CreateOK /\ CommitOK /\ LeavesOK
    /\ SyncOK /\ SnapshotsOK /\ BuilderOK

-----------------------------------------------------------------------------
(* The trees and their order *)

(* TreeOrder lists every tree once, the archive last. *)
LEMMA Order ==
    /\ Len(TreeOrder) \in Nat /\ Len(TreeOrder) >= 1
    /\ \A i \in 1..Len(TreeOrder) : TreeOrder[i] \in Trees
    /\ \A t \in Trees : \E i \in 1..Len(TreeOrder) : TreeOrder[i] = t
    /\ \A i, j \in 1..Len(TreeOrder) : TreeOrder[i] = TreeOrder[j] => i = j
    /\ TreeOrder[Len(TreeOrder)] = Archive
    /\ Archive \in Trees /\ Archive \notin StateTrees
    /\ \A t \in Trees : t # Archive => t \in StateTrees
    /\ \A t \in StateTrees : t \in Trees
    /\ Marker \in Trees /\ Marker # Archive
    /\ \A t \in Indexed : t \in StateTrees /\ t \in Trees /\ t # Archive
<1>1. TreeOrder \in Seq(Trees) /\ TreeOrder # <<>> /\ Archive = Last(TreeOrder)
  BY WorldStateAssumption
<1>2. Len(TreeOrder) \in Nat /\ Len(TreeOrder) >= 1 /\ DOMAIN TreeOrder = 1..Len(TreeOrder)
  BY <1>1
<1>3. \A i \in 1..Len(TreeOrder) : TreeOrder[i] \in Trees
  BY <1>1
<1>4. \A t \in Trees : \E i \in 1..Len(TreeOrder) : TreeOrder[i] = t
  BY <1>2 DEF Trees, ToSet
<1>5. \A i, j \in 1..Len(TreeOrder) : TreeOrder[i] = TreeOrder[j] => i = j
  BY <1>2, WorldStateAssumption DEF IsInjective
<1>6. TreeOrder[Len(TreeOrder)] = Archive
  BY <1>1 DEF Last
<1>7. Archive \in Trees
  BY <1>2, <1>3, <1>6
<1> QED
  BY <1>2, <1>3, <1>4, <1>5, <1>6, <1>7, WorldStateAssumption DEF StateTrees

(* The trees before the last position are those that blocks add leaves to. *)
LEMMA BeforeLast ==
    \A i \in 1..Len(TreeOrder) : i < Len(TreeOrder) => TreeOrder[i] \in StateTrees
<1> SUFFICES ASSUME NEW i \in 1..Len(TreeOrder), i < Len(TreeOrder)
             PROVE  TreeOrder[i] \in StateTrees
  OBVIOUS
<1>1. TreeOrder[i] # TreeOrder[Len(TreeOrder)]
  BY Order
<1> QED
  BY <1>1, Order

(* An indexed tree is not the last one. *)
LEMMA IndexedBefore ==
    \A i \in 1..Len(TreeOrder) : TreeOrder[i] \in Indexed => i < Len(TreeOrder)
<1> SUFFICES ASSUME NEW i \in 1..Len(TreeOrder), TreeOrder[i] \in Indexed
             PROVE  i < Len(TreeOrder)
  OBVIOUS
<1>1. TreeOrder[i] # TreeOrder[Len(TreeOrder)]
  BY Order
<1> QED
  BY <1>1, Order

(* A sequence with whatever is appended is longer by one. *)
LEMMA Longer ==
    ASSUME NEW S, NEW s \in Seq(S), NEW x
    PROVE  Len(Append(s, x)) = Len(s) + 1
<1>1. s \in Seq(S \cup {x}) /\ x \in S \cup {x}
  OBVIOUS
<1> QED
  BY <1>1

(* Trees that agree everywhere are equal. *)
LEMMA TreesEqual ==
    ASSUME NEW f \in AnyTrees, NEW g \in AnyTrees, \A t \in Trees : f[t] = g[t]
    PROVE  f = g
BY DEF AnyTrees

LEMMA TreesEqualInOrder ==
    ASSUME NEW f \in AnyTrees, NEW g \in AnyTrees,
           \A i \in 1..Len(TreeOrder) : f[TreeOrder[i]] = g[TreeOrder[i]]
    PROVE  f = g
<1>1. \A t \in Trees : f[t] = g[t]
  BY Order
<1> QED
  BY <1>1, TreesEqual

(* A state is one of those that headers hold. *)
LEMMA StateType ==
    ASSUME NEW f, IsTrees(f)
    PROVE  StateOf(f) \in States
BY Order DEF IsTrees, StateOf, States

(* Trees that agree on all but the archive have the same state, and only they. *)
LEMMA StateEqual ==
    ASSUME NEW f, NEW g
    PROVE  StateOf(f) = StateOf(g) <=> \A t \in StateTrees : f[t] = g[t]
BY DEF StateOf

(* What Extend does to each tree. *)
LEMMA Extended ==
    ASSUME NEW f, IsTrees(f), NEW body \in Bodies
    PROVE  /\ IsTrees(Extend(f, body))
           /\ Extend(f, body)[Archive] = f[Archive]
           /\ \A t \in StateTrees : /\ Extend(f, body)[t] = Append(f[t], body[t])
                                    /\ Len(Extend(f, body)[t]) = Len(f[t]) + 1
<1>1. \A t \in StateTrees : body[t] \in Leaves
  BY DEF Leaves
<1>2. \A t \in StateTrees : /\ Extend(f, body)[t] = Append(f[t], body[t])
                            /\ f[t] \in Seq(Leaves)
  BY Order DEF Extend, IsTrees
<1>3. \A t \in StateTrees : /\ Append(f[t], body[t]) \in Seq(Leaves)
                            /\ Len(Append(f[t], body[t])) = Len(f[t]) + 1
  BY <1>1, <1>2
<1>4. Extend(f, body)[Archive] = f[Archive] /\ f[Archive] \in Seq(States)
  BY Order DEF Extend, IsTrees
<1>5. \A t \in Trees : Extend(f, body)[t] \in Seq(Leaves) \cup Seq(States)
  <2> SUFFICES ASSUME NEW t \in Trees
               PROVE  Extend(f, body)[t] \in Seq(Leaves) \cup Seq(States)
    OBVIOUS
  <2> HIDE DEF Extend
  <2>1. CASE t = Archive
    BY <1>4, <2>1
  <2>2. CASE t \in StateTrees
    <3>1. Extend(f, body)[t] \in Seq(Leaves)
      BY <1>2, <1>3, <2>2, Zenon
    <3> QED
      BY <3>1
  <2> QED
    BY <2>1, <2>2, Order
<1>6. Extend(f, body) \in AnyTrees
  <2>1. Extend(f, body) = [t \in Trees |-> Extend(f, body)[t]]
    BY DEF Extend
  <2> HIDE DEF Extend
  <2> QED
    BY <1>5, <2>1 DEF AnyTrees
<1> QED
  BY <1>2, <1>3, <1>4, <1>6 DEF IsTrees

(* What Seal does to each tree. *)
LEMMA SealedBy ==
    ASSUME NEW f, IsTrees(f), NEW s \in States
    PROVE  /\ IsTrees(Seal(f, s))
           /\ Seal(f, s)[Archive] = Append(f[Archive], s)
           /\ \A t \in StateTrees : Seal(f, s)[t] = f[t]
           /\ StateOf(Seal(f, s)) = StateOf(f)
<1>1. Seal(f, s)[Archive] = Append(f[Archive], s)
  BY Order DEF Seal, IsTrees, AnyTrees
<1>2. \A t \in StateTrees : Seal(f, s)[t] = f[t]
  BY Order DEF Seal, IsTrees, AnyTrees
<1>3. Append(f[Archive], s) \in Seq(States)
  BY DEF IsTrees
<1>4. Seal(f, s) \in AnyTrees
  <2>1. Seal(f, s) = [t \in Trees |-> Seal(f, s)[t]]
    BY DEF Seal, IsTrees, AnyTrees
  <2>2. \A t \in Trees : Seal(f, s)[t] \in Seq(Leaves) \cup Seq(States)
    <3> SUFFICES ASSUME NEW t \in Trees
                 PROVE  Seal(f, s)[t] \in Seq(Leaves) \cup Seq(States)
      OBVIOUS
    <3>1. CASE t = Archive
      <4>1. Seal(f, s)[t] \in Seq(States)
        BY <1>1, <1>3, <3>1, Zenon
      <4> QED
        BY <4>1
    <3>2. CASE t \in StateTrees
      <4>1. Seal(f, s)[t] \in Seq(Leaves)
        BY <1>2, <3>2, Zenon DEF IsTrees
      <4> QED
        BY <4>1
    <3> QED
      BY <3>1, <3>2, Order
  <2> HIDE DEF Seal
  <2> QED
    BY <2>1, <2>2 DEF AnyTrees
<1>5. IsTrees(Seal(f, s))
  BY <1>1, <1>2, <1>3, <1>4 DEF IsTrees
<1> QED
  BY <1>1, <1>2, <1>5, StateEqual

(* The trees after a block: one leaf more in each, and their own header last. *)
LEMMA SuccessorIs ==
    ASSUME NEW f, IsTrees(f), NEW body \in Bodies
    PROVE  /\ IsTrees(Successor(f, body))
           /\ Sealed(Successor(f, body))
           /\ StateOf(Successor(f, body)) = StateOf(Extend(f, body))
           /\ Front(Successor(f, body)[Archive]) = f[Archive]
           /\ \A n \in Nat : Sized(f, n) => Sized(Successor(f, body), n + 1)
           /\ \A t \in StateTrees : Successor(f, body)[t] = Append(f[t], body[t])
<1> DEFINE g == Extend(f, body)
           h == Successor(f, body)
<1>1. IsTrees(g) /\ StateOf(g) \in States
  BY Extended, StateType
<1>2. /\ IsTrees(h) /\ h[Archive] = Append(g[Archive], StateOf(g))
      /\ \A t \in StateTrees : h[t] = g[t]
      /\ StateOf(h) = StateOf(g)
  BY <1>1, SealedBy DEF Successor
<1>3. /\ g[Archive] = f[Archive]
      /\ \A t \in StateTrees : /\ g[t] = Append(f[t], body[t])
                               /\ Len(g[t]) = Len(f[t]) + 1
  BY Extended
<1>4. f[Archive] \in Seq(States)
  BY DEF IsTrees
<1> HIDE DEF g, h
<1>5. /\ h[Archive] # <<>> /\ h[Archive][Len(h[Archive])] = StateOf(h)
      /\ Len(h[Archive]) = Len(f[Archive]) + 1
      /\ Front(h[Archive]) = f[Archive]
  <2> DEFINE a == f[Archive]
             x == StateOf(h)
  <2>1. h[Archive] = Append(a, x) /\ a \in Seq(States) /\ x \in States
    BY <1>1, <1>2, <1>3, <1>4
  <2> HIDE DEF a, x
  <2>2. /\ Append(a, x) # <<>> /\ Append(a, x)[Len(Append(a, x))] = x
        /\ Len(Append(a, x)) = Len(a) + 1
        /\ Front(Append(a, x)) = a
    BY <2>1 DEF Front
  <2> QED
    BY <2>1, <2>2 DEF a, x
<1>7. \A n \in Nat : Sized(f, n) => Sized(h, n + 1)
  BY <1>2, <1>3, <1>5 DEF Sized
<1> QED
  BY <1>2, <1>3, <1>5, <1>7 DEF g, h, Sealed

(* Sealed trees are known by their archive. *)
LEMMA ArchiveTells ==
    ASSUME NEW f, NEW g, IsTrees(f), IsTrees(g), Sealed(f), Sealed(g),
           f[Archive] = g[Archive]
    PROVE  f = g
<1>1. StateOf(f) = StateOf(g)
  BY DEF Sealed
<1>2. \A t \in Trees : f[t] = g[t]
  BY <1>1, StateEqual, Order
<1> QED
  BY <1>2, TreesEqual DEF IsTrees

(* The root of an archive hides nothing: a header is not a leaf of zeros. *)
LEMMA ArchiveRoot ==
    ASSUME NEW s \in Seq(States)
    PROVE  Root(s) = s
<1> DEFINE shown == {i \in DOMAIN s : s[i] # Zero}
<1>1. shown = 1..Len(s)
  BY WorldStateAssumption
<1>2. CASE s = <<>>
  <2>1. Root(s) = SubSeq(s, 1, 0)
    BY <1>1, <1>2 DEF Root
  <2> QED
    BY <2>1, <1>2
<1>3. CASE s # <<>>
  <2>1. Len(s) \in Nat /\ Len(s) >= 1
    BY <1>3
  <2>2. Max(1..Len(s)) = Len(s)
    BY <2>1 DEF Max
  <2>3. shown # {}
    BY <1>1, <2>1
  <2>4. Root(s) = SubSeq(s, 1, Max(shown))
    BY <2>3 DEF Root
  <2>5. Root(s) = SubSeq(s, 1, Len(s))
    BY <1>1, <2>2, <2>4
  <2> QED
    BY <2>5
<1> QED
  BY <1>2, <1>3

(* Genesis is like the trees after a block. *)
LEMMA GenesisIs ==
    /\ IsTrees(EmptyTrees)
    /\ IsTrees(Genesis) /\ Sealed(Genesis) /\ Sized(Genesis, 0)
<1>1. <<>> \in Seq(Leaves) /\ <<>> \in Seq(States)
  OBVIOUS
<1>2. IsTrees(EmptyTrees)
  BY <1>1, Order DEF IsTrees, AnyTrees, EmptyTrees
<1>3. StateOf(EmptyTrees) \in States /\ EmptyTrees[Archive] = <<>>
  BY <1>2, StateType, Order DEF EmptyTrees
<1>4. Genesis = Seal(EmptyTrees, StateOf(EmptyTrees))
  <2>1. Append(EmptyTrees[Archive], StateOf(EmptyTrees)) = <<StateOf(EmptyTrees)>>
    BY <1>3
  <2> QED
    BY <2>1 DEF Genesis, Seal
<1>5. /\ IsTrees(Genesis) /\ Genesis[Archive] = Append(<<>>, StateOf(EmptyTrees))
      /\ \A t \in StateTrees : Genesis[t] = <<>>
      /\ StateOf(Genesis) = StateOf(EmptyTrees)
  <2>1. \A t \in StateTrees : EmptyTrees[t] = <<>>
    BY Order DEF EmptyTrees
  <2> QED
    BY <1>2, <1>3, <1>4, <2>1, SealedBy
<1> QED
  BY <1>2, <1>3, <1>5 DEF Sealed, Sized

-----------------------------------------------------------------------------
(* The chain *)

\* A step in which published blocks stay as they are.
Grows ==
    /\ Len(chain') \in Nat /\ Len(chain) <= Len(chain')
    /\ \A n \in 0..Len(chain) : After(n)' = After(n)

(* The trees after every published block. *)
LEMMA Published ==
    ASSUME ChainOK, NEW n \in 0..Len(chain)
    PROVE  IsTrees(After(n)) /\ Sealed(After(n)) /\ Sized(After(n), n)
BY DEF ChainOK

(* A step that leaves the chain alone. *)
LEMMA ChainSame ==
    ASSUME ChainOK, chain' = chain
    PROVE  ChainOK' /\ Grows
<1>1. \A n : After(n)' = After(n)
  BY DEF After
<1>2. Len(chain) \in Nat
  BY DEF ChainOK
<1> QED
  BY <1>1, <1>2 DEF Grows, ChainOK

(* A block on top of the chain. *)
LEMMA ChainAppend ==
    ASSUME ChainOK, NEW b \in Blocks, chain' = Append(chain, b),
           Len(chain) < MaxBlocks, b.trees = Successor(After(Len(chain)), b.body)
    PROVE  ChainOK' /\ Grows /\ Len(chain') = Len(chain) + 1
<1>0. PICK k \in Nat : k = Len(chain)
  BY DEF ChainOK
<1>1. k \in Nat /\ k = Len(chain) /\ chain \in Seq(Blocks) /\ b.body \in Bodies /\ MaxBlocks \in Nat
  BY <1>0, WorldStateAssumption DEF ChainOK, Blocks
<1>2. /\ Len(chain') = k + 1 /\ chain' \in Seq(Blocks)
      /\ \A n \in 1..k : chain'[n] = chain[n]
      /\ chain'[k + 1] = b
  BY <1>1
<1>3. \A n \in 0..k : After(n)' = After(n)
  BY <1>1, <1>2 DEF After
<1>4. After(k + 1)' = b.trees
  BY <1>1, <1>2 DEF After
<1>5. Grows
  BY <1>1, <1>2, <1>3 DEF Grows
<1>6. \A n \in 0..k : IsTrees(After(n)) /\ Sealed(After(n)) /\ Sized(After(n), n)
  BY <1>0 DEF ChainOK
<1>7. IsTrees(b.trees) /\ Sealed(b.trees) /\ Sized(b.trees, k + 1)
  BY <1>1, <1>6, SuccessorIs
<1>8. ASSUME NEW n \in 0..Len(chain')
      PROVE  IsTrees(After(n)') /\ Sealed(After(n)') /\ Sized(After(n)', n)
  <2>1. n \in 0..k \/ n = k + 1
    BY <1>1, <1>2, <1>8
  <2> QED
    BY <2>1, <1>3, <1>4, <1>6, <1>7
<1>9. ASSUME NEW n \in 1..Len(chain')
      PROVE  chain'[n].trees = Successor(After(n - 1)', chain'[n].body)
  <2>1. CASE n \in 1..k
    <3>1. n - 1 \in 0..k
      BY <1>1, <2>1
    <3> QED
      BY <1>2, <1>3, <2>1, <3>1 DEF ChainOK
  <2>2. CASE n = k + 1
    <3>1. n - 1 = k /\ k \in 0..k
      BY <1>1, <2>2
    <3> QED
      BY <1>2, <1>3, <2>2, <3>1
  <2> QED
    BY <1>1, <1>2, <2>1, <2>2
<1>10. Len(chain') <= MaxBlocks
  BY <1>1, <1>2
<1>11. ChainOK'
  BY <1>2, <1>8, <1>9, <1>10 DEF ChainOK, IsTrees, Sealed, Sized
<1> QED
  BY <1>2, <1>5, <1>11

(* The trees around the last block handled stay as they are. *)
LEMMA AroundStays ==
    ASSUME ChainOK, L1OK, CommitOK, Grows, blockNumber' = blockNumber
    PROVE  /\ After(blockNumber)' = After(blockNumber)
           /\ blockNumber < source => After(blockNumber + 1)' = After(blockNumber + 1)
<1>1. /\ blockNumber \in 0..Len(chain) /\ Len(chain) \in Nat
      /\ blockNumber < source => blockNumber + 1 \in 0..Len(chain)
  BY DEF ChainOK, L1OK, CommitOK
<1>2. \A n \in 0..Len(chain) : n = blockNumber' => After(blockNumber)' = After(n)
  BY DEF Grows, After
<1>3. \A n \in 0..Len(chain) : n = blockNumber' + 1 => After(blockNumber + 1)' = After(n)
  BY DEF Grows, After
<1> QED
  BY <1>1, <1>2, <1>3

(* A block that was built on the chain still is. *)
LEMMA GrownStays ==
    ASSUME Grows, Len(chain) \in Nat, NEW b, Grown(b)
    PROVE  b.body \in Bodies /\ \E m \in 0..Len(chain') : b.trees = Successor(After(m)', b.body)
<1>1. PICK m \in 0..Len(chain) : b.trees = Successor(After(m), b.body)
  BY DEF Grown
<1>2. m \in 0..Len(chain') /\ After(m)' = After(m)
  BY DEF Grows
<1> QED
  BY <1>1, <1>2 DEF Grown

(* Trees that are being built on the chain still are. *)
LEMMA GrowingStays ==
    ASSUME Grows, Len(chain) \in Nat, NEW f, NEW body, NEW k, Growing(f, body, k)
    PROVE  \E m \in 0..Len(chain') : GrowingFrom(After(m)', f, body, k)
<1>1. PICK m \in 0..Len(chain) : GrowingFrom(After(m), f, body, k)
  BY DEF Growing
<1>2. m \in 0..Len(chain') /\ After(m)' = After(m)
  BY DEF Grows
<1> QED
  BY <1>1, <1>2

(* Only a block that was built on the last one extends the chain. *)
LEMMA ExtendsLast ==
    ASSUME ChainOK, NEW b, Grown(b), Extends(b.trees)
    PROVE  b.trees = Successor(After(Len(chain)), b.body)
<1>1. PICK m \in 0..Len(chain) : b.trees = Successor(After(m), b.body)
  BY DEF Grown
<1>2. Len(chain) \in Nat /\ b.body \in Bodies
  BY DEF ChainOK, Grown
<1>3. IsTrees(After(m)) /\ Sized(After(m), m) /\ Sized(After(Len(chain)), Len(chain))
  BY <1>2, Published
<1>4. Front(b.trees[Archive]) = After(m)[Archive]
  BY <1>1, <1>2, <1>3, SuccessorIs
<1>5. After(m)[Archive] = After(Len(chain))[Archive]
  BY <1>4 DEF Extends
<1>6. m = Len(chain)
  BY <1>2, <1>3, <1>5 DEF Sized
<1> QED
  BY <1>1, <1>6

(* Steps that change neither what is committed nor the trees around it. *)
LEMMA LeavesFrame ==
    ASSUME LeavesOK, UNCHANGED <<preimages, committed>>,
           After(blockNumber)' = After(blockNumber), Populated' => Populated,
           \A t : InNext(t) => InNext(t)', InBlock(Archive) => InBlock(Archive)',
           \/ pc' = pc /\ step' = step
           \/ pc' \in {"down", "idle"}
           \/ pc' = "create" /\ step' = 1
           \/ pc' \in {"commit", "check", "snapshot", "number"} /\ \A t \in Indexed : Fresh(t)
    PROVE  LeavesOK'
<1>1. preimages' = preimages /\ \A t : Fresh(t)' = Fresh(t)
  BY DEF Fresh
<1>2. Populated' => \A t \in Indexed :
          \/ Fresh(t)'
          \/ (preimages[t] = After(blockNumber)[t])' /\ InNext(t)' /\ InBlock(Archive)'
  BY <1>1 DEF LeavesOK
<1>3. CASE pc' = pc /\ step' = step
  BY <1>1, <1>2, <1>3 DEF LeavesOK
<1>4. CASE pc' \in {"down", "idle"}
  BY <1>1, <1>2, <1>4 DEF LeavesOK
<1>5. CASE pc' = "create" /\ step' = 1
  BY <1>1, <1>2, <1>5 DEF LeavesOK
<1>6. CASE pc' \in {"commit", "check", "snapshot", "number"} /\ \A t \in Indexed : Fresh(t)
  BY <1>1, <1>2, <1>6 DEF LeavesOK
<1> QED
  BY <1>3, <1>4, <1>5, <1>6

(* Steps of L1 and the archiver leave the synchronizer's part alone. *)
LEMMA SyncFrame ==
    ASSUME IInv, Grows, source' \in Nat, source <= source',
           UNCHANGED <<dbVars, latest, syncVars, threw>>,
           builder = NoBuild => builder' = NoBuild
    PROVE  CreateOK' /\ CommitOK' /\ LeavesOK' /\ SyncOK' /\ SnapshotsOK'
<1>1. /\ created' = created /\ committed' = committed /\ snapshots' = snapshots
      /\ preimages' = preimages
      /\ blockNumber' = blockNumber /\ latest' = latest /\ pc' = pc /\ step' = step
      /\ target' = target /\ threw' = threw
  BY DEF dbVars, syncVars
<1>2. ChainOK /\ L1OK /\ CreateOK /\ CommitOK /\ LeavesOK /\ SyncOK /\ SnapshotsOK
  BY DEF IInv
<1>3. source \in Nat /\ blockNumber \in 0..source /\ Len(chain) \in Nat /\ source <= Len(chain)
  BY <1>2 DEF ChainOK, L1OK, CommitOK
<1>4. /\ After(blockNumber)' = After(blockNumber)
      /\ blockNumber < source => After(blockNumber + 1)' = After(blockNumber + 1)
  BY <1>1, <1>2, AroundStays
<1>5. CreateOK'
  BY <1>1, <1>2 DEF CreateOK
<1>6. /\ Populated' = Populated
      /\ \A t : InBlock(t) => InBlock(t)'
      /\ \A t : InNext(t) => InNext(t)'
      /\ \A t : InBlock(t)' => InBlock(t)
  BY <1>1, <1>3, <1>4 DEF Populated, InBlock, InNext
<1>7. CommitOK'
  <2>1. IsTrees(committed)' /\ (blockNumber \in 0..source)'
    BY <1>1, <1>2, <1>3 DEF CommitOK, IsTrees
  <2> QED
    BY <2>1, <1>2, <1>6 DEF CommitOK
<1>8. SyncOK'
  <2>1. Ripped => Ripped'
    BY <1>1, <1>3, <1>4 DEF Ripped
  <2>2. blockNumber < source => (blockNumber < source)'
    BY <1>1, <1>3
  <2>3. pc \in {"commit", "commitLeaves", "check", "snapshot"} => (latest = After(blockNumber + 1))'
    BY <1>1, <1>2, <1>4 DEF SyncOK
  <2>4. \A i \in 1..step : InNext(TreeOrder[i]) => InNext(TreeOrder[i])'
    BY <1>1, <1>3, <1>4 DEF InNext
  <2> QED
    BY <1>1, <1>2, <1>4, <1>6, <2>1, <2>2, <2>3, <2>4 DEF SyncOK
<1>9. SnapshotsOK'
  <2>1. \A n \in 1..MaxBlocks : n <= Len(chain) => n <= Len(chain') /\ After(n)' = After(n)
    BY <1>3, WorldStateAssumption DEF Grows
  <2> QED
    BY <1>1, <1>2, <2>1 DEF SnapshotsOK
<1>10. LeavesOK'
  BY <1>1, <1>2, <1>4, <1>6, LeavesFrame
<1> QED
  BY <1>5, <1>7, <1>8, <1>9, <1>10

(* Steps that leave the sequencer and the trees alone. *)
LEMMA BuilderFrame ==
    ASSUME IInv, Grows, UNCHANGED <<builder, lastPublished, latest, committed, pc, blockNumber>>
    PROVE  BuilderOK'
<1>1. /\ builder' = builder /\ lastPublished' = lastPublished /\ latest' = latest
      /\ committed' = committed /\ pc' = pc /\ blockNumber' = blockNumber
  OBVIOUS
<1>2. BuilderOK /\ ChainOK
  BY DEF IInv
<1>3. Len(chain) \in Nat
  BY <1>2 DEF ChainOK
<1>4. builder.at = "build" => Growing(builder.trees, builder.body, builder.step)'
  <2> SUFFICES ASSUME builder.at = "build"
               PROVE  Growing(builder.trees, builder.body, builder.step)'
    OBVIOUS
  <2>1. Growing(builder.trees, builder.body, builder.step)
    BY <1>2 DEF BuilderOK
  <2>2. PICK m \in 0..Len(chain') :
            GrowingFrom(After(m)', builder.trees, builder.body, builder.step)
    BY <1>3, <2>1, GrowingStays
  <2> QED
    BY <1>1, <2>2 DEF Growing, GrowingFrom
<1>5. builder.at = "built" => Grown(builder)'
  BY <1>1, <1>2, <1>3, GrownStays, Zenon DEF BuilderOK, Grown
<1>6. /\ IsTrees(latest)' = IsTrees(latest) /\ Sealed(latest)' = Sealed(latest)
      /\ Done' = Done /\ TreesFree' = TreesFree
  BY <1>1 DEF IsTrees, Sealed, StateOf, Done, TreesFree
<1> QED
  BY <1>1, <1>2, <1>4, <1>5, <1>6 DEF BuilderOK

(* A block that was sent stays as it is. *)
LEMMA L1Frame ==
    ASSUME ChainOK, L1OK, Grows, mempool' = mempool, source' \in 0..Len(chain')
    PROVE  L1OK'
<1>1. Len(chain) \in Nat
  BY DEF ChainOK
<1>2. mempool # None => Grown(mempool)'
  BY <1>1, GrownStays, Zenon DEF L1OK, Grown
<1> QED
  BY <1>2 DEF L1OK

-----------------------------------------------------------------------------
(* L1 and the archiver *)

(* Another sequencer's block continues the chain. *)
LEMMA PublishOtherInv ==
    ASSUME IInv, NEW body \in Bodies, PublishOther(body)
    PROVE  IInv'
<1> DEFINE before == After(Len(chain))
           b == [body |-> body, trees |-> Successor(before, body)]
<1>1. ChainOK /\ L1OK /\ Len(chain) \in Nat /\ source \in 0..Len(chain)
  BY DEF IInv, ChainOK, L1OK
<1>2. chain' = Append(chain, b) /\ Len(chain) < MaxBlocks
  BY DEF PublishOther, Successor
<1>3. IsTrees(before) /\ IsTrees(b.trees)
  BY <1>1, Published, SuccessorIs
<1>4. b \in Blocks
  BY <1>3 DEF Blocks, IsTrees
<1> HIDE DEF before
<1>5. ChainOK' /\ Grows /\ Len(chain') = Len(chain) + 1
  BY <1>1, <1>2, <1>4, ChainAppend DEF before
<1>6. /\ UNCHANGED <<dbVars, latest, syncVars, builder, lastPublished, threw>>
      /\ mempool' = mempool /\ source' = source
  BY DEF PublishOther, builderVars
<1>7. L1OK'
  BY <1>1, <1>5, <1>6, L1Frame
<1>8. CreateOK' /\ CommitOK' /\ LeavesOK' /\ SyncOK' /\ SnapshotsOK'
  BY <1>1, <1>5, <1>6, SyncFrame
<1>9. BuilderOK'
  BY <1>5, <1>6, BuilderFrame DEF dbVars, syncVars
<1> QED
  BY <1>5, <1>7, <1>8, <1>9 DEF IInv

(* A block mined late was built on the last one, or it does not extend the   *)
(* chain.                                                                    *)
LEMMA MineLateInv ==
    ASSUME IInv, MineLate
    PROVE  IInv'
<1>1. ChainOK /\ L1OK /\ Len(chain) \in Nat /\ source \in 0..Len(chain)
  BY DEF IInv, ChainOK, L1OK
<1>2. /\ mempool \in Blocks /\ Grown(mempool) /\ Extends(mempool.trees)
      /\ chain' = Append(chain, mempool) /\ Len(chain) < MaxBlocks
  BY <1>1 DEF MineLate, L1OK
<1>3. mempool.trees = Successor(After(Len(chain)), mempool.body)
  BY <1>1, <1>2, ExtendsLast
<1>5. ChainOK' /\ Grows /\ Len(chain') = Len(chain) + 1
  BY <1>1, <1>2, <1>3, ChainAppend
<1>6. /\ UNCHANGED <<dbVars, latest, syncVars, builder, lastPublished, threw>>
      /\ mempool' = None /\ source' = source
  BY DEF MineLate, builderVars
<1>7. L1OK'
  BY <1>1, <1>5, <1>6 DEF L1OK
<1>8. CreateOK' /\ CommitOK' /\ LeavesOK' /\ SyncOK' /\ SnapshotsOK'
  BY <1>1, <1>5, <1>6, SyncFrame
<1>9. BuilderOK'
  BY <1>5, <1>6, BuilderFrame DEF dbVars, syncVars
<1> QED
  BY <1>5, <1>7, <1>8, <1>9 DEF IInv

(* The archiver stores a block that was published. *)
LEMMA StoreBlockInv ==
    ASSUME IInv, StoreBlock
    PROVE  IInv'
<1>1. ChainOK /\ L1OK /\ Len(chain) \in Nat /\ source \in 0..Len(chain)
  BY DEF IInv, ChainOK, L1OK
<1>2. /\ UNCHANGED <<dbVars, latest, syncVars, builder, lastPublished, threw>>
      /\ mempool' = mempool /\ source' = source + 1 /\ source < Len(chain) /\ chain' = chain
  BY DEF StoreBlock, builderVars
<1>5. ChainOK' /\ Grows
  BY <1>1, <1>2, ChainSame
<1>7. L1OK'
  BY <1>1, <1>5, <1>2, L1Frame
<1>8. CreateOK' /\ CommitOK' /\ LeavesOK' /\ SyncOK' /\ SnapshotsOK'
  BY <1>1, <1>5, <1>2, SyncFrame
<1>9. BuilderOK'
  BY <1>5, <1>2, BuilderFrame DEF dbVars, syncVars
<1> QED
  BY <1>5, <1>7, <1>8, <1>9 DEF IInv

-----------------------------------------------------------------------------
(* Steps of the node *)

(* Steps of the node leave L1 and the archiver alone. *)
LEMMA L1Same ==
    ASSUME IInv, UNCHANGED <<chain, source, mempool>>
    PROVE  ChainOK' /\ L1OK' /\ Grows /\ \A n : After(n)' = After(n)
<1>1. ChainOK /\ L1OK /\ chain' = chain /\ source' = source /\ mempool' = mempool
  BY DEF IInv
<1>2. ChainOK' /\ Grows
  BY <1>1, ChainSame
<1>3. L1OK'
  BY <1>1, <1>2, L1Frame DEF L1OK
<1> QED
  BY <1>1, <1>2, <1>3 DEF After

(* The ranges of the counters. *)
LEMMA Counters ==
    ASSUME IInv
    PROVE  /\ blockNumber \in Nat /\ source \in Nat /\ Len(chain) \in Nat /\ target \in Nat
           /\ blockNumber <= source /\ source <= Len(chain) /\ Len(chain) <= MaxBlocks
           /\ MaxBlocks \in Nat /\ step \in Nat /\ 1 <= step /\ step <= Len(TreeOrder)
           /\ Len(TreeOrder) \in Nat
BY WorldStateAssumption, Order DEF IInv, ChainOK, L1OK, CommitOK, SyncOK

(* The trees around the last block handled. *)
LEMMA Around ==
    ASSUME IInv
    PROVE  /\ IsTrees(After(blockNumber)) /\ Sealed(After(blockNumber))
           /\ Sized(After(blockNumber), blockNumber)
           /\ blockNumber < source =>
                /\ IsTrees(After(blockNumber + 1)) /\ Sealed(After(blockNumber + 1))
                /\ Sized(After(blockNumber + 1), blockNumber + 1)
                /\ After(blockNumber + 1) = chain[blockNumber + 1].trees
                /\ chain[blockNumber + 1].body \in Bodies
                /\ chain[blockNumber + 1].trees =
                       Successor(After(blockNumber), chain[blockNumber + 1].body)
<1>1. ChainOK
  BY DEF IInv
<1>2. blockNumber \in 0..Len(chain)
  BY Counters
<1>3. blockNumber < source => /\ blockNumber + 1 \in 0..Len(chain)
                              /\ blockNumber + 1 \in 1..Len(chain)
                              /\ (blockNumber + 1) - 1 = blockNumber
                              /\ blockNumber + 1 # 0
  BY Counters
<1>4. blockNumber < source => chain[blockNumber + 1] \in Blocks
  BY <1>1, <1>3 DEF ChainOK
<1> QED
  BY <1>1, <1>2, <1>3, <1>4, Published DEF After, ChainOK, Blocks

(* Trees that are not those of the last block handled are ahead of it. *)
LEMMA Ahead ==
    ASSUME IInv, Populated, committed # After(blockNumber)
    PROVE  blockNumber < source
<1>1. PICK t \in Trees : ~ InBlock(t)
  BY Around, TreesEqual DEF IInv, CommitOK, IsTrees, InBlock
<1> QED
  BY <1>1 DEF IInv, CommitOK, InNext

(* A sequencer that is not building, with no changes left in free trees. *)
LEMMA BuilderIdle ==
    ASSUME builder' = NoBuild, IsTrees(latest'), lastPublished' \in Nat,
           TreesFree' => latest' = committed'
    PROVE  BuilderOK'
<1>1. /\ builder' \in [at : {"idle", "build", "built", "rollback"}, step : Nat,
                       number : Nat, body : Bodies \cup {None}, trees : AnyTrees \cup {None}]
      /\ builder'.at = "idle"
  BY DEF NoBuild
<1>2. IsTrees(latest)'
  BY DEF IsTrees
<1> QED
  BY <1>1, <1>2 DEF BuilderOK

(* The node is started. *)
LEMMA BootInv ==
    ASSUME IInv, Boot
    PROVE  IInv'
<1>1. /\ UNCHANGED <<chain, source, mempool, created, committed, preimages, snapshots, blockNumber>>
      /\ UNCHANGED <<builder, lastPublished, threw>>
      /\ pc = "down" /\ (IsDbPopulated => created = Trees)
      /\ target' = source /\ step' = 1 /\ latest' = committed
      /\ pc' = IF IsDbPopulated THEN "idle" ELSE "create"
  BY DEF Boot, l1Vars, dbVars, builderVars
<1>2. ChainOK' /\ L1OK' /\ \A n : After(n)' = After(n)
  BY <1>1, L1Same
<1>3. After(blockNumber)' = After(blockNumber) /\ After(blockNumber + 1)' = After(blockNumber + 1)
  BY <1>1 DEF After
<1>4. /\ builder = NoBuild /\ IsTrees(committed) /\ lastPublished \in Nat /\ CreateOK
      /\ CommitOK /\ LeavesOK /\ SyncOK /\ SnapshotsOK
  BY <1>1 DEF IInv, SyncOK, CommitOK, BuilderOK
<1>5. CreateOK'
  BY <1>1, <1>4, Order DEF CreateOK, IsDbPopulated
<1>6. Populated' = Populated /\ (\A t : InBlock(t)' = InBlock(t) /\ InNext(t)' = InNext(t))
  BY <1>1, <1>3 DEF Populated, InBlock, InNext
<1>7. CommitOK'
  BY <1>1, <1>4, <1>6 DEF CommitOK, IsTrees
<1>8. SyncOK'
  <2>1. pc' = "idle" => Populated
    BY <1>1, <1>4, Order DEF Populated, IsDbPopulated
  <2>2. (pc = "idle" /\ committed # After(blockNumber))' => blockNumber' < target'
    BY <1>1, <1>3, <2>1, Ahead
  <2>3. threw => Ripped'
    BY <1>1, <1>3, <1>4 DEF Ripped, SyncOK
  <2>4. threw => pc' = "idle" /\ Populated'
    BY <1>1, <1>4, <1>6, Order DEF SyncOK, Populated, CreateOK, IsDbPopulated
  <2> QED
    BY <1>1, <1>4, <2>2, <2>3, <2>4, Counters DEF SyncOK
<1>9. SnapshotsOK'
  BY <1>1, <1>2, <1>4 DEF SnapshotsOK
<1>10. BuilderOK'
  BY <1>1, <1>4, BuilderIdle
<1>11. LeavesOK'
  BY <1>1, <1>3, <1>4, <1>6, LeavesFrame
<1> QED
  BY <1>2, <1>5, <1>7, <1>8, <1>9, <1>10, <1>11 DEF IInv

(* A tree is created; after the last the initial header is inserted. *)
LEMMA CreateTreeInv ==
    ASSUME IInv, CreateTree
    PROVE  IInv'
<1> DEFINE t0 == TreeOrder[step]
<1>1. /\ UNCHANGED <<chain, source, mempool, preimages, snapshots, blockNumber, target>>
      /\ UNCHANGED <<builder, lastPublished, threw>>
      /\ pc = "create"
      /\ created' = created \cup {t0}
      /\ committed' = [committed EXCEPT ![t0] = <<>>]
      /\ \/ /\ t0 \in Indexed
            /\ step' = step /\ pc' = "createLeaves" /\ latest' = latest
         \/ /\ t0 \notin Indexed /\ step < Len(TreeOrder)
            /\ step' = step + 1 /\ pc' = "create" /\ latest' = latest
         \/ /\ t0 \notin Indexed /\ step = Len(TreeOrder)
            /\ step' = 1 /\ pc' = "populate" /\ latest' = Genesis
  BY Counters DEF CreateTree, NextToCreate, NextTree, l1Vars, dbVars, builderVars
<1>2. ChainOK' /\ L1OK' /\ \A n : After(n)' = After(n)
  BY <1>1, L1Same
<1>4. /\ builder = NoBuild /\ IsTrees(committed) /\ lastPublished \in Nat /\ CreateOK
      /\ CommitOK /\ LeavesOK /\ SyncOK /\ SnapshotsOK /\ latest = committed /\ threw = FALSE
      /\ committed = EmptyTrees /\ blockNumber = 0 /\ Archive \notin created
  BY <1>1 DEF IInv, SyncOK, CommitOK, BuilderOK, CreateOK
<1>5. t0 \in Trees /\ committed' = EmptyTrees
  <2>1. t0 \in Trees
    BY Counters, Order
  <2> QED
    BY <1>1, <1>4, <2>1 DEF EmptyTrees
<1>6. /\ step < Len(TreeOrder) => t0 # Archive
      /\ t0 \in Indexed => step < Len(TreeOrder)
  BY Counters, Order, IndexedBefore
<1>7. step = Len(TreeOrder) => created' = Trees
  <2> SUFFICES ASSUME step = Len(TreeOrder)
               PROVE  created' = Trees
    OBVIOUS
  <2>1. \A i \in 1..Len(TreeOrder) : TreeOrder[i] \in created'
    BY <1>1, <1>4, Counters DEF CreateOK
  <2> QED
    BY <1>1, <1>4, <1>5, <2>1, Order DEF CreateOK
<1>8. CreateOK'
  <2>1. CASE pc' = "createLeaves"
    BY <1>1, <1>4, <1>5, <1>6, <2>1, Counters DEF CreateOK
  <2>2. CASE pc' = "create"
    <3>1. \A i \in 1..(step' - 1) : TreeOrder[i] \in created'
      BY <1>1, <1>4, <2>2, Counters DEF CreateOK
    <3> QED
      BY <1>1, <1>4, <1>5, <1>6, <2>2, <3>1, Counters DEF CreateOK
  <2>3. CASE pc' = "populate"
    BY <1>1, <1>4, <1>5, <1>7, <2>3, Order DEF CreateOK
  <2> QED
    BY <1>1, <2>1, <2>2, <2>3
<1>9. ~ Populated'
  BY <1>1, <1>4, <1>6, Counters DEF Populated
<1>10. CommitOK'
  <2>1. IsTrees(committed)'
    BY <1>4, <1>5 DEF IsTrees
  <2> QED
    BY <1>1, <1>4, <1>9, <2>1 DEF CommitOK
<1>11. SyncOK'
  BY <1>1, <1>4, <1>5, Counters DEF SyncOK
<1>12. SnapshotsOK'
  BY <1>1, <1>2, <1>4 DEF SnapshotsOK
<1>13. BuilderOK'
  <2>1. IsTrees(latest')
    BY <1>1, <1>4, GenesisIs
  <2>2. ~ TreesFree'
    BY <1>1 DEF TreesFree
  <2> QED
    BY <1>1, <1>4, <2>1, <2>2, BuilderIdle
<1>14. LeavesOK'
  <2>1. \A i \in 1..(step - 1) : TreeOrder[i] \in Indexed => preimages[TreeOrder[i]] = <<>>
    BY <1>1, <1>4 DEF LeavesOK
  <2>2. t0 \notin Indexed =>
            \A i \in 1..step : TreeOrder[i] \in Indexed => preimages[TreeOrder[i]] = <<>>
    BY <2>1, Counters
  <2>3. CASE pc' \in {"create", "createLeaves"}
    <3>1. \A i \in 1..(step' - 1) : TreeOrder[i] \in Indexed => preimages[TreeOrder[i]] = <<>>
      BY <1>1, <2>1, <2>2, <2>3, Counters
    <3> QED
      BY <1>1, <1>4, <1>9, <2>3, <3>1 DEF LeavesOK
  <2>4. CASE pc' = "populate"
    <3>1. t0 \notin Indexed /\ step = Len(TreeOrder)
      BY <1>1, <2>4
    <3>2. \A t \in Indexed : preimages[t] = <<>>
      BY <2>2, <3>1, Order
    <3> QED
      BY <1>1, <1>4, <1>9, <2>4, <3>2 DEF LeavesOK
  <2> QED
    BY <1>1, <2>3, <2>4
<1> QED
  BY <1>2, <1>8, <1>10, <1>11, <1>12, <1>13, <1>14 DEF IInv

(* An indexed tree gets its first leaves. *)
LEMMA CreateLeavesInv ==
    ASSUME IInv, CreateLeaves
    PROVE  IInv'
<1> DEFINE t0 == TreeOrder[step]
<1>1. /\ pc = "createLeaves" /\ CreateOK /\ CommitOK /\ LeavesOK /\ SyncOK /\ SnapshotsOK
      /\ t0 \in Indexed /\ t0 \in created /\ Archive \notin created /\ step < Len(TreeOrder)
  BY Counters, IndexedBefore DEF CreateLeaves, IInv, CreateOK
<1>2. /\ UNCHANGED <<chain, source, mempool, created, committed, snapshots, blockNumber>>
      /\ UNCHANGED <<target, latest, builder, lastPublished, threw>>
      /\ preimages' = [preimages EXCEPT ![t0] = <<>>]
      /\ step' = step + 1 /\ pc' = "create"
  BY <1>1 DEF CreateLeaves, NextToCreate, NextTree, l1Vars, builderVars
<1>3. ChainOK' /\ L1OK' /\ \A n : After(n)' = After(n)
  BY <1>2, L1Same
<1>4. /\ builder = NoBuild /\ IsTrees(committed) /\ lastPublished \in Nat
      /\ latest = committed /\ threw = FALSE
  BY <1>1 DEF IInv, SyncOK, CommitOK, BuilderOK
<1>5. CreateOK'
  <2>1. \A i \in 1..(step' - 1) : TreeOrder[i] \in created'
    BY <1>1, <1>2, Counters DEF CreateOK
  <2> QED
    BY <1>1, <1>2, <2>1 DEF CreateOK
<1>6. ~ Populated'
  BY <1>1, <1>2 DEF Populated
<1>7. CommitOK'
  BY <1>1, <1>2, <1>6 DEF CommitOK, IsTrees
<1>8. LeavesOK'
  <2>1. /\ preimages' \in [Indexed -> Seq(Leaves) \cup {None}] /\ preimages'[t0] = <<>>
        /\ \A t \in Indexed : t # t0 => preimages'[t] = preimages[t]
    <3>1. <<>> \in Seq(Leaves)
      OBVIOUS
    <3> QED
      BY <1>1, <1>2, <3>1 DEF LeavesOK
  <2>2. \A i \in 1..step : TreeOrder[i] \in Indexed => preimages'[TreeOrder[i]] = <<>>
    BY <1>1, <2>1, Counters DEF LeavesOK
  <2> QED
    BY <1>2, <1>6, <2>1, <2>2, Counters DEF LeavesOK
<1>9. SyncOK'
  BY <1>1, <1>2, <1>4, Counters DEF SyncOK
<1>10. SnapshotsOK'
  BY <1>1, <1>2, <1>3 DEF SnapshotsOK
<1>11. BuilderOK'
  BY <1>2, <1>4, BuilderIdle DEF TreesFree
<1> QED
  BY <1>3, <1>5, <1>7, <1>8, <1>9, <1>10, <1>11 DEF IInv

(* The process ends, except while the initial header is being committed. *)
LEMMA HaltInv ==
    ASSUME IInv, Halt, pc # "populate", threw' => Populated /\ Ripped
    PROVE  IInv'
<1>1. /\ UNCHANGED <<chain, source, mempool, created, committed, preimages, snapshots>>
      /\ UNCHANGED <<blockNumber, target>>
      /\ builder' = NoBuild /\ lastPublished' = 0
      /\ pc' = "down" /\ step' = 1 /\ latest' = committed
  BY DEF Halt, l1Vars, dbVars
<1>2. ChainOK' /\ L1OK' /\ \A n : After(n)' = After(n)
  BY <1>1, L1Same
<1>3. After(blockNumber)' = After(blockNumber) /\ After(blockNumber + 1)' = After(blockNumber + 1)
  BY <1>1 DEF After
<1>4. IsTrees(committed) /\ CreateOK /\ CommitOK /\ LeavesOK /\ SyncOK /\ SnapshotsOK
  BY DEF IInv, CommitOK
<1>5. CreateOK'
  BY <1>1, <1>4 DEF CreateOK
<1>6. Populated' = Populated /\ (\A t : InBlock(t)' = InBlock(t) /\ InNext(t)' = InNext(t))
  BY <1>1, <1>3 DEF Populated, InBlock, InNext
<1>7. CommitOK'
  BY <1>1, <1>4, <1>6 DEF CommitOK, IsTrees
<1>8. SyncOK'
  <2>1. Ripped' = Ripped
    BY <1>1, <1>3 DEF Ripped
  <2> QED
    BY <1>1, <1>4, <1>6, <2>1, Order DEF SyncOK
<1>9. SnapshotsOK'
  BY <1>1, <1>2, <1>4 DEF SnapshotsOK
<1>10. BuilderOK'
  BY <1>1, <1>4, BuilderIdle
<1>11. LeavesOK'
  BY <1>1, <1>3, <1>4, <1>6, LeavesFrame
<1> QED
  BY <1>2, <1>5, <1>7, <1>8, <1>9, <1>10, <1>11 DEF IInv

(* A crash. *)
LEMMA CrashInv ==
    ASSUME IInv, Crash, "populate" \notin MayCrash
    PROVE  IInv'
<1>1. Halt /\ pc # "populate" /\ threw' = threw
  BY DEF Crash
<1>2. threw => Populated /\ Ripped
  BY DEF IInv, SyncOK
<1> QED
  BY <1>1, <1>2, HaltInv

-----------------------------------------------------------------------------
(* The synchronizer *)

(* Between jobs on the trees the archive is as it is committed, or its last  *)
(* header is that of the other trees.                                        *)
LEMMA Uncommitted ==
    ASSUME IInv, TreesFree
    PROVE  latest[Archive] = committed[Archive] \/ Sealed(latest)
<1>1. builder.at \in {"idle", "build", "built", "rollback"}
  BY DEF IInv, BuilderOK
<1> QED
  BY <1>1 DEF IInv, BuilderOK

(* Archives with equal roots are equal. *)
LEMMA RootsTell ==
    ASSUME NEW f, NEW g, IsTrees(f), IsTrees(g), Root(f[Archive]) = Root(g[Archive])
    PROVE  f[Archive] = g[Archive]
<1>1. f[Archive] \in Seq(States) /\ g[Archive] \in Seq(States)
  BY DEF IsTrees
<1> QED
  BY <1>1, ArchiveRoot

(* handleL2Block throws on torn trees and on no others; otherwise the        *)
(* uncommitted trees become those after the block, and no leaves are stale.  *)
LEMMA HandleOutcome ==
    ASSUME IInv, HandleBlock
    PROVE  /\ pc = "idle" /\ Populated /\ blockNumber < source
           /\ \/ Halt /\ Ripped
              \/ /\ latest' = After(blockNumber + 1) /\ pc' = "commit" /\ step' = 1
                 /\ UNCHANGED <<l1Vars, dbVars, target, builderVars, threw>>
                 /\ ~ threw /\ \A t \in Indexed : Fresh(t)
<1> DEFINE block == chain[blockNumber + 1]
           leaves == [t \in StateTrees |-> Inserted(t, block.body[t])]
           trees == Extend(committed, leaves)
           prev == After(blockNumber)
           next == After(blockNumber + 1)
<1>1. pc = "idle" /\ blockNumber < source
  BY Counters DEF HandleBlock
<1>2. Populated /\ TreesFree
  BY <1>1 DEF IInv, CreateOK, Populated, TreesFree
<1>3. /\ IsTrees(prev) /\ Sealed(prev) /\ Sized(prev, blockNumber)
      /\ IsTrees(next) /\ Sealed(next) /\ Sized(next, blockNumber + 1)
      /\ next = block.trees /\ block.body \in Bodies
      /\ next = Successor(prev, block.body)
  BY <1>1, Around
<1>4. IsTrees(committed) /\ IsTrees(latest)
  BY DEF IInv, CommitOK, BuilderOK
<1>5. \A t \in StateTrees : Len(trees[t]) = Len(committed[t]) + 1
  <2> SUFFICES ASSUME NEW t \in StateTrees
               PROVE  Len(trees[t]) = Len(committed[t]) + 1
    OBVIOUS
  <2>1. trees[t] = Append(committed[t], leaves[t]) /\ committed[t] \in Seq(Leaves)
    BY <1>4, Order DEF Extend, IsTrees
  <2> HIDE DEF trees, leaves
  <2> QED
    BY <2>1, Longer
<1>6. prev[Archive] # next[Archive]
  BY <1>3, Counters DEF Sized
<1>7. \/ /\ ~ IsBlockOurs(next) /\ StateOf(trees) # StateOf(next)
         /\ Halt
      \/ /\ IsBlockOurs(next) \/ StateOf(trees) = StateOf(next)
         /\ latest' = IF IsBlockOurs(next) THEN latest ELSE Seal(trees, StateOf(next))
         /\ pc' = "commit" /\ step' = 1
         /\ UNCHANGED <<l1Vars, dbVars, target, builderVars, threw>>
  BY <1>3 DEF HandleBlock, RolledBack
<1>10. (\A t \in Indexed : Fresh(t)) => trees = Extend(committed, block.body)
  <2> SUFFICES ASSUME \A t \in Indexed : Fresh(t)
               PROVE  trees = Extend(committed, block.body)
    OBVIOUS
  <2>1. \A t \in StateTrees : leaves[t] = block.body[t]
    BY DEF Fresh, Inserted, Stale
  <2> HIDE DEF leaves, block
  <2>2. \A t \in Trees : t # Archive => leaves[t] = block.body[t]
    BY <2>1, Order
  <2> QED
    BY <2>2, Zenon DEF Extend
<1> HIDE DEF prev, next, leaves, trees, block
<1>8. CASE committed = prev
  <2>0. (\A t \in Indexed : Fresh(t)) /\ trees = Extend(committed, block.body)
    <3>1. \A t \in Indexed : Fresh(t)
      BY <1>2, <1>8, Zenon DEF IInv, LeavesOK, Fresh, prev
    <3> QED
      BY <1>10, <3>1
  <2>1. IsBlockOurs(next) => latest = next
    <3> SUFFICES ASSUME IsBlockOurs(next)
                 PROVE  latest = next
      OBVIOUS
    <3>1. latest[Archive] = next[Archive]
      BY <1>3, <1>4, RootsTell, Order DEF IsBlockOurs
    <3>2. Sealed(latest)
      BY <1>2, <1>6, <1>8, <3>1, Uncommitted
    <3> QED
      BY <1>3, <1>4, <3>1, <3>2, ArchiveTells
  <2>2. StateOf(trees) = StateOf(next) /\ next = Seal(trees, StateOf(next))
    <3>1. next = Seal(trees, StateOf(trees))
      BY <1>3, <1>8, <2>0 DEF Successor
    <3>2. StateOf(next) = StateOf(trees)
      BY <1>3, <1>8, <2>0, SuccessorIs
    <3> QED
      BY <3>1, <3>2
  <2>3. ~ threw
    BY <1>8 DEF IInv, SyncOK, Ripped, prev
  <2> QED
    BY <1>1, <1>2, <1>7, <2>0, <2>1, <2>2, <2>3 DEF next
<1>9. CASE committed # prev
  <2>1. latest = committed
    BY <1>1, <1>9 DEF IInv, SyncOK, prev
  <2>2. CASE committed[Archive] # prev[Archive]
    <3>1. \A t \in Trees : committed[t] = next[t]
      BY <1>2, <2>2, Zenon DEF IInv, CommitOK, InBlock, InNext, prev, next
    <3>2. committed = next
      BY <1>3, <1>4, <3>1, TreesEqual DEF IsTrees
    <3>3. IsBlockOurs(next)
      BY <2>1, <3>2 DEF IsBlockOurs
    <3>4. ~ threw
      BY <3>2 DEF IInv, SyncOK, Ripped, next
    <3>5. \A t \in Indexed : Fresh(t)
      BY <1>2, <2>2 DEF IInv, LeavesOK, InBlock, prev
    <3> QED
      BY <1>1, <1>2, <1>7, <2>1, <3>2, <3>3, <3>4, <3>5 DEF next
  <2>3. CASE committed[Archive] = prev[Archive]
    <3>1. ~ IsBlockOurs(next)
      BY <1>3, <1>4, <1>6, <2>1, <2>3, RootsTell, Order DEF IsBlockOurs
    <3>2. PICK t \in Trees : committed[t] # prev[t]
      BY <1>3, <1>4, <1>9, TreesEqual DEF IsTrees
    <3>3. t \in StateTrees /\ committed[t] = next[t]
      BY <1>2, <2>3, <3>2, Order DEF IInv, CommitOK, InBlock, InNext, prev, next
    <3>4. trees[t] # next[t]
      BY <1>3, <1>5, <3>3, Counters, SMTT(20) DEF Sized
    <3>5. StateOf(trees) # StateOf(next)
      BY <3>3, <3>4, StateEqual
    <3>6. Ripped
      BY <1>1, <1>6, <1>9, <2>3 DEF Ripped, prev, next
    <3> QED
      BY <1>1, <1>2, <1>7, <3>1, <3>5, <3>6
  <2> QED
    BY <2>2, <2>3
<1> QED
  BY <1>8, <1>9

(* The sequencer's block under construction while a job is on the trees. *)
LEMMA BuilderKept ==
    ASSUME IInv, Grows, UNCHANGED <<builder, lastPublished>>, IsTrees(latest'),
           Sealed(latest'), TreesFree' => latest' = committed'
    PROVE  BuilderOK'
<1>1. builder' = builder /\ lastPublished' = lastPublished /\ BuilderOK /\ ChainOK
  BY DEF IInv
<1>2. Len(chain) \in Nat
  BY <1>1 DEF ChainOK
<1>3. builder.at = "build" => Growing(builder.trees, builder.body, builder.step)'
  <2> SUFFICES ASSUME builder.at = "build"
               PROVE  Growing(builder.trees, builder.body, builder.step)'
    OBVIOUS
  <2>1. Growing(builder.trees, builder.body, builder.step)
    BY <1>1 DEF BuilderOK
  <2>2. PICK m \in 0..Len(chain') :
            GrowingFrom(After(m)', builder.trees, builder.body, builder.step)
    BY <1>2, <2>1, GrowingStays
  <2> QED
    BY <1>1, <2>2 DEF Growing, GrowingFrom
<1>4. builder.at = "built" => Grown(builder)'
  BY <1>1, <1>2, GrownStays, Zenon DEF BuilderOK, Grown
<1>5. IsTrees(latest)' /\ Sealed(latest)'
  BY DEF IsTrees, Sealed, StateOf
<1> QED
  BY <1>1, <1>3, <1>4, <1>5 DEF BuilderOK

(* handleL2Block up to the commit. *)
LEMMA HandleBlockInv ==
    ASSUME IInv, HandleBlock
    PROVE  IInv'
<1>1. pc = "idle" /\ Populated /\ blockNumber < source
  BY HandleOutcome
<1>2. CASE Halt /\ Ripped
  BY <1>1, <1>2, HaltInv
<1>3. CASE /\ latest' = After(blockNumber + 1) /\ pc' = "commit" /\ step' = 1
           /\ UNCHANGED <<l1Vars, dbVars, target, builderVars, threw>>
           /\ ~ threw /\ \A t \in Indexed : Fresh(t)
  <2>1. /\ UNCHANGED <<chain, source, mempool, created, committed, preimages, snapshots>>
        /\ UNCHANGED <<blockNumber, target, builder, lastPublished, threw>>
    BY <1>3 DEF l1Vars, dbVars, builderVars
  <2>2. ChainOK' /\ L1OK' /\ Grows /\ \A n : After(n)' = After(n)
    BY <2>1, L1Same
  <2>3. After(blockNumber)' = After(blockNumber) /\ After(blockNumber + 1)' = After(blockNumber + 1)
    BY <2>1 DEF After
  <2>4. CreateOK /\ CommitOK /\ LeavesOK /\ SyncOK /\ SnapshotsOK
    BY DEF IInv
  <2>5. CreateOK'
    BY <1>1, <1>3, <2>1, <2>4 DEF CreateOK
  <2>6. Populated' = Populated /\ (\A t : InBlock(t)' = InBlock(t) /\ InNext(t)' = InNext(t))
    BY <1>1, <1>3, <2>1, <2>3 DEF Populated, InBlock, InNext
  <2>7. CommitOK'
    BY <2>1, <2>4, <2>6 DEF CommitOK, IsTrees
  <2>8. SyncOK'
    BY <1>1, <1>3, <2>1, <2>3, <2>4, Order DEF SyncOK
  <2>9. SnapshotsOK'
    BY <1>3, <2>1, <2>2, <2>4 DEF SnapshotsOK
  <2>10. BuilderOK'
    <3>1. IsTrees(latest') /\ Sealed(latest')
      BY <1>1, <1>3, Around
    <3>2. ~ TreesFree'
      BY <1>3 DEF TreesFree
    <3> QED
      BY <2>1, <2>2, <3>1, <3>2, BuilderKept
  <2>11. LeavesOK'
    BY <1>3, <2>1, <2>3, <2>4, <2>6, LeavesFrame
  <2> QED
    BY <2>2, <2>5, <2>7, <2>8, <2>9, <2>10, <2>11 DEF IInv
<1> QED
  BY <1>2, <1>3, HandleOutcome

(* One tree is committed: at last, and only then, the archive. *)
LEMMA CommitTreeInv ==
    ASSUME IInv, CommitTree
    PROVE  IInv'
<1>0. PICK t0 \in Trees : t0 = TreeOrder[step]
  BY Counters, Order
<1> DEFINE goal == IF pc = "populate" THEN Genesis ELSE After(blockNumber + 1)
<1>1. /\ UNCHANGED <<chain, source, mempool, created, preimages, snapshots, blockNumber, latest>>
      /\ UNCHANGED <<target, builder, lastPublished, threw>>
      /\ pc \in {"populate", "commit"}
      /\ committed' = [committed EXCEPT ![t0] = latest[t0]]
      /\ \/ /\ pc = "commit" /\ t0 \in Indexed
            /\ step' = step /\ pc' = "commitLeaves"
         \/ /\ pc = "commit" => t0 \notin Indexed
            /\ step < Len(TreeOrder) /\ step' = step + 1 /\ pc' = pc
         \/ /\ pc = "commit" => t0 \notin Indexed
            /\ step = Len(TreeOrder) /\ step' = 1
            /\ pc' = IF pc = "populate" THEN "idle" ELSE "check"
  BY <1>0, Counters DEF CommitTree, NextTree, l1Vars, builderVars
<1>2. ChainOK' /\ L1OK' /\ Grows /\ \A n : After(n)' = After(n)
  BY <1>1, L1Same
<1>3. After(blockNumber)' = After(blockNumber) /\ After(blockNumber + 1)' = After(blockNumber + 1)
  BY <1>1 DEF After
<1>4. CreateOK /\ CommitOK /\ LeavesOK /\ SyncOK /\ SnapshotsOK /\ IsTrees(committed) /\ ~ threw
  BY <1>1 DEF IInv, CommitOK, SyncOK
<1>5. /\ t0 \in Trees /\ latest = goal /\ IsTrees(goal) /\ Sealed(goal)
      /\ Archive \in created /\ created = Trees
      /\ pc = "commit" => blockNumber < source
      /\ pc = "populate" => blockNumber = 0
  BY <1>1, <1>4, Counters, Order, Around, GenesisIs DEF CreateOK, SyncOK
<1>6. \A i \in 1..(step - 1) : committed[TreeOrder[i]] = goal[TreeOrder[i]]
  BY <1>1, <1>4 DEF CreateOK, SyncOK, InNext
<1>7. /\ IsTrees(committed')
      /\ committed'[t0] = goal[t0]
      /\ \A t \in Trees : t # t0 => committed'[t] = committed[t]
  BY <1>1, <1>4, <1>5 DEF IsTrees, AnyTrees
<1>8. \A i \in 1..step : committed'[TreeOrder[i]] = goal[TreeOrder[i]]
  <2> SUFFICES ASSUME NEW i \in 1..step
               PROVE  committed'[TreeOrder[i]] = goal[TreeOrder[i]]
    OBVIOUS
  <2> HIDE DEF goal
  <2>1. CASE i = step
    BY <1>0, <1>7, <2>1
  <2>2. CASE i # step
    <3>1. i \in 1..(step - 1) /\ i \in 1..Len(TreeOrder) /\ step \in 1..Len(TreeOrder)
      BY <2>2, Counters
    <3>2. TreeOrder[i] \in Trees /\ TreeOrder[i] # t0
      BY <1>0, <2>2, <3>1, Order
    <3> QED
      BY <1>6, <1>7, <3>1, <3>2
  <2> QED
    BY <2>1, <2>2
<1>9. step = Len(TreeOrder) => committed' = goal
  <2>1. step = Len(TreeOrder) => \A i \in 1..Len(TreeOrder) : committed'[TreeOrder[i]] = goal[TreeOrder[i]]
    BY <1>8
  <2> QED
    BY <1>5, <1>7, <2>1, TreesEqualInOrder DEF IsTrees
<1>10. /\ step < Len(TreeOrder) => t0 # Archive
       /\ t0 \in Indexed => step < Len(TreeOrder)
  BY <1>0, Counters, Order, IndexedBefore
<1>11. CreateOK'
  <2>1. ASSUME pc' = "populate"
        PROVE  \A i \in 1..(step' - 1) : committed'[TreeOrder[i]] = Genesis[TreeOrder[i]]
    <3>1. goal = Genesis /\ step' - 1 = step
      BY <1>1, <2>1, Counters
    <3> QED
      BY <1>8, <3>1
  <2> QED
    BY <1>1, <1>4, <1>5, <2>1 DEF CreateOK
<1>12. CASE pc = "populate"
  <2>1. step = Len(TreeOrder) => committed' = After(blockNumber) /\ latest' = committed'
    BY <1>1, <1>5, <1>9, <1>12 DEF After
  <2>2. step = Len(TreeOrder) => \A t : InBlock(t)'
    BY <1>3, <2>1 DEF InBlock
  <2>3. Populated' => step = Len(TreeOrder)
    BY <1>1, <1>12 DEF Populated
  <2>4. CommitOK'
    <3>1. IsTrees(committed)'
      BY <1>7 DEF IsTrees
    <3> QED
      BY <1>1, <1>4, <2>2, <2>3, <3>1 DEF CommitOK
  <2>5. SyncOK'
    BY <1>1, <1>3, <1>4, <1>12, <2>1, Counters DEF SyncOK
  <2>6. SnapshotsOK'
    BY <1>1, <1>2, <1>4, <1>12 DEF SnapshotsOK
  <2>8. LeavesOK'
    <3>1. preimages' = preimages /\ \A t \in Indexed : preimages[t] = <<>>
      BY <1>1, <1>4, <1>12 DEF LeavesOK
    <3>2. \A t \in Indexed : Genesis[t] = <<>>
      BY Order DEF Genesis, EmptyTrees
    <3>3. step = Len(TreeOrder) => \A t \in Indexed : Fresh(t)'
      BY <1>9, <1>12, <3>1, <3>2 DEF Fresh
    <3> QED
      BY <1>1, <1>4, <1>12, <2>3, <3>1, <3>3 DEF LeavesOK
  <2>7. BuilderOK'
    <3>1. builder' = NoBuild /\ lastPublished' \in Nat
      BY <1>1, <1>4, <1>12 DEF IInv, SyncOK, BuilderOK
    <3>2. TreesFree' => latest' = committed'
      BY <1>1, <1>12, <2>1 DEF TreesFree
    <3> QED
      BY <1>1, <1>5, <3>1, <3>2, BuilderIdle
  <2> QED
    BY <1>2, <1>11, <2>4, <2>5, <2>6, <2>7, <2>8 DEF IInv
<1>13. CASE pc = "commit"
  <2>1. Populated /\ Populated' /\ goal = After(blockNumber + 1) /\ blockNumber < source
    BY <1>1, <1>5, <1>13 DEF Populated
  <2>2. InNext(t0)' /\ \A t \in Trees : t # t0 => (InBlock(t)' = InBlock(t) /\ InNext(t)' = InNext(t))
    <3>1. committed'[t0] = After(blockNumber + 1)'[t0] /\ blockNumber' < source'
      BY <1>1, <1>3, <1>7, <2>1
    <3>2. \A t \in Trees : t # t0 => (InBlock(t)' = InBlock(t) /\ InNext(t)' = InNext(t))
      BY <1>1, <1>3, <1>7 DEF InBlock, InNext
    <3> QED
      BY <3>1, <3>2 DEF InNext
  <2>3. step = Len(TreeOrder) => committed' = After(blockNumber + 1)
    BY <1>9, <2>1
  <2>4. step = Len(TreeOrder) => \A t : InNext(t)'
    BY <1>1, <1>3, <2>1, <2>3 DEF InNext
  <2>5. CommitOK'
    <3>1. IsTrees(committed)'
      BY <1>7 DEF IsTrees
    <3>2. \A t \in Trees : InBlock(t)' \/ InNext(t)'
      BY <1>4, <2>1, <2>2 DEF CommitOK
    <3>3. ~ InBlock(Archive)' => \A t \in Trees : InNext(t)'
      <4>1. CASE step = Len(TreeOrder)
        BY <2>4, <4>1
      <4>2. CASE step < Len(TreeOrder)
        <5>1. InBlock(Archive)' = InBlock(Archive)
          BY <1>10, <2>2, <4>2, Order
        <5> QED
          BY <1>4, <2>1, <2>2, <5>1 DEF CommitOK
      <4> QED
        BY <4>1, <4>2, Counters
    <3> QED
      BY <1>1, <1>4, <3>1, <3>2, <3>3 DEF CommitOK
  <2>6. SyncOK'
    <3>1. ASSUME pc' = "commit"
          PROVE  \A i \in 1..(step' - 1) : InNext(TreeOrder[i])'
      <4>1. \A i \in 1..(step' - 1) : committed'[TreeOrder[i]] = After(blockNumber + 1)[TreeOrder[i]]
        BY <1>1, <1>8, <2>1, <3>1, Counters, SMTT(20)
      <4> QED
        BY <1>1, <1>3, <2>1, <4>1 DEF InNext
    <3>2. pc' = "check" => step = Len(TreeOrder)
      BY <1>1, <1>13
    <3>6. ASSUME pc' = "commitLeaves"
          PROVE  /\ TreeOrder[step'] \in Indexed /\ InNext(TreeOrder[step])'
                 /\ \A i \in 1..(step' - 1) : InNext(TreeOrder[i])'
      <4>1. step' = step /\ t0 \in Indexed
        BY <1>1, <1>13, <3>6
      <4>2. \A i \in 1..(step' - 1) : committed'[TreeOrder[i]] = After(blockNumber + 1)[TreeOrder[i]]
        BY <1>8, <2>1, <4>1, Counters, SMTT(20)
      <4>3. \A i \in 1..(step' - 1) : InNext(TreeOrder[i])'
        BY <1>1, <1>3, <2>1, <4>2 DEF InNext
      <4>4. InNext(TreeOrder[step])'
        BY <1>0, <2>2, <4>1 DEF InNext
      <4> QED
        BY <1>0, <4>1, <4>3, <4>4
    <3>3. step' \in 1..Len(TreeOrder)
      BY <1>1, Counters
    <3>4. (latest = After(blockNumber + 1))'
      BY <1>1, <1>3, <1>5, <2>1
    <3>5. pc' \in {"commit", "commitLeaves", "check"}
      BY <1>1, <1>13
    <3> QED
      BY <1>1, <1>4, <2>1, <2>4, <3>1, <3>2, <3>3, <3>4, <3>5, <3>6 DEF SyncOK
  <2>7. SnapshotsOK'
    BY <1>1, <1>2, <1>4, <1>13 DEF SnapshotsOK
  <2>8. BuilderOK'
    <3>1. IsTrees(latest') /\ Sealed(latest') /\ ~ TreesFree'
      BY <1>1, <1>5, <1>13 DEF TreesFree
    <3> QED
      BY <1>1, <1>2, <3>1, BuilderKept
  <2>9. LeavesOK'
    <3>1. \A t \in Indexed : Fresh(t)
      BY <1>4, <1>13 DEF LeavesOK
    <3>2. \A t \in Indexed : t # t0 => Fresh(t)'
      BY <1>1, <1>7, <3>1, Order DEF Fresh
    <3>3. t0 \in Indexed =>
              \/ Fresh(t0)'
              \/ (preimages[t0] = After(blockNumber)[t0])' /\ InNext(t0)' /\ InBlock(Archive)'
      <4> SUFFICES ASSUME t0 \in Indexed
                   PROVE  \/ Fresh(t0)'
                          \/ /\ (preimages[t0] = After(blockNumber)[t0])'
                             /\ InNext(t0)' /\ InBlock(Archive)'
        OBVIOUS
      <4>1. preimages'[t0] = committed[t0] /\ t0 # Archive
        BY <1>1, <3>1, Order DEF Fresh
      <4>2. CASE InNext(t0)
        BY <1>7, <2>1, <4>1, <4>2 DEF InNext, Fresh
      <4>3. CASE ~ InNext(t0)
        <5>1. InBlock(t0) /\ InBlock(Archive)
          BY <1>4, <1>5, <2>1, <4>3 DEF CommitOK
        <5>2. InBlock(Archive)'
          BY <2>2, <4>1, <5>1, Order
        <5>3. (preimages[t0] = After(blockNumber)[t0])'
          BY <1>3, <4>1, <5>1 DEF InBlock
        <5> QED
          BY <2>2, <5>2, <5>3
      <4> QED
        BY <4>2, <4>3
    <3>4. pc' = "commitLeaves" => TreeOrder[step'] = t0
      BY <1>0, <1>1, <1>13
    <3>5. pc' \in {"commit", "check"} => t0 \notin Indexed
      BY <1>1, <1>13
    <3>6. preimages' = preimages /\ pc' \in {"commit", "commitLeaves", "check"}
      BY <1>1, <1>13
    <3> QED
      BY <1>4, <3>2, <3>3, <3>4, <3>5, <3>6 DEF LeavesOK
  <2> QED
    BY <1>2, <1>11, <2>5, <2>6, <2>7, <2>8, <2>9 DEF IInv
<1> QED
  BY <1>1, <1>12, <1>13

(* The leaves of an indexed tree follow its nodes. *)
LEMMA CommitLeavesInv ==
    ASSUME IInv, CommitLeaves
    PROVE  IInv'
<1> DEFINE t0 == TreeOrder[step]
<1>1. /\ pc = "commitLeaves" /\ CreateOK /\ CommitOK /\ LeavesOK /\ SyncOK /\ SnapshotsOK
      /\ t0 \in Indexed /\ step < Len(TreeOrder) /\ ~ threw
      /\ blockNumber < source /\ latest = After(blockNumber + 1) /\ InNext(t0)
      /\ \A i \in 1..(step - 1) : InNext(TreeOrder[i])
  BY Counters, IndexedBefore DEF CommitLeaves, IInv, SyncOK
<1>2. /\ UNCHANGED <<chain, source, mempool, created, committed, snapshots, blockNumber>>
      /\ UNCHANGED <<target, latest, builder, lastPublished, threw>>
      /\ preimages' = [preimages EXCEPT ![t0] = latest[t0]]
      /\ step' = step + 1 /\ pc' = "commit"
  BY <1>1 DEF CommitLeaves, NextTree, l1Vars, builderVars
<1>3. ChainOK' /\ L1OK' /\ Grows /\ \A n : After(n)' = After(n)
  BY <1>2, L1Same
<1>4. After(blockNumber)' = After(blockNumber) /\ After(blockNumber + 1)' = After(blockNumber + 1)
  BY <1>2 DEF After
<1>5. /\ Populated' /\ Populated
      /\ \A t : InBlock(t)' = InBlock(t) /\ InNext(t)' = InNext(t)
  BY <1>1, <1>2, <1>4 DEF Populated, InBlock, InNext, CreateOK
<1>6. CreateOK'
  BY <1>1, <1>2 DEF CreateOK
<1>7. CommitOK'
  BY <1>1, <1>2, <1>5 DEF CommitOK, IsTrees
<1>8. LeavesOK'
  <2>1. latest[t0] = committed[t0] /\ committed[t0] \in Seq(Leaves)
    BY <1>1, Order DEF InNext, CommitOK, IsTrees
  <2>2. /\ preimages' \in [Indexed -> Seq(Leaves) \cup {None}]
        /\ preimages'[t0] = committed[t0]
        /\ \A t \in Indexed : t # t0 => preimages'[t] = preimages[t]
    BY <1>1, <1>2, <2>1 DEF LeavesOK
  <2>3. \A t \in Indexed : Fresh(t)'
    BY <1>1, <1>2, <2>2 DEF LeavesOK, Fresh
  <2> QED
    BY <1>2, <2>2, <2>3 DEF LeavesOK
<1>9. SyncOK'
  <2>1. \A i \in 1..(step' - 1) : InNext(TreeOrder[i])'
    <3> SUFFICES ASSUME NEW i \in 1..(step' - 1)
                 PROVE  InNext(TreeOrder[i])'
      OBVIOUS
    <3>1. i \in 1..(step - 1) \/ i = step
      BY <1>2, Counters
    <3> QED
      BY <1>1, <1>5, <3>1
  <2>2. step' \in 1..Len(TreeOrder)
    BY <1>1, <1>2, Counters
  <2> QED
    BY <1>1, <1>2, <1>4, <2>1, <2>2 DEF SyncOK
<1>10. SnapshotsOK'
  BY <1>1, <1>2, <1>3 DEF SnapshotsOK
<1>11. BuilderOK'
  <2>1. IsTrees(latest') /\ Sealed(latest') /\ ~ TreesFree'
    BY <1>1, <1>2, Around DEF TreesFree
  <2> QED
    BY <1>2, <1>3, <2>1, BuilderKept
<1> QED
  BY <1>3, <1>6, <1>7, <1>8, <1>9, <1>10, <1>11 DEF IInv

(* The committed roots are those of the block: no exception. *)
LEMMA CheckRootsInv ==
    ASSUME IInv, CheckRoots
    PROVE  IInv'
<1>1. pc = "check" /\ CreateOK /\ CommitOK /\ LeavesOK /\ SyncOK /\ SnapshotsOK
  BY DEF CheckRoots, IInv
<1>2. \A t \in Trees : committed[t] = After(blockNumber + 1)[t]
  BY <1>1 DEF SyncOK, InNext
<1>3. /\ UNCHANGED <<chain, source, mempool, created, committed, preimages, snapshots>>
      /\ UNCHANGED <<blockNumber, latest, step, target, builder, lastPublished, threw>>
      /\ pc' = "snapshot"
  BY <1>2 DEF CheckRoots, l1Vars, dbVars, builderVars
<1>4. ChainOK' /\ L1OK' /\ Grows /\ \A n : After(n)' = After(n)
  BY <1>3, L1Same
<1>5. After(blockNumber)' = After(blockNumber) /\ After(blockNumber + 1)' = After(blockNumber + 1)
  BY <1>3 DEF After
<1>6. /\ Populated' = Populated /\ (\A t : InBlock(t)' = InBlock(t) /\ InNext(t)' = InNext(t))
  BY <1>1, <1>3, <1>5 DEF Populated, InBlock, InNext
<1>7. CreateOK'
  BY <1>1, <1>3 DEF CreateOK
<1>8. CommitOK'
  BY <1>1, <1>3, <1>6 DEF CommitOK, IsTrees
<1>9. SyncOK'
  BY <1>1, <1>3, <1>5, <1>6 DEF SyncOK
<1>10. SnapshotsOK'
  <2>1. step' = 1
    BY <1>1, <1>3 DEF SyncOK
  <2> QED
    BY <1>1, <1>3, <1>4, <2>1 DEF SnapshotsOK
<1>11. BuilderOK'
  <2>1. IsTrees(latest') /\ Sealed(latest') /\ ~ TreesFree'
    BY <1>1, <1>3, Around DEF SyncOK, TreesFree
  <2> QED
    BY <1>3, <1>4, <2>1, BuilderKept
<1>12. LeavesOK'
  <2>1. \A t \in Indexed : Fresh(t)
    BY <1>1 DEF LeavesOK
  <2> QED
    BY <1>1, <1>3, <1>5, <1>6, <2>1, LeavesFrame
<1> QED
  BY <1>4, <1>7, <1>8, <1>9, <1>10, <1>11, <1>12 DEF IInv

(* A snapshot of one tree is taken, unless there is one for the block. *)
LEMMA SnapshotTreeInv ==
    ASSUME IInv, SnapshotTree
    PROVE  IInv'
<1>0. PICK t0 \in Trees : t0 = TreeOrder[step]
  BY Counters, Order
<1>16. /\ CreateOK /\ CommitOK /\ LeavesOK /\ SyncOK /\ SnapshotsOK /\ pc = "snapshot"
       /\ \A t \in Indexed : preimages[t] = committed[t]
  BY DEF IInv, LeavesOK, Fresh, SnapshotTree
<1>1. /\ UNCHANGED <<chain, source, mempool, created, committed, preimages, blockNumber, latest>>
      /\ UNCHANGED <<target, builder, lastPublished, threw>>
      /\ pc = "snapshot"
      /\ \/ snapshots[t0][blockNumber + 1] # None /\ snapshots' = snapshots
         \/ /\ snapshots[t0][blockNumber + 1] = None
            /\ snapshots' = [snapshots EXCEPT ![t0][blockNumber + 1] = committed[t0]]
      /\ \/ step < Len(TreeOrder) /\ step' = step + 1 /\ pc' = pc
         \/ step = Len(TreeOrder) /\ step' = 1 /\ pc' = "number"
  <2> DEFINE tree == IF t0 \in Indexed THEN preimages[t0] ELSE committed[t0]
  <2>1. tree = committed[t0]
    BY <1>16
  <2> HIDE DEF tree
  <2>2. snapshots' = IF snapshots[t0][blockNumber + 1] = None
                     THEN [snapshots EXCEPT ![t0][blockNumber + 1] = tree] ELSE snapshots
    BY <1>0 DEF SnapshotTree, NoSnapshot, tree
  <2>3. NextTree("snapshot", "number")
    BY DEF SnapshotTree
  <2>4. \/ step < Len(TreeOrder) /\ step' = step + 1 /\ pc' = pc
        \/ step = Len(TreeOrder) /\ step' = 1 /\ pc' = "number"
    BY <1>16, <2>3, Counters DEF NextTree
  <2>5. /\ UNCHANGED <<chain, source, mempool, created, committed, preimages>>
        /\ UNCHANGED <<blockNumber, latest, target, builder, lastPublished, threw>>
    BY DEF SnapshotTree, l1Vars, builderVars
  <2> QED
    BY <1>16, <2>1, <2>2, <2>4, <2>5
<1>2. ChainOK' /\ L1OK' /\ Grows /\ \A n : After(n)' = After(n)
  BY <1>1, L1Same
<1>3. After(blockNumber)' = After(blockNumber) /\ After(blockNumber + 1)' = After(blockNumber + 1)
  BY <1>1 DEF After
<1>4. CreateOK /\ CommitOK /\ LeavesOK /\ SyncOK /\ SnapshotsOK /\ ~ threw
  BY <1>16 DEF SyncOK
<1>5. /\ blockNumber < source /\ latest = After(blockNumber + 1)
      /\ \A t \in Trees : committed[t] = After(blockNumber + 1)[t]
  BY <1>1, <1>4 DEF SyncOK, InNext
<1>6. /\ Populated' = Populated /\ (\A t : InBlock(t)' = InBlock(t) /\ InNext(t)' = InNext(t))
  BY <1>1, <1>3 DEF Populated, InBlock, InNext
<1>7. CreateOK'
  BY <1>1, <1>4 DEF CreateOK
<1>8. CommitOK'
  BY <1>1, <1>4, <1>6 DEF CommitOK, IsTrees
<1>9. SyncOK'
  <2>1. step' \in 1..Len(TreeOrder)
    BY <1>1, Counters
  <2> QED
    BY <1>1, <1>3, <1>4, <1>6, <2>1 DEF SyncOK
<1>10. blockNumber + 1 \in 1..MaxBlocks /\ blockNumber + 1 <= Len(chain)
  BY <1>5, Counters
<1>11. committed[t0] # None
  <2>1. committed[t0] \in Seq(Leaves) \/ committed[t0] \in Seq(States)
    BY <1>4, Order DEF CommitOK, IsTrees
  <2> QED
    BY <2>1, WorldStateAssumption
<1>12. /\ snapshots' \in [Trees -> [1..MaxBlocks -> Seq(Leaves) \cup Seq(States) \cup {None}]]
       /\ snapshots'[t0][blockNumber + 1] # None
       /\ \A t \in Trees, n \in 1..MaxBlocks :
              \/ snapshots'[t][n] = snapshots[t][n]
              \/ /\ t = t0 /\ n = blockNumber + 1
                 /\ snapshots[t][n] = None /\ snapshots'[t][n] = After(n)[t]
  <2> DEFINE X == Seq(Leaves) \cup Seq(States) \cup {None}
             n0 == blockNumber + 1
             x == committed[t0]
  <2>1. snapshots \in [Trees -> [1..MaxBlocks -> X]] /\ n0 \in 1..MaxBlocks
    BY <1>4, <1>10 DEF SnapshotsOK
  <2>2. x \in X /\ x # None /\ x = After(n0)[t0]
    BY <1>4, <1>5, <1>11, Order DEF CommitOK, IsTrees
  <2>3. \/ snapshots[t0][n0] # None /\ snapshots' = snapshots
        \/ /\ snapshots[t0][n0] = None
           /\ snapshots' = [snapshots EXCEPT ![t0][n0] = x]
    BY <1>1
  <2> HIDE DEF X, n0, x
  <2>4. /\ snapshots' \in [Trees -> [1..MaxBlocks -> X]]
        /\ snapshots'[t0][n0] # None
        /\ \A t \in Trees, n \in 1..MaxBlocks :
              \/ snapshots'[t][n] = snapshots[t][n]
              \/ /\ t = t0 /\ n = n0
                 /\ snapshots[t][n] = None /\ snapshots'[t][n] = x
    <3>1. CASE snapshots[t0][n0] # None
      BY <2>1, <2>3, <3>1
    <3>2. CASE snapshots[t0][n0] = None
      <4> DEFINE row == [snapshots[t0] EXCEPT ![n0] = x]
      <4>1. /\ row \in [1..MaxBlocks -> X] /\ row[n0] = x
            /\ \A n \in 1..MaxBlocks : n # n0 => row[n] = snapshots[t0][n]
        BY <2>1, <2>2
      <4>2. snapshots' = [snapshots EXCEPT ![t0] = row]
        BY <2>3, <3>2
      <4> HIDE DEF row
      <4>3. snapshots' \in [Trees -> [1..MaxBlocks -> X]] /\ snapshots'[t0] = row
        BY <2>1, <4>1, <4>2
      <4>4. \A t \in Trees : t # t0 => snapshots'[t] = snapshots[t]
        BY <2>1, <4>2
      <4> QED
        BY <2>2, <3>2, <4>1, <4>3, <4>4
    <3> QED
      BY <3>1, <3>2
  <2> QED
    BY <2>2, <2>4 DEF X, n0
<1>13. \A i \in 1..step : snapshots'[TreeOrder[i]][blockNumber + 1] # None
  <2> SUFFICES ASSUME NEW i \in 1..step
               PROVE  snapshots'[TreeOrder[i]][blockNumber + 1] # None
    OBVIOUS
  <2>1. CASE i = step
    BY <1>0, <1>12, <2>1
  <2>2. CASE i # step
    <3>1. i \in 1..(step - 1) /\ i \in 1..Len(TreeOrder) /\ step \in 1..Len(TreeOrder)
      BY <2>2, Counters
    <3>2. TreeOrder[i] \in Trees /\ TreeOrder[i] # t0
      BY <1>0, <2>2, <3>1, Order
    <3>3. snapshots[TreeOrder[i]][blockNumber + 1] # None
      BY <1>1, <1>4, <3>1 DEF SnapshotsOK
    <3> QED
      BY <1>10, <1>12, <3>2, <3>3
  <2> QED
    BY <2>1, <2>2
<1>14. SnapshotsOK'
  <2>1. \A t \in Trees, n \in 1..MaxBlocks :
           \/ snapshots'[t][n] = None /\ n > blockNumber'
           \/ n <= Len(chain') /\ snapshots'[t][n] = After(n)'[t]
    BY <1>1, <1>2, <1>4, <1>10, <1>12 DEF SnapshotsOK
  <2>2. pc' = "snapshot" => \A i \in 1..(step' - 1) : snapshots'[TreeOrder[i]][blockNumber' + 1] # None
    BY <1>1, <1>13, Counters
  <2>3. pc' = "number" => \A t \in Trees : snapshots'[t][blockNumber' + 1] # None
    BY <1>1, <1>13, Counters, Order
  <2> QED
    BY <1>12, <2>1, <2>2, <2>3 DEF SnapshotsOK
<1>15. BuilderOK'
  <2>1. IsTrees(latest') /\ Sealed(latest')
    BY <1>1, <1>5, Around
  <2>2. latest' = committed'
    BY <1>1, <1>4, <1>5, Around, TreesEqual DEF CommitOK, IsTrees
  <2> QED
    BY <1>1, <1>2, <2>1, <2>2, BuilderKept
<1>17. LeavesOK'
  <2>1. \A t \in Indexed : Fresh(t)
    BY <1>16 DEF Fresh
  <2> QED
    BY <1>1, <1>3, <1>4, <1>6, <2>1, LeavesFrame
<1> QED
  BY <1>2, <1>7, <1>8, <1>9, <1>14, <1>15, <1>17 DEF IInv

(* The block is handled. *)
LEMMA SetBlockNumberInv ==
    ASSUME IInv, SetBlockNumber
    PROVE  IInv'
<1>1. /\ UNCHANGED <<chain, source, mempool, created, committed, preimages, snapshots, latest>>
      /\ UNCHANGED <<step, target, builder, lastPublished, threw>>
      /\ pc = "number" /\ pc' = "idle" /\ blockNumber' = blockNumber + 1
  BY DEF SetBlockNumber, l1Vars, builderVars
<1>2. ChainOK' /\ L1OK' /\ Grows /\ \A n : After(n)' = After(n)
  BY <1>1, L1Same
<1>3. After(blockNumber)' = After(blockNumber + 1)
  BY <1>1 DEF After
<1>4. CreateOK /\ CommitOK /\ LeavesOK /\ SyncOK /\ SnapshotsOK /\ BuilderOK /\ ~ threw
  BY <1>1 DEF IInv, SyncOK
<1>5. /\ blockNumber < source
      /\ \A t \in Trees : committed[t] = After(blockNumber + 1)[t]
  BY <1>1, <1>4 DEF SyncOK, InNext
<1>6. \A t \in Trees : InBlock(t)'
  BY <1>1, <1>3, <1>5 DEF InBlock
<1>7. (committed = After(blockNumber))'
  BY <1>1, <1>3, <1>4, <1>5, Around, TreesEqual DEF CommitOK, IsTrees
<1>8. CreateOK'
  BY <1>1, <1>4 DEF CreateOK
<1>9. CommitOK'
  <2>1. blockNumber' \in 0..source'
    BY <1>1, <1>5, Counters
  <2> QED
    BY <1>1, <1>4, <1>6, <2>1, Order DEF CommitOK, IsTrees
<1>10. SyncOK'
  BY <1>1, <1>4, <1>7 DEF SyncOK
<1>11. SnapshotsOK'
  <2>1. \A t \in Trees, n \in 1..MaxBlocks :
           \/ snapshots'[t][n] = None /\ n > blockNumber'
           \/ n <= Len(chain') /\ snapshots'[t][n] = After(n)'[t]
    <3> SUFFICES ASSUME NEW t \in Trees, NEW n \in 1..MaxBlocks
                 PROVE  \/ snapshots'[t][n] = None /\ n > blockNumber'
                        \/ n <= Len(chain') /\ snapshots'[t][n] = After(n)'[t]
      OBVIOUS
    <3>1. n > blockNumber /\ n # blockNumber + 1 => n > blockNumber + 1
      BY Counters
    <3> QED
      BY <1>1, <1>2, <1>4, <3>1 DEF SnapshotsOK
  <2> QED
    BY <1>1, <1>4, <2>1 DEF SnapshotsOK
<1>12. BuilderOK'
  <2>1. Done' = Done /\ TreesFree /\ TreesFree'
    BY <1>1 DEF Done, TreesFree
  <2>2. IsTrees(latest)' = IsTrees(latest) /\ Sealed(latest)' = Sealed(latest)
    BY <1>1 DEF IsTrees, Sealed, StateOf
  <2>3. builder.at = "build" => Growing(builder.trees, builder.body, builder.step)'
    BY <1>1, <1>2, <1>4 DEF BuilderOK, Growing, GrowingFrom
  <2>4. builder.at = "built" => Grown(builder)'
    BY <1>1, <1>2, <1>4 DEF BuilderOK, Grown
  <2> QED
    BY <1>1, <1>4, <2>1, <2>2, <2>3, <2>4 DEF BuilderOK
<1>13. LeavesOK'
  <2>1. \A t \in Indexed : Fresh(t)'
    BY <1>1, <1>4 DEF LeavesOK, Fresh
  <2> QED
    BY <1>1, <1>4, <2>1 DEF LeavesOK
<1> QED
  BY <1>2, <1>8, <1>9, <1>10, <1>11, <1>12, <1>13 DEF IInv

-----------------------------------------------------------------------------
(* The sequencer *)

(* While a block is being built the node is up, and the trees are those of   *)
(* the last block handled.                                                   *)
LEMMA Building ==
    ASSUME IInv, builder.at # "idle"
    PROVE  /\ pc \notin {"down", "create", "createLeaves", "populate"}
           /\ pc = "idle" => committed = After(blockNumber)
BY DEF IInv, SyncOK, NoBuild

(* Then no leaves are stale between jobs on the trees. *)
LEMMA NotStale ==
    ASSUME IInv, TreesFree, builder.at # "idle", NEW t
    PROVE  ~ Stale(t)
<1> SUFFICES ASSUME t \in Indexed
             PROVE  Fresh(t)
  BY DEF Stale, Fresh
<1>1. CASE pc = "number"
  BY <1>1 DEF IInv, LeavesOK
<1>2. CASE pc = "idle"
  <2>1. committed = After(blockNumber) /\ Populated
    BY <1>2, Building DEF IInv, CreateOK, Populated
  <2> QED
    BY <2>1 DEF IInv, LeavesOK, Fresh
<1> QED
  BY <1>1, <1>2 DEF TreesFree

(* Steps of the sequencer leave the synchronizer's part alone. *)
LEMMA BuildFrame ==
    ASSUME IInv, Grows, source' = source, UNCHANGED <<dbVars, syncVars, threw>>,
           pc \notin {"down", "create", "createLeaves", "populate"},
           pc = "idle" => committed = After(blockNumber),
           latest' = latest \/ TreesFree
    PROVE  CreateOK' /\ CommitOK' /\ LeavesOK' /\ SyncOK' /\ SnapshotsOK'
<1>1. /\ created' = created /\ committed' = committed /\ snapshots' = snapshots
      /\ preimages' = preimages
      /\ blockNumber' = blockNumber /\ pc' = pc /\ step' = step
      /\ target' = target /\ threw' = threw
  BY DEF dbVars, syncVars
<1>2. ChainOK /\ L1OK /\ CreateOK /\ CommitOK /\ LeavesOK /\ SyncOK /\ SnapshotsOK
  BY DEF IInv
<1>3. /\ After(blockNumber)' = After(blockNumber)
      /\ blockNumber < source => After(blockNumber + 1)' = After(blockNumber + 1)
  BY <1>1, <1>2, AroundStays
<1>4. CreateOK'
  BY <1>1, <1>2 DEF CreateOK
<1>5. Populated' = Populated /\ (\A t : InBlock(t)' = InBlock(t) /\ InNext(t)' = InNext(t))
  BY <1>1, <1>3 DEF Populated, InBlock, InNext
<1>6. CommitOK'
  BY <1>1, <1>2, <1>5 DEF CommitOK, IsTrees
<1>7. SyncOK'
  <2>1. ~ threw
    BY <1>2 DEF SyncOK, Ripped
  <2>2. pc \in {"commit", "commitLeaves", "check", "snapshot"} => (latest = After(blockNumber + 1))'
    BY <1>1, <1>2, <1>3 DEF SyncOK, TreesFree
  <2>3. \A i \in 1..step : InNext(TreeOrder[i])' = InNext(TreeOrder[i])
    BY <1>1, <1>3 DEF InNext
  <2> QED
    BY <1>1, <1>2, <1>3, <1>5, <2>1, <2>2, <2>3 DEF SyncOK
<1>8. SnapshotsOK'
  <2>1. \A n \in 1..MaxBlocks : n <= Len(chain) => n <= Len(chain') /\ After(n)' = After(n)
    BY Counters DEF Grows
  <2> QED
    BY <1>1, <1>2, <2>1 DEF SnapshotsOK
<1>9. LeavesOK'
  BY <1>1, <1>2, <1>3, <1>5, LeavesFrame
<1> QED
  BY <1>4, <1>6, <1>7, <1>8, <1>9

(* A block is begun on the trees of the last block. *)
LEMMA StartBuildInv ==
    ASSUME IInv, NEW body \in Bodies, StartBuild(body)
    PROVE  IInv'
<1>1. /\ UNCHANGED <<chain, source, mempool, dbVars, latest, syncVars, lastPublished, threw>>
      /\ TreesFree /\ builder.at = "idle" /\ blockNumber >= target /\ blockNumber >= lastPublished
      /\ builder' = [at |-> "build", step |-> 1, number |-> source + 1, body |-> body,
                     trees |-> latest]
  BY DEF StartBuild, ReadyToBuild, l1Vars
<1>2. ChainOK' /\ L1OK' /\ Grows /\ \A n : After(n)' = After(n)
  BY <1>1, L1Same
<1>3. pc \in {"idle", "number"} /\ SyncOK /\ CommitOK /\ BuilderOK
  BY <1>1 DEF TreesFree, IInv
<1>4. pc = "idle" => committed = After(blockNumber)
  BY <1>1, <1>3, Counters DEF SyncOK
<1>5. latest = committed
  BY <1>1, <1>3, Counters DEF BuilderOK, Done
<1>6. Done \in 0..Len(chain) /\ latest = After(Done)
  <2>1. CASE pc = "idle"
    BY <1>4, <1>5, <2>1, Counters DEF Done
  <2>2. CASE pc = "number"
    <3>1. blockNumber < source /\ \A t \in Trees : committed[t] = After(blockNumber + 1)[t]
      BY <1>3, <2>2 DEF SyncOK, InNext
    <3>2. committed = After(blockNumber + 1)
      BY <1>3, <3>1, Around, TreesEqual DEF CommitOK, IsTrees
    <3> QED
      BY <1>5, <2>2, <3>1, <3>2, Counters DEF Done
  <2> QED
    BY <1>3, <2>1, <2>2
<1>7. CreateOK' /\ CommitOK' /\ LeavesOK' /\ SyncOK' /\ SnapshotsOK'
  BY <1>1, <1>2, <1>3, <1>4, BuildFrame
<1>8. BuilderOK'
  <2>1. PICK m \in 0..Len(chain) : latest = After(m)
    BY <1>6
  <2>3. IsTrees(latest)' /\ latest \in AnyTrees
    BY <1>1, <1>3 DEF BuilderOK, IsTrees
  <2>4. /\ builder' \in [at : {"idle", "build", "built", "rollback"}, step : Nat,
                         number : Nat, body : Bodies \cup {None}, trees : AnyTrees \cup {None}]
        /\ builder'.at = "build" /\ builder'.body = body /\ builder'.step = 1
        /\ builder'.trees = latest
    BY <1>1, <2>3, Counters
  <2>5. Growing(builder.trees, builder.body, builder.step)'
    BY <1>1, <2>1, <2>4, <1>2 DEF Growing, GrowingFrom
  <2>6. latest'[Archive] = committed'[Archive]
    BY <1>1, <1>5 DEF dbVars
  <2> QED
    BY <1>1, <1>3, <2>3, <2>4, <2>5, <2>6, Order DEF BuilderOK
<1> QED
  BY <1>2, <1>7, <1>8 DEF IInv

(* A builder's trees with the leaf of the next position. *)
LEMMA GrowOne ==
    ASSUME NEW g, IsTrees(g), NEW f \in AnyTrees, NEW body \in Bodies,
           NEW k \in 1..Len(TreeOrder), k < Len(TreeOrder), GrowingFrom(g, f, body, k),
           NEW t, t = TreeOrder[k], NEW h, h = [f EXCEPT ![t] = Append(@, body[t])]
    PROVE  h \in AnyTrees /\ GrowingFrom(g, h, body, k + 1)
<1>1. t \in Trees /\ t \in StateTrees
  BY Order, BeforeLast
<1>2. f[t] = g[t] /\ g[t] \in Seq(Leaves) /\ body[t] \in Leaves
  <2>1. ~ (k < k)
    BY Order
  <2>2. f[t] = g[t]
    BY <2>1 DEF GrowingFrom
  <2>3. g[t] \in Seq(Leaves)
    BY <1>1 DEF IsTrees
  <2>4. body[t] \in Leaves
    BY <1>1 DEF Leaves
  <2> QED
    BY <2>2, <2>3, <2>4
<1>3. Append(f[t], body[t]) \in Seq(Leaves)
  BY <1>2
<1>4. h \in AnyTrees
  BY <1>1, <1>3 DEF AnyTrees
<1>5. h[t] = Append(g[t], body[t]) /\ \A u \in Trees : u # t => h[u] = f[u]
  BY <1>1, <1>2 DEF AnyTrees
<1>6. ASSUME NEW i \in 1..Len(TreeOrder)
      PROVE  h[TreeOrder[i]] = IF i < k + 1 THEN Append(g[TreeOrder[i]], body[TreeOrder[i]])
                               ELSE g[TreeOrder[i]]
  <2>1. CASE i = k
    <3>1. i < k + 1 /\ TreeOrder[i] = t
      BY <2>1, Order
    <3> QED
      BY <1>5, <3>1
  <2>2. CASE i # k
    <3>1. TreeOrder[i] \in Trees /\ TreeOrder[i] # t
      BY <2>2, Order
    <3>2. h[TreeOrder[i]] = f[TreeOrder[i]]
      BY <1>5, <3>1
    <3>3. i < k + 1 <=> i < k
      BY <2>2, Order
    <3> QED
      BY <3>2, <3>3 DEF GrowingFrom
  <2> QED
    BY <2>1, <2>2
<1> QED
  BY <1>4, <1>6 DEF GrowingFrom

(* Trees with a leaf more in all but the archive. *)
LEMMA GrownAll ==
    ASSUME NEW g, IsTrees(g), NEW f \in AnyTrees, NEW body \in Bodies,
           GrowingFrom(g, f, body, Len(TreeOrder))
    PROVE  f = Extend(g, body)
<1>1. /\ IsTrees(Extend(g, body)) /\ Extend(g, body)[Archive] = g[Archive]
      /\ \A t \in StateTrees : Extend(g, body)[t] = Append(g[t], body[t])
  BY Extended
<1> HIDE DEF Extend
<1>2. ASSUME NEW i \in 1..Len(TreeOrder)
      PROVE  f[TreeOrder[i]] = Extend(g, body)[TreeOrder[i]]
  <2>1. CASE i < Len(TreeOrder)
    <3>1. f[TreeOrder[i]] = Append(g[TreeOrder[i]], body[TreeOrder[i]])
      BY <2>1 DEF GrowingFrom
    <3>2. TreeOrder[i] \in StateTrees
      BY <2>1, BeforeLast
    <3> QED
      BY <1>1, <3>1, <3>2
  <2>2. CASE i = Len(TreeOrder)
    BY <1>1, <2>2, Order DEF GrowingFrom
  <2> QED
    BY <2>1, <2>2, Order
<1> QED
  BY <1>1, <1>2, TreesEqualInOrder DEF IsTrees

(* Leaves are inserted into one tree. *)
LEMMA BuildTreeInv ==
    ASSUME IInv, BuildTree
    PROVE  IInv'
<1>0. PICK t0 : t0 = TreeOrder[builder.step]
  OBVIOUS
<1>12. ~ Stale(t0)
  BY NotStale DEF BuildTree
<1>1. /\ UNCHANGED <<chain, source, mempool, dbVars, syncVars, lastPublished, threw>>
      /\ TreesFree /\ builder.at = "build" /\ builder.step < Len(TreeOrder)
      /\ latest' = [latest EXCEPT ![t0] = Append(@, builder.body[t0])]
      /\ builder' = [builder EXCEPT !.step = @ + 1,
                                    !.trees[t0] = Append(@, builder.body[t0])]
  BY <1>0, <1>12 DEF BuildTree, Inserted, l1Vars
<1>2. ChainOK' /\ L1OK' /\ Grows /\ \A n : After(n)' = After(n)
  BY <1>1, L1Same
<1>3. CreateOK' /\ CommitOK' /\ LeavesOK' /\ SyncOK' /\ SnapshotsOK'
  BY <1>1, <1>2, Building, BuildFrame
<1>4. /\ ChainOK /\ BuilderOK /\ builder.body \in Bodies /\ builder.step \in 1..Len(TreeOrder)
      /\ builder.trees \in AnyTrees /\ Growing(builder.trees, builder.body, builder.step)
      /\ IsTrees(latest) /\ latest[Archive] = committed[Archive]
      /\ builder \in [at : {"idle", "build", "built", "rollback"}, step : Nat,
                      number : Nat, body : Bodies \cup {None}, trees : AnyTrees \cup {None}]
  BY <1>1 DEF IInv, BuilderOK
<1>5. t0 \in StateTrees /\ t0 \in Trees /\ t0 # Archive /\ builder.body[t0] \in Leaves
  BY <1>0, <1>1, <1>4, BeforeLast, Order DEF Leaves
<1> DEFINE h == [builder.trees EXCEPT ![t0] = Append(@, builder.body[t0])]
<1>6. PICK m \in 0..Len(chain) : GrowingFrom(After(m), builder.trees, builder.body, builder.step)
  BY <1>4 DEF Growing
<1>7. h \in AnyTrees /\ GrowingFrom(After(m), h, builder.body, builder.step + 1)
  BY <1>0, <1>1, <1>4, <1>6, Published, GrowOne
<1>8. /\ builder'.at = "build" /\ builder'.step = builder.step + 1 /\ builder'.trees = h
      /\ builder'.body = builder.body
      /\ builder' \in [at : {"idle", "build", "built", "rollback"}, step : Nat,
                       number : Nat, body : Bodies \cup {None}, trees : AnyTrees \cup {None}]
  <2>1. builder' = [builder EXCEPT !.step = builder.step + 1, !.trees = h]
    BY <1>1, <1>4
  <2> HIDE DEF h
  <2>2. builder.step + 1 \in Nat /\ h \in AnyTrees \cup {None}
    BY <1>4, <1>7
  <2>3. /\ builder'.at = builder.at /\ builder'.step = builder.step + 1 /\ builder'.trees = h
        /\ builder'.body = builder.body
    BY <1>4, <2>1
  <2>4. builder' = [at |-> builder.at, step |-> builder.step + 1, number |-> builder.number,
                    body |-> builder.body, trees |-> h]
    BY <1>4, <2>1
  <2> QED
    BY <1>1, <1>4, <2>2, <2>3, <2>4
<1> HIDE DEF h
<1>9. Growing(builder.trees, builder.body, builder.step)'
  <2>1. chain' = chain /\ After(m)' = After(m)
    BY <1>1, <1>2
  <2> QED
    BY <1>6, <1>7, <1>8, <2>1 DEF Growing, GrowingFrom
<1>10. IsTrees(latest') /\ latest'[Archive] = committed'[Archive]
  <2>1. Append(latest[t0], builder.body[t0]) \in Seq(Leaves)
    BY <1>4, <1>5 DEF IsTrees
  <2>2. /\ latest' \in AnyTrees /\ latest'[t0] = Append(latest[t0], builder.body[t0])
        /\ \A t \in Trees : t # t0 => latest'[t] = latest[t]
    BY <1>1, <1>4, <1>5, <2>1 DEF IsTrees, AnyTrees
  <2> QED
    BY <1>1, <1>4, <1>5, <2>1, <2>2, Order DEF IsTrees, dbVars
<1>11. BuilderOK'
  <2>1. IsTrees(latest)' /\ lastPublished' \in Nat
    BY <1>1, <1>4, <1>10 DEF IsTrees, BuilderOK
  <2>2. builder'.step \in 1..Len(TreeOrder)
    BY <1>1, <1>4, <1>8, Order
  <2> QED
    BY <1>4, <1>7, <1>8, <1>9, <1>10, <2>1, <2>2 DEF BuilderOK
<1> QED
  BY <1>2, <1>3, <1>11 DEF IInv

(* The header of the new block is appended to the archive, and all trees are *)
(* validated.                                                                *)
LEMMA BuildArchiveInv ==
    ASSUME IInv, BuildArchive
    PROVE  IInv'
<1> DEFINE f == builder.trees
           state == StateOf(f)
<1>1. /\ UNCHANGED <<chain, source, mempool, dbVars, syncVars, lastPublished, threw>>
      /\ TreesFree /\ builder.at = "build" /\ builder.step = Len(TreeOrder)
      /\ latest' = IF StateOf(latest) = state THEN Seal(latest, state) ELSE latest
      /\ builder' = IF latest = f
                    THEN [builder EXCEPT !.at = "built", !.trees = Seal(@, state)]
                    ELSE [builder EXCEPT !.at = "rollback"]
  BY DEF BuildArchive, l1Vars
<1>2. ChainOK' /\ L1OK' /\ Grows /\ \A n : After(n)' = After(n)
  BY <1>1, L1Same
<1>3. CreateOK' /\ CommitOK' /\ LeavesOK' /\ SyncOK' /\ SnapshotsOK'
  BY <1>1, <1>2, Building, BuildFrame
<1>4. /\ ChainOK /\ BuilderOK /\ builder.body \in Bodies /\ f \in AnyTrees
      /\ Growing(f, builder.body, Len(TreeOrder))
      /\ IsTrees(latest) /\ latest[Archive] = committed[Archive] /\ lastPublished \in Nat
      /\ builder \in [at : {"idle", "build", "built", "rollback"}, step : Nat,
                      number : Nat, body : Bodies \cup {None}, trees : AnyTrees \cup {None}]
  BY <1>1 DEF IInv, BuilderOK
<1>5. PICK m \in 0..Len(chain) : GrowingFrom(After(m), f, builder.body, Len(TreeOrder))
  BY <1>4 DEF Growing
<1>6. IsTrees(After(m)) /\ f = Extend(After(m), builder.body)
  BY <1>4, <1>5, Published, GrownAll
<1>7. IsTrees(f) /\ state \in States /\ Seal(f, state) = Successor(After(m), builder.body)
  BY <1>4, <1>6, Extended, StateType DEF Successor
<1>8. IsTrees(Seal(f, state)) /\ Sealed(Seal(f, state))
  BY <1>4, <1>6, <1>7, SuccessorIs
<1>9. StateOf(latest) = state => IsTrees(Seal(latest, state)) /\ Sealed(Seal(latest, state))
  <2> SUFFICES ASSUME StateOf(latest) = state
               PROVE  IsTrees(Seal(latest, state)) /\ Sealed(Seal(latest, state))
    OBVIOUS
  <2> DEFINE a == latest[Archive]
             l == Seal(latest, state)
  <2>1. IsTrees(l) /\ l[Archive] = Append(a, state) /\ StateOf(l) = state
    BY <1>4, <1>7, SealedBy
  <2>2. a \in Seq(States) /\ state \in States
    BY <1>4, <1>7 DEF IsTrees
  <2> HIDE DEF a, l, state
  <2>3. Append(a, state) # <<>> /\ Append(a, state)[Len(Append(a, state))] = state
    BY <2>2
  <2> QED
    BY <2>1, <2>3 DEF Sealed, l
<1> HIDE DEF state
<1>10. IsTrees(latest') /\ (latest'[Archive] = committed'[Archive] \/ Sealed(latest'))
  BY <1>1, <1>4, <1>9 DEF dbVars
<1>11. IsTrees(latest)' /\ lastPublished' \in Nat
  BY <1>1, <1>4, <1>10 DEF IsTrees
<1>12. CASE latest = f
  <2>1. latest' = Seal(f, state)
    BY <1>1, <1>12 DEF state
  <2>2. /\ builder'.at = "built" /\ builder'.trees = Seal(f, state) /\ builder'.body = builder.body
        /\ builder' \in [at : {"idle", "build", "built", "rollback"}, step : Nat,
                         number : Nat, body : Bodies \cup {None}, trees : AnyTrees \cup {None}]
    <3>1. Seal(f, state) \in AnyTrees
      BY <1>8 DEF IsTrees
    <3> QED
      BY <1>1, <1>4, <1>12, <3>1
  <2>3. Grown(builder)'
    <3>1. chain' = chain /\ After(m)' = After(m)
      BY <1>1, <1>2
    <3> QED
      BY <1>4, <1>5, <1>7, <2>2, <3>1 DEF Grown
  <2>4. Sealed(latest)'
    BY <1>8, <2>1 DEF Sealed, StateOf
  <2>5. BuilderOK'
    <3>1. builder'.trees \in AnyTrees
      BY <1>8, <2>2 DEF IsTrees
    <3> QED
      BY <1>11, <2>2, <2>3, <2>4, <3>1 DEF BuilderOK
  <2> QED
    BY <1>2, <1>3, <2>5 DEF IInv
<1>13. CASE latest # f
  <2>1. /\ builder'.at = "rollback"
        /\ builder' \in [at : {"idle", "build", "built", "rollback"}, step : Nat,
                         number : Nat, body : Bodies \cup {None}, trees : AnyTrees \cup {None}]
    BY <1>1, <1>4, <1>13
  <2>2. latest'[Archive] = committed'[Archive] \/ Sealed(latest)'
    BY <1>10 DEF Sealed, StateOf
  <2>3. BuilderOK'
    BY <1>11, <2>1, <2>2 DEF BuilderOK
  <2> QED
    BY <1>2, <1>3, <2>3 DEF IInv
<1> QED
  BY <1>12, <1>13

(* Building fails. *)
LEMMA BuildFailsInv ==
    ASSUME IInv, BuildFails
    PROVE  IInv'
<1>1. /\ UNCHANGED <<chain, source, mempool, dbVars, latest, syncVars, lastPublished, threw>>
      /\ builder.at = "build" /\ builder' = [builder EXCEPT !.at = "rollback"]
  BY DEF BuildFails, l1Vars
<1>2. ChainOK' /\ L1OK' /\ Grows /\ \A n : After(n)' = After(n)
  BY <1>1, L1Same
<1>3. CreateOK' /\ CommitOK' /\ LeavesOK' /\ SyncOK' /\ SnapshotsOK'
  BY <1>1, <1>2, Building, BuildFrame
<1>4. BuilderOK /\ latest' = latest /\ committed' = committed /\ pc' = pc
      /\ lastPublished' = lastPublished
  BY <1>1 DEF IInv, dbVars, syncVars
<1>5. /\ builder'.at = "rollback"
      /\ builder' \in [at : {"idle", "build", "built", "rollback"}, step : Nat,
                       number : Nat, body : Bodies \cup {None}, trees : AnyTrees \cup {None}]
  BY <1>1, <1>4 DEF BuilderOK
<1>6. IsTrees(latest)' = IsTrees(latest) /\ TreesFree' = TreesFree
  BY <1>4 DEF IsTrees, TreesFree
<1>7. BuilderOK'
  BY <1>1, <1>4, <1>5, <1>6 DEF BuilderOK
<1> QED
  BY <1>2, <1>3, <1>7 DEF IInv

(* The sequencer's block is accepted: it continues the chain. *)
LEMMA PublishInv ==
    ASSUME IInv, Publish
    PROVE  IInv'
<1> DEFINE b == [body |-> builder.body, trees |-> builder.trees]
<1>1. /\ UNCHANGED <<mempool, source, dbVars, latest, syncVars, threw>>
      /\ builder.at = "built" /\ source + 1 = builder.number /\ Extends(builder.trees)
      /\ Len(chain) < MaxBlocks /\ chain' = Append(chain, b)
      /\ builder' = NoBuild /\ lastPublished' = builder.number
  BY DEF Publish
<1>2. /\ ChainOK /\ L1OK /\ BuilderOK /\ SyncOK /\ Grown(builder) /\ builder.trees \in AnyTrees
      /\ builder.body \in Bodies /\ Sealed(latest) /\ IsTrees(latest)
  BY <1>1 DEF IInv, BuilderOK, Grown
<1>3. builder.trees = Successor(After(Len(chain)), builder.body)
  BY <1>1, <1>2, ExtendsLast
<1>4. b \in Blocks
  BY <1>2 DEF Blocks
<1>5. ChainOK' /\ Grows /\ Len(chain') = Len(chain) + 1
  BY <1>1, <1>2, <1>3, <1>4, ChainAppend
<1>6. L1OK'
  BY <1>1, <1>2, <1>5, L1Frame, Counters
<1>7. CreateOK' /\ CommitOK' /\ LeavesOK' /\ SyncOK' /\ SnapshotsOK'
  BY <1>1, <1>5, Building, BuildFrame
<1>8. BuilderOK'
  <2>1. lastPublished' > Done'
    <3>1. Done <= source /\ Done \in Nat /\ Done' = Done
      BY <1>1, <1>2, Counters DEF Done, SyncOK, dbVars, syncVars
    <3> QED
      BY <1>1, <3>1, Counters
  <2>2. IsTrees(latest)' /\ Sealed(latest)'
    BY <1>1, <1>2 DEF IsTrees, Sealed, StateOf
  <2>3. lastPublished' \in Nat
    BY <1>1, Counters
  <2>4. /\ builder' \in [at : {"idle", "build", "built", "rollback"}, step : Nat,
                         number : Nat, body : Bodies \cup {None}, trees : AnyTrees \cup {None}]
        /\ builder'.at = "idle"
    BY <1>1 DEF NoBuild
  <2> QED
    BY <1>1, <2>1, <2>2, <2>3, <2>4 DEF BuilderOK
<1> QED
  BY <1>5, <1>6, <1>7, <1>8 DEF IInv

(* Publishing fails, and the block may be mined all the same. *)
LEMMA PublishFailsInv ==
    ASSUME IInv, PublishFails
    PROVE  IInv'
<1> DEFINE b == [body |-> builder.body, trees |-> builder.trees]
<1>1. /\ UNCHANGED <<chain, source, dbVars, latest, syncVars, lastPublished, threw>>
      /\ builder.at = "built" /\ builder' = [builder EXCEPT !.at = "rollback"]
      /\ mempool' = mempool \/ mempool' = b
  BY DEF PublishFails
<1>2. /\ ChainOK /\ L1OK /\ BuilderOK /\ Grown(builder) /\ builder.trees \in AnyTrees
      /\ builder.body \in Bodies /\ Sealed(latest) /\ IsTrees(latest)
  BY <1>1 DEF IInv, BuilderOK, Grown
<1>3. ChainOK' /\ Grows
  BY <1>1, <1>2, ChainSame
<1>4. L1OK'
  <2>1. CASE mempool' = mempool
    BY <1>1, <1>2, <1>3, <2>1, L1Frame DEF L1OK
  <2>2. CASE mempool' = b
    <3>1. b \in Blocks /\ Grown(b)
      BY <1>2 DEF Blocks, Grown
    <3>2. b.body \in Bodies /\ \E m \in 0..Len(chain') : b.trees = Successor(After(m)', b.body)
      BY <1>2, <1>3, <3>1, GrownStays, Counters
    <3>3. Grown(mempool)'
      BY <2>2, <3>2 DEF Grown
    <3> QED
      BY <1>1, <1>2, <2>2, <3>1, <3>3 DEF L1OK
  <2> QED
    BY <1>1, <2>1, <2>2
<1>5. CreateOK' /\ CommitOK' /\ LeavesOK' /\ SyncOK' /\ SnapshotsOK'
  BY <1>1, <1>3, Building, BuildFrame
<1>6. BuilderOK'
  <2>1. IsTrees(latest)' /\ Sealed(latest)' /\ lastPublished' \in Nat
    BY <1>1, <1>2 DEF IsTrees, Sealed, StateOf, BuilderOK
  <2>2. /\ builder'.at = "rollback"
        /\ builder' \in [at : {"idle", "build", "built", "rollback"}, step : Nat,
                         number : Nat, body : Bodies \cup {None}, trees : AnyTrees \cup {None}]
    BY <1>1, <1>2 DEF BuilderOK
  <2> QED
    BY <2>1, <2>2 DEF BuilderOK
<1> QED
  BY <1>3, <1>4, <1>5, <1>6 DEF IInv

(* The sequencer's changes are undone. *)
LEMMA RollbackInv ==
    ASSUME IInv, Rollback
    PROVE  IInv'
<1>1. /\ UNCHANGED <<chain, source, mempool, dbVars, syncVars, lastPublished, threw>>
      /\ builder.at = "rollback" /\ TreesFree /\ builder' = NoBuild /\ latest' = committed
  BY DEF Rollback, l1Vars
<1>2. ChainOK' /\ L1OK' /\ Grows
  BY <1>1, L1Same
<1>3. CreateOK' /\ CommitOK' /\ LeavesOK' /\ SyncOK' /\ SnapshotsOK'
  BY <1>1, <1>2, Building, BuildFrame
<1>4. IsTrees(committed) /\ lastPublished \in Nat /\ committed' = committed
  BY <1>1 DEF IInv, CommitOK, BuilderOK, dbVars
<1>5. BuilderOK'
  BY <1>1, <1>4, BuilderIdle
<1> QED
  BY <1>2, <1>3, <1>5 DEF IInv

-----------------------------------------------------------------------------
(* Theorems *)

(* An empty chain and an empty database satisfy the invariant. *)
LEMMA InitInv == Init => IInv
<1> SUFFICES ASSUME Init
             PROVE  IInv
  OBVIOUS
<1>1. Len(chain) = 0 /\ After(0) = Genesis /\ chain = <<>>
  BY DEF Init, After
<1>2. ChainOK
  <2>1. chain \in Seq(Blocks) /\ Len(chain) <= MaxBlocks
    BY <1>1, WorldStateAssumption
  <2>2. \A n \in 0..Len(chain) : n = 0
    BY <1>1
  <2>3. \A n \in 1..Len(chain) : FALSE
    BY <1>1
  <2> QED
    BY <1>1, <2>1, <2>2, <2>3, GenesisIs, Zenon DEF ChainOK
<1>3. L1OK
  BY <1>1 DEF Init, L1OK
<1>4. CreateOK /\ Archive \notin created
  BY DEF Init, CreateOK
<1>5. CommitOK
  BY <1>4, GenesisIs DEF Init, CommitOK, Populated
<1>6. SyncOK
  BY Order DEF Init, SyncOK
<1>7. SnapshotsOK
  <2>1. snapshots = [t \in Trees |-> [n \in 1..MaxBlocks |-> None]] /\ blockNumber = 0 /\ pc = "down"
    BY DEF Init
  <2>2. \A t \in Trees, n \in 1..MaxBlocks : snapshots[t][n] = None /\ n > blockNumber
    BY <2>1, WorldStateAssumption
  <2> QED
    BY <2>1, <2>2 DEF SnapshotsOK
<1>8. BuilderOK
  <2>1. /\ builder \in [at : {"idle", "build", "built", "rollback"}, step : Nat,
                        number : Nat, body : Bodies \cup {None}, trees : AnyTrees \cup {None}]
        /\ builder.at = "idle" /\ builder = NoBuild /\ latest = committed /\ lastPublished \in Nat
    BY DEF Init, NoBuild
  <2>2. IsTrees(latest)
    BY GenesisIs DEF Init
  <2> QED
    BY <2>1, <2>2 DEF BuilderOK
<1>9. LeavesOK
  BY <1>4 DEF Init, LeavesOK, Populated
<1> QED
  BY <1>2, <1>3, <1>4, <1>5, <1>6, <1>7, <1>8, <1>9 DEF IInv

(* Every step keeps the invariant, if the process does not end while the     *)
(* initial header is being committed.                                        *)
LEMMA NextInv ==
    ASSUME IInv, [Next]_vars, "populate" \notin MayCrash
    PROVE  IInv'
<1>1. CASE UNCHANGED vars
  <2>1. UNCHANGED <<chain, source, mempool, dbVars, latest, syncVars, builder, lastPublished, threw>>
    BY <1>1 DEF vars, l1Vars, builderVars
  <2>2. ChainOK' /\ L1OK' /\ Grows
    BY <2>1, L1Same
  <2>3. CreateOK' /\ CommitOK' /\ LeavesOK' /\ SyncOK' /\ SnapshotsOK'
    BY <2>1, <2>2, SyncFrame, Counters
  <2>4. BuilderOK'
    BY <2>1, <2>2, BuilderFrame DEF dbVars, syncVars
  <2> QED
    BY <2>2, <2>3, <2>4 DEF IInv
<1>2. CASE \E body \in Bodies : PublishOther(body) \/ StartBuild(body)
  BY <1>2, PublishOtherInv, StartBuildInv
<1>3. CASE MineLate \/ StoreBlock
  BY <1>3, MineLateInv, StoreBlockInv
<1>4. CASE Boot \/ CreateTree \/ CreateLeaves \/ Crash
  BY <1>4, BootInv, CreateTreeInv, CreateLeavesInv, CrashInv
<1>5. CASE HandleBlock \/ CommitTree \/ CommitLeaves
  BY <1>5, HandleBlockInv, CommitTreeInv, CommitLeavesInv
<1>8. CASE CheckRoots \/ SnapshotTree \/ SetBlockNumber
  BY <1>8, CheckRootsInv, SnapshotTreeInv, SetBlockNumberInv
<1>6. CASE BuildTree \/ BuildArchive \/ BuildFails
  BY <1>6, BuildTreeInv, BuildArchiveInv, BuildFailsInv
<1>7. CASE Publish \/ PublishFails \/ Rollback
  BY <1>7, PublishInv, PublishFailsInv, RollbackInv
<1> QED
  BY <1>1, <1>2, <1>3, <1>4, <1>5, <1>6, <1>7, <1>8 DEF Next

(* The inductive invariant holds throughout, unless the process ends while   *)
(* the initial header is being committed.                                    *)
THEOREM WorldStateInvariant ==
    ASSUME "populate" \notin MayCrash
    PROVE  Spec => []IInv
<1>1. Init => IInv
  BY InitInv
<1>2. IInv /\ [Next]_vars => IInv'
  BY NextInv
<1> QED
  BY <1>1, <1>2, PTL DEF Spec

(* What is in the database was published (handleL2Block, rollback), nodes    *)
(* and leaves alike, and leaves lag behind their nodes in torn trees only    *)
(* (commitLeaves), for every number of trees, blocks and crashes, and        *)
(* whatever blocks hold, unless the process ends while the initial header is *)
(* being committed.                                                          *)
THEOREM OnlyPublishedCommitted ==
    ASSUME "populate" \notin MayCrash
    PROVE  Spec => []CommittedIsPublished
<1>1. IInv => CommittedIsPublished
  <2> SUFFICES ASSUME IInv, pc \notin {"create", "createLeaves", "populate"}, created = Trees
               PROVE  /\ \A t \in Trees : IsOfBlock(t, committed[t])
                      /\ \A t \in Indexed : IsOfBlock(t, preimages[t])
                      /\ (\E t \in Indexed : Stale(t)) =>
                             Torn /\ committed[Archive] = After(blockNumber)[Archive]
    BY DEF CommittedIsPublished
  <2>1. Populated
    BY Order DEF Populated
  <2>2. \A t \in Trees : IsOfBlock(t, committed[t])
    BY <2>1, Counters DEF IInv, CommitOK, InBlock, InNext, IsOfBlock
  <2>3. \A t \in Indexed : preimages[t] = committed[t] \/ preimages[t] = After(blockNumber)[t]
    BY <2>1 DEF IInv, LeavesOK, Fresh
  <2>4. \A t \in Indexed : IsOfBlock(t, preimages[t])
    BY <2>2, <2>3, Order DEF IsOfBlock
  <2>5. ASSUME NEW t \in Indexed, Stale(t)
        PROVE  Torn /\ committed[Archive] = After(blockNumber)[Archive]
    <3>1. /\ preimages[t] = After(blockNumber)[t] /\ preimages[t] # committed[t]
          /\ blockNumber < source /\ committed[Archive] = After(blockNumber)[Archive]
      BY <2>1, <2>5 DEF IInv, LeavesOK, Fresh, Stale, InNext, InBlock
    <3>2. committed # After(blockNumber)
      BY <3>1
    <3>3. After(blockNumber)[Archive] # After(blockNumber + 1)[Archive]
      BY <3>1, Around, Counters DEF Sized
    <3>4. committed # After(blockNumber + 1)
      BY <3>1, <3>3
    <3>5. Min({blockNumber + 1, Len(chain)}) = blockNumber + 1
      BY <3>1, Counters DEF Min
    <3> QED
      BY <3>1, <3>2, <3>4, <3>5 DEF Torn
  <2> QED
    BY <2>2, <2>4, <2>5
<1>2. Spec => []IInv
  BY WorldStateInvariant
<1> QED
  BY <1>1, <1>2, PTL

(* Snapshots are exact, and handleL2Block throws on torn trees only, for     *)
(* every number of trees, blocks and crashes, and whatever blocks hold.      *)
THEOREM SyncAlwaysSafe ==
    ASSUME "populate" \notin MayCrash
    PROVE  Spec => []SyncSafe
<1>1. IInv => SnapshotsExact
  <2> SUFFICES ASSUME IInv, NEW n \in 1..MaxBlocks, NEW t \in Trees
               PROVE  /\ snapshots[t][n] # None => snapshots[t][n] = After(n)[t]
                      /\ n <= blockNumber => snapshots[t][n] # None
    BY DEF SnapshotsExact
  <2>1. \/ snapshots[t][n] = None /\ n > blockNumber
        \/ n <= Len(chain) /\ snapshots[t][n] = After(n)[t]
    BY DEF IInv, SnapshotsOK
  <2>2. n <= Len(chain) => After(n)[t] # None
    <3>1. n <= Len(chain) => IsTrees(After(n))
      BY Counters, Published DEF IInv
    <3>2. n <= Len(chain) => After(n)[t] \in Seq(Leaves) \/ After(n)[t] \in Seq(States)
      BY <3>1, Order DEF IsTrees
    <3> QED
      BY <3>2, WorldStateAssumption, Zenon
  <2> QED
    BY <2>1, <2>2, Counters
<1>2. IInv => ThrowsOnlyTorn
  <2> SUFFICES ASSUME IInv, threw
               PROVE  Torn
    BY DEF ThrowsOnlyTorn
  <2>1. Ripped
    BY DEF IInv, SyncOK
  <2>2. Min({blockNumber + 1, Len(chain)}) = blockNumber + 1
    BY <2>1, Counters DEF Ripped, Min
  <2> QED
    BY <2>1, <2>2 DEF Ripped, Torn
<1>3. Spec => []IInv
  BY WorldStateInvariant
<1> QED
  BY <1>1, <1>2, <1>3, PTL DEF SyncSafe

=============================================================================
