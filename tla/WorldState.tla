----------------------------- MODULE WorldState -----------------------------
(***************************************************************************)
(* The world state of a node: the merkle trees (yarn-project/world-state/  *)
(* src/world-state-db/merkle_trees.ts over merkle-tree/src/tree_base.ts)   *)
(* with their uncommitted changes, the synchronizer that applies published *)
(* L2 blocks to them, and the two others who touch them: the sequencer,    *)
(* which builds a block in the uncommitted trees, and other sequencers,    *)
(* which get their blocks published first.                                 *)
(*                                                                         *)
(* A tree is the sequence of its leaves, a block adds one leaf (a subtree  *)
(* of leaves) to each.  Roots are hashes, taken to be injective, but a     *)
(* leaf that is zero does not change the root, only the size.  Operations  *)
(* on the trees are jobs of one serial queue, so handling a block is not   *)
(* interrupted by other users of the trees; the process may still end      *)
(* between its transactions, one for every tree and two for an indexed     *)
(* one, whose leaves are kept a second time, as preimages by their index   *)
(* (merkle-tree/src/standard_indexed_tree/standard_indexed_tree.ts).       *)
(***************************************************************************)
EXTENDS Integers, FiniteSets, SequencesExt

CONSTANTS
    TreeOrder,   \* this.trees: the trees in the order they are committed
    Archive,     \* ARCHIVE, the last of them
    Indexed,     \* the indexed trees, NULLIFIER_TREE and PUBLIC_DATA_TREE
    Marker,      \* NULLIFIER_TREE, whose meta data tells if the db is populated
    Bodies,      \* contents of blocks: a leaf for every tree but the archive
    Zero,        \* a leaf of zeros
    None,        \* undefined
    MayCrash,    \* values of pc at which the process may end
    MaxBlocks,   \* bound: L2 blocks
    MaxCrashes   \* bound: crashes

Trees == ToSet(TreeOrder)
StateTrees == Trees \ {Archive}

\* The leaves of blocks, and the states that headers hold.
Leaves == {body[t] : body \in Bodies, t \in StateTrees}
States == [StateTrees -> Seq(Leaves)]

\* A header is never a leaf of zeros, and undefined is not a tree.
ASSUME WorldStateAssumption ==
    /\ TreeOrder \in Seq(Trees) /\ IsInjective(TreeOrder)
    /\ TreeOrder # <<>> /\ Archive = Last(TreeOrder)
    /\ Marker \in Indexed /\ Indexed \subseteq StateTrees
    /\ \A body \in Bodies : DOMAIN body = StateTrees
    /\ Zero \notin States
    /\ None \notin Seq(Leaves) /\ None \notin Seq(States)
    /\ MaxBlocks \in Nat

VARIABLES
    chain,         \* L1: the blocks published, each with the trees after it
    mempool,       \* L1: a block the sequencer has sent and was told had failed
    source,        \* archiver: the last block it has stored
    created,       \* db: trees whose meta data was written
    committed,     \* db: the trees
    preimages,     \* db: the leaves of the indexed trees, None if there are none
    snapshots,     \* db: the trees by block number, None if there is none
    blockNumber,   \* db: the last block the synchronizer has handled
    latest,        \* memory: the trees with uncommitted changes
    pc,            \* where the synchronizer is
    step,          \* the position in TreeOrder of its loops over the trees
    target,        \* latestBlockNumberAtStart
    builder,       \* the sequencer's block under construction
    lastPublished, \* the sequencer's last block
    crashes,       \* crashes so far
    threw          \* history: handleL2Block has thrown

l1Vars == <<chain, mempool, source>>
dbVars == <<created, committed, preimages, snapshots, blockNumber>>
syncVars == <<pc, step, target>>
builderVars == <<builder, lastPublished>>
vars == <<l1Vars, dbVars, latest, syncVars, builderVars, crashes, threw>>

EmptyTrees == [t \in Trees |-> <<>>]

StateOf(trees) == [t \in StateTrees |-> trees[t]]

\* The trees when the initial header is in the archive.
Genesis == [EmptyTrees EXCEPT ![Archive] = <<StateOf(EmptyTrees)>>]

\* The trees after published block n.
After(n) == IF n = 0 THEN Genesis ELSE chain[n].trees

\* appendLeaves and batchInsert of the leaves of a block.
Extend(trees, body) ==
    [t \in Trees |-> IF t = Archive THEN trees[t] ELSE Append(trees[t], body[t])]

\* The leaves of an indexed tree are not those of its nodes.
Stale(t) == t \in Indexed /\ preimages[t] # committed[t]

\* What a tree gets for a leaf: an indexed tree looks for its predecessor among
\* the leaves in the database and inserts another one if they are stale.
Inserted(t, leaf) == IF Stale(t) THEN None ELSE leaf

\* The header that holds a state is appended to the archive.
Seal(trees, state) == [trees EXCEPT ![Archive] = Append(@, state)]

\* getRoot: leaves that are zero at the end do not show.
Root(leaves) ==
    LET shown == {i \in DOMAIN leaves : leaves[i] # Zero}
    IN  SubSeq(leaves, 1, IF shown = {} THEN 0 ELSE Max(shown))

NoBuild == [at |-> "idle", step |-> 0, number |-> 0, body |-> None, trees |-> None]

Init ==
    /\ chain = <<>>
    /\ mempool = None
    /\ source = 0
    /\ created = {}
    /\ committed = EmptyTrees
    /\ preimages = [t \in Indexed |-> None]
    /\ snapshots = [t \in Trees |-> [n \in 1..MaxBlocks |-> None]]
    /\ blockNumber = 0
    /\ latest = EmptyTrees
    /\ pc = "down"
    /\ step = 1
    /\ target = 0
    /\ builder = NoBuild
    /\ lastPublished = 0
    /\ crashes = 0
    /\ threw = FALSE

-----------------------------------------------------------------------------
(* Published blocks *)

\* The archive root in the header is the one the Rollup contract holds.
Extends(trees) == Front(trees[Archive]) = After(Len(chain))[Archive]

\* Another sequencer's block is accepted by the Rollup contract.
PublishOther(body) ==
    LET before == After(Len(chain))
        trees == Extend(before, body)
    IN  /\ Len(chain) < MaxBlocks
        /\ chain' = Append(chain, [body |-> body, trees |-> Seal(trees, StateOf(trees))])
        /\ UNCHANGED <<mempool, source, dbVars, latest, syncVars, builderVars, crashes, threw>>

\* A block that was sent is mined late, if it still extends the chain.
MineLate ==
    /\ mempool # None
    /\ Len(chain) < MaxBlocks
    /\ Extends(mempool.trees)
    /\ chain' = Append(chain, mempool)
    /\ mempool' = None
    /\ UNCHANGED <<source, dbVars, latest, syncVars, builderVars, crashes, threw>>

\* The archiver stores the next block.
StoreBlock ==
    /\ source < Len(chain)
    /\ source' = source + 1
    /\ UNCHANGED <<chain, mempool, dbVars, latest, syncVars, builderVars, crashes, threw>>

-----------------------------------------------------------------------------
(* Start and end of the process *)

\* isDbPopulated asks for the meta data of one tree.
IsDbPopulated == Marker \in created

\* MerkleTrees.new and start: the trees are loaded, or created if the db is not
\* populated.  Loading throws if the meta data of a tree is missing; the process
\* cannot start then.
Boot ==
    /\ pc = "down"
    /\ IsDbPopulated => created = Trees
    /\ target' = source
    /\ step' = 1
    /\ latest' = committed
    /\ pc' = IF IsDbPopulated THEN "idle" ELSE "create"
    /\ UNCHANGED <<l1Vars, dbVars, builderVars, crashes, threw>>

\* The loop over the trees goes on at pc = at, or ends with pc = end.
NextTree(at, end) ==
    IF step < Len(TreeOrder) THEN step' = step + 1 /\ pc' = at
                             ELSE step' = 1 /\ pc' = end

\* After the last tree is created the initial header is inserted.
NextToCreate ==
    /\ NextTree("create", "populate")
    /\ latest' = IF step < Len(TreeOrder) THEN latest ELSE Genesis

\* newTree, for one tree; an indexed tree has its leaves still to come.
CreateTree ==
    /\ pc = "create"
    /\ LET t == TreeOrder[step]
       IN  /\ created' = created \cup {t}
           /\ committed' = [committed EXCEPT ![t] = <<>>]
           /\ IF t \in Indexed THEN pc' = "createLeaves" /\ UNCHANGED <<step, latest>>
              ELSE NextToCreate
    /\ UNCHANGED <<l1Vars, preimages, snapshots, blockNumber, target, builderVars,
                   crashes, threw>>

\* init of an indexed tree ends with the transaction of its first leaves.
CreateLeaves ==
    /\ pc = "createLeaves"
    /\ preimages' = [preimages EXCEPT ![TreeOrder[step]] = <<>>]
    /\ NextToCreate
    /\ UNCHANGED <<l1Vars, created, committed, snapshots, blockNumber, target,
                   builderVars, crashes, threw>>

\* What is left in memory is lost.
Halt ==
    /\ pc' = "down"
    /\ step' = 1
    /\ latest' = committed
    /\ builder' = NoBuild
    /\ lastPublished' = 0
    /\ UNCHANGED <<l1Vars, dbVars, target>>

Crash ==
    /\ pc \in MayCrash
    /\ crashes < MaxCrashes
    /\ crashes' = crashes + 1
    /\ Halt
    /\ UNCHANGED threw

-----------------------------------------------------------------------------
(* The synchronizer *)

\* Fault: only uncommitted changes can be a block of ours.
OursIfUncommitted(trees) ==
    latest # committed /\ \A t \in Trees : Root(latest[t]) = Root(trees[t])

\* Every root, uncommitted changes included, is the one published.
IsBlockOurs(trees) == \A t \in Trees : Root(latest[t]) = Root(trees[t])

\* Fault: no rollback of what the sequencer has inserted.
KeepChanges == latest

\* rollback
RolledBack == committed

\* handleL2Block up to the commit: a block that is not ours is inserted after a
\* rollback; the state reached must be the one in its header, sizes included,
\* or updateArchive throws, which ends the synchronizer.
HandleBlock ==
    LET n == blockNumber + 1
        block == chain[n]
        trees == Extend(RolledBack, [t \in StateTrees |-> Inserted(t, block.body[t])])
    IN  /\ pc = "idle"
        /\ n <= source
        /\ IF ~ IsBlockOurs(block.trees) /\ StateOf(trees) # StateOf(block.trees)
           THEN Halt /\ threw' = TRUE
           ELSE /\ latest' = IF IsBlockOurs(block.trees) THEN latest
                             ELSE Seal(trees, StateOf(block.trees))
                /\ pc' = "commit"
                /\ step' = 1
                /\ UNCHANGED <<l1Vars, dbVars, target, builderVars, threw>>
        /\ UNCHANGED crashes

\* commit of one tree: a transaction of its own, and a second one, for the
\* leaves, if the tree is indexed.  The initial header comes with no such leaves.
CommitTree ==
    /\ pc \in {"populate", "commit"}
    /\ LET t == TreeOrder[step]
       IN  /\ committed' = [committed EXCEPT ![t] = latest[t]]
           /\ IF pc = "populate" THEN NextTree("populate", "idle")
              ELSE IF t \in Indexed THEN pc' = "commitLeaves" /\ UNCHANGED step
              ELSE NextTree("commit", "check")
    /\ UNCHANGED <<l1Vars, created, preimages, snapshots, blockNumber, latest, target,
                   builderVars, crashes, threw>>

\* commitLeaves of an indexed tree.
CommitLeaves ==
    /\ pc = "commitLeaves"
    /\ LET t == TreeOrder[step] IN preimages' = [preimages EXCEPT ![t] = latest[t]]
    /\ NextTree("commit", "check")
    /\ UNCHANGED <<l1Vars, created, committed, snapshots, blockNumber, latest, target,
                   builderVars, crashes, threw>>

\* The committed roots must be those of the block.
CheckRoots ==
    /\ pc = "check"
    /\ IF \A t \in Trees : Root(committed[t]) = Root(After(blockNumber + 1)[t])
       THEN /\ pc' = "snapshot"
            /\ UNCHANGED <<l1Vars, dbVars, latest, step, target, builderVars, threw>>
       ELSE Halt /\ threw' = TRUE
    /\ UNCHANGED crashes

\* Fault: one snapshot stands for all trees.
NoSnapshotAtAll(t, n) == \A u \in Trees : snapshots[u][n] = None

\* The tree has no snapshot for the block.
NoSnapshot(t, n) == snapshots[t][n] = None

\* snapshot of one tree: nothing if there is one for the block.  That of an
\* indexed tree takes the leaves from where they are kept a second time.
SnapshotTree ==
    /\ pc = "snapshot"
    /\ LET t == TreeOrder[step]
           n == blockNumber + 1
           tree == IF t \in Indexed THEN preimages[t] ELSE committed[t]
       IN  snapshots' = IF NoSnapshot(t, n) THEN [snapshots EXCEPT ![t][n] = tree]
                        ELSE snapshots
    /\ NextTree("snapshot", "number")
    /\ UNCHANGED <<l1Vars, created, committed, preimages, blockNumber, latest, target,
                   builderVars, crashes, threw>>

\* blockNumber.set, after the job on the trees is done.
SetBlockNumber ==
    /\ pc = "number"
    /\ blockNumber' = blockNumber + 1
    /\ pc' = "idle"
    /\ UNCHANGED <<l1Vars, created, committed, preimages, snapshots, latest, step, target,
                   builderVars, crashes, threw>>

-----------------------------------------------------------------------------
(* The sequencer *)

\* No job of the synchronizer is at work on the trees.
TreesFree == pc \in {"idle", "number"}

\* Fault: the sequencer starts while the node is still catching up.
ReadyAtOnce == blockNumber >= lastPublished

\* The initial sync is over and the previous block of the sequencer was synced.
ReadyToBuild == blockNumber >= target /\ blockNumber >= lastPublished

StartBuild(body) ==
    /\ TreesFree
    /\ builder.at = "idle"
    /\ ReadyToBuild
    /\ Len(chain) < MaxBlocks
    /\ builder' = [at |-> "build", step |-> 1, number |-> source + 1, body |-> body,
                   trees |-> latest]
    /\ UNCHANGED <<l1Vars, dbVars, latest, syncVars, lastPublished, crashes, threw>>

\* buildL2Block inserts into one tree after the other; the circuits compute what
\* each must become from what it was at the start.
BuildTree ==
    /\ TreesFree
    /\ builder.at = "build"
    /\ builder.step < Len(TreeOrder)
    /\ LET t == TreeOrder[builder.step]
       IN  /\ latest' = [latest EXCEPT ![t] = Append(@, Inserted(t, builder.body[t]))]
           /\ builder' = [builder EXCEPT !.step = @ + 1,
                                        !.trees[t] = Append(@, builder.body[t])]
    /\ UNCHANGED <<l1Vars, dbVars, syncVars, lastPublished, crashes, threw>>

\* updateArchive with the header of the new block, and the validation of all
\* trees against what was computed; an error leads to a rollback.
BuildArchive ==
    LET state == StateOf(builder.trees)
    IN  /\ TreesFree
        /\ builder.at = "build"
        /\ builder.step = Len(TreeOrder)
        /\ latest' = IF StateOf(latest) = state THEN Seal(latest, state) ELSE latest
        /\ builder' = IF latest = builder.trees
                      THEN [builder EXCEPT !.at = "built", !.trees = Seal(@, state)]
                      ELSE [builder EXCEPT !.at = "rollback"]
        /\ UNCHANGED <<l1Vars, dbVars, syncVars, lastPublished, crashes, threw>>

\* A circuit or an assertion fails while the trees are being changed.
BuildFails ==
    /\ builder.at = "build"
    /\ builder' = [builder EXCEPT !.at = "rollback"]
    /\ UNCHANGED <<l1Vars, dbVars, latest, syncVars, lastPublished, crashes, threw>>

\* The block is published if no other block was stored meanwhile and the
\* Rollup contract accepts it.
Publish ==
    /\ builder.at = "built"
    /\ source + 1 = builder.number
    /\ Extends(builder.trees)
    /\ Len(chain) < MaxBlocks
    /\ chain' = Append(chain, [body |-> builder.body, trees |-> builder.trees])
    /\ builder' = NoBuild
    /\ lastPublished' = builder.number
    /\ UNCHANGED <<mempool, source, dbVars, latest, syncVars, crashes, threw>>

\* Publishing fails, before the block was sent or after; then it may be mined
\* all the same.  Every error leads to a rollback.
PublishFails ==
    /\ builder.at = "built"
    /\ \/ UNCHANGED mempool
       \/ /\ source + 1 = builder.number
          /\ mempool' = [body |-> builder.body, trees |-> builder.trees]
    /\ builder' = [builder EXCEPT !.at = "rollback"]
    /\ UNCHANGED <<chain, source, dbVars, latest, syncVars, lastPublished, crashes, threw>>

\* rollback of the sequencer, a job of its own.
Rollback ==
    /\ TreesFree
    /\ builder.at = "rollback"
    /\ latest' = committed
    /\ builder' = NoBuild
    /\ UNCHANGED <<l1Vars, dbVars, syncVars, lastPublished, crashes, threw>>

Next ==
    \/ \E body \in Bodies : PublishOther(body) \/ StartBuild(body)
    \/ MineLate
    \/ StoreBlock
    \/ Boot
    \/ CreateTree
    \/ CreateLeaves
    \/ Crash
    \/ HandleBlock
    \/ CommitTree
    \/ CommitLeaves
    \/ CheckRoots
    \/ SnapshotTree
    \/ SetBlockNumber
    \/ BuildTree
    \/ BuildArchive
    \/ BuildFails
    \/ Publish
    \/ PublishFails
    \/ Rollback

\* The archiver follows L1, the node is started again, and the synchronizer
\* keeps running.  No block need be built or published.
Fairness ==
    /\ WF_vars(StoreBlock)
    /\ WF_vars(Boot)
    /\ WF_vars(CreateTree \/ CreateLeaves \/ HandleBlock \/ CommitTree \/ CommitLeaves
               \/ CheckRoots \/ SnapshotTree \/ SetBlockNumber)

Spec == Init /\ [][Next]_vars /\ Fairness

-----------------------------------------------------------------------------
(* Properties *)

\* The trees in the database are not those after one and the same block.
Torn ==
    \A n \in {blockNumber, Min({blockNumber + 1, Len(chain)})} : committed # After(n)

\* The tree t after the block the synchronizer is at, or after the next one.
IsOfBlock(t, tree) ==
    \/ tree = After(blockNumber)[t]
    \/ blockNumber < Len(chain) /\ tree = After(blockNumber + 1)[t]

(* What is committed was published: the nodes of every tree in the database, *)
(* leaves that are zero included, and the leaves of every indexed tree, are  *)
(* those after the block the synchronizer is at or after the next one, never *)
(* with anything the sequencer inserted for a block that was not published,  *)
(* whoever was faster, whatever publisher reported, and wherever the process *)
(* ended once the initial header was committed.  The nodes and the leaves of *)
(* one tree are of different blocks only while the trees are torn and the    *)
(* archive, the last to be committed, is still that of the earlier block     *)
(* (handleL2Block, rollback, commitLeaves).                                  *)
CommittedIsPublished ==
    pc \notin {"create", "createLeaves", "populate"} /\ created = Trees =>
        /\ \A t \in Trees : IsOfBlock(t, committed[t])
        /\ \A t \in Indexed : IsOfBlock(t, preimages[t])
        /\ (\E t \in Indexed : Stale(t)) =>
               Torn /\ committed[Archive] = After(blockNumber)[Archive]

(* handleL2Block throws in one situation only: the process ended while some  *)
(* of the trees were committed and others not, the leaves of an indexed tree *)
(* not yet either, perhaps.  Otherwise neither "State in header does not     *)
(* match current state" nor "Synced tree root does not match published L2    *)
(* block root", which end the synchronizer, can be met, whoever publishes,   *)
(* whatever the sequencer leaves in the trees, and wherever else the process *)
(* ends once the initial header was committed (handleL2Block, isBlockOurs,   *)
(* rollback).                                                                *)
ThrowsOnlyTorn == threw => Torn

(* Every block that was handled has a snapshot of every tree, and a snapshot *)
(* is the tree after that block, also when the process ended between two     *)
(* snapshots and the block was handled again (snapshot, getSnapshot).        *)
SnapshotsExact ==
    \A n \in 1..MaxBlocks, t \in Trees :
        /\ snapshots[t][n] # None => snapshots[t][n] = After(n)[t]
        /\ n <= blockNumber => snapshots[t][n] # None

(* The synchronizer reconciles the trees with every published block          *)
(* eventually, unless the process ended amid the creation of the trees or    *)
(* the commits of a block.                                                   *)
FollowsUnlessTorn ==
    \A n \in 1..MaxBlocks :
        Len(chain) >= n ~> (blockNumber >= n \/ (pc = "down" /\ Torn))

(* What handleL2Block keeps when the process may end anywhere in it: exact   *)
(* snapshots, and no exception unless it ended amid the commits of a block.  *)
SyncSafe == SnapshotsExact /\ ThrowsOnlyTorn

=============================================================================
