------------------------------ MODULE Archiver ------------------------------
(***************************************************************************)
(* The archiver (yarn-project/archiver/src/archiver/archiver.ts): a loop   *)
(* that copies events of the L1 contracts into a local key-value store,    *)
(* from which the sequencer, the world state and the clients of the node   *)
(* are served.                                                             *)
(*                                                                         *)
(* sync is cut at every await, because L1 grows, the provider catches up,  *)
(* and the process may stop there.  What is in the store survives; what    *)
(* sync has read but not written is lost.                                  *)
(***************************************************************************)
EXTENDS ArchiverStore, FiniteSetsExt, Sequences

CONSTANTS
    Lags,              \* TRUE: the provider indexes L1 blocks after announcing them
    MaxHeight,         \* bound: L1 blocks
    MaxBlocks,         \* bound: L2 blocks
    MaxCopies,         \* bound: how often one message is sent
    MaxExtended,       \* bound: copies of contract data that are told apart
    MaxCrashes         \* bound: crashes of the process

ASSUME ArchiverAssumption ==
    /\ Lags \in BOOLEAN
    /\ MaxHeight \in Nat /\ MaxBlocks \in Nat /\ MaxCopies \in Nat /\ MaxCrashes \in Nat
    /\ MaxExtended \in Nat \ {0}
    /\ \A m \in Messages : /\ m.deadline \in Nat
                           /\ m.fee \in Nat
                           /\ m.key \in Nat

VARIABLES
    added,      \* L1: MessageAdded events of every L1 block
    cancelled,  \* L1: L1ToL2MessageCancelled events of every L1 block
    rollup,     \* L1: L2BlockProcessed events, the n-th for L2 block n
    emitter,    \* L1: ContractDeployment events
    indexed,    \* the provider returns the events of L1 blocks up to this one
    db,         \* store: messages
    blocks,     \* store: L2 blocks
    logs,       \* store: L2 blocks whose logs, classes and instances are stored
    extended,   \* store: extended contract data, copies by L2 block number
    pc,         \* where sync is
    initial,    \* blockUntilSynced
    sync,       \* local variables of sync
    crashes     \* crashes so far

l1Vars == <<added, cancelled, rollup, emitter, indexed>>
storeVars == <<db, blocks, logs, extended>>
vars == <<l1Vars, storeVars, pc, initial, sync, crashes>>

\* The number of the newest L1 block.
Height == Len(added)

\* The local variables of sync: the three pointers, the newest L1 block when
\* sync began, up to where each kind of event was read, the L1 blocks with
\* message events still to apply, the last L2 block read, the L2 block to write
\* next and the L2 blocks for which contract data was read.
NoSync == [added |-> 0, cancelled |-> 0, block |-> 0, current |-> 0,
           addedTo |-> 0, cancelledTo |-> 0, blockTo |-> 0, contractTo |-> 0,
           heights |-> {}, last |-> 0, next |-> 0, contracts |-> {}]

Init ==
    /\ added = <<>>
    /\ cancelled = <<>>
    /\ rollup = <<>>
    /\ emitter = {}
    /\ indexed = 0
    /\ db = EmptyStore
    /\ blocks = <<>>
    /\ logs = {}
    /\ extended = [n \in 1..MaxBlocks |-> 0]
    /\ pc = "stopped"
    /\ initial = FALSE
    /\ sync = NoSync
    /\ crashes = 0

-----------------------------------------------------------------------------
(* L1 and its provider *)

\* Copies of m in the first n elements of a sequence of copies.
Total(s, n, m) ==
    LET sum[i \in 0..n] == IF i = 0 THEN 0 ELSE sum[i - 1] + s[i][m] IN sum[n]

\* Copies of m consumed by the first n L2 blocks.
Consumed(n, m) == Total([i \in 1..n |-> rollup[i].ins], n, m)

\* Copies of m that the Inbox holds.
Open(m) == Total(added, Height, m) - Total(cancelled, Height, m) - Consumed(Len(rollup), m)

\* The next L1 block, as the contracts allow it: a message is sent before,
\* consumed until and cancelled after its deadline, and never more often than
\* it was sent.  The sequencer publishes the contract data of an L2 block
\* before the block, and after the previous block.
Mine(a, c, l2, deploy) ==
    LET h == Height + 1
        ins(m) == IF l2 = <<>> THEN 0 ELSE l2[1][m]
    IN  /\ h <= MaxHeight
        /\ Len(rollup) + Len(l2) <= MaxBlocks
        /\ \A m \in Messages :
               /\ a[m] > 0 => m.deadline > h
               /\ c[m] > 0 => h > m.deadline
               /\ ins(m) > 0 => h <= m.deadline
               /\ c[m] + ins(m) <= Open(m) + a[m]
               /\ Total(added, Height, m) + a[m] <= MaxCopies
        /\ deploy => /\ Len(rollup) < MaxBlocks
                     /\ \A e \in emitter : e.n # Len(rollup) + 1
        /\ added' = Append(added, a)
        /\ cancelled' = Append(cancelled, c)
        /\ rollup' = IF l2 = <<>> THEN rollup
                     ELSE Append(rollup, [l1 |-> h, ins |-> l2[1]])
        /\ emitter' = IF deploy THEN emitter \cup {[n |-> Len(rollup) + 1, l1 |-> h]}
                      ELSE emitter
        /\ indexed' = IF Lags THEN indexed ELSE h
        /\ UNCHANGED <<storeVars, pc, initial, sync, crashes>>

\* An eventually consistent provider processes the next block.
IndexBlock ==
    /\ indexed < Height
    /\ indexed' = indexed + 1
    /\ UNCHANGED <<added, cancelled, rollup, emitter, storeVars, pc, initial, sync, crashes>>

\* Fault: the exclusive upper bound of getLogs is not corrected.
VisibleExclusive(current) == Min({current - 1, indexed})

\* The last L1 block whose events a query up to L1 block current returns.
Visible(current) == Min({current, indexed})

-----------------------------------------------------------------------------
(* sync *)

\* createAndSync and start, with or without an initial sync.
Start ==
    /\ pc \in {"stopped", "failed"}
    /\ pc' = "idle"
    /\ initial' \in BOOLEAN
    /\ UNCHANGED <<l1Vars, storeVars, sync, crashes>>

\* The process is gone; at "idle" this is also what stop does.
Crash ==
    /\ pc \notin {"stopped", "failed"}
    /\ crashes < MaxCrashes
    /\ crashes' = crashes + 1
    /\ pc' = "stopped"
    /\ sync' = NoSync
    /\ UNCHANGED <<l1Vars, storeVars, initial>>

\* sync returns; the loop sleeps and calls it again without blockUntilSynced.
Return ==
    /\ pc' = "idle"
    /\ sync' = NoSync
    /\ initial' = FALSE

\* sync throws, and the loop of RunningPromise ends with it.
Fail ==
    /\ pc' = "failed"
    /\ sync' = NoSync
    /\ UNCHANGED initial

Goto(label, s) ==
    /\ pc' = label
    /\ sync' = s
    /\ UNCHANGED initial

\* getL1BlockNumber of the block store.
LastL1Block == IF blocks = <<>> THEN 0 ELSE blocks[Len(blocks)].l1

\* The chain has moved past one of the pointers.
ChainMoved(current) ==
    current > LastL1Block \/ current > db.lastAdding \/ current > db.lastCancelling

\* The pointers and the newest L1 block are read.
Begin ==
    /\ pc = "idle"
    /\ IF ChainMoved(Height)
       THEN Goto("pending",
                 [NoSync EXCEPT !.added = db.lastAdding, !.addedTo = db.lastAdding,
                                !.cancelled = db.lastCancelling,
                                !.cancelledTo = db.lastCancelling,
                                !.block = LastL1Block, !.blockTo = LastL1Block,
                                !.contractTo = LastL1Block,
                                !.current = Height])
       ELSE Return
    /\ UNCHANGED <<l1Vars, storeVars, crashes>>

\* The L1 blocks after from and up to to in which a sequence has copies.
WithCopies(s, from, to) == {h \in (from + 1)..to : Keys(s[h]) # {}}

\* A query is repeated while blockUntilSynced, the last one found something,
\* and L1 blocks are left to search.
Repeat(found) == initial /\ found # {} /\ Max(found) < sync.current

\* retrieveNewPendingL1ToL2Messages
RetrievePending ==
    /\ pc = "pending"
    /\ LET to == Visible(sync.current)
           found == WithCopies(added, sync.addedTo, to)
       IN  Goto(IF Repeat(found) THEN "pending" ELSE "cancelled",
                [sync EXCEPT !.addedTo = Max({@, to})])
    /\ UNCHANGED <<l1Vars, storeVars, crashes>>

\* retrieveNewCancelledL1ToL2Messages, then both kinds grouped by L1 block.
RetrieveCancelled ==
    /\ pc = "cancelled"
    /\ LET to == Max({sync.cancelledTo, Visible(sync.current)})
           found == WithCopies(cancelled, sync.cancelledTo, to)
       IN  Goto(IF Repeat(found) THEN "cancelled" ELSE "messages",
                [sync EXCEPT !.cancelledTo = to,
                             !.heights = WithCopies(added, sync.added, sync.addedTo)
                                    \cup WithCopies(cancelled, sync.cancelled, to)])
    /\ UNCHANGED <<l1Vars, storeVars, crashes>>

\* The copies of L1 block h that were read: none outside the range searched.
CopiesRead(s, from, to, h) == IF from < h /\ h <= to THEN s[h] ELSE NoCopies

\* The L1 blocks with messages are applied in ascending order.
NextHeight(heights) == Min(heights)

\* addPendingL1ToL2Messages for the next L1 block, with no messages if it has
\* only cancellations.
AddPending ==
    /\ pc = "messages"
    /\ sync.heights # {}
    /\ LET h == NextHeight(sync.heights)
       IN  db' = AddPendingMessages(db, CopiesRead(added, sync.added, sync.addedTo, h), h)
    /\ Goto("cancel", sync)
    /\ UNCHANGED <<l1Vars, blocks, logs, extended, crashes>>

\* cancelPendingL1ToL2Messages for the same L1 block.
CancelPending ==
    /\ pc = "cancel"
    /\ LET h == NextHeight(sync.heights)
           copies == CopiesRead(cancelled, sync.cancelled, sync.cancelledTo, h)
       IN  IF CanCancelMessages(db, copies, h)
           THEN /\ db' = CancelPendingMessages(db, copies, h)
                /\ Goto("messages", [sync EXCEPT !.heights = @ \ {h}])
           ELSE Fail /\ UNCHANGED db
    /\ UNCHANGED <<l1Vars, blocks, logs, extended, crashes>>

\* retrieveBlocks: the L2 blocks read must carry the numbers expected next.
\* Without a new L2 block sync returns.
RetrieveBlocks ==
    /\ pc = "messages"
    /\ sync.heights = {}
    /\ LET to == Visible(sync.current)
           last == Max({Len(blocks), sync.last})
           new == {n \in DOMAIN rollup : sync.blockTo < rollup[n].l1 /\ rollup[n].l1 <= to}
           upTo == last + Cardinality(new)
           s == [sync EXCEPT !.blockTo = Max({@, to}), !.last = upTo,
                             !.next = Len(blocks) + 1]
       IN  IF new # (last + 1)..upTo THEN Fail
           ELSE IF Repeat({rollup[n].l1 : n \in new}) THEN Goto("messages", s)
           ELSE IF upTo = Len(blocks) THEN Return
           ELSE Goto("contracts", s)
    /\ UNCHANGED <<l1Vars, storeVars, crashes>>

\* Fault: the wrong pointer is used for contract data.
ContractsAfterMessages(s) == Max({s.added, s.contractTo})

\* Contract data is searched from where L2 blocks are.
ContractsFrom(s) == s.contractTo

\* retrieveNewContractData: data for L2 blocks not read now is dropped.
RetrieveContracts ==
    /\ pc = "contracts"
    /\ LET to == Visible(sync.current)
           found == {e \in emitter : ContractsFrom(sync) < e.l1 /\ e.l1 <= to}
       IN  Goto(IF Repeat({e.l1 : e \in found}) THEN "contracts" ELSE "logs",
                [sync EXCEPT !.contractTo = Max({@, to}),
                             !.contracts = @ \cup ({e.n : e \in found}
                                                   \cap (Len(blocks) + 1)..sync.last)])
    /\ UNCHANGED <<l1Vars, storeVars, crashes>>

\* addLogs, then the contract classes and instances found in the logs of the
\* block: all of these are keyed by what they store and may be repeated.
StoreLogs ==
    /\ pc = "logs"
    /\ logs' = logs \cup {sync.next}
    /\ IF sync.next < sync.last
       THEN Goto("logs", [sync EXCEPT !.next = @ + 1])
       ELSE Goto(IF sync.contracts = {} THEN "confirm" ELSE "extend",
                 [sync EXCEPT !.next = Len(blocks) + 1])
    /\ UNCHANGED <<l1Vars, db, blocks, extended, crashes>>

\* addExtendedContractData appends to what is stored for the L2 block.
AddContractData(n) ==
    /\ pc = "extend"
    /\ n \in sync.contracts
    /\ extended' = [extended EXCEPT ![n] = Min({@ + 1, MaxExtended})]
    /\ Goto(IF sync.contracts = {n} THEN "confirm" ELSE "extend",
            [sync EXCEPT !.contracts = @ \ {n}])
    /\ UNCHANGED <<l1Vars, db, blocks, logs, crashes>>

\* confirmL1ToL2Messages of the next L2 block, a transaction of its own.
Confirm ==
    /\ pc = "confirm"
    /\ LET copies == rollup[sync.next].ins
       IN  IF CanRemove(db, copies)
           THEN /\ db' = ConfirmPendingMessages(db, copies)
                /\ Goto(IF sync.next < sync.last THEN "confirm" ELSE "store",
                        [sync EXCEPT !.next = @ + 1])
           ELSE Fail /\ UNCHANGED db
    /\ UNCHANGED <<l1Vars, blocks, logs, extended, crashes>>

\* addBlocks: all L2 blocks in one transaction.
AddBlocks ==
    /\ pc = "store"
    /\ blocks' = blocks \o SubSeq(rollup, Len(blocks) + 1, sync.last)
    /\ Return
    /\ UNCHANGED <<l1Vars, db, logs, extended, crashes>>

SyncStep ==
    \/ Begin
    \/ RetrievePending
    \/ RetrieveCancelled
    \/ AddPending
    \/ CancelPending
    \/ RetrieveBlocks
    \/ RetrieveContracts
    \/ StoreLogs
    \/ \E n \in 1..MaxBlocks : AddContractData(n)
    \/ Confirm
    \/ AddBlocks

Copies == [Messages -> 0..MaxCopies]

Next ==
    \/ \E a \in Copies, c \in Copies, l2 \in {<<>>} \cup {<<i>> : i \in Copies},
          deploy \in BOOLEAN : Mine(a, c, l2, deploy)
    \/ IndexBlock
    \/ Start
    \/ Crash
    \/ SyncStep

\* The loop keeps running, the provider catches up, and the operator starts a
\* process that has ended.  L1 need not produce another block.
Fairness == WF_vars(SyncStep) /\ WF_vars(Start) /\ WF_vars(IndexBlock)

Spec == Init /\ [][Next]_vars /\ Fairness

-----------------------------------------------------------------------------
(* Properties *)

(* Type invariant of the store: the counters of pending messages are never   *)
(* negative and the pointers never run ahead of L1.                          *)
TypeOK ==
    /\ db.known \subseteq Messages
    /\ db.confirmed \subseteq db.known
    /\ db.pending \in [Messages -> Nat]
    /\ db.lastAdding \in 0..Height
    /\ db.lastCancelling \in 0..Height
    /\ indexed \in 0..Height
    /\ logs \subseteq DOMAIN rollup
    /\ extended \in [1..MaxBlocks -> 0..MaxExtended]
    /\ initial \in BOOLEAN

\* The last L2 block whose messages the running sync has confirmed.
ConfirmedTo == IF pc \in {"confirm", "store"} THEN sync.next - 1 ELSE Len(blocks)

\* The copies of m that are pending according to the events up to the pointers.
PendingOnL1(n, m) ==
    Total(added, db.lastAdding, m) - Total(cancelled, db.lastCancelling, m) - Consumed(n, m)

(* "data is read exactly once" (archiver.ts): in every state, between any    *)
(* two transactions of sync too, the pending counters are what the events up *)
(* to the three pointers give, the confirmed messages are those of the L2    *)
(* blocks confirmed, and no contract data is stored twice; a crash may break *)
(* this.                                                                     *)
ReadOnce ==
    crashes = 0 =>
        /\ \A m \in Messages : db.pending[m] = PendingOnL1(ConfirmedTo, m)
        /\ db.confirmed = {m \in Messages : Consumed(ConfirmedTo, m) > 0}
        /\ \A n \in 1..MaxBlocks : extended[n] <= 1

\* Messages of an L2 block are confirmed, and the block is not stored: sync
\* ended between the transactions that do this.
ConfirmedAhead == \E m \in Messages : db.pending[m] < PendingOnL1(Len(blocks), m)

(* sync throws in one situation only: its predecessor ended after it had     *)
(* confirmed the messages of an L2 block and before it had stored the block. *)
(* Otherwise every message cancelled or consumed on L1 is found in the store *)
(* when the event is applied, with a copy left, and L2 blocks arrive with    *)
(* the numbers expected (sync, message_store.ts, processBlockLogs).          *)
FailsOnlyAhead == pc = "failed" => crashes > 0 /\ ConfirmedAhead

\* Everything that L1 emitted up to block h is in the store.
Reflects(h) ==
    /\ WithCopies(added, db.lastAdding, Min({h, Height})) = {}
    /\ WithCopies(cancelled, db.lastCancelling, Min({h, Height})) = {}
    /\ \A n \in DOMAIN rollup : rollup[n].l1 <= h => n <= Len(blocks)

(* What an L1 block emits reaches the store eventually, through crashes too, *)
(* unless a crash leaves messages confirmed ahead of their block, on which   *)
(* every later sync throws (sync, confirmL1ToL2Messages, addBlocks).         *)
CatchesUpUnlessAhead ==
    \A h \in 1..MaxHeight :
        Height >= h ~> (Reflects(h) \/ (pc = "failed" /\ ConfirmedAhead))

(* A block that can be served is complete: stored L2 blocks are those of the *)
(* rollup in order, and the logs and the contract data of each were stored   *)
(* before it, whatever crashed on the way (sync stores blocks last).         *)
BlocksComplete ==
    /\ blocks = SubSeq(rollup, 1, Len(blocks))
    /\ 1..Len(blocks) \subseteq logs
    /\ \A e \in emitter : e.n <= Len(blocks) => extended[e.n] >= 1

(* The sequencer is never offered a copy of a message that the L1 events     *)
(* read so far say is gone, even after crashes and with a provider that      *)
(* lags (confirm before addBlocks, pointers and counters in one              *)
(* transaction).                                                             *)
NoGhostPending ==
    \A m \in Messages : db.pending[m] <= PendingOnL1(Len(blocks), m)

(* Crashes do not lose or duplicate messages that no L2 block has consumed:  *)
(* pointer and counters move in the same transaction, and the pointer of     *)
(* cancellations is kept apart from the one of additions.                    *)
UnconsumedExact ==
    \A m \in Messages : Consumed(Len(rollup), m) = 0 => db.pending[m] = PendingOnL1(0, m)

(* What a crash at any await leaves intact: the counts of the messages that  *)
(* no block has consumed, and a sync that throws in one situation only.      *)
CrashSafe == UnconsumedExact /\ FailsOnlyAhead

(* The store is sane and what it serves complete, with crashes and a         *)
(* lagging provider together: no counter is negative, no pointer is ahead of *)
(* L1, and a stored block has its logs and contract data.                    *)
StoreSane == TypeOK /\ BlocksComplete

=============================================================================
