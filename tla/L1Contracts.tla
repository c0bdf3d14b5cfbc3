---------------------------- MODULE L1Contracts ----------------------------
(***************************************************************************)
(* The L1 contracts together (l1-contracts/src/core): Registry, Rollup,    *)
(* AvailabilityOracle, and the Inboxes and Outboxes that a rollup reaches  *)
(* through the registry.  Several rollups may be registered over time, and *)
(* an upgrade may keep or replace the message boxes; a rollup of an older  *)
(* version keeps working, on the boxes of the newest snapshot.             *)
(*                                                                         *)
(* An operation is one L1 transaction: it happens as a whole or reverts.   *)
(* The ether moved with the messages is the subject of module Inbox and is *)
(* left out here.                                                          *)
(***************************************************************************)
EXTENDS InboxRules, Sequences, Functions

CONSTANTS
    Rollups,      \* addresses of deployed Rollup contracts
    Inboxes,      \* addresses of deployed Inbox contracts
    Outboxes,     \* addresses of deployed Outbox contracts
    Dead,         \* address(0xdead), registered as version 0
    Messages,     \* L1ToL2Msg structs
    OutMessages,  \* L2ToL1Msg structs
    TxsHashes,    \* hashes of block bodies
    Archives,     \* archive roots a proof may name, bytes32(0) among them
    NoArchive,    \* bytes32(0), the root before the first block
    ChainIds,     \* chain ids a header may claim
    ChainId,      \* block.chainid
    BatchSize,    \* length of a block's message arrays
    MaxTime,      \* bound: the last L1 timestamp
    MaxSends,     \* bound: how often one message is sent to one inbox
    MaxBlocks,    \* bound: blocks processed by all rollups
    MaxVersions   \* bound: snapshots in the registry

ASSUME L1Assumption ==
    /\ NoArchive \in Archives
    /\ NoKey \notin Messages \cup OutMessages
    /\ Dead \notin Rollups \cup Inboxes \cup Outboxes
    /\ ChainId \in ChainIds
    /\ IsFiniteSet(Rollups)
    /\ \A m \in Messages : m.version \in Nat /\ m.deadline \in Nat /\ m.fee \in Nat
    /\ BatchSize \in Nat
    /\ MaxTime \in Nat \ {0}
    /\ MaxBlocks \in Nat
    /\ MaxVersions \in Nat \ {0}

VARIABLES
    now,              \* block.timestamp
    snapshots,        \* Registry: snapshot of version v at position v + 1
    rollupToVersion,  \* Registry: version of a rollup, 0 when not registered
    archive,          \* Rollup: root of the archive tree
    lastBlockTs,      \* Rollup: L1 time of the last block
    available,        \* AvailabilityOracle: published body hashes
    inbox,            \* the message box of every Inbox
    outbox,           \* the message box of every Outbox
    chain,            \* the blocks each rollup has processed (L2BlockProcessed)
    sent,             \* MessageAdded events, by inbox and message
    cancelled,        \* L1ToL2MessageCancelled events, by inbox and message
    withdrawn         \* MessageConsumed events, by outbox and message

vars == <<now, snapshots, rollupToVersion, archive, lastBlockTs, available,
          inbox, outbox, chain, sent, cancelled, withdrawn>>

registryVars == <<snapshots, rollupToVersion>>
rollupVars == <<archive, lastBlockTs, chain>>
inboxVars == <<inbox, sent, cancelled>>
outboxVars == <<outbox, withdrawn>>

\* The VERSION of every Rollup contract, whatever the registry calls it.
RollupVERSION == 1

Header == [lastArchive : Archives, timestamp : 0..MaxTime,
           txsHash : TxsHashes, chainId : ChainIds, version : {1, 2}]

Batch(keys) == [1..BatchSize -> keys \cup {NoKey}]

Init ==
    /\ now = 1
    /\ snapshots = << [rollup |-> Dead, inbox |-> Dead, outbox |-> Dead] >>
    /\ rollupToVersion = [r \in Rollups \cup {Dead} |-> 0]
    /\ archive = [r \in Rollups |-> NoArchive]
    /\ lastBlockTs = [r \in Rollups |-> 0]
    /\ available = {}
    /\ inbox = [i \in Inboxes |-> [m \in Messages |-> EmptyEntry]]
    /\ outbox = [o \in Outboxes |-> [k \in OutMessages |-> EmptyEntry]]
    /\ chain = [r \in Rollups |-> <<>>]
    /\ sent = [i \in Inboxes |-> [m \in Messages |-> 0]]
    /\ cancelled = [i \in Inboxes |-> [m \in Messages |-> 0]]
    /\ withdrawn = [o \in Outboxes |-> [k \in OutMessages |-> 0]]

-----------------------------------------------------------------------------
(* Registry *)

\* _getVersionFor: version 0 counts as not registered.
IsRegistered(r) == rollupToVersion[r] > 0

CurrentSnapshot == snapshots[Len(snapshots)]

\* Fault: the version of a rollup can be moved by registering it again.
CanUpgradeAny(r) == TRUE

\* upgrade reverts for a rollup that has a version.
CanUpgrade(r) == ~ IsRegistered(r)

\* upgrade: a new snapshot becomes the current one.  The dead rollup of the
\* constructor may be registered too.
Upgrade(r, i, o) ==
    /\ Len(snapshots) < MaxVersions
    /\ CanUpgrade(r)
    /\ snapshots' = Append(snapshots, [rollup |-> r, inbox |-> i, outbox |-> o])
    /\ rollupToVersion' = [rollupToVersion EXCEPT ![r] = Len(snapshots)]
    /\ UNCHANGED <<now, available, rollupVars, inboxVars, outboxVars>>

-----------------------------------------------------------------------------
(* Inbox and Outbox, as their users call them *)

SendL2Message(i, m) ==
    /\ sent[i][m] < MaxSends
    /\ CanSend(inbox[i], now, m)
    /\ inbox' = [inbox EXCEPT ![i] = Deposit(@, m)]
    /\ sent' = [sent EXCEPT ![i][m] = @ + 1]
    /\ UNCHANGED <<now, cancelled, available, registryVars, rollupVars, outboxVars>>

CancelL2Message(i, m) ==
    /\ PastDeadline(now, m)
    /\ Contains(inbox[i], m)
    /\ inbox' = [inbox EXCEPT ![i][m].count = @ - 1]
    /\ cancelled' = [cancelled EXCEPT ![i][m] = @ + 1]
    /\ UNCHANGED <<now, sent, available, registryVars, rollupVars, outboxVars>>

\* Outbox.consume, called by the recipient of k: the entry must come from the
\* version that k names.
ConsumeL1Message(o, k) ==
    /\ k.chainId = ChainId
    /\ Contains(outbox[o], k)
    /\ outbox[o][k].version = k.version
    /\ outbox' = [outbox EXCEPT ![o][k].count = @ - 1]
    /\ withdrawn' = [withdrawn EXCEPT ![o][k] = @ + 1]
    /\ UNCHANGED <<now, available, registryVars, rollupVars, inboxVars>>

\* Outbox.sendL1Messages inserts every key that is not the padding, with no
\* fee and no deadline.
CanSendL1Messages(box, keys, version) ==
    \A k \in Range(keys) \ {NoKey} :
        /\ CanInsert(box, k, 0, version, 0)
        /\ box[k].count + Occurrences(keys, k) <= MaxCount

SendL1Messages(box, keys, version) ==
    [k \in DOMAIN box |->
        IF k \in Range(keys)
        THEN [fee |-> 0, count |-> box[k].count + Occurrences(keys, k),
              version |-> version, deadline |-> 0]
        ELSE box[k]]

-----------------------------------------------------------------------------
(* AvailabilityOracle and Rollup *)

\* publish
Publish(h) ==
    /\ available' = available \cup {h}
    /\ UNCHANGED <<now, registryVars, rollupVars, inboxVars, outboxVars>>

\* Fault: the archive is not compared.
ValidWithoutArchive(h, lastTs, root) ==
    /\ h.chainId = ChainId
    /\ h.version = RollupVERSION
    /\ h.timestamp <= now
    /\ h.timestamp >= lastTs

\* HeaderLib.validate against the rollup's last timestamp and archive root; a
\* root of zero, which the first block starts from, is not compared.
Valid(h, lastTs, root) ==
    /\ h.chainId = ChainId
    /\ h.version = RollupVERSION
    /\ h.timestamp <= now
    /\ h.timestamp >= lastTs
    /\ root # NoArchive => root = h.lastArchive

\* The blocks that the rollups accepted, each by its rollup and number.
Accepted == UNION {{r} \X DOMAIN chain[r] : r \in Rollups}

\* Rollup.process: the mock verifier accepts every proof, so that any root may
\* become the archive, zero included.  The inbox and the
\* outbox are those of the current snapshot; both ask the registry for the
\* version of the calling rollup and revert if it has none.
Process(r, h, root, ins, outs) ==
    LET i == CurrentSnapshot.inbox
        o == CurrentSnapshot.outbox
        version == rollupToVersion[r]
    IN  /\ Valid(h, lastBlockTs[r], archive[r])
        /\ h.txsHash \in available
        /\ IsRegistered(r)
        /\ i \in Inboxes /\ CanBatchConsume(inbox[i], now, ins, version)
        /\ o \in Outboxes /\ CanSendL1Messages(outbox[o], outs, version)
        /\ archive' = [archive EXCEPT ![r] = root]
        /\ lastBlockTs' = [lastBlockTs EXCEPT ![r] = now]
        /\ inbox' = [inbox EXCEPT ![i] = ConsumeAll(@, ins)]
        /\ outbox' = [outbox EXCEPT ![o] = SendL1Messages(@, outs, version)]
        /\ chain' = [chain EXCEPT ![r] = Append(@,
               [header |-> h, archive |-> root, l1Time |-> now,
                inbox |-> i, ins |-> ins, outbox |-> o, outs |-> outs])]
        /\ UNCHANGED <<now, registryVars, available, sent, cancelled, withdrawn>>

Tick ==
    /\ now < MaxTime
    /\ now' = now + 1
    /\ UNCHANGED <<available, registryVars, rollupVars, inboxVars, outboxVars>>

Next ==
    \/ \E r \in Rollups \cup {Dead}, i \in Inboxes, o \in Outboxes : Upgrade(r, i, o)
    \/ \E i \in Inboxes, m \in Messages : SendL2Message(i, m) \/ CancelL2Message(i, m)
    \/ \E o \in Outboxes, k \in OutMessages : ConsumeL1Message(o, k)
    \/ \E h \in TxsHashes : Publish(h)
    \/ /\ Cardinality(Accepted) < MaxBlocks
       /\ \E r \in Rollups, h \in Header, root \in Archives,
             ins \in Batch(Messages), outs \in Batch(OutMessages) :
                 Process(r, h, root, ins, outs)
    \/ Tick

Spec == Init /\ [][Next]_vars

-----------------------------------------------------------------------------
(* Properties *)

(* Type invariant of the L1 contracts. *)
TypeOK ==
    /\ now \in 1..MaxTime
    /\ \A n \in DOMAIN snapshots :
           /\ snapshots[n].rollup \in Rollups \cup {Dead}
           /\ snapshots[n].inbox \in Inboxes \cup {Dead}
           /\ snapshots[n].outbox \in Outboxes \cup {Dead}
    /\ rollupToVersion \in [Rollups \cup {Dead} -> 0..(MaxVersions - 1)]
    /\ archive \in [Rollups -> Archives]
    /\ lastBlockTs \in [Rollups -> 0..MaxTime]
    /\ available \in SUBSET TxsHashes
    /\ inbox \in [Inboxes -> [Messages -> Entry]]
    /\ outbox \in [Outboxes -> [OutMessages -> Entry]]
    /\ \A r \in Rollups : \A n \in DOMAIN chain[r] :
           /\ chain[r][n].header \in Header
           /\ chain[r][n].archive \in Archives
           /\ chain[r][n].ins \in Batch(Messages)
           /\ chain[r][n].outs \in Batch(OutMessages)

(* Every rollup's blocks form a chain: each block was built on the archive   *)
(* root its predecessor left, unless that root is zero, and L2 time follows  *)
(* L1 time, so that a block's timestamp is never before the L1 time at which *)
(* its predecessor was accepted (Rollup.process with HeaderLib.validate).    *)
(* The exception is the code's: Rollup.process stores the root it is given   *)
(* and the mock verifier accepts every proof, and HeaderLib.validate takes   *)
(* a zero root for the start of the chain, where any block may follow.       *)
ChainLinked ==
    \A r \in Rollups : \A n \in 1..(Len(chain[r]) - 1) :
        LET b == chain[r][n]
            c == chain[r][n + 1]
        IN  /\ b.archive # NoArchive => c.header.lastArchive = b.archive
            /\ b.l1Time <= c.header.timestamp
            /\ c.header.timestamp <= c.l1Time

(* Versions name rollups uniquely and forever: every snapshot after the      *)
(* constructor's belongs to the rollup that has its number as version, so    *)
(* the message boxes can tell old and new rollups apart (Registry.upgrade).  *)
RegistryConsistent ==
    /\ \A n \in 2..Len(snapshots) : rollupToVersion[snapshots[n].rollup] = n - 1
    /\ \A r \in Rollups \cup {Dead} : IsRegistered(r) =>
           snapshots[rollupToVersion[r] + 1].rollup = r

\* The places where blocks of the rollup with this version put key k in outbox o.
Emitted(o, k, version) ==
    {p \in Rollups \X (1..MaxBlocks) \X (1..BatchSize) :
        /\ rollupToVersion[p[1]] = version
        /\ p[2] <= Len(chain[p[1]])
        /\ chain[p[1]][p[2]].outbox = o
        /\ chain[p[1]][p[2]].outs[p[3]] = k}

(* An L2-to-L1 message is consumed on L1 at most as often as blocks of the   *)
(* very version it names have emitted it, whatever other registered rollups  *)
(* emit into the same outbox (Outbox.consume, sendL1Messages).               *)
WithdrawnBacked ==
    \A o \in Outboxes, k \in OutMessages :
        withdrawn[o][k] <= Cardinality(Emitted(o, k, k.version))

\* The places where blocks of the version named by m took it from inbox i.
Taken(i, m) ==
    {p \in Rollups \X (1..MaxBlocks) \X (1..BatchSize) :
        /\ rollupToVersion[p[1]] = StoredVersion(m)
        /\ p[2] <= Len(chain[p[1]])
        /\ chain[p[1]][p[2]].inbox = i
        /\ chain[p[1]][p[2]].ins[p[3]] = m}

B == INSTANCE Bridge WITH
    Slots <- Inboxes \X Messages,
    pending <- [s \in Inboxes \X Messages |-> inbox[s[1]][s[2]].count],
    delivered <- [s \in Inboxes \X Messages |-> Cardinality(Taken(s[1], s[2]))],
    returned <- [s \in Inboxes \X Messages |-> cancelled[s[1]][s[2]]]

(* The contracts keep the promise of module Bridge to the senders of         *)
(* messages: across upgrades of the registry and blocks of several rollups,  *)
(* a copy is delivered to the version it names or returned, once.            *)
KeepsBridge == B!Spec

(* What every other argument about the contracts starts from: the storage    *)
(* has its types, widths of counts and versions included, and the registry   *)
(* names every rollup by one version (Registry.upgrade, MessageBox).         *)
Consistent == TypeOK /\ RegistryConsistent

=============================================================================
