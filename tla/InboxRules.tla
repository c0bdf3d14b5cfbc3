---------------------------- MODULE InboxRules ----------------------------
(***************************************************************************)
(* The checks of the Inbox's operations, on a message box and the L1 time: *)
(* what sendL2Message, cancelL2Message and batchConsume accept and what    *)
(* sendL2Message stores (l1-contracts/src/core/messagebridge/Inbox.sol).   *)
(* A message is a record with the sender, the recipient version, the       *)
(* deadline and the fee of the L1ToL2Msg struct, and is its own key.       *)
(***************************************************************************)
EXTENDS MessageBox

CONSTANTS
    MaxFee,       \* type(uint64).max
    VersionMod    \* 2^32: a recipient version is cast to uint32

ASSUME RulesAssumption ==
    /\ MaxFee \in Nat
    /\ VersionMod \in Nat \ {0}

\* uint32(_recipient.version)
StoredVersion(m) == m.version % VersionMod

\* uint64(msg.value)
StoredFee(m) == m.fee % (MaxFee + 1)

\* Fault: the cast to uint64 is not guarded.
CanSendAnyFee(box, t, m) ==
    /\ m.deadline > t
    /\ CanInsert(box, m, StoredFee(m), StoredVersion(m), m.deadline)

\* The checks of sendL2Message at time t.
CanSend(box, t, m) ==
    /\ m.deadline > t
    /\ m.fee <= MaxFee
    /\ CanInsert(box, m, StoredFee(m), StoredVersion(m), m.deadline)

\* What sendL2Message leaves in the box.
Deposit(box, m) == Insert(box, m, StoredFee(m), StoredVersion(m), m.deadline)

\* Fault: the deadline itself counts as passed.
AtDeadline(t, m) == t >= m.deadline

\* The deadline has passed: only then the sender may cancel.
PastDeadline(t, m) == t > m.deadline

\* Fault: an expired message is still consumed.
ConsumableForever(box, t, m, version) == box[m].version = version

\* Fault: any registered rollup may consume the message.
ConsumableByAny(box, t, m, version) == t <= box[m].deadline

\* What batchConsume asks of one entry, besides a copy left to consume.
Consumable(box, t, m, version) ==
    /\ box[m].version = version
    /\ t <= box[m].deadline

\* Every key of the batch may be consumed by the rollup with this version.
CanBatchConsume(box, t, keys, version) ==
    /\ \A i \in DOMAIN keys :
           keys[i] # NoKey => Consumable(box, t, keys[i], version)
    /\ CanConsumeAll(box, keys)

=============================================================================
