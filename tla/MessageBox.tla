----------------------------- MODULE MessageBox -----------------------------
(***************************************************************************)
(* The multi-set of messages kept by both Inbox and Outbox                 *)
(* (l1-contracts/src/core/libraries/MessageBox.sol).                       *)
(*                                                                         *)
(* A box is a function from entry keys to entries.  A key is the hash of a *)
(* message; the hash is taken to be injective, so a key is any value that  *)
(* identifies one message.  An operation that reverts is a predicate that  *)
(* is false: the transaction that calls it has no effect.                  *)
(***************************************************************************)
EXTENDS Integers, FiniteSets

CONSTANTS
    MaxCount,   \* type(uint32).max: the largest multiplicity an entry can hold
    NoKey       \* bytes32(0), the padding of a block's message arrays

ASSUME MaxCountAssumption == MaxCount \in Nat

\* The storage slot of a key that was never written.
EmptyEntry == [fee |-> 0, count |-> 0, version |-> 0, deadline |-> 0]

\* Entry struct: fee, count, version and deadline share one storage slot.
Entry == [fee : Nat, count : 0..MaxCount, version : Nat, deadline : Nat]

\* Fault: off by one.
ContainsZero(box, k) == box[k].count >= 0

\* contains: the box holds at least one copy of the message.
Contains(box, k) == box[k].count > 0

\* Fault: the version of an earlier insertion is overwritten.
CanInsertAnyVersion(box, k, fee, version, deadline) ==
    /\ ~ (box[k].fee # 0 /\ box[k].fee # fee)
    /\ ~ (box[k].deadline # 0 /\ box[k].deadline # deadline)
    /\ box[k].count + 1 <= MaxCount

\* The arguments agree with what an earlier insertion left in the slot, and
\* the checked addition on the uint32 count does not overflow.
CanInsert(box, k, fee, version, deadline) ==
    /\ ~ (box[k].fee # 0 /\ box[k].fee # fee)
    /\ ~ (box[k].deadline # 0 /\ box[k].deadline # deadline)
    /\ ~ (box[k].version # 0 /\ box[k].version # version)
    /\ box[k].count + 1 <= MaxCount

\* Fault: a set instead of a multi-set.
InsertOnce(box, k, fee, version, deadline) ==
    [box EXCEPT ![k] = [fee |-> fee, count |-> 1,
                        version |-> version, deadline |-> deadline]]

\* insert, when CanInsert.
Insert(box, k, fee, version, deadline) ==
    [box EXCEPT ![k] = [fee |-> fee, count |-> box[k].count + 1,
                        version |-> version, deadline |-> deadline]]

\* How often key k occurs in an array of keys.
Occurrences(keys, k) == Cardinality({i \in DOMAIN keys : keys[i] = k})

\* Fault: every key is checked before any is consumed.
CanConsumeEach(box, keys) ==
    \A i \in DOMAIN keys : keys[i] # NoKey => Contains(box, keys[i])

\* Consuming every key of an array that is not the padding: the loop reverts
\* as soon as one key has no copy left.
CanConsumeAll(box, keys) ==
    \A i \in DOMAIN keys :
        keys[i] # NoKey => Occurrences(keys, keys[i]) <= box[keys[i]].count

\* consume, once for every position of the array that holds the key.  Only the
\* count changes: fee, version and deadline stay in the slot.
ConsumeAll(box, keys) ==
    [k \in DOMAIN box |->
        [box[k] EXCEPT !.count = @ - Occurrences(keys, k)]]

=============================================================================
