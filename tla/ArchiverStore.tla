--------------------------- MODULE ArchiverStore ---------------------------
(***************************************************************************)
(* The archiver's MessageStore (yarn-project/archiver/src/archiver/        *)
(* kv_archiver_store/message_store.ts): the L1-to-L2 messages it has seen, *)
(* a counter of pending copies ordered by fee, and the L1 blocks up to     *)
(* which additions and cancellations were applied.                         *)
(*                                                                         *)
(* Each operation is one transaction of the key-value store, atomic, and   *)
(* without effect if its callback throws: Can... is then false.  A message *)
(* is a record with its key and fee; several copies are a function from    *)
(* messages to their number.                                               *)
(***************************************************************************)
EXTENDS Integers, FiniteSets

CONSTANTS
    Messages    \* the L1ToL2Message values

NoCopies == [m \in Messages |-> 0]
Keys(copies) == {m \in Messages : copies[m] > 0}
Plus(a, b) == [m \in Messages |-> a[m] + b[m]]
Minus(a, b) == [m \in Messages |-> a[m] - b[m]]

\* known and confirmed are the entries of #messages, pending is
\* #pendingMessagesByFee, a counter that may not go below zero.
EmptyStore == [known |-> {}, confirmed |-> {}, pending |-> NoCopies,
               lastAdding |-> 0, lastCancelling |-> 0]

\* Fault: the pointer is not moved.
AddPendingNoPointer(db, copies, l1Block) ==
    [db EXCEPT !.known = @ \cup Keys(copies), !.pending = Plus(@, copies)]

\* Fault: a message that is known is not counted again.
AddPendingOnce(db, copies, l1Block) ==
    [db EXCEPT !.lastAdding = l1Block,
               !.known = @ \cup Keys(copies),
               !.pending = [m \in Messages |->
                   IF copies[m] > 0 /\ m \notin db.known THEN @[m] + 1 ELSE @[m]]]

\* addPendingMessages
AddPendingMessages(db, copies, l1Block) ==
    IF db.lastAdding >= l1Block THEN db
    ELSE [db EXCEPT !.lastAdding = l1Block,
                    !.known = @ \cup Keys(copies),
                    !.pending = Plus(@, copies)]

\* Fault: the counter may go below zero.
CanRemoveKnown(db, copies) == Keys(copies) \subseteq db.known

\* Fault: the last copy cannot be removed.
CanRemoveButLast(db, copies) ==
    /\ Keys(copies) \subseteq db.known
    /\ \A m \in Keys(copies) : copies[m] < db.pending[m]

\* Every message is known, and the counter does not go below zero.
CanRemove(db, copies) ==
    /\ Keys(copies) \subseteq db.known
    /\ \A m \in Messages : copies[m] <= db.pending[m]

CanCancelMessages(db, copies, l1Block) ==
    db.lastCancelling >= l1Block \/ CanRemove(db, copies)

\* cancelPendingMessages: the entry of the message stays.
CancelPendingMessages(db, copies, l1Block) ==
    IF db.lastCancelling >= l1Block THEN db
    ELSE [db EXCEPT !.lastCancelling = l1Block,
                    !.pending = Minus(@, copies)]

\* Fault: a confirmed message stays pending.
ConfirmWithoutRemoving(db, copies) ==
    [db EXCEPT !.confirmed = @ \cup Keys(copies)]

\* confirmPendingMessages, when CanRemove: no pointer guards against a repetition.
ConfirmPendingMessages(db, copies) ==
    [db EXCEPT !.confirmed = @ \cup Keys(copies),
               !.pending = Minus(@, copies)]

=============================================================================
