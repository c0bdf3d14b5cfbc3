------------------------------- MODULE Inbox -------------------------------
(***************************************************************************)
(* The L1 Inbox contract (l1-contracts/src/core/messagebridge/Inbox.sol):  *)
(* portals deposit L1-to-L2 messages with a fee, a registered rollup       *)
(* consumes them until their deadline, the sender takes them back after    *)
(* it, and whoever was credited withdraws the fees as ether.               *)
(*                                                                         *)
(* withdrawFees hands control to the account it pays before it returns.    *)
(* That account may call the contract again, so a withdrawal is two        *)
(* actions, and the frames of the calls in progress are part of the state. *)
(* If the account's code fails, the EVM undoes everything since the frame  *)
(* was entered.                                                            *)
(***************************************************************************)
EXTENDS InboxRules, Sequences, Functions

CONSTANTS
    Accounts,     \* L1 addresses: portals and fee collectors
    Messages,     \* the L1ToL2Msg structs portals may send
    Versions,     \* the versions the registry has given to rollups
    BatchSize,    \* NUMBER_OF_L1_L2_MESSAGES_PER_ROLLUP
    MaxTime,      \* bound: the last L1 timestamp
    MaxSends,     \* bound: how often one message is sent
    MaxDepth      \* bound: nested withdrawals in one transaction

ASSUME InboxAssumption ==
    /\ IsFiniteSet(Accounts)
    /\ IsFiniteSet(Messages)
    /\ \A m \in Messages : /\ m.sender \in Accounts
                           /\ m.version \in Nat
                           /\ m.deadline \in Nat
                           /\ m.fee \in Nat
    /\ NoKey \notin Messages
    /\ Versions \subseteq Nat \ {0}
    /\ BatchSize \in Nat
    /\ MaxTime \in Nat
    /\ MaxSends \in Nat
    /\ MaxDepth \in Nat

VARIABLES
    now,          \* block.timestamp
    entries,      \* the message box
    feesAccrued,  \* fees credited and not withdrawn
    balance,      \* the ether held by the contract
    sent,         \* MessageAdded events so far, by message
    consumed,     \* copies consumed by a rollup so far, by message
    cancelled,    \* L1ToL2MessageCancelled events so far, by message
    calls         \* frames of the withdrawals in progress, outermost first

vars == <<now, entries, feesAccrued, balance, sent, consumed, cancelled, calls>>

\* The array of entry keys of a block, padded with NoKey.
Batch == [1..BatchSize -> Messages \cup {NoKey}]

\* What the EVM restores when a frame reverts.
Snapshot == [entries |-> entries, feesAccrued |-> feesAccrued,
             balance |-> balance, sent |-> sent, consumed |-> consumed,
             cancelled |-> cancelled]

Init ==
    /\ now = 1
    /\ entries = [m \in Messages |-> EmptyEntry]
    /\ feesAccrued = [a \in Accounts |-> 0]
    /\ balance = 0
    /\ sent = [m \in Messages |-> 0]
    /\ consumed = [m \in Messages |-> 0]
    /\ cancelled = [m \in Messages |-> 0]
    /\ calls = <<>>

-----------------------------------------------------------------------------

\* sendL2Message: the sender pays m.fee with the call.
SendL2Message(m) ==
    /\ sent[m] < MaxSends
    /\ CanSend(entries, now, m)
    /\ entries' = Deposit(entries, m)
    /\ balance' = balance + m.fee
    /\ sent' = [sent EXCEPT ![m] = @ + 1]
    /\ UNCHANGED <<now, feesAccrued, consumed, cancelled, calls>>

\* cancelL2Message: called by the sender of m, the fee goes to a collector.
CancelL2Message(m, collector) ==
    /\ PastDeadline(now, m)
    /\ Contains(entries, m)
    /\ entries' = [entries EXCEPT ![m].count = @ - 1]
    /\ feesAccrued' = [feesAccrued EXCEPT ![collector] = @ + m.fee]
    /\ cancelled' = [cancelled EXCEPT ![m] = @ + 1]
    /\ UNCHANGED <<now, balance, sent, consumed, calls>>

\* totalFee: the fee of every copy consumed.
TotalFee(keys) ==
    SumFunction([m \in Messages |-> Occurrences(keys, m) * entries[m].fee])

\* batchConsume, called by the rollup that has this version in the registry.
BatchConsume(keys, version, collector) ==
    /\ CanBatchConsume(entries, now, keys, version)
    /\ entries' = ConsumeAll(entries, keys)
    /\ feesAccrued' = [feesAccrued EXCEPT ![collector] = @ + TotalFee(keys)]
    /\ consumed' = [m \in Messages |-> consumed[m] + Occurrences(keys, m)]
    /\ UNCHANGED <<now, balance, sent, cancelled, calls>>

\* withdrawFees up to the call: the credit is cleared, then the ether leaves
\* and the recipient's code runs.
WithdrawFees(a) ==
    /\ Len(calls) < MaxDepth
    /\ feesAccrued[a] <= balance
    /\ calls' = Append(calls, Snapshot)
    /\ feesAccrued' = [feesAccrued EXCEPT ![a] = 0]
    /\ balance' = balance - feesAccrued[a]
    /\ UNCHANGED <<now, entries, sent, consumed, cancelled>>

\* The recipient's code returns: success.
WithdrawReturn ==
    /\ calls # <<>>
    /\ calls' = SubSeq(calls, 1, Len(calls) - 1)
    /\ UNCHANGED <<now, entries, feesAccrued, balance, sent, consumed, cancelled>>

\* The recipient's code fails: Inbox__FailedToWithdrawFees undoes the frame.
WithdrawRevert ==
    /\ calls # <<>>
    /\ LET frame == calls[Len(calls)]
       IN  /\ entries' = frame.entries
           /\ feesAccrued' = frame.feesAccrued
           /\ balance' = frame.balance
           /\ sent' = frame.sent
           /\ consumed' = frame.consumed
           /\ cancelled' = frame.cancelled
    /\ calls' = SubSeq(calls, 1, Len(calls) - 1)
    /\ UNCHANGED now

\* The next L1 block: never inside a transaction.
Tick ==
    /\ calls = <<>>
    /\ now < MaxTime
    /\ now' = now + 1
    /\ UNCHANGED <<entries, feesAccrued, balance, sent, consumed, cancelled, calls>>

Next ==
    \/ \E m \in Messages : SendL2Message(m)
    \/ \E m \in Messages, collector \in Accounts : CancelL2Message(m, collector)
    \/ \E keys \in Batch, version \in Versions, collector \in Accounts :
           BatchConsume(keys, version, collector)
    \/ \E a \in Accounts : WithdrawFees(a)
    \/ WithdrawReturn
    \/ WithdrawRevert
    \/ Tick

Spec == Init /\ [][Next]_vars

-----------------------------------------------------------------------------
(* Properties *)

\* The contract state that a transaction can change.
Storage ==
    [entries : [Messages -> Entry], feesAccrued : [Accounts -> Nat],
     balance : Nat, sent : [Messages -> Nat], consumed : [Messages -> Nat],
     cancelled : [Messages -> Nat]]

(* Type invariant: entry counts stay within their uint32, the contract's     *)
(* ether and every credit are never negative, and every frame of a           *)
(* withdrawal in progress holds a contract state.                            *)
TypeOK ==
    /\ now \in Nat
    /\ entries \in [Messages -> Entry]
    /\ feesAccrued \in [Accounts -> Nat]
    /\ balance \in Nat
    /\ sent \in [Messages -> Nat]
    /\ consumed \in [Messages -> Nat]
    /\ cancelled \in [Messages -> Nat]
    /\ calls \in Seq(Storage)

\* The ether that depositors and fee collectors can still claim.
Liabilities(fees, box) ==
    SumFunction(fees) + SumFunction([m \in Messages |-> box[m].count * m.fee])

(* Solvency: the ether held by the Inbox is exactly the fees of the pending  *)
(* messages plus the fees credited and not yet withdrawn, in every state,    *)
(* the ones a re-entrant caller of withdrawFees sees included, and in every  *)
(* state a failed withdrawal would return to.  So a withdrawal never fails   *)
(* for lack of ether, and no fee is stuck (sendL2Message, cancelL2Message,   *)
(* batchConsume, withdrawFees).                                              *)
Solvency ==
    /\ balance = Liabilities(feesAccrued, entries)
    /\ \A i \in DOMAIN calls :
           calls[i].balance = Liabilities(calls[i].feesAccrued, calls[i].entries)

(* Every copy of a message ever sent is pending, was consumed by a rollup,   *)
(* or was taken back by its sender: never two of these, never none           *)
(* (MessageBox insert and consume under the callers in Inbox).               *)
EachCopyOnce ==
    \A m \in Messages :
        sent[m] = entries[m].count + consumed[m] + cancelled[m]

(* A pending message has exactly one way out at any time: until and          *)
(* including its deadline the rollup it names may consume it, strictly       *)
(* after it the sender may cancel it.  batchConsume reads the deadline and   *)
(* version kept in the entry, cancelL2Message those of the message.          *)
ExactlyOneExit ==
    \A m \in Messages : Contains(entries, m) =>
        (Consumable(entries, now, m, StoredVersion(m)) <=> ~ PastDeadline(now, m))

(* Once one copy of a message was cancelled no copy of it is consumed any    *)
(* more: "it cannot be yanked away while the sequencer is building a block   *)
(* including it" (Inbox.sol), seen from the other side.                      *)
CancelledIsFinal ==
    [][\A m \in Messages : cancelled[m] > 0 => consumed'[m] <= consumed[m]]_vars

=============================================================================
