------------------------------- MODULE Bridge -------------------------------
(***************************************************************************)
(* What the L1 contracts promise to somebody who sends a message to L2:    *)
(* each copy is delivered to the rollup version it names or returned to    *)
(* its sender, once, and never delivered after a copy was returned.        *)
(* A slot is a message in one inbox.                                       *)
(***************************************************************************)
EXTENDS Integers

CONSTANT Slots

VARIABLES
    pending,     \* copies sent and neither delivered nor returned
    delivered,   \* copies taken into a block of the version they name
    returned     \* copies taken back by their sender

vars == <<pending, delivered, returned>>

Init ==
    /\ pending = [s \in Slots |-> 0]
    /\ delivered = [s \in Slots |-> 0]
    /\ returned = [s \in Slots |-> 0]

Send(s) ==
    /\ pending' = [pending EXCEPT ![s] = @ + 1]
    /\ UNCHANGED <<delivered, returned>>

\* One block delivers any number of copies of any slots not returned before.
Deliver ==
    /\ \A s \in Slots :
        /\ delivered'[s] >= delivered[s]
        /\ pending'[s] = pending[s] - (delivered'[s] - delivered[s])
        /\ pending'[s] >= 0
        /\ delivered'[s] > delivered[s] => returned[s] = 0
    /\ DOMAIN pending' = Slots
    /\ DOMAIN delivered' = Slots
    /\ UNCHANGED returned

Return(s) ==
    /\ pending[s] > 0
    /\ pending' = [pending EXCEPT ![s] = @ - 1]
    /\ returned' = [returned EXCEPT ![s] = @ + 1]
    /\ UNCHANGED delivered

Next ==
    \/ \E s \in Slots : Send(s) \/ Return(s)
    \/ Deliver

Spec == Init /\ [][Next]_vars

=============================================================================
