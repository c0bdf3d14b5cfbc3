------------------------------ MODULE MCInbox ------------------------------
(* A small Inbox: a message addressed to version 1, one to version 2^32 + 2  *)
(* (cast to 2), and one whose fee does not fit in a uint64.                  *)
EXTENDS Inbox

CONSTANTS portal, sequencer

MCAccounts == {portal, sequencer}
MCMessages ==
    {[sender |-> portal, version |-> 1, deadline |-> 2, fee |-> 1],
     [sender |-> sequencer, version |-> VersionMod + 2, deadline |-> 3, fee |-> 2],
     [sender |-> portal, version |-> 2, deadline |-> 2, fee |-> MaxFee + 1]}
MCVersions == {1, 2}

=============================================================================
