--------------------------- MODULE MCL1Contracts ---------------------------
(* Two rollups, upgrades that may keep or replace the inbox, a message to    *)
(* version 2 that may be sent while version 1 is the newest, and an L2-to-L1 *)
(* message of version 2 that both versions may emit.                         *)
EXTENDS L1Contracts, TLC

CONSTANTS portal, r1, r2, i1, i2, o1, txs, a1

MCRollups == {r1, r2}
MCInboxes == {i1, i2}
MCArchives == {a1, NoArchive}
MCOutboxes == {o1}
MCMessages == {[sender |-> portal, version |-> 2, deadline |-> 2, fee |-> 0]}
MCOutMessages == {[version |-> 2, chainId |-> ChainId]}
MCTxsHashes == {txs}
MCChainIds == {ChainId, ChainId + 1}

BridgeSymmetry == Permutations(MCInboxes) \cup Permutations(MCRollups)

=============================================================================
