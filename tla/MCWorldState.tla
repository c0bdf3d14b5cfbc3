---------------------------- MODULE MCWorldState ----------------------------
(* Three trees: one whose leaves may be zero, the indexed one, and the       *)
(* archive.                                                                  *)
EXTENDS WorldState

CONSTANTS contract, nullifier, archive, leaf

MCIndexed == {nullifier}
MCTreeOrder == <<contract, nullifier, archive>>
MCBodies == {[t \in {contract, nullifier} |-> IF t = nullifier THEN leaf ELSE l] : l \in {Zero, leaf}}

=============================================================================
