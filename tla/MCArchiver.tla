----------------------------- MODULE MCArchiver -----------------------------
(* Two messages: one that expires early and can be cancelled within the      *)
(* bounded number of L1 blocks, and one that stays consumable; or a single   *)
(* message of which several copies are sent and cancelled.                   *)
EXTENDS Archiver

MCMessages == {[key |-> 1, fee |-> 1, deadline |-> 2],
               [key |-> 2, fee |-> 1, deadline |-> MaxHeight + 1]}
MCOneMessage == {[key |-> 1, fee |-> 1, deadline |-> 2]}

=============================================================================
