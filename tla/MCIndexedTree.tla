--------------------------- MODULE MCIndexedTree ---------------------------
(* Batches for a tree of depth 3 that starts with four leaves: pairs in    *)
(* both orders, values that share a low leaf and values that do not, values*)
(* already present, duplicates, and full batches of four.                  *)
EXTENDS IndexedTree

MCBatches ==
    {<<a, b>> : a \in {2, 4, 5}, b \in {4, 5, 7}}
        \cup {<<6>>, <<2>>, <<4, 6, 5, 7>>, <<9, 7, 5, 6>>, <<5, 6, 5, 4>>}
=============================================================================
