----------------------------- MODULE MCRootMulti -----------------------------
(* Two releases: the second, due at version 4, deletes store 2, adds store *)
(* 4 and renames store 3 to store 1. Both mount memory store 9.            *)
EXTENDS RootMulti

Releases ==
    << [iavl |-> {2, 3}, mem |-> {9}, upgradeHeight |-> 0,
        deleted |-> <<>>, added |-> <<>>, renamed |-> <<>>],
       [iavl |-> {1, 4}, mem |-> {9}, upgradeHeight |-> 4,
        deleted |-> <<2>>, added |-> <<4>>, renamed |-> <<[oldKey |-> 3, newKey |-> 1]>>] >>
=============================================================================
