--------------------------- MODULE MCVersionStore ---------------------------
(* One entry of another store to merge, with the bytes of the live data    *)
(* file and a meta of its own.                                             *)
EXTENDS VersionStore, TLC
CONSTANTS w1, w2
OtherStore == {[id |-> 1, data |-> 0, meta |-> 1]}
Symmetric  == Permutations({w1, w2})
=============================================================================
