---------------------------- MODULE MCOpJournal ----------------------------
(***************************************************************************)
(* Small instances of OpJournal: processes and operations are symmetric.   *)
(***************************************************************************)
EXTENDS OpJournal, TLC

MCEntries2 == {1, 2}
MCEntries4 == {1, 2, 3, 4}

MCSymmetry == Permutations(Procs) \cup Permutations(Ops)
=============================================================================
