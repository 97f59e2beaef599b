------------------------------ MODULE MCLiveOps ------------------------------
(* Small instances of LiveOps: file names stand for the pairs of a slot.   *)
EXTENDS LiveOps

\* A save, then its meta.
OneOrder == {<<"save", "meta">>}
OneSlot  == {<<1>>}
Swap     == {<<1, 2>>}
=============================================================================
