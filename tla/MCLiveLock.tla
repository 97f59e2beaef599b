----------------------------- MODULE MCLiveLock -----------------------------
(* An interrupted operation, and the live-op lock every operation holds.    *)
(* LiveOps has one process at work at a time; FileLock is how the others    *)
(* are kept out.  They share no state, so a behaviour begins with the       *)
(* choice of the part that runs, the other at rest.                         *)
(*   live - one slot, one operation                                         *)
(*   lock - two threads of a process on a share that cannot lock, one of    *)
(*          each of two others                                              *)
EXTENDS MCLiveOps, FileLock, TLC
CONSTANTS t1, t2, t3, t4, p1, p2, p3

VARIABLE part   \* which of them runs

TwoOneAndOne == t1 :> p1 @@ t2 :> p1 @@ t3 :> p2 @@ t4 :> p3

EitherInit == part \in {"live", "lock"} /\ Init /\ LockInit
EitherNext ==
  \/ part = "live" /\ Next     /\ UNCHANGED <<part, lockVars>>
  \/ part = "lock" /\ LockNext /\ UNCHANGED <<part, vars>>
EitherSpec ==
  /\ EitherInit /\ [][EitherNext]_<<part, vars, lockVars>>
  /\ WF_vars(part = "live" /\ RunGoesOn)
  /\ SF_vars(part = "live" /\ StartListing)
  /\ SF_vars(part = "live" /\ OwnerDecides)
  /\ LockFairness
=============================================================================
