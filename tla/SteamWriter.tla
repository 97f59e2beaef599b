----------------------------- MODULE SteamWriter -----------------------------
(***************************************************************************)
(* The Steam slot writer (core/liveops/steamwrite.py) as the steps of the  *)
(* run that uses it: stage, swap (compare, then rename file by file) and   *)
(* rollback (keep what is foreign, restore file by file, compare).  Which  *)
(* step follows a failure is the caller's: see Execute and Recovery.       *)
(***************************************************************************)
EXTENDS LiveState

\* The file of the current target that the swap order puts next.
Before(f, g) == \E i, j \in DOMAIN run.plan.order :
                   i < j /\ run.plan.order[i] = f /\ run.plan.order[j] = g
IsNext(f)    == f \in run.todo /\ \A g \in run.todo \ {f} : Before(f, g)

\* stage: every new file beside the live ones, under the op's own names.
StageFiles ==
  /\ temps' = temps \cup {<<run.op, Slot, f>> : f \in run.todo}
  /\ UNCHANGED <<live, vault, kept, gone>>

\* Mutant (RecordsAgree): nothing is swept.
SweepNothing == UNCHANGED <<disk, gone>>

\* sweep: the op's temporary files go.
Sweep == /\ temps' = temps \ TempsOf(run.op)
         /\ UNCHANGED <<live, vault, kept, gone>>

\* swap, first half: the slot is still what the plan says it was.
AsPlanned == \A f \in run.todo : live[Slot][f] = run.expect[f]

\* swap, second half: one rename.
RenameFile(f) ==
  /\ Put(Slot, f, Post(f))
  /\ temps' = temps \ {<<run.op, Slot, f>>}
  /\ UNCHANGED <<vault, kept>>

\* rollback: the pre-op bytes it needs, and the files that are neither the
\* pre-op state nor the op's own write.
Changed == {f \in Files : live[Slot][f] # Pre(f)}
Restorable == \A f \in Changed : Pre(f) = Absent \/ <<Slot, f, Pre(f)>> \in vault

\* Mutant (BytesKept): no file is taken for somebody else's.
ForeignNone == {}

Foreign == {f \in Changed : live[Slot][f] \notin {Absent, Post(f)}}

\* Mutant (BytesKept): the first target is not put back.
BackToSecond(i, bad) ==
  run' = [run EXCEPT !.pc = IF i <= 1 THEN "report" ELSE "keep",
                     !.at = i, !.problem = @ \/ bad]

\* The next target to put back, from the last written one to the first.
BackTo(i, bad) ==
  run' = [run EXCEPT !.pc = IF i = 0 THEN "report" ELSE "keep",
                     !.at = i, !.problem = @ \/ bad]

RollbackKeep ==
  /\ run.pc = "keep"
  /\ \/ /\ Works /\ Restorable
        /\ kept' = kept \cup CopiesOf(live, {Slot}, Foreign)
        /\ run' = [run EXCEPT !.pc = "restore", !.todo = Files,
                              !.expect = live[Slot]]
     \/ /\ (Works /\ ~Restorable) \/ Fails("vault")
        /\ BackTo(run.at - 1, TRUE)
        /\ UNCHANGED kept
  /\ UNCHANGED <<live, temps, vault, gone>>

\* A file found as before has no bytes at hand: when it changed since, it is
\* left alone and reported.  (The code looks at a file once to read its bytes,
\* once to check them and once to restore it; the first two looks are one here.)
NoBytes(f) == /\ live[Slot][f] # Pre(f)
              /\ Pre(f) # Absent
              /\ run.expect[f] = Pre(f)

Restored(f, bad) ==
  run' = [run EXCEPT !.todo = @ \ {f}, !.problem = @ \/ bad,
                     !.pc = IF run.todo = {f} THEN "verify" ELSE @]

RollbackRestore(f) ==
  /\ run.pc = "restore" /\ IsNext(f)
  /\ \/ /\ Works /\ ~NoBytes(f)
        /\ Put(Slot, f, Pre(f))
        /\ Restored(f, FALSE)
     \/ /\ (Works /\ NoBytes(f)) \/ Fails("rename")
        /\ Restored(f, TRUE)
        /\ UNCHANGED <<live, gone>>
  /\ UNCHANGED <<temps, vault, kept>>

RollbackVerify ==
  /\ run.pc = "verify"
  /\ Works
  /\ Sweep
  /\ BackTo(run.at - 1, Changed # {})

Rollback == RollbackKeep \/ (\E f \in Files : RollbackRestore(f)) \/ RollbackVerify
=============================================================================
