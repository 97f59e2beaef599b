------------------------------- MODULE Execute -------------------------------
(***************************************************************************)
(* One operation from its start to its outcome (core/liveops/execute.py):  *)
(* gates, preserve, snapshot, plan, write-ahead event, marker, second game *)
(* check, stage and swap of every target, validation, records; with every  *)
(* early return, and the rollback of what was written.  `finish` and the   *)
(* rollback's report are shared with Recovery.                             *)
(***************************************************************************)
EXTENDS SteamWriter

\* Every save found by the scan is still in its place.
AsScanned(T) == \A s \in T, f \in Data :
                  run.base[s][f] # Absent => live[s][f] = run.base[s][f]

\* Mutant (RecordsAgree): an op that is being written blocks nothing.
PendingButWriting == \E o \in Ops : IsOpen(o) /\ status[o] # "writing"

\* An open op on the account blocks a new one (the model has one account).
RecoveryPending == \E o \in Ops : IsOpen(o)

\* The op ends with nothing (or nothing more) to put back: `abandoned` is
\* appended quietly, then the marker goes.
GiveUp(outcome) == Goto("abandon") /\ Tell(outcome)

NewPlan(kind, ts, ord) == [NoPlan EXCEPT !.kind = kind, !.targets = ts, !.order = ord]

Begin(o, kind, ts, ord, step) ==
  /\ run.pc = "idle"
  /\ status[o] = "none" /\ \A p \in 1..(o - 1) : status[p] # "none"
  /\ status' = With(o, "preparing")
  /\ rec' = [rec EXCEPT ![o] = NewPlan(kind, ts, ord)]
  /\ \/ Works /\ run' = [NoRun EXCEPT !.pc = step, !.op = o, !.mode = "execute", !.base = live,
                                       !.plan = NewPlan(kind, ts, ord)]
     \/ Fails("io") /\ UNCHANGED run
  /\ UNCHANGED <<disk, settled, records, owner, outer, gone, crashes>>

Start(o, ts, ord) ==
  /\ ~game /\ ~RecoveryPending
  /\ Begin(o, "place", ts, ord, "preserve")

\* Preserve: the saves of the target slots go to the vault, unless a slot
\* changed since it was scanned.
Preserve ==
  LET T == Targets(run.plan) IN
  /\ run.pc = "preserve"
  /\ \/ /\ Works /\ AsScanned(T)
        /\ vault' = vault \cup CopiesOf(live, T, Data)
        /\ Goto("snapshot")
        /\ UNCHANGED owner
     \/ /\ (Works /\ ~AsScanned(T)) \/ Fails("vault")
        /\ GiveUp("refused")
        /\ UNCHANGED vault
  /\ UNCHANGED <<live, temps, kept, journal, records, outer, gone, crashes>>

\* Snapshot: the whole folder goes to the vault.
Snapshot ==
  /\ run.pc = "snapshot"
  /\ \/ /\ Works
        /\ vault' = vault \cup CopiesOf(live, Slots, Files)
        /\ run' = [run EXCEPT !.pc = "prepare", !.snap = live]
        /\ UNCHANGED owner
     \/ /\ Fails("vault")
        /\ GiveUp("refused")
        /\ UNCHANGED vault
  /\ UNCHANGED <<live, temps, kept, journal, records, outer, gone, crashes>>

\* The writer's plan: what every file holds now (its pre-image) and what it
\* will hold.  The slot must still be what was preserved, and every file what
\* the snapshot holds.
PlannedPost(o, T, same) ==
  [s \in Slots |-> [f \in Files |->
     IF s \notin T \/ (f \in same /\ live[s][f] # Absent) THEN live[s][f] ELSE Op(o)]]

\* Mutant (CanGoBack): the files are not compared with the snapshot.
StillScanned(T) == AsScanned(T)

StillSafe(T) == /\ AsScanned(T)
                /\ \A s \in T : live[s] = run.snap[s]

Prepare(same) ==
  LET T == Targets(run.plan) IN
  /\ run.pc = "prepare"
  /\ Works
  /\ \/ /\ StillSafe(T)
        /\ run' = [run EXCEPT !.pc = "intend", !.plan.pre = live,
                              !.plan.post = PlannedPost(run.op, T, same),
                              !.base = live, !.snap = Empty]
        /\ UNCHANGED owner
     \/ /\ ~StillSafe(T)
        /\ GiveUp("refused")
  /\ UNCHANGED <<disk, journal, records, outer, gone, crashes>>

Intended == /\ status' = With(run.op, "writing")
            /\ rec' = [rec EXCEPT ![run.op] = run.plan]

\* The write-ahead event: from here on recovery knows every file the op may
\* touch.  Only a busy store abandons the op: any other failure ends the run
\* with the op as it is in the file.
Intend ==
  /\ run.pc = "intend"
  /\ \/ /\ Works /\ Intended
        /\ Goto("mark")
        /\ UNCHANGED owner
     \/ /\ Fails("busy") /\ UNCHANGED <<status, rec>>
        /\ GiveUp("refused")
     \/ /\ Fails("io") /\ (Intended \/ UNCHANGED <<status, rec>>)
        /\ Return("failed")
  /\ UNCHANGED <<disk, settled, records, outer, gone, crashes>>

\* The open-op marker.  A failure here is not handled: it ends the run, the op
\* stays `writing`.
Mark ==
  /\ run.pc = "mark"
  /\ \/ /\ Works
        /\ marker' = marker \cup {run.op}
        /\ Goto("probe")
        /\ UNCHANGED owner
     \/ /\ Fails("marker")
        /\ Return("failed")
        /\ UNCHANGED marker
  /\ UNCHANGED <<disk, journal, oplog, lineage, outer, gone, crashes>>

\* The second game check, right before the first live write.
Probe ==
  /\ run.pc = "probe"
  /\ Works
  /\ \/ /\ ~game
        /\ run' = [run EXCEPT !.pc = "stage", !.at = 1, !.todo = Files,
                              !.expect = run.plan.pre[run.plan.targets[1]]]
        /\ UNCHANGED owner
     \/ /\ game
        /\ GiveUp("refused")
  /\ UNCHANGED <<disk, journal, records, outer, gone, crashes>>

Abandon ==
  /\ run.pc = "abandon"
  /\ JournalQuietly(run.op, "abandoned")
  /\ Goto("unmark")
  /\ UNCHANGED <<disk, rec, settled, records, owner, outer, gone, crashes>>

Unmark ==
  /\ run.pc = "unmark"
  /\ \/ /\ Works
        /\ marker' = marker \ {run.op}
        /\ run' = Resume
     \/ /\ Fails("marker")
        /\ run' = IF run.mode = "finish" THEN Resume ELSE NoRun
        /\ UNCHANGED marker
  /\ UNCHANGED <<disk, journal, oplog, lineage, owner, outer, gone, crashes>>

-----------------------------------------------------------------------------
\* Writing: stage and swap target by target, then validate them all.

\* The write stops with n targets to put back.  A forward recovery puts
\* nothing back: it refuses, and the op stays as it was.
StopWriting(n) ==
  IF run.mode = "forward" THEN Return("put_back_instead")
  ELSE IF n = 0 THEN GiveUp("refused")
  ELSE /\ run' = [run EXCEPT !.pc = "keep", !.at = n, !.upto = n]
       /\ UNCHANGED owner

NextTarget ==
  IF run.at = Len(run.plan.targets)
  THEN [run EXCEPT !.pc = "validate", !.todo = {}]
  ELSE IF run.mode = "forward"
  THEN [run EXCEPT !.pc = "replan", !.at = @ + 1]
  ELSE [run EXCEPT !.pc = "stage", !.at = @ + 1, !.todo = Files,
                   !.expect = run.plan.pre[run.plan.targets[run.at + 1]]]

Stage ==
  /\ run.pc = "stage"
  /\ \/ Works /\ StageFiles /\ Goto("check") /\ UNCHANGED owner
     \/ Fails("stage") /\ Sweep /\ StopWriting(run.at)
  /\ UNCHANGED <<journal, records, outer, crashes>>

\* A slot that changed since it was planned is refused before it is written:
\* only the targets before it are put back.
Check ==
  /\ run.pc = "check"
  /\ Works
  /\ \/ AsPlanned /\ Goto("rename") /\ UNCHANGED <<disk, gone, owner>>
     \/ ~AsPlanned /\ Sweep /\ StopWriting(run.at - 1)
  /\ UNCHANGED <<journal, records, outer, crashes>>

\* A failure stops the write, with the file in its place when it is only its
\* time that cannot be set.
Rename(f) ==
  /\ run.pc = "rename" /\ IsNext(f)
  /\ \/ /\ Works /\ RenameFile(f)
        /\ run' = IF run.todo = {f} THEN NextTarget
                                    ELSE [run EXCEPT !.todo = @ \ {f}]
        /\ UNCHANGED owner
     \/ /\ Fails("rename") /\ StopWriting(run.at)
        /\ RenameFile(f) \/ UNCHANGED <<disk, gone>>
  /\ UNCHANGED <<journal, records, outer, crashes>>

\* What was written is what the plan says, nothing staged is left, and no file
\* outside the target slots changed.
Valid == /\ \A s \in Targets(run.plan) : live[s] = run.plan.post[s]
         /\ TempsOf(run.op) = {}
         /\ \A s \in Slots \ Targets(run.plan) : live[s] = run.base[s]

Validate ==
  /\ run.pc = "validate"
  /\ \/ /\ Works /\ Valid
        /\ Goto(IF run.mode = "forward" THEN "recovered" ELSE "confirm")
        /\ UNCHANGED owner
     \/ /\ (Works /\ ~Valid) \/ Fails("validate")
        /\ StopWriting(Len(run.plan.targets))
  /\ UNCHANGED <<disk, journal, records, outer, gone, crashes>>

-----------------------------------------------------------------------------
\* Recording a verified write (also the end of a forward recovery and of an
\* automatic finish).  A failure here ends the run with the op still open.

Confirm ==
  /\ run.pc = "confirm"
  /\ \/ /\ Journal(run.op, "validated")
        /\ Goto("finalize")
        /\ UNCHANGED owner
     \/ /\ AppendFails(run.op, "validated")
        /\ Return(IF run.mode = "execute" THEN "done" ELSE "failed")
  /\ UNCHANGED <<disk, rec, settled, records, outer, gone, crashes>>

\* Steam: only the staged files would be left to remove.  Validate has found
\* none, so nothing is removed here and nothing can fail (Xbox: XboxWriter).
Finalize ==
  /\ run.pc = "finalize"
  /\ Works /\ Sweep
  /\ Goto("oplog")
  /\ UNCHANGED <<journal, records, owner, outer, crashes>>

\* One line per op: a retry finds the line and writes none.
OplogLine(o, outcome) ==
  oplog' = [oplog EXCEPT ![o] = IF @ = "none" THEN outcome ELSE @]

RecordOplog ==
  /\ run.pc = "oplog"
  /\ \/ Works /\ OplogLine(run.op, "done") /\ Goto("lineage") /\ UNCHANGED owner
     \/ Fails("records") /\ Return("done") /\ UNCHANGED oplog
  /\ UNCHANGED <<disk, journal, lineage, marker, outer, gone, crashes>>

RecordLineage ==
  /\ run.pc = "lineage"
  /\ \/ /\ Works
        /\ lineage' = [lineage EXCEPT ![run.op] = "done"]
        /\ Goto("close")
        /\ UNCHANGED owner
     \/ Fails("records") /\ Return("done") /\ UNCHANGED lineage
  /\ UNCHANGED <<disk, journal, oplog, marker, outer, gone, crashes>>

Close ==
  /\ run.pc = "close"
  /\ \/ Journal(run.op, "done") /\ Goto("unmark") /\ Tell("done")
     \/ /\ AppendFails(run.op, "done")
        /\ Return(IF run.plan.kind = "keep" THEN "failed" ELSE "done")
  /\ UNCHANGED <<disk, rec, settled, records, outer, gone, crashes>>

-----------------------------------------------------------------------------
\* After a rollback of this run's own writes: `rolled_back`, or `failed` with
\* what the files of the written targets hold now; the audit line and the
\* lineage follow quietly.

\* Mutant (TypeOK): what the files hold, whatever slot they are in.
SettledAnywhere == {<<f, live[run.plan.targets[i]][f]>> : i \in 1..run.upto, f \in Files}

SettledNow == {<<run.plan.targets[i], f, live[run.plan.targets[i]][f]>> :
                 i \in 1..run.upto, f \in Files}

Report ==
  /\ run.pc = "report" /\ run.mode = "execute"
  /\ \/ /\ ~run.problem
        /\ JournalQuietly(run.op, "rolled_back")
        /\ Tell("rolled_back")
        /\ UNCHANGED settled
     \/ /\ run.problem
        /\ JournalQuietly(run.op, "failed")
        /\ settled' = IF status'[run.op] = "failed"
                      THEN [settled EXCEPT ![run.op] = SettledNow] ELSE settled
        /\ Tell("failed")
  /\ Goto("audit")
  /\ UNCHANGED <<disk, rec, records, outer, gone, crashes>>

\* Only an execute that could not put its slots back ends at the audit line.
Audit ==
  /\ run.pc = "audit"
  /\ \/ /\ Works
        /\ OplogLine(run.op, IF run.problem THEN "failed" ELSE "rolled_back")
        /\ run' = IF run.problem THEN NoRun ELSE [run EXCEPT !.pc = "trace"]
     \/ /\ Fails("records")
        /\ run' = IF run.problem THEN NoRun
                  ELSE [run EXCEPT !.pc = IF run.mode = "execute" THEN "trace" ELSE "unmark"]
        /\ UNCHANGED oplog
  /\ UNCHANGED <<disk, journal, lineage, marker, owner, outer, gone, crashes>>

Trace ==
  /\ run.pc = "trace"
  /\ \/ Works /\ lineage' = [lineage EXCEPT ![run.op] = "rolled_back"]
     \/ Fails("records") /\ UNCHANGED lineage
  /\ Goto("unmark")
  /\ UNCHANGED <<disk, journal, oplog, marker, owner, outer, gone, crashes>>

-----------------------------------------------------------------------------
\* Keep a copy: one slot into the vault; nothing live is written, so neither
\* the game nor an open op stands in its way.

KeepCopy(o, s) ==
  /\ \E ord \in Orders : Begin(o, "keep", <<s>>, ord, "copy")

Copy ==
  /\ run.pc = "copy"
  /\ \/ /\ Works
        /\ vault' = vault \cup CopiesOf(live, Targets(run.plan), Files)
        /\ Goto("copied")
        /\ UNCHANGED owner
     \/ /\ Fails("vault")
        /\ GiveUp("refused")
        /\ UNCHANGED vault
  /\ UNCHANGED <<live, temps, kept, journal, records, outer, gone, crashes>>

Copied ==
  /\ run.pc = "copied"
  /\ \/ Works /\ OplogLine(run.op, "done")
     \/ Fails("records") /\ UNCHANGED oplog
  /\ Goto("close")
  /\ UNCHANGED <<disk, journal, lineage, marker, owner, outer, gone, crashes>>

Execute ==
  \/ \E o \in Ops, ts \in TargetLists, ord \in Orders : Start(o, ts, ord)
  \/ \E o \in Ops, s \in Slots : KeepCopy(o, s)
  \/ Preserve \/ Snapshot \/ (\E same \in SameSets : Prepare(same))
  \/ Intend \/ Mark \/ Probe \/ Abandon \/ Unmark
  \/ Stage \/ Check \/ (\E f \in Files : Rename(f)) \/ Validate
  \/ Confirm \/ Finalize \/ RecordOplog \/ RecordLineage \/ Close
  \/ (Rollback /\ UNCHANGED <<journal, records, owner, outer, crashes>>)
  \/ Report \/ Audit \/ Trace
  \/ Copy \/ Copied
=============================================================================
