------------------------------ MODULE Recovery -------------------------------
(***************************************************************************)
(* Recovery of an interrupted operation (core/liveops/recovery.py): the    *)
(* listing that deals with the automatic cases and offers the others, and  *)
(* the owner's choice: forward, back or leave.  All of it runs under the   *)
(* live-op lock, so it is a run like an operation's.                       *)
(***************************************************************************)
EXTENDS Execute

\* What one file of the op's record holds now.  A file the op does not change
\* says nothing; a failed op's own leftovers count as written by it.
Says(o, s, f) == ~(rec[o].pre[s][f] = rec[o].post[s][f] /\ live[s][f] = rec[o].pre[s][f])

Kind(o, s, f) ==
  CASE live[s][f] = rec[o].pre[s][f] -> "pre"
    [] /\ live[s][f] # rec[o].pre[s][f]
       /\ live[s][f] = rec[o].post[s][f] \/ <<s, f, live[s][f]>> \in settled[o] -> "post"
    [] OTHER -> "other"

Kinds(o, s) == {Kind(o, s, f) : f \in {g \in Files : Says(o, s, g)}}

SlotState(o) ==
  LET T == Targets(rec[o]) IN
  IF \E s \in T : "other" \in Kinds(o, s) THEN "other"
  ELSE IF \A s \in T : Kinds(o, s) \subseteq {"pre"} THEN "pre"
  ELSE IF \A s \in T : Kinds(o, s) = {"post"} THEN "post"
  ELSE "torn"

IsPost(o) == \A s \in Targets(rec[o]) : live[s] = rec[o].post[s]

\* Mutant (OpenIsClosed): nothing is offered for a slot that changed since.
ChoicesWithoutLeave(o) ==
  CASE SlotState(o) = "other"     -> {}
    [] SlotState(o) # "other" /\ status[o] = "failed" -> {"back", "leave"}
    [] SlotState(o) # "other" /\ status[o] # "failed" -> {"forward", "back"}

Choices(o) ==
  CASE SlotState(o) = "other"     -> {"leave"}
    [] SlotState(o) # "other" /\ status[o] = "failed" -> {"back", "leave"}
    [] SlotState(o) # "other" /\ status[o] # "failed"
       /\ (status[o] = "validated" \/ SlotState(o) = "post") -> {"forward"}
    [] SlotState(o) = "pre" /\ status[o] = "writing"  -> {"back"}
    [] SlotState(o) = "torn" /\ status[o] = "writing" -> {"forward", "back"}

-----------------------------------------------------------------------------
\* The listing: it looks at every op in turn; what it deals with itself it
\* runs to its end first.

StartListing ==
  /\ run.pc = "idle"
  /\ Works
  /\ run' = [NoRun EXCEPT !.pc = "list", !.next = 1, !.free = ~game]
  /\ offered' = [o \in Ops |-> {}]
  /\ UNCHANGED <<disk, journal, records, told, outer, gone, crashes>>

ListNext == [run EXCEPT !.next = @ + 1]

\* A run on op o that comes back to the listing.
RunOn(o, mode, step) ==
  [NoRun EXCEPT !.pc = step, !.op = o, !.mode = mode, !.plan = rec[o], !.base = live,
                !.at = Len(rec[o].targets), !.upto = Len(rec[o].targets),
                !.next = IF run.next = 0 THEN 0 ELSE o + 1, !.free = run.free]

Listed(o) ==
  \/ /\ ~IsOpen(o)
     /\ Works /\ run' = ListNext /\ UNCHANGED <<status, owner>>
  \/ /\ status[o] = "preparing"
     /\ JournalQuietly(o, "abandoned")
     /\ run' = RunOn(o, "auto", "unmark")
     /\ UNCHANGED owner
  \/ /\ status[o] = "validated" /\ run.free /\ IsPost(o)
     /\ Works /\ run' = RunOn(o, "finish", "finalize") /\ UNCHANGED <<status, owner>>
  \/ /\ status[o] = "writing" /\ SlotState(o) = "pre" /\ run.free
     /\ Works /\ run' = RunOn(o, "auto", "keep") /\ UNCHANGED <<status, owner>>
  \/ /\ \/ status[o] = "failed"
        \/ status[o] = "validated" /\ ~(run.free /\ IsPost(o))
        \/ status[o] = "writing" /\ ~(run.free /\ SlotState(o) = "pre")
     /\ Works /\ run' = ListNext
     /\ offered' = [offered EXCEPT ![o] = Choices(o)]
     /\ UNCHANGED <<status, told>>

List ==
  /\ run.pc = "list" /\ run.next \in Ops
  /\ Listed(run.next)
  /\ UNCHANGED <<disk, rec, settled, records, outer, gone, crashes>>

\* Last, the markers of closed ops go: left over from a crash after the end.

StaleMarkers == {o \in marker : ~IsOpen(o)}

EndListing ==
  /\ run.pc = "list" /\ run.next \notin Ops
  /\ Works
  /\ marker' = marker \ StaleMarkers
  /\ run' = NoRun
  /\ UNCHANGED <<disk, journal, oplog, lineage, owner, outer, gone, crashes>>

\* The automatic cleaning of an op that had written nothing.
ReportAuto ==
  /\ run.pc = "report" /\ run.mode = "auto"
  /\ Works
  /\ IF run.problem
     THEN /\ run' = Resume
          /\ offered' = [offered EXCEPT ![run.op] = {"back", "leave"}]
     ELSE Goto("abandon") /\ UNCHANGED offered
  /\ UNCHANGED <<disk, journal, records, told, outer, gone, crashes>>

-----------------------------------------------------------------------------
\* The owner's choice.  What the listing offered may be old: the op's status
\* and the slot are read again.

\* Mutant (OutcomesHold): the op's status is not read again.
RefusedUnread(o, choice) ==
  game \/ (choice # "leave" /\ SlotState(o) = "other")

Refused(o, choice) ==
  \/ ~IsOpen(o) \/ game
  \/ choice # "leave" /\ SlotState(o) = "other"
  \/ choice = "forward" /\ status[o] = "failed"

Resolve(o, choice) ==
  /\ run.pc = "idle" /\ choice \in offered[o]
  /\ Works
  /\ IF Refused(o, choice)
     THEN told' = [told EXCEPT ![o] = "refused"] /\ UNCHANGED run
     ELSE /\ run' = CASE choice = "leave"   -> RunOn(o, "leave", "leave")
                      [] choice = "forward" -> RunOn(o, "forward", "rederive")
                      [] choice = "back"    -> RunOn(o, "back", "keep")
          /\ UNCHANGED told
  /\ UNCHANGED <<disk, journal, records, offered, outer, gone, crashes>>

\* Forward: the planned bytes are derived again from the source; then every
\* target's files that are not yet as planned are staged and swapped in.
Rederive ==
  /\ run.pc = "rederive"
  /\ \/ /\ Works
        /\ run' = [run EXCEPT !.pc = "replan", !.at = 1]
        /\ UNCHANGED owner
     \/ Fails("source") /\ Return("put_back_instead")
  /\ UNCHANGED <<disk, journal, records, outer, gone, crashes>>

Replan ==
  LET missing == {f \in Files : live[Slot][f] # Post(f)} IN
  /\ run.pc = "replan"
  /\ Works
  /\ IF missing = {}
     THEN run' = NextTarget /\ UNCHANGED <<disk, gone>>
     ELSE /\ Sweep
          /\ run' = [run EXCEPT !.pc = "stage", !.todo = missing, !.expect = live[Slot]]
  /\ UNCHANGED <<journal, records, owner, outer, crashes>>

Recovered ==
  /\ run.pc = "recovered"
  /\ \/ Journal(run.op, "recovered") /\ Goto("confirm") /\ UNCHANGED owner
     \/ AppendFails(run.op, "recovered") /\ Return("failed")
  /\ UNCHANGED <<disk, rec, settled, records, outer, gone, crashes>>

\* Mutant (MovesAreAtomic): a rollback with problems is recorded as one without.
ReportBackAnyway ==
  /\ run.pc = "report" /\ run.mode = "back"
  /\ Journal(run.op, "recovered") /\ Goto("rolled_back")
  /\ UNCHANGED <<disk, rec, settled, records, owner, outer, gone, crashes>>

\* Back: after the rollback of every target, `recovered` then `rolled_back`.
ReportBack ==
  /\ run.pc = "report" /\ run.mode = "back"
  /\ \/ run.problem /\ Works /\ Return("failed") /\ UNCHANGED status
     \/ ~run.problem /\ Journal(run.op, "recovered") /\ Goto("rolled_back") /\ UNCHANGED owner
     \/ ~run.problem /\ AppendFails(run.op, "recovered") /\ Return("failed")
  /\ UNCHANGED <<disk, rec, settled, records, outer, gone, crashes>>

RolledBack ==
  /\ run.pc = "rolled_back"
  /\ \/ Journal(run.op, "rolled_back") /\ Goto("audit") /\ Tell("rolled_back")
     \/ AppendFails(run.op, "rolled_back") /\ Return("failed")
  /\ UNCHANGED <<disk, rec, settled, records, outer, gone, crashes>>

\* Leave: what the slots hold now goes to the vault, then the op ends.
Leave ==
  /\ run.pc = "leave"
  /\ \/ /\ Works
        /\ vault' = vault \cup CopiesOf(live, Targets(run.plan), Data)
        /\ Goto("left")
        /\ UNCHANGED owner
     \/ Fails("vault") /\ Return("refused") /\ UNCHANGED vault
  /\ UNCHANGED <<live, temps, kept, journal, records, outer, gone, crashes>>

Left ==
  /\ run.pc = "left"
  /\ Sweep
  /\ \/ Journal(run.op, "left") /\ Goto("unmark") /\ Tell("rolled_back")
     \/ AppendFails(run.op, "left") /\ Return("failed")
  /\ UNCHANGED <<rec, settled, records, outer, crashes>>

Recover ==
  \/ StartListing \/ List \/ EndListing \/ ReportAuto
  \/ \E o \in Ops, choice \in Choice : Resolve(o, choice)
  \/ Rederive \/ Replan \/ Recovered
  \/ ReportBack \/ RolledBack
  \/ Leave \/ Left
=============================================================================
