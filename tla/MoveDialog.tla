----------------------------- MODULE MoveDialog -----------------------------
(* The dialogs that plan a change of the live saves and run it: MoveDialog  *)
(* ("move": a version is given, the owner picks account and slot;           *)
(* "replace": the slot is given, the owner picks the version), PlanDialog   *)
(* ("plan": a finished plan is confirmed) and PanicDialog ("panic": the     *)
(* backup of a whole folder is picked).  Reading, planning and executing    *)
(* run in the one worker; their answers come back to a dialog whose picks   *)
(* may have moved on, or that is gone.                                      *)
EXTENDS Integers, Sequences, FiniteSets, FiniteSetsExt

CONSTANTS
  Kinds,        \* the dialogs opened
  PutIns,     \* what can be put in: a pair of saves, or a backup
  Accounts,     \* the live folders
  SaveSlots,        \* the slots of each
  Blocks,       \* the sets of slots that a version cannot go into
  MaxPicks,     \* picks and presses the owner makes in each kind of dialog
  MaxOutside    \* changes of a slot by somebody else

None    == 0
NoPlan  == [pair |-> None, target |-> <<None, None>>, was |-> -1, asks |-> {}, blocked |-> FALSE]
NoRows  == [account |-> None, blocked |-> {}, best |-> None]
Targets == Accounts \X SaveSlots

ASSUME DialogBounds ==
  /\ Kinds \subseteq {"move", "replace", "plan", "panic"}
  /\ SaveSlots \subseteq Nat \ {0} /\ IsFiniteSet(SaveSlots)
  /\ Blocks \subseteq SUBSET SaveSlots /\ None \notin Accounts

VARIABLES
  content,   \* which state each slot is in
  dlg,       \* the dialog: its fields, and what it draws
  jobs,      \* submitted to the worker, oldest first
  answers,   \* finished, not yet delivered
  pressed,   \* the presses of Apply, with what was on the screen
  outcomes   \* [written, told, offered]: executions that ended done, on_done, Recover

dialogVars == <<content, dlg, jobs, answers, pressed, outcomes>>

-----------------------------------------------------------------------------
(* The fields.                                                              *)

\* in, at, mark, out: the version named, the account lit, the row marked and the slot
\* named as going out, as they are drawn.
Blank(kind, pair, account, slot, plan) ==
  [kind |-> kind, open |-> TRUE, source |-> pair, want |-> account, account |-> None,
   slot |-> None, prefer |-> slot, fixed |-> slot, rows |-> NoRows, stale |-> FALSE,
   keep |-> 0, gen |-> 0, busy |-> FALSE, running |-> FALSE, plan |-> plan, repair |-> FALSE,
   ticked |-> {}, armed |-> FALSE, in |-> None, at |-> None, mark |-> None, out |-> None]

Asked(d) == IF d.want # None THEN d.want ELSE d.account
Token(d) == <<d.source, Asked(d), d.slot>>
Moves(d) == d.kind \in {"move", "replace"}

\* plan_matches: the plan is for exactly the picks of now.
PlanMatches(d, plan) ==
  /\ plan # NoPlan /\ d.source # None /\ d.slot # None
  /\ plan.pair = d.source /\ plan.target = <<Asked(d), d.slot>>

\* _update_apply, _update: when the button can be pressed.
CanApply(d) ==
  /\ ~d.busy /\ ~d.running
  /\ IF d.repair THEN "repair" \in d.ticked
     ELSE d.plan # NoPlan /\ ~d.plan.blocked /\ d.plan.asks \subseteq d.ticked
  /\ Moves(d) => PlanMatches(d, d.plan)

Updated(d) == [d EXCEPT !.armed = CanApply(d)]
Settled(d)    == Updated([d EXCEPT !.busy = FALSE])
\* A plan is drawn with its boxes empty; drawing none disarms the button, except in the
\* dialogs that are given their plan: their _render returns before the button.
Rendered(d, plan) ==
  LET e == [d EXCEPT !.plan = plan, !.ticked = {}]
  IN  IF plan # NoPlan THEN Updated(e)
      ELSE [e EXCEPT !.armed = IF Moves(d) THEN FALSE ELSE @]

-----------------------------------------------------------------------------
(* Reading the slots, planning.                                             *)

\* _load: a new generation; what is shown is out of date until the answer.
Loading(d, account, keep) ==
  LET e == IF keep THEN d ELSE Rendered(d, NoPlan)
  IN  [e EXCEPT !.gen = @ + 1, !.keep = IF keep THEN d.gen + 1 ELSE 0,
                !.want = IF account = None THEN @ ELSE account,
                !.stale = TRUE, !.busy = TRUE, !.armed = FALSE]
ReadJob(d, account) == [what |-> "read", gen |-> d.gen, pair |-> d.source,
                        target |-> <<account, None>>, token |-> <<>>, plan |-> NoPlan,
                        ticked |-> {}]

\* _choose: the slot is marked, and planned for anew.
Choosing(d, slot) ==
  [Rendered(d, NoPlan) EXCEPT !.slot = slot, !.mark = slot, !.out = slot, !.gen = @ + 1,
                              !.keep = 0, !.busy = TRUE, !.armed = FALSE]
PlanJob(d) == [what |-> "plan", gen |-> d.gen, pair |-> d.source,
               target |-> <<d.rows.account, d.slot>>, token |-> Token(d), plan |-> NoPlan,
               ticked |-> {}]

\* _picked of the panic dialog, and _replan: while a restore runs only the choice moves.
Replanning(d, pair) ==
  LET e == [d EXCEPT !.source = pair, !.in = pair]
  IN  IF d.busy THEN e ELSE [Rendered(e, NoPlan) EXCEPT !.gen = @ + 1, !.repair = FALSE]

Usable(rows, slot) == slot \in SaveSlots \ rows.blocked

\* _picked: the rows are drawn again; the slot picked before, the one asked for or the
\* suggested one is chosen, in this order.
Wanted(d, rows) ==
  CASE d.fixed # None            -> d.fixed
    [] Usable(rows, d.slot)      -> d.slot
    [] Usable(rows, d.prefer)    -> d.prefer
    [] OTHER                     -> rows.best
Shown(d, rows) ==
  [d EXCEPT !.rows = rows, !.account = rows.account, !.want = rows.account,
            !.in = d.source, !.at = rows.account, !.mark = None, !.stale = FALSE]
Nothing(d) == [Settled(Rendered([d EXCEPT !.slot = None], NoPlan)) EXCEPT !.prefer = None]
PickedUp(d, rows) ==
  LET e == Shown(d, rows) IN
  CASE d.keep = d.gen -> Settled([e EXCEPT !.keep = 0, !.mark = d.slot, !.out = d.slot])
    [] d.keep # d.gen /\ d.fixed # None /\ ~Usable(rows, d.fixed) ->
         Settled(Rendered([e EXCEPT !.slot = None], NoPlan))
    [] d.keep # d.gen /\ d.fixed = None
         /\ \/ d.prefer # None /\ ~Usable(rows, d.prefer)
            \/ Wanted(d, rows) = None -> [Nothing(e) EXCEPT !.out = None]
    [] OTHER -> Choosing([e EXCEPT !.prefer = None], Wanted(d, rows))

\* _planned: for the picks of now only.
Planned(d, token, plan) ==
  IF Moves(d) /\ token # Token(d) THEN d ELSE Rendered([d EXCEPT !.busy = FALSE], plan)

\* _failed; the panic dialog offers the repair of a damaged index instead, or leaves the
\* button as it was.
PlanFailed(d, damaged) ==
  IF Moves(d) THEN Settled(Rendered([d EXCEPT !.keep = 0, !.stale = FALSE], NoPlan))
  ELSE IF damaged THEN Updated([d EXCEPT !.busy = FALSE, !.repair = TRUE])
       ELSE [d EXCEPT !.busy = FALSE]

-----------------------------------------------------------------------------
(* The owner.                                                               *)

MayPick == Cardinality(pressed) + dlg.gen < MaxPicks[dlg.kind] /\ dlg.open
Submit(job) == jobs' = Append(jobs, job)
Same == UNCHANGED <<content, answers, pressed, outcomes>>

\* _version_picked: the slot is fixed, the version is picked in the table.
PickVersion(pair) ==
  /\ MayPick /\ dlg.kind = "replace" /\ ~dlg.running
  /\ dlg' = Loading([dlg EXCEPT !.source = pair, !.slot = None, !.prefer = dlg.fixed],
                    dlg.want, FALSE)
  /\ Submit(ReadJob(dlg', dlg.want)) /\ Same

\* _account_picked.
PickAccount(account) ==
  /\ MayPick /\ dlg.kind = "move" /\ dlg.rows # NoRows /\ ~dlg.running
  /\ account # Asked(dlg)
  /\ dlg' = Loading([dlg EXCEPT !.slot = None, !.at = account], account, FALSE)
  /\ Submit(ReadJob(dlg', account)) /\ Same

\* _row_selected: not while the rows belong to a reading that is being replaced.
PickRow(slot) ==
  /\ MayPick /\ dlg.kind = "move" /\ ~dlg.running /\ ~dlg.stale /\ dlg.rows # NoRows
  /\ Usable(dlg.rows, slot) /\ slot # dlg.slot
  /\ dlg' = Choosing(dlg, slot)
  /\ Submit(PlanJob(dlg')) /\ Same

\* The panic dialog's list.
PickBackup(pair) ==
  /\ MayPick /\ dlg.kind = "panic" /\ dlg.source # None /\ pair # dlg.source
  /\ dlg' = Replanning(dlg, pair)
  /\ IF dlg.busy THEN UNCHANGED jobs ELSE Submit(PlanJob(dlg'))
  /\ Same

TickBox(box) ==
  /\ dlg.open /\ ~dlg.running /\ box \notin dlg.ticked
  /\ box \in dlg.plan.asks \cup (IF dlg.repair THEN {"repair"} ELSE {})
  /\ dlg' = Updated([dlg EXCEPT !.ticked = @ \cup {box}])
  /\ Same /\ UNCHANGED jobs

\* apply: the job has the plan, and the boxes as they are now.
Apply ==
  /\ MayPick /\ ~dlg.busy /\ dlg.armed
  /\ Moves(dlg) => PlanMatches(dlg, dlg.plan)
  /\ dlg' = [dlg EXCEPT !.gen = @ + 1, !.busy = TRUE, !.running = TRUE, !.armed = FALSE]
  /\ Submit([what |-> "execute", gen |-> dlg'.gen, token |-> <<>>, plan |-> dlg.plan,
             pair |-> IF dlg.kind = "panic" THEN dlg.source ELSE dlg.plan.pair,
             target |-> dlg.plan.target, ticked |-> dlg.ticked])
  /\ pressed' = pressed \cup {[job |-> jobs'[Len(jobs')], kind |-> dlg.kind, in |-> dlg.in,
                               at |-> dlg.at, mark |-> dlg.mark, out |-> dlg.out]}
  /\ UNCHANGED <<content, answers, outcomes>>

\* cancel: never while a write runs.
Cancel ==
  /\ dlg.open /\ ~dlg.running
  /\ dlg' = [dlg EXCEPT !.open = FALSE, !.gen = @ + 1]
  /\ Same /\ UNCHANGED jobs

\* show_plan: another plan takes the dialog's place, whatever it is doing.
Replaced ==
  /\ dlg.open /\ dlg.kind = "plan"
  /\ dlg' = [dlg EXCEPT !.open = FALSE]
  /\ Same /\ UNCHANGED jobs

-----------------------------------------------------------------------------
(* The worker, one job at a time.                                           *)

PlanOf(pair, target, asks, blocked) ==
  [pair |-> pair, target |-> target, was |-> content[target], asks |-> asks, blocked |-> blocked]
PlansFor(pair, target) ==
  {PlanOf(pair, target, {}, blocked) : blocked \in BOOLEAN} \cup {PlanOf(pair, target, {"box"}, FALSE)}

\* The slots are read of the folder asked for, or of the first one; some take the version.
Readings(account) ==
  {[account |-> a, blocked |-> b, best |-> Max({None} \cup (SaveSlots \ b))] :
     a \in (IF account = None THEN Accounts ELSE {account}), b \in Blocks}

Answer(job, status, rows, plan) ==
  [job |-> job, status |-> status, rows |-> rows, plan |-> plan]
Ran(answer) == /\ jobs' = Tail(jobs) /\ answers' = Append(answers, answer)
               /\ UNCHANGED <<dlg, pressed>>

ReadSlots ==
  /\ jobs # <<>> /\ Head(jobs).what = "read"
  /\ \/ \E rows \in Readings(Head(jobs).target[1]) :
          Ran(Answer(Head(jobs), "done", rows, NoPlan))
     \/ Ran(Answer(Head(jobs), "error", NoRows, NoPlan))
  /\ UNCHANGED <<content, outcomes>>

MakePlan ==
  /\ jobs # <<>> /\ Head(jobs).what = "plan"
  /\ \/ \E plan \in PlansFor(Head(jobs).pair, Head(jobs).target) :
          Ran(Answer(Head(jobs), "done", NoRows, plan))
     \/ \E status \in {"error", "damaged"} : Ran(Answer(Head(jobs), status, NoRows, NoPlan))
  /\ UNCHANGED <<content, outcomes>>

\* execute: a slot that is not as it was planned for makes the plan stale, with a fresh
\* one when there is one; a restore without a plan has nothing to compare.
Execute ==
  /\ jobs # <<>> /\ Head(jobs).what = "execute"
  /\ LET job   == Head(jobs)
         stale == job.plan # NoPlan /\ content[job.target] # job.plan.was
     IN  \/ /\ stale
            /\ \E plan \in {NoPlan} \cup PlansFor(job.plan.pair, job.target) :
                 Ran(Answer(job, "stale", NoRows, plan))
            /\ UNCHANGED <<content, outcomes>>
         \/ /\ ~stale
            /\ content' = IF job.plan = NoPlan THEN content
                          ELSE [content EXCEPT ![job.target] = @ + 1]
            /\ outcomes' = [outcomes EXCEPT !.written = @ + 1]
            /\ Ran(Answer(job, "done", NoRows, NoPlan))
         \/ /\ \E status \in {"failed", "error"} : Ran(Answer(job, status, NoRows, NoPlan))
            /\ UNCHANGED <<content, outcomes>>

\* Somebody else changes a slot: the game, the cloud, another window.
Outside ==
  \E t \in Targets : /\ \A u \in Targets : content[u] < MaxOutside
                     /\ content' = [content EXCEPT ![t] = @ + 1]
                     /\ UNCHANGED <<dlg, jobs, answers, pressed, outcomes>>

-----------------------------------------------------------------------------
(* Delivery, on the Tk thread.                                              *)

Told(status) ==
  [outcomes EXCEPT !.told = IF status = "done" THEN @ + 1 ELSE @,
                   !.offered = IF status = "failed" THEN @ + 1 ELSE @]

\* The worker holds a callback weakly; a generation that is over is not shown.
ForDialog(a) == dlg.open /\ a.job.gen = dlg.gen
Delivered    == answers # <<>> /\ answers' = Tail(answers) /\ UNCHANGED <<content, pressed>>

ReadDelivered ==
  /\ Delivered /\ Head(answers).job.what = "read" /\ UNCHANGED outcomes
  /\ dlg' = IF ~ForDialog(Head(answers)) THEN dlg
            ELSE IF Head(answers).status = "error" THEN PlanFailed(dlg, FALSE)
            ELSE PickedUp(dlg, Head(answers).rows)
  /\ jobs' = IF dlg'.gen > dlg.gen THEN Append(jobs, PlanJob(dlg')) ELSE jobs

PlanDelivered ==
  /\ Delivered /\ Head(answers).job.what = "plan" /\ UNCHANGED <<jobs, outcomes>>
  /\ dlg' = CASE ~ForDialog(Head(answers)) -> dlg
              [] ForDialog(Head(answers)) /\ Head(answers).status = "done" ->
                   Planned(dlg, Head(answers).job.token, Head(answers).plan)
              [] OTHER -> PlanFailed(dlg, Head(answers).status = "damaged")

Stopped(d) == [d EXCEPT !.running = FALSE]

\* Mutant (DialogIsHonest): a dialog that is gone hears nothing of its write.
Mutant_AfterClose(a) == UNCHANGED outcomes

\* _outcome_after_close: the bar, the rescan and Recover do not need the dialog.
AfterClose(a) == outcomes' = Told(a.status)

\* finisher and _executed: the outcome of a dialog that is gone still counts.
Executed ==
  /\ Delivered /\ Head(answers).job.what = "execute"
  /\ LET a == Head(answers) IN
     \/ /\ ~dlg.open /\ AfterClose(a) /\ UNCHANGED <<dlg, jobs>>
     \/ /\ dlg.open /\ a.status = "done"
        /\ outcomes' = Told("done") /\ dlg' = [Stopped(dlg) EXCEPT !.open = FALSE]
        /\ UNCHANGED jobs
     \/ /\ dlg.open /\ a.status = "stale" /\ Moves(dlg)
        /\ dlg' = Loading(IF a.plan # NoPlan THEN Rendered(Stopped(dlg), a.plan) ELSE Stopped(dlg),
                          Asked(dlg), a.plan # NoPlan)
        /\ jobs' = Append(jobs, ReadJob(dlg', Asked(dlg))) /\ UNCHANGED outcomes
     \/ /\ dlg.open /\ (a.status = "stale" => ~Moves(dlg)) /\ a.status # "done"
        /\ dlg' = IF a.plan # NoPlan THEN Rendered([Stopped(dlg) EXCEPT !.busy = FALSE], a.plan)
                  ELSE Settled(Stopped(dlg))
        /\ outcomes' = IF a.status = "failed" THEN Told("failed") ELSE outcomes
        /\ UNCHANGED jobs

-----------------------------------------------------------------------------
(* "move" and "replace" read the slots first, "panic" its backups.          *)
DialogInit ==
  /\ content = [t \in Targets |-> 0] /\ answers = <<>> /\ pressed = {}
  /\ outcomes = [written |-> 0, told |-> 0, offered |-> 0]
  /\ \E kind \in Kinds, pair \in PutIns, account \in Accounts, slot \in SaveSlots,
        asked \in {TRUE, FALSE} :
       CASE kind = "move" ->
              /\ dlg = Loading([Blank(kind, pair, IF asked THEN account ELSE None,
                                      IF asked THEN slot ELSE None, NoPlan) EXCEPT !.fixed = None],
                               IF asked THEN account ELSE None, FALSE)
              /\ jobs = <<ReadJob(dlg, dlg.want)>>
         [] kind = "replace" -> dlg = Blank(kind, None, account, slot, NoPlan) /\ jobs = <<>>
         [] kind = "plan" ->
              /\ \E plan \in PlansFor(pair, <<account, slot>>) :
                   dlg = [Rendered(Blank(kind, pair, account, None, NoPlan), plan)
                            EXCEPT !.in = pair, !.at = account, !.mark = slot, !.out = slot]
              /\ jobs = <<>>
         [] kind = "panic" ->
              /\ dlg = [Blank(kind, pair, account, None, NoPlan) EXCEPT !.in = pair, !.gen = 1,
                          !.rows.account = account, !.slot = slot]
              /\ jobs = <<PlanJob(dlg)>>

DialogNext ==
  \/ \E pair \in PutIns : PickVersion(pair) \/ PickBackup(pair)
  \/ \E account \in Accounts : PickAccount(account)
  \/ \E slot \in SaveSlots : PickRow(slot)
  \/ \E box \in {"box", "repair"} : TickBox(box)
  \/ Apply \/ Cancel \/ Replaced
  \/ ReadSlots \/ MakePlan \/ Execute \/ Outside
  \/ ReadDelivered \/ PlanDelivered \/ Executed

DialogSpec == DialogInit /\ [][DialogNext]_dialogVars

-----------------------------------------------------------------------------
(* Properties.                                                              *)

\* What is applied is what the dialog shows at the press: the version named, the account
\* lit, the row marked and the slot named as going out, with every box of that plan
\* ticked.  Of the panic dialog only the backup named holds: its button stays enabled
\* while the plan of another choice is on its way.
AppliedIsShown ==
  \A p \in pressed :
    /\ p.job.pair = p.in
    /\ p.kind # "panic" => /\ p.job.target = <<p.at, p.mark>> /\ p.out = p.mark
                           /\ p.job.plan.asks \subseteq p.job.ticked /\ ~p.job.plan.blocked

InFlight(what) == {i \in DOMAIN jobs : jobs[i].what = what}
                   \cup {i + Len(jobs) : i \in {j \in DOMAIN answers : answers[j].job.what = what}}

\* At most one write is under way, and every write that ended done is told exactly once,
\* though the dialog may be gone.
EachIsTold ==
  /\ Cardinality(InFlight("execute")) <= 1
  /\ outcomes.written = outcomes.told
       + Cardinality({i \in DOMAIN answers : answers[i].job.what = "execute" /\ answers[i].status = "done"})

\* A dialog that is busy has a job whose answer it will take.
NeverStuck ==
  dlg.open /\ dlg.busy => \/ \E i \in DOMAIN jobs : jobs[i].gen = dlg.gen
                          \/ \E i \in DOMAIN answers : answers[i].job.gen = dlg.gen

\* The dialog does what it shows, loses no outcome and never waits for nobody.
DialogIsHonest == AppliedIsShown /\ EachIsTold /\ NeverStuck
=============================================================================
