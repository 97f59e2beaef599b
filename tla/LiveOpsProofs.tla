---------------------------- MODULE LiveOpsProofs ----------------------------
(***************************************************************************)
(* Live operations, for any slots, files, orders, target lists and bounds. *)
(*                                                                         *)
(* The first part types every variable of a live operation (TypeOK).       *)
(* TypeOK is not inductive: a step that touches the current target needs   *)
(* that there is one (`at` within the targets of the plan), and that the   *)
(* run's op is one the journal knows with the same targets.  Shape says    *)
(* both.                                                                   *)
(*                                                                         *)
(* The second part is where a run stands, and what the journal then says   *)
(* of its operation; then that no step of the app costs the owner a save   *)
(* (the first half of BytesKept).                                          *)
(*                                                                         *)
(* The third is that journal, marker, lineage and live files tell one      *)
(* story of an operation (RecordsAgree, the other half of BytesKept and    *)
(* OutcomesHold), the fourth that LiveOps implements AtomicMove            *)
(* (MovesAtOnce).                                                          *)
(***************************************************************************)
EXTENDS LiveOps, TLAPS

-----------------------------------------------------------------------------
\* The inductive invariant for typing: the type invariant in parts, each with
\* the facts that make a step keep it.

DiskOK == /\ live \in Folder
          /\ temps \subseteq Ops \X Slots \X Files
          /\ vault \subseteq Copies
          /\ kept \subseteq Copies
          /\ gone \subseteq Copies

\* An op has a plan with at least one target from its first event on.
JournalOK == /\ status \in [Ops -> Event]
             /\ rec \in [Ops -> Plan]
             /\ settled \in [Ops -> SUBSET Copies]
             /\ \A o \in Ops : status[o] = "none" <=> rec[o].targets = <<>>

RecordsOK == /\ oplog \in [Ops -> {"none", "done", "rolled_back", "failed"}]
             /\ lineage \in [Ops -> {"none", "done", "rolled_back"}]
             /\ marker \subseteq Ops

OwnerOK == /\ offered \in [Ops -> SUBSET Choice]
           /\ told \in [Ops -> Outcome]

OuterOK == /\ game \in BOOLEAN
           /\ outside \in 0..MaxOutside
           /\ late \in [1..MaxOutside -> {"no", "swap", "forward"}]

CountsOK == /\ crashes \in 0..MaxCrashes
            /\ faults \in 0..MaxFaults

\* A run works on an op of the journal, with that op's targets; the steps that
\* touch a target have one.
Resting == {"idle", "list"}
AtTarget == {"stage", "check", "rename", "replan", "keep", "restore", "verify"}

RunOK ==
  /\ run \in Run
  /\ run.op \in {0} \cup Ops
  /\ run.pc \notin Resting =>
       /\ run.op \in Ops
       /\ run.plan.targets # <<>>
       /\ rec[run.op].targets = run.plan.targets
  /\ run.pc \in AtTarget => run.at \in 1..Len(run.plan.targets)
  /\ run.upto <= Len(run.plan.targets)

Shape == /\ DiskOK /\ JournalOK /\ RecordsOK /\ OwnerOK /\ OuterOK /\ CountsOK /\ RunOK

LEMMA ShapeIsTyped == Shape => TypeOK
BY DEF Shape, DiskOK, JournalOK, RecordsOK, OwnerOK, OuterOK, CountsOK, RunOK, TypeOK, LiveTypeOK

-----------------------------------------------------------------------------
\* Values.

LEMMA EmptyTypes == Empty \in Folder /\ NoPlan \in Plan /\ NoRun \in Run
<1>1. Empty \in Folder
  BY DEF Empty, Folder, Absent, Content
<1>2. NoPlan \in Plan
  BY <1>1 DEF NoPlan, Plan
<1>3. NoRun \in Run
  BY <1>1, <1>2 DEF NoRun, Run, Step, Mode, Absent, Content
<1>. QED  BY <1>1, <1>2, <1>3

LEMMA CopiesType ==
  ASSUME NEW folder \in Folder, NEW S \in SUBSET Slots, NEW F \in SUBSET Files
  PROVE  CopiesOf(folder, S, F) \subseteq Copies
BY DEF CopiesOf, Copies, Folder

LEMMA TargetsType == \A p \in Plan : Targets(p) \subseteq Slots
BY DEF Plan, Targets, Members

-----------------------------------------------------------------------------
\* What the building blocks of the actions do to each part.

LEMMA Kept ==
  /\ DiskOK /\ UNCHANGED <<disk, gone>> => DiskOK'
  /\ JournalOK /\ UNCHANGED journal => JournalOK'
  /\ RecordsOK /\ UNCHANGED records => RecordsOK'
  /\ OwnerOK /\ UNCHANGED owner => OwnerOK'
  /\ OuterOK /\ UNCHANGED outer => OuterOK'
BY DEF DiskOK, JournalOK, RecordsOK, OwnerOK, OuterOK, disk, journal, records, owner, outer

LEMMA Counted ==
  /\ CountsOK /\ Works /\ UNCHANGED crashes => CountsOK'
  /\ \A kind : CountsOK /\ Fails(kind) /\ UNCHANGED crashes => CountsOK'
BY BoundsAreNat DEF CountsOK, Works, Fails

LEMMA Told == \A what \in Outcome : OwnerOK /\ Tell(what) => OwnerOK'
BY DEF OwnerOK, Tell

\* Appending, with success or not, keeps the journal's shape and the counts.
LEMMA Journaled ==
  \A o \in Ops, e \in Event \ {"none"} :
    /\ JournalOK /\ CountsOK /\ rec[o].targets # <<>> /\ UNCHANGED <<rec, settled, crashes>>
    /\ Journal(o, e) \/ AppendFails(o, e)
    => JournalOK' /\ CountsOK'
<1>. SUFFICES ASSUME NEW o \in Ops, NEW e \in Event \ {"none"}, JournalOK, CountsOK,
                     rec[o].targets # <<>>, UNCHANGED <<rec, settled, crashes>>,
                     Journal(o, e) \/ AppendFails(o, e)
              PROVE  JournalOK' /\ CountsOK'
  OBVIOUS
<1>1. CountsOK'
  BY Counted DEF Journal, AppendFails
<1>2. status' \in {status, With(o, e)}
  BY DEF Journal, AppendFails
<1>. QED  BY <1>1, <1>2 DEF JournalOK, With

LEMMA Gone ==
  \A step \in Step \ (Resting \cup AtTarget) :
    RunOK /\ run.pc \notin Resting /\ UNCHANGED rec /\ Goto(step) => RunOK'
BY DEF RunOK, Goto, Run, Resting, AtTarget

LEMMA GoneOn ==
  \A step \in AtTarget :
    RunOK /\ run.pc \in AtTarget /\ UNCHANGED rec /\ Goto(step) => RunOK'
BY DEF RunOK, Goto, Run, Step, Resting, AtTarget

LEMMA Ended ==
  /\ run' = NoRun => RunOK'
  /\ RunOK /\ run' = Resume => RunOK'
<1>1. run' = NoRun => RunOK'
  BY EmptyTypes DEF RunOK, NoRun, NoPlan, Resting, AtTarget
<1>2. ASSUME RunOK, run' = Resume PROVE RunOK'
  <2>1. CASE run.next = 0
    BY <1>1, <1>2, <2>1 DEF Resume
  <2>2. CASE run.next # 0
    <3>1. run' \in Run
      BY <1>2, <2>2, EmptyTypes DEF Resume, RunOK, Run, Step
    <3>2. /\ run'.pc = "list" /\ run'.op = 0 /\ run'.upto = 0
          /\ run'.plan = NoPlan
      BY <1>2, <2>2 DEF Resume, NoRun
    <3>. QED  BY <3>1, <3>2, EmptyTypes DEF RunOK, NoPlan, Resting, AtTarget
  <2>. QED  BY <2>1, <2>2
<1>. QED  BY <1>1, <1>2

LEMMA GivenUp ==
  \A what \in Outcome :
    RunOK /\ OwnerOK /\ run.pc \notin Resting /\ UNCHANGED rec /\ GiveUp(what) => RunOK' /\ OwnerOK'
BY Gone, Told DEF GiveUp, Step, Resting, AtTarget

LEMMA Returned ==
  \A what \in Outcome : RunOK /\ OwnerOK /\ Return(what) => RunOK' /\ OwnerOK'
BY Ended, Told DEF Return

-----------------------------------------------------------------------------
\* Every action keeps the shape: an operation up to its write-ahead event.

LEMMA BeginKeeps ==
  ASSUME Shape, NEW o \in Ops, NEW kind \in {"place", "keep"}, NEW ts \in Seq(Slots) \ {<<>>},
         NEW ord \in Orders, NEW step \in {"preserve", "copy"}, Begin(o, kind, ts, ord, step)
  PROVE  Shape'
<1>. DEFINE p == NewPlan(kind, ts, ord)
<1>1. p \in Plan /\ p.targets = ts
  BY EmptyTypes, PlansAreLists DEF NewPlan, Plan, NoPlan
<1>2. rec' = [rec EXCEPT ![o] = p] /\ UNCHANGED settled /\ status' = [status EXCEPT ![o] = "preparing"]
  BY DEF Begin, With
<1>3. JournalOK'
  BY <1>1, <1>2 DEF Shape, JournalOK, Event
<1>4. CASE run' = [NoRun EXCEPT !.pc = step, !.op = o, !.mode = "execute", !.base = live, !.plan = p]
  <2>1. run' \in Run
    <3>1. run' = [NoRun EXCEPT !.pc = step, !.op = o, !.mode = "execute", !.base = live, !.plan = p]
      BY <1>4
    <3>2. step \in Step /\ o \in Nat /\ "execute" \in Mode /\ live \in Folder
      BY DEF Step, Ops, Mode, Shape, DiskOK
    <3>. HIDE DEF p
    <3>. QED  BY <1>1, <3>1, <3>2, EmptyTypes DEF Run
  <2>2. /\ run'.pc = step /\ run'.op = o /\ run'.plan = p /\ run'.upto = 0
    BY <1>1, <1>4 DEF NoRun
  <2>3. rec'[o] = p
    BY <1>2 DEF Shape, JournalOK
  <2>4. RunOK'
    BY <1>1, <2>1, <2>2, <2>3 DEF RunOK, Resting, AtTarget
  <2>. QED  BY <1>3, <2>4, Kept, Counted DEF Shape, Begin
<1>5. CASE UNCHANGED run /\ Fails("io")
  <2>1. RunOK'
    BY <1>5 DEF Shape, RunOK, Begin, Resting, AtTarget
  <2>. QED  BY <1>3, <1>5, <2>1, Kept, Counted DEF Shape, Begin
<1>. QED  BY <1>4, <1>5 DEF Begin

LEMMA StartKeeps ==
  ASSUME Shape, NEW o \in Ops, NEW ts \in TargetLists, NEW ord \in Orders, Start(o, ts, ord)
  PROVE  Shape'
BY BeginKeeps, PlansAreLists DEF Start

LEMMA KeepCopyKeeps ==
  ASSUME Shape, NEW o \in Ops, NEW s \in Slots, KeepCopy(o, s)
  PROVE  Shape'
<1>1. <<s>> \in Seq(Slots) \ {<<>>}
  OBVIOUS
<1>. QED  BY <1>1, BeginKeeps DEF KeepCopy

\* What is kept of live slots is a set of copies.
LEMMA KeptCopies ==
  ASSUME Shape, NEW F \in SUBSET Files
  PROVE  /\ CopiesOf(live, Targets(run.plan), F) \subseteq Copies
         /\ CopiesOf(live, Slots, F) \subseteq Copies
<1>1. run.plan \in Plan
  BY DEF Shape, RunOK, Run
<1>. QED  BY <1>1, TargetsType, CopiesType DEF Shape, DiskOK

LEMMA PreserveKeeps == Shape /\ Preserve => Shape'
<1>. SUFFICES ASSUME Shape, Preserve PROVE Shape'
  OBVIOUS
<1>1. DiskOK'
  BY KeptCopies, PlansAreLists DEF Shape, DiskOK, Preserve
<1>2. RunOK' /\ OwnerOK'
  BY Gone, GivenUp, Kept DEF Shape, Preserve, Step, Resting, AtTarget, Outcome, journal
<1>. QED  BY <1>1, <1>2, Kept, Counted DEF Shape, Preserve

LEMMA SnapshotKeeps == Shape /\ Snapshot => Shape'
<1>. SUFFICES ASSUME Shape, Snapshot PROVE Shape'
  OBVIOUS
<1>1. DiskOK'
  BY KeptCopies DEF Shape, DiskOK, Snapshot
<1>2. RunOK' /\ OwnerOK'
  <2>1. CASE run' = [run EXCEPT !.pc = "prepare", !.snap = live] /\ UNCHANGED owner
    BY <2>1, Kept DEF Shape, Snapshot, DiskOK, RunOK, Run, Step, Resting, AtTarget, journal
  <2>2. CASE GiveUp("refused")
    BY <2>2, GivenUp DEF Shape, Snapshot, Resting, Outcome, journal
  <2>. QED  BY <2>1, <2>2 DEF Snapshot
<1>. QED  BY <1>1, <1>2, Kept, Counted DEF Shape, Snapshot

LEMMA PlannedPostType ==
  ASSUME Shape, NEW o \in Ops, NEW T, NEW same
  PROVE  PlannedPost(o, T, same) \in Folder
BY DEF PlannedPost, Folder, Shape, DiskOK, Op, Content, Ops

LEMMA PrepareKeeps ==
  ASSUME Shape, NEW same \in SameSets, Prepare(same)
  PROVE  Shape'
<1>. DEFINE T == Targets(run.plan)
<1>1. run.pc = "prepare" /\ run.op \in Ops
  BY DEF Prepare, Shape, RunOK, Resting
<1>2. RunOK' /\ OwnerOK'
  <2>1. CASE run' = [run EXCEPT !.pc = "intend", !.plan.pre = live,
                                !.plan.post = PlannedPost(run.op, T, same),
                                !.base = live, !.snap = Empty] /\ UNCHANGED owner
    <3>1. run'.plan = [run.plan EXCEPT !.pre = live, !.post = PlannedPost(run.op, T, same)]
      BY <2>1 DEF Shape, RunOK, Run
    <3>2. run'.plan \in Plan /\ run'.plan.targets = run.plan.targets
      <4>1. run.plan \in Plan /\ live \in Folder /\ PlannedPost(run.op, T, same) \in Folder
        BY <1>1, PlannedPostType DEF Shape, RunOK, Run, DiskOK
      <4>. QED  BY <3>1, <4>1 DEF Plan
    <3>3. /\ run' = [run EXCEPT !.pc = "intend", !.plan = run'.plan, !.base = live, !.snap = Empty]
      BY <2>1, <3>1 DEF Shape, RunOK, Run
    <3>4. run' \in Run /\ run'.pc = "intend" /\ run'.op = run.op /\ run'.upto = run.upto
      BY ZenonT(60), <3>2, <3>3, EmptyTypes DEF Shape, RunOK, Run, Step, DiskOK
    <3>5. UNCHANGED rec
      BY DEF Prepare, journal
    <3>. QED  BY <2>1, <1>1, <3>2, <3>4, <3>5, Kept DEF Shape, RunOK, Resting, AtTarget
  <2>2. CASE GiveUp("refused")
    BY <1>1, <2>2, GivenUp DEF Shape, Prepare, Resting, Outcome, journal
  <2>. QED  BY <2>1, <2>2 DEF Prepare
<1>. QED  BY <1>2, Kept, Counted DEF Shape, Prepare

LEMMA IntendKeeps == Shape /\ Intend => Shape'
<1>. SUFFICES ASSUME Shape, Intend PROVE Shape'
  OBVIOUS
<1>1. run.pc = "intend" /\ run.op \in Ops /\ run.plan \in Plan
      /\ run.plan.targets # <<>> /\ rec[run.op].targets = run.plan.targets
  BY DEF Intend, Shape, RunOK, Run, Resting
<1>2. JournalOK' /\ RunOK' /\ OwnerOK'
  <2>1. CASE Intended /\ Goto("mark") /\ UNCHANGED owner
    <3>1. JournalOK'
      BY <1>1, <2>1 DEF Shape, Intend, JournalOK, Intended, With, Event
    <3>2. rec'[run.op] = run.plan
      BY <1>1, <2>1 DEF Shape, JournalOK, Intended
    <3>3. run' \in Run /\ run'.pc = "mark" /\ run'.op = run.op /\ run'.plan = run.plan /\ run'.upto = run.upto
      BY <2>1 DEF Goto, Shape, RunOK, Run, Step
    <3>. QED  BY <1>1, <2>1, <3>1, <3>2, <3>3, Kept DEF Shape, RunOK, Resting, AtTarget
  <2>2. CASE GiveUp("refused") /\ UNCHANGED <<status, rec>>
    BY <1>1, <2>2, GivenUp, Kept DEF Shape, Intend, Resting, Outcome, journal
  <2>3. CASE (Intended \/ UNCHANGED <<status, rec>>) /\ Return("failed")
    <3>1. JournalOK'
      BY <1>1, <2>3, Kept DEF Shape, Intend, JournalOK, Intended, With, Event, journal
    <3>. QED  BY <2>3, <3>1, Returned DEF Shape, Outcome
  <2>. QED  BY <2>1, <2>2, <2>3 DEF Intend
<1>. QED  BY <1>2, Kept, Counted DEF Shape, Intend

LEMMA MarkKeeps == Shape /\ Mark => Shape'
<1>. SUFFICES ASSUME Shape, Mark PROVE Shape'
  OBVIOUS
<1>1. RecordsOK'
  BY DEF Shape, RecordsOK, RunOK, Mark, Resting
<1>2. RunOK' /\ OwnerOK'
  BY Gone, Returned, Kept DEF Shape, Mark, Step, Resting, AtTarget, Outcome, journal
<1>. QED  BY <1>1, <1>2, Kept, Counted DEF Shape, Mark

LEMMA ProbeKeeps == Shape /\ Probe => Shape'
<1>. SUFFICES ASSUME Shape, Probe PROVE Shape'
  OBVIOUS
<1>1. /\ run.pc = "probe" /\ run \in Run /\ run.plan \in Plan /\ run.op \in Ops /\ UNCHANGED rec
      /\ run.plan.targets # <<>> /\ rec[run.op].targets = run.plan.targets
  BY DEF Probe, Shape, RunOK, Run, Resting, journal
<1>2. RunOK' /\ OwnerOK'
  <2>1. CASE run' = [run EXCEPT !.pc = "stage", !.at = 1, !.todo = Files,
                                !.expect = run.plan.pre[run.plan.targets[1]]] /\ UNCHANGED owner
    <3>1. 1 \in 1..Len(run.plan.targets) /\ run.plan.targets[1] \in Slots
      BY <1>1 DEF Plan
    <3>2. run.plan.pre[run.plan.targets[1]] \in [Files -> Content]
      BY <1>1, <3>1 DEF Plan, Folder
    <3>3. /\ run' \in Run /\ run'.pc = "stage" /\ run'.op = run.op /\ run'.at = 1
          /\ run'.plan = run.plan /\ run'.upto = run.upto
      BY <1>1, <2>1, <3>2 DEF Run, Step
    <3>. QED  BY <1>1, <2>1, <3>1, <3>3, Kept DEF Shape, RunOK, Resting, AtTarget
  <2>2. CASE GiveUp("refused")
    BY <1>1, <2>2, GivenUp DEF Shape, Resting, Outcome
  <2>. QED  BY <2>1, <2>2 DEF Probe
<1>. QED  BY <1>2, Kept, Counted DEF Shape, Probe

\* An op that is being run has its plan in the journal.
LEMMA RunIsKnown ==
  Shape /\ run.pc \notin Resting => run.op \in Ops /\ rec[run.op].targets # <<>>
BY DEF Shape, RunOK

LEMMA AbandonKeeps == Shape /\ Abandon => Shape'
<1>. SUFFICES ASSUME Shape, Abandon PROVE Shape'
  OBVIOUS
<1>1. JournalOK' /\ CountsOK'
  BY RunIsKnown, Journaled, Counted DEF Shape, Abandon, Event, JournalQuietly, Resting
<1>2. RunOK'
  BY Gone DEF Shape, Abandon, Step, Resting, AtTarget
<1>. QED  BY <1>1, <1>2, Kept DEF Shape, Abandon

LEMMA UnmarkKeeps == Shape /\ Unmark => Shape'
<1>. SUFFICES ASSUME Shape, Unmark PROVE Shape'
  OBVIOUS
<1>1. RecordsOK'
  BY DEF Shape, RecordsOK, Unmark
<1>2. RunOK'
  BY Ended DEF Shape, Unmark
<1>. QED  BY <1>1, <1>2, Kept, Counted DEF Shape, Unmark

-----------------------------------------------------------------------------
\* Writing and rolling back.

\* A step at a target works on a slot and an op that exist.
LEMMA AtASlot ==
  ASSUME Shape, run.pc \in AtTarget
  PROVE  /\ run \in Run /\ run.plan \in Plan /\ run.op \in Ops /\ Slot \in Slots
         /\ run.at \in 1..Len(run.plan.targets)
         /\ rec[run.op].targets = run.plan.targets
         /\ \A f \in Files : Pre(f) \in Content /\ Post(f) \in Content
<1>1. run \in Run /\ run.plan \in Plan /\ run.op \in Ops /\ run.at \in 1..Len(run.plan.targets)
      /\ rec[run.op].targets = run.plan.targets
  BY DEF Shape, RunOK, Run, Resting, AtTarget
<1>2. Slot \in Slots
  BY <1>1 DEF Slot, Plan
<1>. QED  BY <1>1, <1>2 DEF Plan, Folder, Pre, Post

\* ... and that slot is one of the plan's targets.
LEMMA SlotIsATarget ==
  ASSUME Shape, run.pc \in AtTarget
  PROVE  Slot \in Targets(run.plan)
<1>1. run.at \in 1..Len(run.plan.targets) /\ run.plan \in Plan
  BY AtASlot
<1>2. run.at \in DOMAIN run.plan.targets
  BY <1>1 DEF Plan
<1>. QED  BY <1>2 DEF Slot, Targets, Members

LEMMA PutKeeps ==
  ASSUME Shape, run.pc \in AtTarget, NEW f \in Files, NEW c \in Content, Put(Slot, f, c)
  PROVE  live' \in Folder /\ gone' \subseteq Copies
<1>1. Slot \in Slots /\ live \in Folder /\ gone \subseteq Copies
  BY AtASlot DEF Shape, DiskOK
<1>2. live' \in Folder
  BY <1>1 DEF Put, Folder
<1>3. {<<Slot, f, x>> : x \in {live[Slot][f]} \ {Absent, c, run.plan.post[Slot][f]}} \subseteq Copies
  BY <1>1 DEF Copies, Folder
<1>. QED  BY <1>1, <1>2, <1>3 DEF Put

LEMMA SweepKeeps == Shape /\ Sweep => DiskOK'
BY DEF Shape, DiskOK, Sweep

\* A run that moves to a target, or to its end, without a new plan.
LEMMA MovedOn ==
  ASSUME Shape, run.pc \notin Resting, UNCHANGED rec,
         run' \in Run, run'.op = run.op, run'.plan = run.plan,
         run'.pc \in AtTarget => run'.at \in 1..Len(run.plan.targets),
         run'.upto <= Len(run.plan.targets)
  PROVE  RunOK'
BY DEF Shape, RunOK

LEMMA StoppedKeeps ==
  ASSUME Shape, run.pc \notin Resting, UNCHANGED rec,
         NEW n \in 0..Len(run.plan.targets), StopWriting(n)
  PROVE  RunOK' /\ OwnerOK'
<1>1. CASE run.mode = "forward" \/ n = 0
  BY <1>1, Returned, GivenUp DEF StopWriting, Outcome, Shape
<1>2. CASE ~(run.mode = "forward" \/ n = 0)
  <2>1. run \in Run /\ n \in 1..Len(run.plan.targets) /\ n \in Nat
    BY <1>2 DEF Shape, RunOK, Run, Plan
  <2>2. run' = [run EXCEPT !.pc = "keep", !.at = n, !.upto = n] /\ UNCHANGED owner
    BY <1>2 DEF StopWriting
  <2>3. /\ run' \in Run /\ run'.op = run.op /\ run'.plan = run.plan
        /\ run'.at = n /\ run'.upto = n
    BY <2>1, <2>2 DEF Run, Step
  <2>. QED  BY <2>1, <2>2, <2>3, MovedOn, Kept DEF Shape
<1>. QED  BY <1>1, <1>2

LEMMA NextTargetKeeps ==
  ASSUME Shape, run.pc \in AtTarget, UNCHANGED rec, run' = NextTarget
  PROVE  RunOK'
<1>1. /\ run \in Run /\ run.plan \in Plan /\ run.at \in 1..Len(run.plan.targets)
      /\ run.upto <= Len(run.plan.targets) /\ run.pc \notin Resting
  BY AtASlot DEF Shape, RunOK, Resting, AtTarget
<1>2. CASE run.at = Len(run.plan.targets)
  <2>1. run' \in Run /\ run'.pc = "validate" /\ run'.op = run.op /\ run'.plan = run.plan /\ run'.upto = run.upto
    BY <1>1, <1>2 DEF NextTarget, Run, Step
  <2>. QED  BY <1>1, <2>1, MovedOn DEF AtTarget
<1>3. CASE run.at # Len(run.plan.targets)
  <2>1. run.at + 1 \in 1..Len(run.plan.targets) /\ run.at + 1 \in Nat /\ run.plan.targets[run.at + 1] \in Slots
    BY <1>1, <1>3 DEF Plan
  <2>2. run.plan.pre[run.plan.targets[run.at + 1]] \in [Files -> Content]
    BY <1>1, <2>1 DEF Plan, Folder
  <2>3. /\ run' \in Run /\ run'.op = run.op /\ run'.plan = run.plan
        /\ run'.at = run.at + 1 /\ run'.upto = run.upto
    <3>1. CASE run.mode = "forward"
      BY ZenonT(60), <1>1, <1>3, <2>1, <3>1 DEF NextTarget, Run, Step
    <3>2. CASE run.mode # "forward"
      <4>. DEFINE e == run.plan.pre[run.plan.targets[run.at + 1]]
      <4>1. run' = [run EXCEPT !.pc = "stage", !.at = run.at + 1, !.todo = Files, !.expect = e]
        BY <1>3, <3>2 DEF NextTarget
      <4>. HIDE DEF e
      <4>. QED  BY ZenonT(60), <1>1, <2>1, <2>2, <4>1 DEF Run, Step, e
    <3>. QED  BY <3>1, <3>2
  <2>. QED  BY <1>1, <2>1, <2>3, MovedOn
<1>. QED  BY <1>2, <1>3

LEMMA BackToKeeps ==
  ASSUME Shape, run.pc \in AtTarget, UNCHANGED rec,
         NEW i \in 0..Len(run.plan.targets), NEW bad \in BOOLEAN, BackTo(i, bad)
  PROVE  RunOK'
<1>1. /\ run \in Run /\ run.plan \in Plan /\ i \in Nat /\ run.problem \in BOOLEAN
      /\ run.upto <= Len(run.plan.targets) /\ run.pc \notin Resting
  BY DEF Shape, RunOK, Run, Plan, Resting, AtTarget
<1>. DEFINE step == IF i = 0 THEN "report" ELSE "keep"
            b == run.problem \/ bad
<1>2. step \in Step /\ b \in BOOLEAN
  BY <1>1 DEF Step
<1>3. run' = [run EXCEPT !.pc = step, !.at = i, !.problem = b]
  BY Zenon DEF BackTo
<1>4. step \in AtTarget => i \in 1..Len(run.plan.targets)
  BY <1>1 DEF AtTarget
<1>. HIDE DEF step, b
<1>5. run' \in Run /\ run'.op = run.op /\ run'.plan = run.plan /\ run'.pc = step /\ run'.at = i /\ run'.upto = run.upto
  BY <1>1, <1>2, <1>3 DEF Run
<1>. QED  BY <1>1, <1>4, <1>5, MovedOn

LEMMA StageKeeps == Shape /\ Stage => Shape'
<1>. SUFFICES ASSUME Shape, Stage PROVE Shape'
  OBVIOUS
<1>1. /\ run.pc \in AtTarget /\ run.pc \notin Resting /\ UNCHANGED rec
      /\ run.at \in 0..Len(run.plan.targets)
  BY AtASlot DEF Stage, AtTarget, Resting, journal
<1>2. DiskOK' /\ RunOK' /\ OwnerOK'
  <2>1. CASE StageFiles /\ Goto("check") /\ UNCHANGED owner
    <3>1. DiskOK'
      BY <1>1, <2>1, AtASlot DEF StageFiles, Shape, DiskOK, Run
    <3>. QED  BY <1>1, <2>1, <3>1, GoneOn, Kept DEF Shape, AtTarget
  <2>2. CASE Sweep /\ StopWriting(run.at)
    BY <1>1, <2>2, SweepKeeps, StoppedKeeps
  <2>. QED  BY <2>1, <2>2 DEF Stage
<1>. QED  BY <1>2, Kept, Counted DEF Shape, Stage

LEMMA CheckKeeps == Shape /\ Check => Shape'
<1>. SUFFICES ASSUME Shape, Check PROVE Shape'
  OBVIOUS
<1>1. /\ run.pc \in AtTarget /\ run.pc \notin Resting /\ UNCHANGED rec
      /\ run.at - 1 \in 0..Len(run.plan.targets)
  BY AtASlot DEF Check, AtTarget, Resting, journal
<1>2. DiskOK' /\ RunOK' /\ OwnerOK'
  <2>1. CASE Goto("rename") /\ UNCHANGED <<disk, gone, owner>>
    BY <1>1, <2>1, GoneOn, Kept DEF Shape, AtTarget
  <2>2. CASE Sweep /\ StopWriting(run.at - 1)
    BY <1>1, <2>2, SweepKeeps, StoppedKeeps
  <2>. QED  BY <2>1, <2>2 DEF Check
<1>. QED  BY <1>2, Kept, Counted DEF Shape, Check

LEMMA RenameKeeps ==
  ASSUME Shape, NEW f \in Files, Rename(f)
  PROVE  Shape'
<1>1. /\ run.pc \in AtTarget /\ run.pc \notin Resting /\ UNCHANGED rec /\ run \in Run
      /\ run.at \in 0..Len(run.plan.targets) /\ run.upto <= Len(run.plan.targets)
  BY AtASlot DEF Rename, AtTarget, Resting, journal, Shape, RunOK
<1>2. DiskOK' /\ RunOK' /\ OwnerOK'
  <2>0. RenameFile(f) => DiskOK'
    <3>. SUFFICES ASSUME RenameFile(f) PROVE DiskOK'
      OBVIOUS
    <3>1. Post(f) \in Content
      BY <1>1, AtASlot
    <3>2. live' \in Folder /\ gone' \subseteq Copies
      BY <1>1, <3>1, PutKeeps DEF RenameFile
    <3>. QED  BY <3>2 DEF RenameFile, Shape, DiskOK
  <2>1. CASE RenameFile(f) /\ UNCHANGED owner
             /\ run' = IF run.todo = {f} THEN NextTarget ELSE [run EXCEPT !.todo = @ \ {f}]
    <3>2. RunOK'
      <4>1. CASE run' = NextTarget
        BY <1>1, <4>1, NextTargetKeeps
      <4>2. CASE run' = [run EXCEPT !.todo = @ \ {f}]
        <5>1. /\ run' \in Run /\ run'.op = run.op /\ run'.plan = run.plan
              /\ run'.at = run.at /\ run'.upto = run.upto
          BY <1>1, <4>2 DEF Run
        <5>. QED  BY <1>1, <5>1, AtASlot, MovedOn
      <4>. QED  BY <2>1, <4>1, <4>2
    <3>. QED  BY <2>0, <2>1, <3>2, Kept DEF Shape
  <2>2. CASE StopWriting(run.at) /\ UNCHANGED <<disk, gone>>
    BY <1>1, <2>2, StoppedKeeps, Kept DEF Shape
  <2>3. CASE StopWriting(run.at) /\ RenameFile(f)
    BY <1>1, <2>0, <2>3, StoppedKeeps
  <2>. QED  BY <2>1, <2>2, <2>3 DEF Rename
<1>. QED  BY <1>2, Kept, Counted DEF Shape, Rename

LEMMA ValidateKeeps == Shape /\ Validate => Shape'
<1>. SUFFICES ASSUME Shape, Validate PROVE Shape'
  OBVIOUS
<1>1. /\ run.pc \notin Resting /\ UNCHANGED rec
      /\ Len(run.plan.targets) \in 0..Len(run.plan.targets)
  BY DEF Validate, Resting, journal, Shape, RunOK, Run, Plan
<1>2. RunOK' /\ OwnerOK'
  <2>1. CASE Goto(IF run.mode = "forward" THEN "recovered" ELSE "confirm") /\ UNCHANGED owner
    BY <1>1, <2>1, Gone, Kept DEF Shape, Step, Resting, AtTarget
  <2>2. CASE StopWriting(Len(run.plan.targets))
    BY <1>1, <2>2, StoppedKeeps
  <2>. QED  BY <2>1, <2>2 DEF Validate
<1>. QED  BY <1>2, Kept, Counted DEF Shape, Validate

LEMMA RollbackKeepKeeps ==
  ASSUME Shape, RollbackKeep, UNCHANGED <<journal, records, owner, outer, crashes>>
  PROVE  Shape'
<1>1. /\ run.pc \in AtTarget /\ run.pc \notin Resting /\ UNCHANGED rec /\ run \in Run
      /\ run.at - 1 \in 0..Len(run.plan.targets) /\ run.upto <= Len(run.plan.targets)
      /\ run.at \in 1..Len(run.plan.targets) /\ Slot \in Slots
  BY AtASlot DEF RollbackKeep, AtTarget, Resting, journal, Shape, RunOK
<1>2. DiskOK' /\ RunOK' /\ CountsOK'
  <2>1. CASE /\ Works
             /\ kept' = kept \cup CopiesOf(live, {Slot}, Foreign)
             /\ run' = [run EXCEPT !.pc = "restore", !.todo = Files, !.expect = live[Slot]]
    <3>1. CopiesOf(live, {Slot}, Foreign) \subseteq Copies
      BY <1>1, CopiesType DEF Shape, DiskOK, Foreign, Changed
    <3>2. live[Slot] \in [Files -> Content]
      BY <1>1 DEF Shape, DiskOK, Folder
    <3>3. /\ run' \in Run /\ run'.op = run.op /\ run'.plan = run.plan
          /\ run'.at = run.at /\ run'.upto = run.upto
      BY <1>1, <2>1, <3>2 DEF Run, Step
    <3>4. RunOK'
      BY <1>1, <3>3, MovedOn
    <3>. QED  BY <2>1, <3>1, <3>4, Counted DEF RollbackKeep, Shape, DiskOK
  <2>2. CASE ((Works /\ ~Restorable) \/ Fails("vault")) /\ BackTo(run.at - 1, TRUE) /\ UNCHANGED kept
    BY <1>1, <2>2, BackToKeeps, Counted DEF RollbackKeep, Shape, DiskOK
  <2>. QED  BY <2>1, <2>2 DEF RollbackKeep
<1>. QED  BY <1>2, Kept DEF Shape

LEMMA RollbackRestoreKeeps ==
  ASSUME Shape, NEW f \in Files, RollbackRestore(f),
         UNCHANGED <<journal, records, owner, outer, crashes>>
  PROVE  Shape'
<1>1. /\ run.pc \in AtTarget /\ run.pc \notin Resting /\ UNCHANGED rec /\ run \in Run
      /\ run.upto <= Len(run.plan.targets) /\ run.at \in 1..Len(run.plan.targets)
      /\ Pre(f) \in Content
  BY AtASlot DEF RollbackRestore, AtTarget, Resting, journal, Shape, RunOK
<1>2. \A bad \in BOOLEAN : Restored(f, bad) => RunOK'
  <2>. SUFFICES ASSUME NEW bad \in BOOLEAN, Restored(f, bad) PROVE RunOK'
    OBVIOUS
  <2>. DEFINE step == IF run.todo = {f} THEN "verify" ELSE run.pc
              b == run.problem \/ bad
  <2>1. step \in Step /\ b \in BOOLEAN
    BY <1>1 DEF Run, Step
  <2>2. run' = [run EXCEPT !.todo = @ \ {f}, !.problem = b, !.pc = step]
    BY Zenon DEF Restored
  <2>. HIDE DEF step, b
  <2>3. /\ run' \in Run /\ run'.op = run.op /\ run'.plan = run.plan
        /\ run'.at = run.at /\ run'.upto = run.upto
    BY <1>1, <2>1, <2>2 DEF Run
  <2>. QED  BY <1>1, <2>3, MovedOn
<1>3. RunOK' /\ CountsOK'
  BY <1>2, Counted DEF RollbackRestore, Shape
<1>4. DiskOK'
  BY <1>1, PutKeeps DEF RollbackRestore, Shape, DiskOK
<1>. QED  BY <1>3, <1>4, Kept DEF Shape

LEMMA RollbackVerifyKeeps ==
  ASSUME Shape, RollbackVerify, UNCHANGED <<journal, records, owner, outer, crashes>>
  PROVE  Shape'
<1>1. /\ run.pc \in AtTarget /\ UNCHANGED rec
      /\ run.at - 1 \in 0..Len(run.plan.targets)
  BY AtASlot DEF RollbackVerify, AtTarget, journal
<1>2. RunOK'
  BY <1>1, BackToKeeps DEF RollbackVerify
<1>. QED  BY <1>2, SweepKeeps, Kept, Counted DEF Shape, RollbackVerify

-----------------------------------------------------------------------------
\* Recording, reporting, keeping a copy.

LEMMA ConfirmKeeps == Shape /\ Confirm => Shape'
<1>. SUFFICES ASSUME Shape, Confirm PROVE Shape'
  OBVIOUS
<1>1. JournalOK' /\ CountsOK'
  BY RunIsKnown, Journaled, Counted, Kept DEF Shape, Confirm, Event, Resting, journal
<1>2. RunOK' /\ OwnerOK'
  BY Gone, Returned, Kept DEF Shape, Confirm, Step, Resting, AtTarget, Outcome
<1>. QED  BY <1>1, <1>2, Kept DEF Shape, Confirm

LEMMA FinalizeKeeps == Shape /\ Finalize => Shape'
<1>. SUFFICES ASSUME Shape, Finalize PROVE Shape'
  OBVIOUS
<1>1. RunOK'
  BY Gone DEF Shape, Finalize, Step, Resting, AtTarget, journal
<1>. QED  BY <1>1, SweepKeeps, Kept, Counted DEF Shape, Finalize

LEMMA RecordOplogKeeps == Shape /\ RecordOplog => Shape'
<1>. SUFFICES ASSUME Shape, RecordOplog PROVE Shape'
  OBVIOUS
<1>1. RecordsOK'
  BY DEF Shape, RecordsOK, RecordOplog, OplogLine
<1>2. RunOK' /\ OwnerOK'
  BY Gone, Returned, Kept DEF Shape, RecordOplog, Step, Resting, AtTarget, Outcome, journal
<1>. QED  BY <1>1, <1>2, Kept, Counted DEF Shape, RecordOplog

LEMMA RecordLineageKeeps == Shape /\ RecordLineage => Shape'
<1>. SUFFICES ASSUME Shape, RecordLineage PROVE Shape'
  OBVIOUS
<1>1. RecordsOK'
  BY DEF Shape, RecordsOK, RecordLineage
<1>2. RunOK' /\ OwnerOK'
  BY Gone, Returned, Kept DEF Shape, RecordLineage, Step, Resting, AtTarget, Outcome, journal
<1>. QED  BY <1>1, <1>2, Kept, Counted DEF Shape, RecordLineage

LEMMA CloseKeeps == Shape /\ Close => Shape'
<1>. SUFFICES ASSUME Shape, Close PROVE Shape'
  OBVIOUS
<1>1. JournalOK' /\ CountsOK'
  BY RunIsKnown, Journaled, Counted, Kept DEF Shape, Close, Event, Resting, journal
<1>2. RunOK' /\ OwnerOK'
  BY Gone, Returned, Told DEF Shape, Close, Step, Resting, AtTarget, Outcome
<1>. QED  BY <1>1, <1>2, Kept DEF Shape, Close

LEMMA ReportKeeps == Shape /\ Report => Shape'
<1>. SUFFICES ASSUME Shape, Report PROVE Shape'
  OBVIOUS
<1>1. run.op \in Ops /\ rec[run.op].targets # <<>> /\ run.plan \in Plan /\ run.upto \in Nat
      /\ run.upto <= Len(run.plan.targets) /\ UNCHANGED rec
  BY RunIsKnown DEF Shape, RunOK, Run, Report, Resting
<1>2. SettledNow \subseteq Copies
  BY <1>1 DEF SettledNow, Copies, Shape, DiskOK, Folder, Plan
<1>3. JournalOK' /\ CountsOK'
  <2>1. CASE JournalQuietly(run.op, "rolled_back") /\ UNCHANGED settled
    BY <1>1, <2>1, Journaled DEF Shape, Report, Event, JournalQuietly
  <2>2. CASE /\ JournalQuietly(run.op, "failed")
             /\ settled' \in {settled, [settled EXCEPT ![run.op] = SettledNow]}
    <3>1. CountsOK'
      BY <2>2, Counted DEF Shape, Report, JournalQuietly, Journal, AppendFails
    <3>2. status' \in {status, With(run.op, "failed")}
      BY <2>2 DEF JournalQuietly, Journal, AppendFails
    <3>3. settled' \in [Ops -> SUBSET Copies]
      BY <1>1, <1>2, <2>2 DEF Shape, JournalOK
    <3>. QED  BY <1>1, <3>1, <3>2, <3>3 DEF Shape, JournalOK, With, Event
  <2>. QED  BY <2>1, <2>2 DEF Report
<1>4. RunOK' /\ OwnerOK'
  BY <1>1, Gone, Told DEF Shape, Report, Step, Resting, AtTarget, Outcome
<1>. QED  BY <1>3, <1>4, Kept DEF Shape, Report

LEMMA AuditKeeps == Shape /\ Audit => Shape'
<1>. SUFFICES ASSUME Shape, Audit PROVE Shape'
  OBVIOUS
<1>1. RecordsOK'
  BY DEF Shape, RecordsOK, Audit, OplogLine
<1>2. RunOK'
  BY Ended, Gone DEF Shape, Audit, Goto, Step, Resting, AtTarget, journal
<1>. QED  BY <1>1, <1>2, Kept, Counted DEF Shape, Audit

LEMMA TraceKeeps == Shape /\ Trace => Shape'
<1>. SUFFICES ASSUME Shape, Trace PROVE Shape'
  OBVIOUS
<1>1. RecordsOK'
  BY DEF Shape, RecordsOK, Trace
<1>2. RunOK'
  BY Gone DEF Shape, Trace, Step, Resting, AtTarget, journal
<1>. QED  BY <1>1, <1>2, Kept, Counted DEF Shape, Trace

LEMMA CopyKeeps == Shape /\ Copy => Shape'
<1>. SUFFICES ASSUME Shape, Copy PROVE Shape'
  OBVIOUS
<1>1. DiskOK'
  BY KeptCopies DEF Shape, DiskOK, Copy
<1>2. RunOK' /\ OwnerOK'
  BY Gone, GivenUp, Kept DEF Shape, Copy, Step, Resting, AtTarget, Outcome, journal
<1>. QED  BY <1>1, <1>2, Kept, Counted DEF Shape, Copy

LEMMA CopiedKeeps == Shape /\ Copied => Shape'
<1>. SUFFICES ASSUME Shape, Copied PROVE Shape'
  OBVIOUS
<1>1. RecordsOK'
  BY DEF Shape, RecordsOK, Copied, OplogLine
<1>2. RunOK'
  BY Gone DEF Shape, Copied, Step, Resting, AtTarget, journal
<1>. QED  BY <1>1, <1>2, Kept, Counted DEF Shape, Copied

-----------------------------------------------------------------------------
\* Recovery.

LEMMA StartListingKeeps == Shape /\ StartListing => Shape'
<1>. SUFFICES ASSUME Shape, StartListing PROVE Shape'
  OBVIOUS
<1>1. OwnerOK'
  BY DEF Shape, OwnerOK, StartListing
<1>2. RunOK'
  <2>1. game \in BOOLEAN /\ (~game) \in BOOLEAN
    BY DEF Shape, OuterOK
  <2>. DEFINE free == ~game
  <2>2. run' = [NoRun EXCEPT !.pc = "list", !.next = 1, !.free = free]
    BY DEF StartListing
  <2>. HIDE DEF free
  <2>3. /\ run' \in Run /\ run'.pc = "list" /\ run'.op = 0 /\ run'.upto = 0 /\ run'.plan = NoPlan
    BY ZenonT(60), <2>1, <2>2, EmptyTypes DEF Run, NoRun, Step, free
  <2>. QED  BY <2>3, EmptyTypes DEF RunOK, NoPlan, Resting, AtTarget
<1>. QED  BY <1>1, <1>2, Kept, Counted DEF Shape, StartListing

LEMMA RunOnKeeps ==
  ASSUME Shape, NEW o \in Ops, status[o] # "none", UNCHANGED rec,
         NEW mode \in Mode, NEW step \in Step, run' = RunOn(o, mode, step)
  PROVE  RunOK'
<1>1. rec[o] \in Plan /\ rec[o].targets # <<>> /\ o \in Nat /\ live \in Folder /\ run \in Run
  BY DEF Shape, JournalOK, DiskOK, RunOK, Ops
<1>. DEFINE n == Len(rec[o].targets)
            next == IF run.next = 0 THEN 0 ELSE o + 1
<1>2. n \in Nat /\ n \in 1..n /\ next \in Nat /\ run.free \in BOOLEAN
  BY <1>1 DEF Plan, Run
<1>3. run' = [NoRun EXCEPT !.pc = step, !.op = o, !.mode = mode, !.plan = rec[o], !.base = live,
                           !.at = n, !.upto = n, !.next = next, !.free = run.free]
  BY DEF RunOn
<1>4. run'.op = o /\ run'.plan = rec[o] /\ run'.at = n /\ run'.upto = n
  BY <1>3 DEF NoRun
<1>. HIDE DEF n, next
<1>5. run' \in Run
  <2>1. [NoRun EXCEPT !.pc = step, !.op = o, !.mode = mode] \in Run
    BY <1>1, EmptyTypes DEF Run
  <2>. DEFINE r == [NoRun EXCEPT !.pc = step, !.op = o, !.mode = mode]
  <2>2. run' = [r EXCEPT !.plan = rec[o], !.base = live, !.at = n, !.upto = n,
                         !.next = next, !.free = run.free]
    BY <1>3, EmptyTypes DEF Run
  <2>. HIDE DEF r
  <2>. QED  BY ZenonT(60), <1>1, <1>2, <2>1, <2>2 DEF Run, r
<1>. QED  BY <1>1, <1>2, <1>4, <1>5 DEF RunOK, n

LEMMA ChoicesType ==
  ASSUME NEW o \in Ops, status[o] \in {"failed", "validated", "writing"}
  PROVE  Choices(o) \subseteq Choice
<1>1. SlotState(o) \in {"other", "pre", "post", "torn"}
  BY DEF SlotState
<1>. QED  BY <1>1 DEF Choices, Choice

LEMMA ListedKeeps ==
  ASSUME Shape, NEW o \in Ops, run.pc = "list", Listed(o), UNCHANGED <<rec, settled, crashes>>
  PROVE  JournalOK' /\ CountsOK' /\ OwnerOK' /\ RunOK'
<1>1. ASSUME run' = ListNext PROVE RunOK'
  <2>1. run \in Run /\ run.next + 1 \in Nat
    BY DEF Shape, RunOK, Run
  <2>2. /\ run' \in Run /\ run'.pc = "list" /\ run'.op = run.op /\ run'.upto = run.upto
        /\ run'.plan = run.plan
    BY <1>1, <2>1 DEF ListNext, Run
  <2>. QED  BY <2>2 DEF Shape, RunOK, Resting, AtTarget
<1>2. CASE Works /\ run' = ListNext /\ UNCHANGED <<status, owner>>
  BY <1>1, <1>2, Kept, Counted DEF Shape, journal
<1>3. CASE status[o] = "preparing" /\ JournalQuietly(o, "abandoned")
           /\ run' = RunOn(o, "auto", "unmark") /\ UNCHANGED owner
  <2>1. rec[o].targets # <<>>
    BY <1>3 DEF Shape, JournalOK
  <2>2. RunOK'
    BY <1>3, RunOnKeeps DEF Mode, Step
  <2>. QED  BY <1>3, <2>1, <2>2, Journaled, Kept DEF Shape, Event, JournalQuietly
<1>4. CASE status[o] = "validated" /\ Works /\ run' = RunOn(o, "finish", "finalize")
           /\ UNCHANGED <<status, owner>>
  <2>1. RunOK'
    BY <1>4, RunOnKeeps DEF Mode, Step
  <2>. QED  BY <1>4, <2>1, Kept, Counted DEF Shape, journal
<1>5. CASE status[o] = "writing" /\ Works /\ run' = RunOn(o, "auto", "keep")
           /\ UNCHANGED <<status, owner>>
  <2>1. RunOK'
    BY <1>5, RunOnKeeps DEF Mode, Step
  <2>. QED  BY <1>5, <2>1, Kept, Counted DEF Shape, journal
<1>6. CASE /\ \/ status[o] = "failed"
              \/ status[o] = "validated" /\ ~(run.free /\ IsPost(o))
              \/ status[o] = "writing" /\ ~(run.free /\ SlotState(o) = "pre")
           /\ Works /\ run' = ListNext
           /\ offered' = [offered EXCEPT ![o] = Choices(o)]
           /\ UNCHANGED <<status, told>>
  <2>1. Choices(o) \subseteq Choice
    BY <1>6, ChoicesType
  <2>2. OwnerOK'
    BY <1>6, <2>1 DEF Shape, OwnerOK
  <2>. QED  BY <1>1, <1>6, <2>2, Kept, Counted DEF Shape, journal
<1>. QED  BY <1>2, <1>3, <1>4, <1>5, <1>6 DEF Listed

LEMMA ListKeeps == Shape /\ List => Shape'
BY ListedKeeps, Kept DEF Shape, List

LEMMA EndListingKeeps == Shape /\ EndListing => Shape'
<1>. SUFFICES ASSUME Shape, EndListing PROVE Shape'
  OBVIOUS
<1>1. RecordsOK'
  BY DEF Shape, RecordsOK, EndListing
<1>. QED  BY <1>1, Ended, Kept, Counted DEF Shape, EndListing

LEMMA ReportAutoKeeps == Shape /\ ReportAuto => Shape'
<1>. SUFFICES ASSUME Shape, ReportAuto PROVE Shape'
  OBVIOUS
<1>1. OwnerOK'
  BY DEF Shape, OwnerOK, ReportAuto, Choice
<1>2. RunOK'
  BY Ended, Gone DEF Shape, ReportAuto, Step, Resting, AtTarget, journal
<1>. QED  BY <1>1, <1>2, Kept, Counted DEF Shape, ReportAuto

LEMMA ResolveKeeps ==
  ASSUME Shape, NEW o \in Ops, NEW choice \in Choice, Resolve(o, choice)
  PROVE  Shape'
<1>1. OwnerOK'
  BY DEF Shape, OwnerOK, Resolve, Outcome
<1>2. RunOK'
  <2>1. CASE UNCHANGED run
    BY <2>1 DEF Shape, RunOK, Resolve, journal
  <2>2. CASE ~Refused(o, choice)
    <3>1. status[o] # "none" /\ UNCHANGED rec
      BY <2>2 DEF Refused, IsOpen, Open, Resolve, journal
    <3>2. \/ run' = RunOn(o, "leave", "leave")
          \/ run' = RunOn(o, "forward", "rederive")
          \/ run' = RunOn(o, "back", "keep")
      BY <2>2 DEF Resolve, Choice
    <3>. QED  BY <3>1, <3>2, RunOnKeeps DEF Mode, Step
  <2>. QED  BY <2>1, <2>2 DEF Resolve
<1>. QED  BY <1>1, <1>2, Kept, Counted DEF Shape, Resolve

LEMMA RederiveKeeps == Shape /\ Rederive => Shape'
<1>. SUFFICES ASSUME Shape, Rederive PROVE Shape'
  OBVIOUS
<1>1. /\ run.pc \notin Resting /\ UNCHANGED rec /\ run \in Run /\ 1 \in 1..Len(run.plan.targets)
      /\ run.upto <= Len(run.plan.targets)
  BY DEF Rederive, Shape, RunOK, Run, Plan, Resting, journal
<1>2. RunOK' /\ OwnerOK'
  <2>1. CASE run' = [run EXCEPT !.pc = "replan", !.at = 1] /\ UNCHANGED owner
    <3>1. /\ run' \in Run /\ run'.op = run.op /\ run'.plan = run.plan
          /\ run'.at = 1 /\ run'.upto = run.upto
      BY <1>1, <2>1 DEF Run, Step
    <3>. QED  BY <1>1, <2>1, <3>1, MovedOn, Kept DEF Shape
  <2>2. CASE Return("put_back_instead")
    BY <1>1, <2>2, Returned DEF Shape, Outcome
  <2>. QED  BY <2>1, <2>2 DEF Rederive
<1>. QED  BY <1>2, Kept, Counted DEF Shape, Rederive

LEMMA ReplanKeeps == Shape /\ Replan => Shape'
<1>. SUFFICES ASSUME Shape, Replan PROVE Shape'
  OBVIOUS
<1>. DEFINE missing == {f \in Files : live[Slot][f] # Post(f)}
<1>1. /\ run.pc \in AtTarget /\ run.pc \notin Resting /\ UNCHANGED rec /\ run \in Run
      /\ run.upto <= Len(run.plan.targets) /\ run.at \in 1..Len(run.plan.targets)
      /\ Slot \in Slots
  BY AtASlot DEF Replan, AtTarget, Resting, journal, Shape, RunOK
<1>2. DiskOK' /\ RunOK'
  <2>1. CASE run' = NextTarget /\ UNCHANGED <<disk, gone>>
    BY <1>1, <2>1, NextTargetKeeps, Kept DEF Shape
  <2>2. CASE Sweep /\ run' = [run EXCEPT !.pc = "stage", !.todo = missing, !.expect = live[Slot]]
    <3>1. live[Slot] \in [Files -> Content] /\ missing \in SUBSET Files
      BY <1>1 DEF Shape, DiskOK, Folder
    <3>. HIDE DEF missing
    <3>2. /\ run' \in Run /\ run'.op = run.op /\ run'.plan = run.plan
          /\ run'.at = run.at /\ run'.upto = run.upto
      BY <1>1, <2>2, <3>1 DEF Run, Step
    <3>. QED  BY <1>1, <2>2, <3>2, MovedOn, SweepKeeps
  <2>. QED  BY <2>1, <2>2 DEF Replan
<1>. QED  BY <1>2, Kept, Counted DEF Shape, Replan

LEMMA RecoveredKeeps == Shape /\ Recovered => Shape'
<1>. SUFFICES ASSUME Shape, Recovered PROVE Shape'
  OBVIOUS
<1>1. JournalOK' /\ CountsOK'
  BY RunIsKnown, Journaled, Counted, Kept DEF Shape, Recovered, Event, Resting, journal
<1>2. RunOK' /\ OwnerOK'
  BY Gone, Returned, Kept DEF Shape, Recovered, Step, Resting, AtTarget, Outcome
<1>. QED  BY <1>1, <1>2, Kept DEF Shape, Recovered

LEMMA ReportBackKeeps == Shape /\ ReportBack => Shape'
<1>. SUFFICES ASSUME Shape, ReportBack PROVE Shape'
  OBVIOUS
<1>1. JournalOK' /\ CountsOK'
  BY RunIsKnown, Journaled, Counted, Kept DEF Shape, ReportBack, Event, Resting, journal
<1>2. RunOK' /\ OwnerOK'
  BY Gone, Returned, Kept DEF Shape, ReportBack, Step, Resting, AtTarget, Outcome
<1>. QED  BY <1>1, <1>2, Kept DEF Shape, ReportBack

LEMMA RolledBackKeeps == Shape /\ RolledBack => Shape'
<1>. SUFFICES ASSUME Shape, RolledBack PROVE Shape'
  OBVIOUS
<1>1. JournalOK' /\ CountsOK'
  BY RunIsKnown, Journaled, Counted, Kept DEF Shape, RolledBack, Event, Resting, journal
<1>2. RunOK' /\ OwnerOK'
  BY Gone, Returned, Told DEF Shape, RolledBack, Step, Resting, AtTarget, Outcome
<1>. QED  BY <1>1, <1>2, Kept DEF Shape, RolledBack

LEMMA LeaveKeeps == Shape /\ Leave => Shape'
<1>. SUFFICES ASSUME Shape, Leave PROVE Shape'
  OBVIOUS
<1>1. DiskOK'
  BY KeptCopies, PlansAreLists DEF Shape, DiskOK, Leave
<1>2. RunOK' /\ OwnerOK'
  BY Gone, Returned, Kept DEF Shape, Leave, Step, Resting, AtTarget, Outcome, journal
<1>. QED  BY <1>1, <1>2, Kept, Counted DEF Shape, Leave

LEMMA LeftKeeps == Shape /\ Left => Shape'
<1>. SUFFICES ASSUME Shape, Left PROVE Shape'
  OBVIOUS
<1>1. JournalOK' /\ CountsOK'
  BY RunIsKnown, Journaled, Counted, Kept DEF Shape, Left, Event, Resting, journal
<1>2. RunOK' /\ OwnerOK'
  BY Gone, Returned, Told DEF Shape, Left, Step, Resting, AtTarget, Outcome
<1>. QED  BY <1>1, <1>2, SweepKeeps, Kept DEF Shape, Left

-----------------------------------------------------------------------------
\* The game, a sync, a crash.

LEMMA OutsideWriteKeeps ==
  ASSUME Shape, NEW s \in Slots, NEW f \in Files, OutsideWrite(s, f)
  PROVE  Shape'
<1>1. outside + 1 \in 1..MaxOutside /\ outside + 1 \in Nat
  BY BoundsAreNat DEF Shape, OuterOK, OutsideWrite
<1>2. DiskOK'
  BY <1>1 DEF Shape, DiskOK, OutsideWrite, Folder, Content, Game
<1>3. OuterOK'
  <2>1. Moment \in {"no", "swap", "forward"}
    BY DEF Moment
  <2>. QED  BY <1>1, <2>1 DEF Shape, OuterOK, OutsideWrite
<1>4. RunOK' /\ CountsOK'
  BY DEF Shape, RunOK, CountsOK, OutsideWrite, journal
<1>. QED  BY <1>2, <1>3, <1>4, Kept DEF Shape, OutsideWrite

LEMMA GameKeeps == Shape /\ (GameStarts \/ GameStops) => Shape'
<1>. SUFFICES ASSUME Shape, GameStarts \/ GameStops PROVE Shape'
  OBVIOUS
<1>1. OuterOK'
  BY DEF Shape, OuterOK, GameStarts, GameStops
<1>2. RunOK' /\ CountsOK'
  BY DEF Shape, RunOK, CountsOK, GameStarts, GameStops, journal
<1>. QED  BY <1>1, <1>2, Kept DEF Shape, GameStarts, GameStops

LEMMA CrashKeeps == Shape /\ Crash => Shape'
<1>. SUFFICES ASSUME Shape, Crash PROVE Shape'
  OBVIOUS
<1>1. OwnerOK'
  BY DEF Shape, OwnerOK, Crash
<1>2. CountsOK'
  BY BoundsAreNat DEF Shape, CountsOK, Crash
<1>. QED  BY <1>1, <1>2, Ended, Kept DEF Shape, Crash

-----------------------------------------------------------------------------
LEMMA InitIsShape == Init => Shape
<1>. SUFFICES ASSUME Init PROVE Shape
  OBVIOUS
<1>1. DiskOK
  BY DEF Init, DiskOK, Folder, Content, First, Absent
<1>2. JournalOK
  BY EmptyTypes DEF Init, JournalOK, Event, NoPlan
<1>3. RunOK
  BY EmptyTypes DEF Init, RunOK, NoRun, NoPlan, Resting, AtTarget
<1>4. RecordsOK /\ OwnerOK
  BY DEF Init, RecordsOK, OwnerOK, Outcome
<1>5. OuterOK /\ CountsOK
  <2>1. 0 \in 0..MaxOutside /\ 0 \in 0..MaxCrashes /\ 0 \in 0..MaxFaults
    BY BoundsAreNat
  <2>2. game \in BOOLEAN
    BY Zenon DEF Init
  <2>. QED  BY <2>1, <2>2 DEF Init, OuterOK, CountsOK
<1>. QED  BY <1>1, <1>2, <1>3, <1>4, <1>5 DEF Shape

LEMMA ExecuteKeeps == Shape /\ Execute => Shape'
<1>. SUFFICES ASSUME Shape, Execute PROVE Shape'
  OBVIOUS
<1>1. CASE Rollback /\ UNCHANGED <<journal, records, owner, outer, crashes>>
  BY <1>1, RollbackKeepKeeps, RollbackRestoreKeeps, RollbackVerifyKeeps DEF Rollback
<1>. QED
  BY <1>1, StartKeeps, KeepCopyKeeps, PreserveKeeps, SnapshotKeeps, PrepareKeeps, IntendKeeps,
     MarkKeeps, ProbeKeeps, AbandonKeeps, UnmarkKeeps, StageKeeps, CheckKeeps, RenameKeeps,
     ValidateKeeps, ConfirmKeeps, FinalizeKeeps, RecordOplogKeeps, RecordLineageKeeps, CloseKeeps,
     ReportKeeps, AuditKeeps, TraceKeeps, CopyKeeps, CopiedKeeps DEF Execute

LEMMA RecoverKeeps == Shape /\ Recover => Shape'
BY StartListingKeeps, ListKeeps, EndListingKeeps, ReportAutoKeeps, ResolveKeeps, RederiveKeeps,
   ReplanKeeps, RecoveredKeeps, ReportBackKeeps, RolledBackKeeps, LeaveKeeps, LeftKeeps DEF Recover

LEMMA OuterKeeps == Shape /\ Outer => Shape'
BY OutsideWriteKeeps, GameKeeps, CrashKeeps DEF Outer

LEMMA StutterKeeps == Shape /\ UNCHANGED vars => Shape'
<1>. SUFFICES ASSUME Shape, UNCHANGED vars PROVE Shape'
  OBVIOUS
<1>1. RunOK' /\ CountsOK'
  BY DEF Shape, RunOK, CountsOK, vars, journal
<1>. QED  BY <1>1, Kept DEF Shape, vars

LEMMA NextKeeps == Shape /\ [Next]_vars => Shape'
BY ExecuteKeeps, RecoverKeeps, OuterKeeps, StutterKeeps DEF Next

\* The typing invariant: a run works on an op of the journal, on a target of its plan.
THEOREM ShapeHolds == Spec => []Shape
<1>1. Init => Shape
  BY InitIsShape
<1>. QED  BY <1>1, NextKeeps, PTL DEF Spec

\* Every variable keeps its type, for any slots, files, orders, target lists
\* and bounds.
THEOREM TypeCorrect == Spec => []TypeOK
BY ShapeHolds, ShapeIsTyped, PTL

-----------------------------------------------------------------------------
(***************************************************************************)
(* What a live operation writes over can always be put back (CanGoBack),   *)
(* proved for any slots, files, target lists and bounds.                   *)
(*                                                                         *)
(* CanGoBack is not inductive: a rename puts the plan's new bytes into the *)
(* slot, so the plan itself must be vouched for before; and the plan is    *)
(* made from a look at the slot that came after the safety snapshot.  The  *)
(* strengthening Vouched says, of every plan in memory or in the journal,  *)
(* that the vault holds its old contents; of the snapshot in memory, that  *)
(* the vault holds it; and of every place an op's bytes may be in, that it *)
(* is a target of that op's record.                                        *)
(***************************************************************************)

\* The vault holds all the slots T of a folder.
Backed(folder, T) == \A s \in T, f \in Files :
                       folder[s][f] = Absent \/ <<s, f, folder[s][f]>> \in vault

\* A folder has an op's bytes only in that op's targets.
Placed(folder) == \A s \in Slots, f \in Files, p \in Ops :
                    folder[s][f] = Op(p) => s \in Targets(rec[p])

VouchedPlan(p) == Placed(p.pre) /\ Placed(p.post) /\ Backed(p.pre, Targets(p))

Vouched == /\ Placed(live)
           /\ \A o \in Ops : VouchedPlan(rec[o])
           /\ VouchedPlan(run.plan)
           /\ run.pc = "prepare" => Backed(run.snap, Slots)

LEMMA VouchedCanGoBack == Vouched => CanGoBack
BY DEF Vouched, VouchedPlan, Placed, Backed, CanGoBack, Holds

LEMMA NothingPlanned == VouchedPlan(NoPlan)
BY DEF VouchedPlan, Placed, Backed, NoPlan, Empty, Absent, Op, Targets, Members

-----------------------------------------------------------------------------
\* Most steps write no file and no plan.

SamePlan == run'.plan \in {run.plan, NoPlan} /\ run'.pc # "prepare"

Quiet == /\ UNCHANGED <<live, rec>>
         /\ vault \subseteq vault'
         /\ UNCHANGED run \/ SamePlan

LEMMA QuietKeeps == Shape /\ Vouched /\ Quiet => Vouched'
<1>. SUFFICES ASSUME Shape, Vouched, Quiet PROVE Vouched'
  OBVIOUS
<1>1. VouchedPlan(run'.plan)
  BY NothingPlanned DEF Vouched, Quiet, SamePlan
<1>2. \A p : VouchedPlan(p) =>
         /\ \A s \in Slots, f \in Files, o \in Ops :
              /\ p.pre[s][f] = Op(o) => s \in Targets(rec'[o])
              /\ p.post[s][f] = Op(o) => s \in Targets(rec'[o])
         /\ \A s \in Targets(p), f \in Files :
              p.pre[s][f] = Absent \/ <<s, f, p.pre[s][f]>> \in vault'
  BY DEF VouchedPlan, Placed, Backed, Quiet
<1>3. \A o \in Ops : VouchedPlan(rec[o])'
  BY <1>2 DEF Vouched, VouchedPlan, Placed, Backed, Quiet
<1>4. VouchedPlan(run.plan)'
  BY <1>1, <1>2 DEF VouchedPlan, Placed, Backed
<1>5. Placed(live)'
  BY DEF Vouched, Placed, Quiet
<1>6. run'.pc = "prepare" => Backed(run.snap, Slots)'
  BY DEF Vouched, Backed, Quiet, SamePlan
<1>. QED  BY <1>3, <1>4, <1>5, <1>6 DEF Vouched


LEMMA Going ==
  Shape => /\ \A step \in Step \ {"prepare"} : Goto(step) => SamePlan
           /\ \A what : GiveUp(what) \/ Return(what) => SamePlan
           /\ run' = NoRun \/ run' = Resume => SamePlan
<1>. SUFFICES ASSUME Shape
     PROVE  /\ \A step \in Step \ {"prepare"} : Goto(step) => SamePlan
            /\ \A what : GiveUp(what) \/ Return(what) => SamePlan
            /\ run' = NoRun \/ run' = Resume => SamePlan
  OBVIOUS
<1>1. \A step \in Step \ {"prepare"} : Goto(step) => SamePlan
  BY DEF Goto, SamePlan, Shape, RunOK, Run
<1>2. run' = NoRun \/ run' = Resume => SamePlan
  <2>1. NoRun.plan = NoPlan /\ NoRun.pc = "idle"
    BY DEF NoRun
  <2>2. Resume.plan = NoPlan /\ Resume.pc \in {"idle", "list"}
    BY <2>1 DEF Resume, NoRun
  <2>. QED  BY <2>1, <2>2 DEF SamePlan
<1>. QED  BY <1>1, <1>2 DEF GiveUp, Return, Step

LEMMA Stopping ==
  ASSUME Shape
  PROVE  /\ \A n : StopWriting(n) => SamePlan
         /\ \A i, bad : BackTo(i, bad) => SamePlan
         /\ run.pc \in AtTarget /\ run' = NextTarget => SamePlan
         /\ \A f, bad : run.pc = "restore" /\ Restored(f, bad) => SamePlan
<1>1. run \in Run
  BY DEF Shape, RunOK
<1>2. \A n : StopWriting(n) => SamePlan
  BY <1>1, Going DEF StopWriting, SamePlan, Run
<1>3. \A i, bad : BackTo(i, bad) => SamePlan
  BY <1>1 DEF BackTo, SamePlan, Run
<1>4. run.pc \in AtTarget /\ run' = NextTarget => SamePlan
  BY <1>1 DEF NextTarget, SamePlan, Run
<1>5. \A f, bad : run.pc = "restore" /\ Restored(f, bad) => SamePlan
  BY <1>1 DEF Restored, SamePlan, Run
<1>. QED  BY <1>2, <1>3, <1>4, <1>5

\* The steps that keep, record, report and end an operation.
LEMMA PreserveIsQuiet == Shape /\ Preserve => Quiet
BY Going DEF Preserve, Quiet, Step, journal

LEMMA MarkingIsQuiet == Shape /\ (Mark \/ Abandon \/ Unmark) => Quiet
BY Going DEF Mark, Abandon, Unmark, Quiet, Step, disk, journal

LEMMA ProbeIsQuiet == Shape /\ Probe => Quiet
<1>. SUFFICES ASSUME Shape, Probe PROVE SamePlan
  BY DEF Probe, Quiet, disk, journal
<1>1. run \in Run
  BY DEF Shape, RunOK
<1>. QED  BY <1>1, Going DEF Probe, SamePlan, Run

LEMMA StagingIsQuiet == Shape /\ (Stage \/ Check \/ Validate) => Quiet
<1>. SUFFICES ASSUME Shape, Stage \/ Check \/ Validate PROVE Quiet
  OBVIOUS
<1>1. SamePlan
  BY Going, Stopping DEF Stage, Check, Validate, Step
<1>. QED  BY <1>1 DEF Stage, Check, Validate, StageFiles, Sweep, Quiet, disk, journal

LEMMA RecordingIsQuiet ==
  Shape /\ (Confirm \/ Finalize \/ RecordOplog \/ RecordLineage \/ Close) => Quiet
BY Going DEF Confirm, Finalize, Sweep, RecordOplog, RecordLineage, Close, Quiet, Step, disk, journal

LEMMA ReportingIsQuiet == Shape /\ (Report \/ Audit \/ Trace) => Quiet
<1>. SUFFICES ASSUME Shape, Report \/ Audit \/ Trace PROVE Quiet
  OBVIOUS
<1>1. SamePlan
  BY Going DEF Report, Audit, Trace, Goto, Step
<1>. QED  BY <1>1 DEF Report, Audit, Trace, Quiet, disk, journal

LEMMA CopyingIsQuiet == Shape /\ (Copy \/ Copied) => Quiet
BY Going DEF Copy, Copied, Quiet, Step, disk, journal

LEMMA RollbackIsQuiet ==
  ASSUME Shape, RollbackKeep \/ RollbackVerify, UNCHANGED <<journal, records, owner, outer, crashes>>
  PROVE  Quiet
<1>1. run \in Run
  BY DEF Shape, RunOK
<1>2. SamePlan
  BY <1>1, Stopping DEF RollbackKeep, RollbackVerify, SamePlan, Run
<1>. QED  BY <1>2 DEF RollbackKeep, RollbackVerify, Sweep, Quiet, journal

LEMMA ListingIsQuiet == Shape /\ (StartListing \/ EndListing \/ ReportAuto) => Quiet
<1>. SUFFICES ASSUME Shape, StartListing \/ EndListing \/ ReportAuto PROVE Quiet
  OBVIOUS
<1>1. SamePlan
  BY ZenonT(60), Going DEF StartListing, EndListing, ReportAuto, SamePlan, NoRun, Step
<1>. QED  BY <1>1 DEF StartListing, EndListing, ReportAuto, Quiet, disk, journal

LEMMA ForwardIsQuiet == Shape /\ (Rederive \/ Replan \/ Recovered) => Quiet
<1>. SUFFICES ASSUME Shape, Rederive \/ Replan \/ Recovered PROVE Quiet
  OBVIOUS
<1>1. run \in Run
  BY DEF Shape, RunOK
<1>2. SamePlan
  BY <1>1, Going, Stopping DEF Rederive, Replan, Recovered, AtTarget, SamePlan, Run, Step
<1>. QED  BY <1>2 DEF Rederive, Replan, Recovered, Sweep, Quiet, disk, journal

LEMMA BackIsQuiet == Shape /\ (ReportBack \/ RolledBack \/ Leave \/ Left) => Quiet
BY Going DEF ReportBack, RolledBack, Leave, Left, Sweep, Quiet, Step, disk, journal

LEMMA OuterIsQuiet == Shape /\ (GameStarts \/ GameStops \/ Crash \/ UNCHANGED vars) => Quiet
BY Going DEF GameStarts, GameStops, Crash, Quiet, vars, disk, journal

-----------------------------------------------------------------------------
\* The steps that write a plan or a file.

\* A copy of a folder vouches for it.
LEMMA CopiedIsBacked ==
  ASSUME NEW folder \in Folder, CopiesOf(folder, Slots, Files) \subseteq vault'
  PROVE  \A s \in Slots, f \in Files :
           folder[s][f] = Absent \/ <<s, f, folder[s][f]>> \in vault'
BY DEF CopiesOf, Folder

LEMMA SnapshotVouches == Shape /\ Vouched /\ Snapshot => Vouched'
<1>. SUFFICES ASSUME Shape, Vouched, Snapshot PROVE Vouched'
  OBVIOUS
<1>1. CASE /\ vault' = vault \cup CopiesOf(live, Slots, Files)
           /\ run' = [run EXCEPT !.pc = "prepare", !.snap = live]
  <2>1. run'.plan = run.plan /\ run'.snap = live
    BY <1>1 DEF Shape, RunOK, Run
  <2>2. UNCHANGED <<live, rec>> /\ vault \subseteq vault'
    BY <1>1 DEF Snapshot, journal
  <2>3. Backed(run.snap, Slots)'
    BY <1>1, <2>1, CopiedIsBacked DEF Shape, DiskOK, Backed
  <2>. QED  BY <2>1, <2>2, <2>3 DEF Vouched, VouchedPlan, Placed, Backed
<1>2. CASE GiveUp("refused") /\ UNCHANGED vault
  BY <1>2, Going, QuietKeeps DEF Quiet, Snapshot, journal
<1>. QED  BY <1>1, <1>2 DEF Snapshot

LEMMA PrepareVouches ==
  ASSUME Shape, Vouched, NEW same \in SameSets, Prepare(same)
  PROVE  Vouched'
<1>. DEFINE T == Targets(run.plan)
<1>1. run \in Run /\ run.plan \in Plan /\ run.pc = "prepare" /\ UNCHANGED <<live, vault, rec>>
      /\ run.op \in Ops /\ rec[run.op].targets = run.plan.targets /\ T \subseteq Slots
  BY TargetsType DEF Shape, RunOK, Run, Prepare, Resting, disk, journal
<1>2. CASE /\ StillSafe(T)
           /\ run' = [run EXCEPT !.pc = "intend", !.plan.pre = live,
                                 !.plan.post = PlannedPost(run.op, T, same),
                                 !.base = live, !.snap = Empty]
  <2>1. /\ run'.plan.pre = live /\ run'.plan.post = PlannedPost(run.op, T, same)
        /\ run'.plan.targets = run.plan.targets /\ run'.pc = "intend"
    BY <1>1, <1>2 DEF Run, Plan
  <2>2. Backed(run'.plan.pre, T)
    BY <1>1, <1>2, <2>1 DEF Vouched, Backed, StillSafe
  <2>3. Placed(PlannedPost(run.op, T, same))
    <3>1. ASSUME NEW s \in Slots, NEW f \in Files, NEW p \in Ops,
                 PlannedPost(run.op, T, same)[s][f] = Op(p)
          PROVE  s \in Targets(rec[p])
      <4>1. CASE s \notin T \/ (f \in same /\ live[s][f] # Absent)
        BY <3>1, <4>1 DEF PlannedPost, Vouched, Placed
      <4>2. CASE ~(s \notin T \/ (f \in same /\ live[s][f] # Absent))
        <5>1. Op(run.op) = Op(p) /\ s \in T
          BY <3>1, <4>2 DEF PlannedPost
        <5>. QED  BY <1>1, <5>1 DEF Op, Targets
      <4>. QED  BY <4>1, <4>2
    <3>. QED  BY <3>1 DEF Placed
  <2>. QED  BY <1>1, <2>1, <2>2, <2>3 DEF Vouched, VouchedPlan, Placed, Backed, Targets
<1>3. CASE GiveUp("refused")
  BY <1>1, <1>3, Going, QuietKeeps DEF Quiet
<1>. QED  BY <1>2, <1>3 DEF Prepare

LEMMA IntendVouches == Shape /\ Vouched /\ Intend => Vouched'
<1>. SUFFICES ASSUME Shape, Vouched, Intend PROVE Vouched'
  OBVIOUS
<1>1. /\ UNCHANGED <<live, vault>> /\ SamePlan
      /\ run.op \in Ops /\ rec \in [Ops -> Plan] /\ rec[run.op].targets = run.plan.targets
  BY Going DEF Intend, disk, Shape, RunOK, JournalOK, Resting, Step
<1>2. CASE rec' = [rec EXCEPT ![run.op] = run.plan]
  <2>1. \A o \in Ops : Targets(rec'[o]) = Targets(rec[o])
    BY <1>1, <1>2 DEF Targets
  <2>2. \A p : VouchedPlan(p) => VouchedPlan(p)'
    BY <1>1, <2>1 DEF VouchedPlan, Placed, Backed
  <2>3. \A o \in Ops : VouchedPlan(rec'[o])
    BY <1>1, <1>2 DEF Vouched
  <2>4. VouchedPlan(run'.plan)
    BY <1>1, NothingPlanned DEF SamePlan, Vouched
  <2>5. (\A o \in Ops : VouchedPlan(rec[o]))' /\ VouchedPlan(run.plan)'
    BY <1>1, <2>1, <2>3, <2>4 DEF VouchedPlan, Placed, Backed
  <2>6. Placed(live)'
    BY <1>1, <2>1 DEF Vouched, Placed
  <2>. QED  BY <1>1, <2>5, <2>6 DEF Vouched, SamePlan
<1>3. CASE UNCHANGED rec
  BY <1>1, <1>3, QuietKeeps DEF Quiet
<1>. QED  BY <1>2, <1>3 DEF Intend, Intended

\* A new op had no target before, so no file holds its bytes yet.
LEMMA BeginVouches ==
  ASSUME Shape, Vouched, NEW o \in Ops, NEW kind, NEW ts \in Seq(Slots), NEW ord,
         NEW step \in {"preserve", "copy"}, Begin(o, kind, ts, ord, step)
  PROVE  Vouched'
<1>. DEFINE p == NewPlan(kind, ts, ord)
<1>1. /\ rec \in [Ops -> Plan] /\ rec' = [rec EXCEPT ![o] = p] /\ UNCHANGED <<live, vault>>
      /\ rec[o].targets = <<>>
  BY DEF Begin, disk, Shape, JournalOK
<1>2. (run'.plan = p /\ run'.pc = step) \/ (UNCHANGED run /\ run.pc = "idle")
  BY DEF Begin, NoRun
<1>3. p.pre = Empty /\ p.post = Empty /\ Targets(p) \subseteq Slots
  BY DEF NewPlan, NoPlan, Targets, Members
<1>4. \A q \in Ops : Targets(rec[q]) \subseteq Targets(rec'[q])
  BY <1>1 DEF Targets, Members
<1>5. VouchedPlan(p)'
  <2>. HIDE DEF p
  <2>. QED  BY <1>3 DEF VouchedPlan, Placed, Backed, Empty, Absent, Op
<1>. HIDE DEF p
<1>6. \A q \in Ops \ {o} : VouchedPlan(rec[q])'
  BY <1>1, <1>4 DEF Vouched, VouchedPlan, Placed, Backed
<1>7. VouchedPlan(rec[o])'
  BY <1>1, <1>5 DEF VouchedPlan, Placed, Backed
<1>8. Placed(live)' /\ VouchedPlan(run.plan)'
  <2>1. Placed(live)'
    BY <1>1, <1>4 DEF Vouched, Placed
  <2>2. CASE run'.plan = p
    BY <1>1, <1>4, <1>5, <2>2 DEF Vouched, VouchedPlan, Placed, Backed
  <2>3. CASE UNCHANGED run
    BY <1>1, <1>4, <2>3 DEF Vouched, VouchedPlan, Placed, Backed
  <2>. QED  BY <1>2, <2>1, <2>2, <2>3
<1>. QED  BY <1>2, <1>6, <1>7, <1>8 DEF Vouched

\* One file gets bytes that a vouched folder has there.
LEMMA WriteVouches ==
  ASSUME Shape, Vouched, SamePlan, NEW s \in Slots, NEW f \in Files, NEW c,
         \A p \in Ops : c = Op(p) => s \in Targets(rec[p]),
         live' = [live EXCEPT ![s][f] = c], UNCHANGED <<vault, rec>>
  PROVE  Vouched'
<1>1. live \in Folder
  BY DEF Shape, DiskOK
<1>2. Placed(live)'
  <2>1. ASSUME NEW t \in Slots, NEW g \in Files, NEW p \in Ops, live'[t][g] = Op(p)
        PROVE  t \in Targets(rec'[p])
    <3>1. CASE t = s /\ g = f
      BY <1>1, <2>1, <3>1 DEF Folder
    <3>2. CASE ~(t = s /\ g = f)
      BY <1>1, <2>1, <3>2 DEF Folder, Vouched, Placed
    <3>. QED  BY <3>1, <3>2
  <2>. QED  BY <2>1 DEF Placed
<1>3. VouchedPlan(run'.plan)
  BY NothingPlanned DEF Vouched, SamePlan
<1>4. VouchedPlan(run.plan)' /\ (\A o \in Ops : VouchedPlan(rec[o]))'
  BY <1>3 DEF Vouched, VouchedPlan, Placed, Backed
<1>. QED  BY <1>2, <1>4 DEF Vouched, SamePlan

LEMMA RenameVouches ==
  ASSUME Shape, Vouched, NEW f \in Files, Rename(f)
  PROVE  Vouched'
<1>2. CASE /\ RenameFile(f)
           /\ \/ run' = IF run.todo = {f} THEN NextTarget ELSE [run EXCEPT !.todo = @ \ {f}]
              \/ StopWriting(run.at)
  <2>1. run \in Run /\ Slot \in Slots /\ run.pc = "rename"
    BY AtASlot DEF Rename, AtTarget
  <2>2. SamePlan
    BY <1>2, <2>1, Stopping DEF SamePlan, AtTarget, Run
  <2>5. UNCHANGED journal
    BY DEF Rename
  <2>3. live' = [live EXCEPT ![Slot][f] = Post(f)] /\ UNCHANGED <<vault, rec>>
    BY <1>2, <2>5 DEF RenameFile, Put, journal
  <2>4. \A p \in Ops : Post(f) = Op(p) => Slot \in Targets(rec[p])
    BY <2>1 DEF Vouched, VouchedPlan, Placed, Post
  <2>. QED  BY <2>1, <2>2, <2>3, <2>4, WriteVouches
<1>3. CASE StopWriting(run.at) /\ UNCHANGED <<disk, gone>>
  BY <1>3, Stopping, QuietKeeps DEF Rename, Quiet, disk, journal
<1>. QED  BY <1>2, <1>3 DEF Rename

LEMMA RestoreVouches ==
  ASSUME Shape, Vouched, NEW f \in Files, RollbackRestore(f), UNCHANGED journal
  PROVE  Vouched'
<1>1. run \in Run /\ Slot \in Slots /\ SamePlan /\ UNCHANGED <<vault, rec>>
  BY AtASlot, Stopping DEF RollbackRestore, AtTarget, journal
<1>2. CASE Put(Slot, f, Pre(f))
  <2>1. \A p \in Ops : Pre(f) = Op(p) => Slot \in Targets(rec[p])
    BY <1>1 DEF Vouched, VouchedPlan, Placed, Pre
  <2>. QED  BY <1>1, <1>2, <2>1, WriteVouches DEF Put
<1>3. CASE UNCHANGED live
  BY <1>1, <1>3, QuietKeeps DEF Quiet
<1>. QED  BY <1>2, <1>3 DEF RollbackRestore

LEMMA OutsideWriteVouches ==
  ASSUME Shape, Vouched, NEW s \in Slots, NEW f \in Files, OutsideWrite(s, f)
  PROVE  Vouched'
<1>1. /\ live' = [live EXCEPT ![s][f] = Game(outside + 1)] /\ UNCHANGED <<vault, rec, run>>
      /\ live \in Folder
  BY DEF OutsideWrite, journal, Shape, DiskOK
<1>2. Placed(live)'
  BY <1>1 DEF Vouched, Placed, Folder, Game, Op
<1>. QED  BY <1>1, <1>2 DEF Vouched, VouchedPlan, Placed, Backed

\* Recovery works with the plan of the journal.
LEMMA RunOnVouches ==
  ASSUME Shape, Vouched, NEW o \in Ops, NEW mode, NEW step \in Step \ {"prepare"},
         run' = RunOn(o, mode, step), UNCHANGED <<live, vault, rec>>
  PROVE  Vouched'
<1>1. run'.plan = rec[o] /\ run'.pc = step
  BY DEF RunOn, NoRun
<1>. QED  BY <1>1 DEF Vouched, VouchedPlan, Placed, Backed

LEMMA ListVouches == Shape /\ Vouched /\ List => Vouched'
<1>. SUFFICES ASSUME Shape, Vouched, List PROVE Vouched'
  OBVIOUS
<1>1. UNCHANGED <<live, vault, rec>> /\ run.next \in Ops
  BY DEF List, disk
<1>2. CASE run' = ListNext
  <2>1. SamePlan
    BY <1>2 DEF List, ListNext, SamePlan, Shape, RunOK, Run
  <2>. QED  BY <1>1, <2>1, QuietKeeps DEF Quiet
<1>3. CASE \/ run' = RunOn(run.next, "auto", "unmark")
           \/ run' = RunOn(run.next, "finish", "finalize")
           \/ run' = RunOn(run.next, "auto", "keep")
  BY <1>1, <1>3, RunOnVouches DEF Step
<1>. QED  BY <1>2, <1>3 DEF List, Listed

LEMMA ResolveVouches ==
  ASSUME Shape, Vouched, NEW o \in Ops, NEW choice \in Choice, Resolve(o, choice)
  PROVE  Vouched'
<1>1. UNCHANGED <<live, vault, rec>>
  BY DEF Resolve, disk, journal
<1>2. CASE UNCHANGED run
  BY <1>1, <1>2, QuietKeeps DEF Quiet
<1>3. CASE \/ run' = RunOn(o, "leave", "leave")
           \/ run' = RunOn(o, "forward", "rederive")
           \/ run' = RunOn(o, "back", "keep")
  BY <1>1, <1>3, RunOnVouches DEF Step
<1>. QED  BY <1>2, <1>3 DEF Resolve, Choice

-----------------------------------------------------------------------------
LEMMA InitIsVouched == Init => Vouched
<1>. SUFFICES ASSUME Init PROVE Vouched
  OBVIOUS
<1>1. Placed(live)
  BY DEF Init, Placed, First, Absent, Op
<1>. QED  BY <1>1, NothingPlanned DEF Init, Vouched, NoRun

LEMMA ExecuteVouches == Shape /\ Vouched /\ Execute => Vouched'
<1>. SUFFICES ASSUME Shape, Vouched, Execute PROVE Vouched'
  OBVIOUS
<1>1. ASSUME NEW o \in Ops, NEW ts \in TargetLists, NEW ord \in Orders, Start(o, ts, ord)
      PROVE  Vouched'
  BY <1>1, BeginVouches, PlansAreLists DEF Start
<1>2. ASSUME NEW o \in Ops, NEW s \in Slots, KeepCopy(o, s)
      PROVE  Vouched'
  <2>1. <<s>> \in Seq(Slots)
    OBVIOUS
  <2>. QED  BY <1>2, <2>1, BeginVouches DEF KeepCopy
<1>3. CASE Rollback /\ UNCHANGED <<journal, records, owner, outer, crashes>>
  BY <1>3, RollbackIsQuiet, RestoreVouches, QuietKeeps DEF Rollback
<1>4. CASE Preserve \/ Mark \/ Probe \/ Abandon \/ Unmark \/ Stage \/ Check \/ Validate
           \/ Confirm \/ Finalize \/ RecordOplog \/ RecordLineage \/ Close
           \/ Report \/ Audit \/ Trace \/ Copy \/ Copied
  BY <1>4, QuietKeeps, PreserveIsQuiet, MarkingIsQuiet, ProbeIsQuiet, StagingIsQuiet,
     RecordingIsQuiet, ReportingIsQuiet, CopyingIsQuiet
<1>. QED  BY <1>1, <1>2, <1>3, <1>4, SnapshotVouches, PrepareVouches, IntendVouches,
             RenameVouches DEF Execute

LEMMA RecoverVouches == Shape /\ Vouched /\ Recover => Vouched'
BY QuietKeeps, ListingIsQuiet, ListVouches, ResolveVouches, ForwardIsQuiet, BackIsQuiet DEF Recover

LEMMA OuterVouches == Shape /\ Vouched /\ (Outer \/ UNCHANGED vars) => Vouched'
BY QuietKeeps, OuterIsQuiet, OutsideWriteVouches DEF Outer

\* The old content of every file an operation may touch is in the vault before the
\* operation's bytes are in the folder (execute.py's preserve and snapshot steps).
THEOREM VouchedHolds == Spec => []Vouched
<1>1. Init => Vouched
  BY InitIsVouched
<1>2. Shape /\ Vouched /\ [Next]_vars => Vouched'
  BY ExecuteVouches, RecoverVouches, OuterVouches DEF Next
<1>. QED  BY <1>1, <1>2, ShapeHolds, PTL DEF Spec

\* What any operation wrote over can be put back from the vault, at every
\* moment and after any crashes, failures and writes of the game.
THEOREM AlwaysCanGoBack == Spec => []CanGoBack
BY VouchedHolds, VouchedCanGoBack, PTL

-----------------------------------------------------------------------------
(* Where a run stands, and what the journal says of its operation.          *)

\* The steps of a run, by what the journal says of its op.
Early     == {"preserve", "snapshot", "prepare", "intend", "copy", "copied"}
Armed     == {"mark", "probe"}
Writing   == {"stage", "check", "rename", "validate"}
Recording == {"finalize", "oplog", "lineage"}
Backward  == {"keep", "restore", "verify", "report"}
Unbound   == Resting \cup {"intend", "abandon", "unmark"}
Begun     == {"writing", "validated", "failed"}
Unwritten == {"none", "preparing"}

\* Which mode a step belongs to.
ModeAt ==
  /\ run.pc \in Early \cup Armed                     => run.mode = "execute"
  /\ run.pc \in Writing \cup {"confirm"}             => run.mode \in {"execute", "forward"}
  /\ run.pc \in {"rederive", "replan", "recovered"}  => run.mode = "forward"
  /\ run.pc \in Recording \cup {"close"}             => run.mode \in {"execute", "forward", "finish"}
  /\ run.pc \in Backward                             => run.mode \in {"execute", "back", "auto"}
  /\ run.pc \in {"audit", "trace"}                   => run.mode \in {"execute", "back"}
  /\ run.pc = "rolled_back"                          => run.mode = "back"
  /\ run.pc = "abandon"                              => run.mode \in {"execute", "auto"}
  /\ run.pc \in {"leave", "left"}                    => run.mode = "leave"

StatusAt ==
  LET s == status[run.op]
      m == run.mode
      p == run.pc
  IN
  /\ p \in Early                               => s = "preparing"
  /\ p \in Armed                               => s = "writing"
  /\ p \in Writing \cup {"confirm"} /\ m = "execute" => s = "writing"
  /\ p \in Writing \cup {"rederive", "replan", "recovered"} => s \in {"writing", "validated"}
  /\ p = "confirm" /\ m = "forward"            => s = "recovered"
  /\ p \in Recording                           => s = "validated"
  /\ p = "close" => s = IF run.plan.kind = "keep" THEN "preparing" ELSE "validated"
  /\ p = "abandon"                             => s \in {"preparing", "writing"}
  /\ p \in Backward                            => s \in Begun
  /\ p \in Backward /\ m \in {"execute", "auto"} => s = "writing"
  /\ p = "rolled_back"                         => s = "recovered" /\ ~run.problem
  /\ p \in {"leave", "left"}                   => s \in Begun
  /\ p = "audit" /\ run.problem                => s \in {"failed", "writing"} /\ m = "execute"
  /\ p = "audit" /\ ~run.problem               => s \in {"rolled_back", "writing"}
  /\ p = "trace"                               => s \in {"rolled_back", "writing"}
  /\ p = "unmark"                              => s \notin {"none", "validated", "failed", "recovered"}
  /\ p \in {"audit", "trace", "unmark"} /\ m \in {"back", "forward", "finish", "leave"} => ~IsOpen(run.op)

\* A run works with the plan of the journal; a copy writes nothing.
PlanAt ==
  /\ run.pc \in Resting => run.op = 0
  /\ run.pc \notin Resting => /\ run.plan.kind = rec[run.op].kind
                              /\ run.plan.kind \in {"place", "keep"}
  /\ run.pc \notin Unbound => run.plan = rec[run.op]
  /\ run.pc \in {"copy", "copied"} => run.plan.kind = "keep"
  /\ run.pc \notin Resting \cup {"copy", "copied", "abandon", "unmark", "close"} => run.plan.kind = "place"
  /\ run.pc = "report" => run.at = 0
  /\ run.next # 0 => run.mode \in {"none", "auto", "finish"}
  /\ run.next # 0 /\ run.op # 0 => run.next = run.op + 1
  /\ run.pc = "idle" => run.next = 0

\* No run on an op that the owner did not decide finds an offer of it; a listing
\* has offered nothing yet of the ops it has still to look at.
OffersAt ==
  /\ run.mode \in {"execute", "auto", "finish"} /\ run.op \in Ops => offered[run.op] = {}
  /\ run.next # 0 => \A o \in Ops : o >= run.next => offered[o] = {}

\* Only a failed op has leftovers of its own on record, and it is not written forward.
SettledAt == run.mode = "forward" /\ run.op \in Ops => settled[run.op] = {}

RunPhase == ModeAt /\ StatusAt /\ PlanAt /\ OffersAt /\ SettledAt

\* What one op's records say together: a move once it was more than begun, an offer
\* only after the write-ahead record, leftovers only after a failure.
JournalPhase ==
  \A o \in Ops :
    /\ status[o] # "none" => rec[o].kind \in {"place", "keep"}
    /\ status[o] \in Begun \cup {"recovered", "rolled_back", "left"} => rec[o].kind = "place"
    /\ offered[o] # {} => status[o] \notin Unwritten
    /\ settled[o] # {} => status[o] \notin Unwritten \cup {"writing", "validated", "done"}

Phase == RunPhase /\ JournalPhase
Sound == Shape /\ Phase

-----------------------------------------------------------------------------
\* How a step moves the run: on to another step of the same run, or to its end.

Goes(step) == /\ run'.pc = step
              /\ run'.op = run.op /\ run'.mode = run.mode /\ run'.plan = run.plan
              /\ run'.next = run.next

Ends == /\ run'.op = 0 /\ run'.mode = "none"
        /\ \/ run'.pc = "idle" /\ run'.next = 0
           \/ run'.pc = "list" /\ run'.next = run.next

\* A step that writes no plan, offers nothing new and touches only its own op's status.
Tame == /\ UNCHANGED <<rec, settled>>
        /\ \A o \in Ops : offered'[o] \in {offered[o], {}}
        /\ \A o \in Ops : o # run.op => status'[o] = status[o]

LEMMA StepsGo ==
  ASSUME Shape
  PROVE  /\ \A step \in Step : Goto(step) => Goes(step) /\ run'.at = run.at /\ run'.problem = run.problem
         /\ \A what : GiveUp(what) => Goes("abandon")
         /\ \A what : Return(what) => Ends
         /\ run' = NoRun \/ run' = Resume => Ends
<1>1. run \in Run
  BY DEF Shape, RunOK
<1>2. run' = NoRun \/ run' = Resume => Ends
  <2>1. CASE run' = NoRun
    BY <2>1 DEF NoRun, Ends, Resting
  <2>2. CASE run' = Resume /\ run.next # 0
    <3>1. run' = [NoRun EXCEPT !.pc = "list", !.next = run.next, !.free = run.free]
      BY <2>2 DEF Resume
    <3>. QED  BY <3>1 DEF NoRun, Ends, Resting
  <2>. QED  BY <2>1, <2>2 DEF Resume
<1>3. \A step \in Step : Goto(step) => Goes(step) /\ run'.at = run.at /\ run'.problem = run.problem
  BY <1>1 DEF Goto, Goes, Run
<1>. QED  BY <1>2, <1>3 DEF Return, GiveUp, Step

LEMMA OwnerTame ==
  ASSUME Shape
  PROVE  /\ \A what : Tell(what) => \A o \in Ops : offered'[o] \in {offered[o], {}}
         /\ UNCHANGED owner => \A o \in Ops : offered'[o] \in {offered[o], {}}
BY DEF Shape, OwnerOK, Tell, owner

LEMMA StatusTame ==
  ASSUME Shape, NEW o \in Ops, NEW e
  PROVE  /\ Journal(o, e) => /\ status'[o] = e
                            /\ \A p \in Ops \ {o} : status'[p] = status[p]
         /\ AppendFails(o, e) => /\ status'[o] \in {status[o], e}
                                /\ \A p \in Ops \ {o} : status'[p] = status[p]
         /\ JournalQuietly(o, e) => /\ status'[o] \in {status[o], e}
                                   /\ \A p \in Ops \ {o} : status'[p] = status[p]
BY DEF Shape, JournalOK, Journal, AppendFails, JournalQuietly, With

\* The records of every op stay in order when the step's own does.
LEMMA TameRecords ==
  ASSUME Sound, Tame,
         run.op \in Ops => \/ status'[run.op] = status[run.op]
                           \/ status'[run.op] \in {"abandoned", "failed", "recovered", "rolled_back", "left"}
                           \/ status'[run.op] \in {"validated", "done"} /\ settled[run.op] = {},
         run.op \in Ops => (status'[run.op] \in Begun \cup {"recovered", "rolled_back", "left"}
                               => rec[run.op].kind = "place"),
         run.op \in Ops => status[run.op] # "none"
  PROVE  JournalPhase'
<1>. USE DEF Sound, Phase, JournalPhase
<1>1. ASSUME NEW o \in Ops, o # run.op
      PROVE  /\ status'[o] = status[o] /\ rec'[o] = rec[o] /\ settled'[o] = settled[o]
             /\ offered'[o] \in {offered[o], {}}
  BY <1>1 DEF Tame
<1>2. ASSUME run.op \in Ops
      PROVE  /\ rec'[run.op] = rec[run.op] /\ settled'[run.op] = settled[run.op]
             /\ offered'[run.op] \in {offered[run.op], {}}
  BY <1>2 DEF Tame
<1>. QED  BY <1>1, <1>2 DEF Begun, Unwritten

LEMMA EndedPhase ==
  ASSUME Sound, Tame, Ends
  PROVE  RunPhase'
<1>1. ModeAt' /\ StatusAt' /\ PlanAt'
  BY DEF Ends, ModeAt, StatusAt, PlanAt, Resting, Early, Armed, Writing, Recording, Backward, Unbound
<1>2. OffersAt' /\ SettledAt'
  BY DEF Sound, Phase, RunPhase, Ends, Tame, OffersAt, SettledAt
<1>. QED  BY <1>1, <1>2 DEF RunPhase

LEMMA GoneOnPhase ==
  ASSUME Sound, Tame, NEW step, Goes(step)
  PROVE  OffersAt' /\ SettledAt'
BY DEF Sound, Phase, RunPhase, Goes, Tame, OffersAt, SettledAt
-----------------------------------------------------------------------------
\* An operation up to its write-ahead event.

LEMMA QuietTame == Shape /\ UNCHANGED <<journal, owner>> => Tame
BY OwnerTame DEF Tame, journal

LEMMA QuietRecords == Sound /\ Tame /\ UNCHANGED status => JournalPhase'
BY DEF Sound, Phase, JournalPhase, Tame

LEMMA EarlyPhase == Sound /\ (Preserve \/ Snapshot \/ Copy \/ Copied) => Phase'
<1>. SUFFICES ASSUME Sound, Preserve \/ Snapshot \/ Copy \/ Copied PROVE Phase'
  OBVIOUS
<1>1. Tame /\ UNCHANGED status
  BY OwnerTame DEF Preserve, Snapshot, Copy, Copied, GiveUp, Tame, Sound, journal
<1>2. \/ run.pc \in Early /\ Goes("abandon")
      \/ run.pc = "preserve" /\ Goes("snapshot")
      \/ run.pc = "snapshot" /\ Goes("prepare")
      \/ run.pc = "copy" /\ Goes("copied")
      \/ run.pc = "copied" /\ Goes("close")
  <2>1. run \in Run
    BY DEF Sound, Shape, RunOK
  <2>2. CASE Preserve \/ Copy \/ Copied
    BY <2>2, StepsGo DEF Preserve, Copy, Copied, Step, Sound, Early
  <2>3. CASE Snapshot
    BY <2>1, <2>3, StepsGo DEF Snapshot, Goes, Sound, Early, Run
  <2>. QED  BY <2>2, <2>3
<1>3. ModeAt' /\ StatusAt' /\ PlanAt'
  BY <1>1, <1>2 DEF Tame, Goes, ModeAt, StatusAt, PlanAt, RunPhase, Phase, Sound, Early, Armed, Writing, Recording, Backward, Begun, Unbound, Resting, IsOpen, Open
<1>4. OffersAt' /\ SettledAt'
  BY <1>1, <1>2, GoneOnPhase
<1>. QED  BY <1>1, <1>3, <1>4, QuietRecords DEF Phase, RunPhase
LEMMA PreparePhase ==
  ASSUME Sound, NEW same \in SameSets, Prepare(same)
  PROVE  Phase'
<1>1. Tame /\ UNCHANGED status
  BY OwnerTame DEF Prepare, GiveUp, Tame, Sound, journal
<1>2. run \in Run /\ run.plan \in Plan /\ run.pc = "prepare"
  BY DEF Sound, Shape, RunOK, Run, Prepare
<1>3. CASE Goes("abandon")
  <2>1. ModeAt' /\ StatusAt' /\ PlanAt'
    BY <1>1, <1>2, <1>3 DEF Tame, Goes, ModeAt, StatusAt, PlanAt, RunPhase, Phase, Sound, Early,
       Armed, Writing, Recording, Backward, Unbound, Resting
  <2>. QED  BY <1>1, <1>3, <2>1, GoneOnPhase, QuietRecords DEF Phase, RunPhase
<1>4. CASE run' = [run EXCEPT !.pc = "intend", !.plan.pre = live,
                              !.plan.post = PlannedPost(run.op, Targets(run.plan), same),
                              !.base = live, !.snap = Empty]
  <2>1. /\ run'.pc = "intend" /\ run'.op = run.op /\ run'.mode = run.mode /\ run'.next = run.next
        /\ run'.plan.kind = run.plan.kind
    BY <1>2, <1>4 DEF Run, Plan
  <2>2. ModeAt' /\ StatusAt' /\ PlanAt'
    BY <1>1, <1>2, <2>1 DEF Tame, ModeAt, StatusAt, PlanAt, RunPhase, Phase, Sound, Early,
       Armed, Writing, Recording, Backward, Unbound, Resting
  <2>3. OffersAt' /\ SettledAt'
    BY <1>1, <2>1 DEF Sound, Phase, RunPhase, Tame, OffersAt, SettledAt
  <2>. QED  BY <1>1, <2>2, <2>3, QuietRecords DEF Phase, RunPhase
<1>. QED  BY <1>3, <1>4, StepsGo DEF Prepare, Sound

LEMMA IntendPhase == Sound /\ Intend => Phase'
<1>. SUFFICES ASSUME Sound, Intend PROVE Phase'
  OBVIOUS
<1>1. /\ run.op \in Ops /\ run.pc = "intend" /\ run.mode = "execute" /\ status[run.op] = "preparing"
      /\ run.plan.kind = "place" /\ UNCHANGED settled
      /\ status \in [Ops -> Event] /\ rec \in [Ops -> Plan] /\ rec[run.op].kind = "place"
      /\ \A o \in Ops : offered'[o] \in {offered[o], {}}
  BY OwnerTame DEF Sound, Shape, RunOK, JournalOK, Phase, RunPhase, ModeAt, StatusAt, PlanAt, Intend,
     Early, Resting, Return, GiveUp
<1>2. \/ UNCHANGED <<status, rec>>
      \/ status' = [status EXCEPT ![run.op] = "writing"] /\ rec' = [rec EXCEPT ![run.op] = run.plan]
  BY DEF Intend, Intended, With
<1>3. JournalPhase'
  BY <1>1, <1>2 DEF Sound, Phase, JournalPhase, Begun, Unwritten
<1>4. CASE Goes("mark") /\ Intended
  <2>0. status'[run.op] = "writing" /\ rec'[run.op] = run.plan
    BY <1>1, <1>4 DEF Intended, With
  <2>1. ModeAt' /\ StatusAt' /\ PlanAt'
    BY <1>1, <1>4, <2>0 DEF Sound, Phase, RunPhase, Goes, ModeAt, StatusAt, PlanAt, Early, Armed, Writing, Recording,
       Backward, Unbound, Resting
  <2>. QED  BY <1>1, <1>3, <1>4, <2>1 DEF Sound, Phase, RunPhase, Goes, OffersAt, SettledAt
<1>5. CASE Goes("abandon") /\ UNCHANGED <<status, rec>>
  <2>1. ModeAt' /\ StatusAt' /\ PlanAt'
    BY <1>1, <1>5 DEF Sound, Phase, RunPhase, Goes, ModeAt, StatusAt, PlanAt, Early, Armed, Writing, Recording,
       Backward, Unbound, Resting
  <2>. QED  BY <1>1, <1>3, <1>5, <2>1 DEF Sound, Phase, RunPhase, Goes, OffersAt, SettledAt
<1>6. CASE Ends
  <2>1. ModeAt' /\ StatusAt' /\ PlanAt'
    BY <1>6 DEF Ends, ModeAt, StatusAt, PlanAt, Resting, Early, Armed, Writing, Recording, Backward, Unbound
  <2>. QED  BY <1>1, <1>3, <1>6, <2>1 DEF Sound, Phase, RunPhase, Ends, OffersAt, SettledAt
<1>. QED  BY <1>4, <1>5, <1>6, StepsGo DEF Intend, Sound, Step

LEMMA ArmedPhase == Sound /\ (Mark \/ Probe) => Phase'
<1>. SUFFICES ASSUME Sound, Mark \/ Probe PROVE Phase'
  OBVIOUS
<1>1. Tame /\ UNCHANGED status
  BY OwnerTame DEF Mark, Probe, GiveUp, Return, Tame, Sound, journal
<1>2. \/ run.pc = "mark" /\ Goes("probe")
      \/ run.pc = "mark" /\ Ends
      \/ run.pc = "probe" /\ Goes("stage")
      \/ run.pc = "probe" /\ Goes("abandon")
  <2>1. CASE Mark
    BY <2>1, StepsGo DEF Mark, Step, Sound
  <2>2. CASE Probe
    <3>1. run \in Run
      BY DEF Sound, Shape, RunOK
    <3>. QED  BY ZenonT(60), <2>2, <3>1, StepsGo DEF Probe, Goes, Sound, Run
  <2>. QED  BY <2>1, <2>2
<1>3. CASE Ends
  BY <1>1, <1>3, EndedPhase, QuietRecords DEF Phase
<1>4. CASE \/ run.pc = "mark" /\ Goes("probe")
           \/ run.pc = "probe" /\ Goes("stage")
           \/ run.pc = "probe" /\ Goes("abandon")
  <2>1. ModeAt' /\ StatusAt' /\ PlanAt'
    BY <1>1, <1>4 DEF Tame, Goes, ModeAt, StatusAt, PlanAt, RunPhase, Phase, Sound, Early,
       Armed, Writing, Recording, Backward, Unbound, Resting
  <2>2. OffersAt' /\ SettledAt'
    BY <1>1, <1>4, GoneOnPhase
  <2>. QED  BY <1>1, <2>1, <2>2, QuietRecords DEF Phase, RunPhase
<1>. QED  BY <1>2, <1>3, <1>4

LEMMA AbandonPhase == Sound /\ Abandon => Phase'
<1>. SUFFICES ASSUME Sound, Abandon PROVE Phase'
  OBVIOUS
<1>1. /\ run.op \in Ops /\ run.pc = "abandon" /\ status[run.op] \in {"preparing", "writing"}
      /\ run.mode \in {"execute", "auto"}
      /\ Goes("unmark") /\ status'[run.op] \in {status[run.op], "abandoned"}
      /\ \A p \in Ops \ {run.op} : status'[p] = status[p]
  BY StepsGo, StatusTame DEF Sound, Shape, RunOK, Phase, RunPhase, ModeAt, StatusAt, Abandon, Resting, Step
<1>2. Tame
  BY <1>1, OwnerTame DEF Abandon, Tame, Sound
<1>3. JournalPhase'
  BY <1>1, <1>2, TameRecords DEF Sound, Phase, JournalPhase, Begun
<1>4. ModeAt' /\ StatusAt' /\ PlanAt'
  BY <1>1, <1>2 DEF Tame, Goes, ModeAt, StatusAt, PlanAt, RunPhase, Phase, Sound, Early,
     Armed, Writing, Recording, Backward, Unbound, Resting
<1>. QED  BY <1>1, <1>2, <1>3, <1>4, GoneOnPhase DEF Phase, RunPhase

LEMMA UnmarkPhase == Sound /\ Unmark => Phase'
<1>. SUFFICES ASSUME Sound, Unmark PROVE Phase'
  OBVIOUS
<1>1. Tame /\ UNCHANGED status
  BY QuietTame DEF Unmark, Sound, journal
<1>2. Ends
  BY StepsGo DEF Unmark, Sound
<1>. QED  BY <1>1, <1>2, EndedPhase, QuietRecords DEF Phase
-----------------------------------------------------------------------------
\* Writing, and putting back.

\* Where a write that stops goes, and where one goes on.
LEMMA WritingGoes ==
  ASSUME Sound, run.pc \in AtTarget \cup {"validate"}
  PROVE  /\ \A n : StopWriting(n) =>
              /\ \/ run.mode = "forward" /\ Ends
                 \/ run.mode # "forward" /\ Goes("abandon")
                 \/ run.mode # "forward" /\ Goes("keep")
              /\ \A o \in Ops : offered'[o] \in {offered[o], {}}
         /\ run' = NextTarget => \/ Goes("validate")
                                 \/ run.mode = "forward" /\ Goes("replan")
                                 \/ run.mode # "forward" /\ Goes("stage")
         /\ \A i, bad : BackTo(i, bad) => \/ Goes("report") /\ run'.at = 0
                                          \/ Goes("keep")
<1>1. run \in Run
  BY DEF Sound, Shape, RunOK
<1>2. ASSUME NEW n, StopWriting(n)
      PROVE  /\ \/ run.mode = "forward" /\ Ends
                \/ run.mode # "forward" /\ Goes("abandon")
                \/ run.mode # "forward" /\ Goes("keep")
             /\ \A o \in Ops : offered'[o] \in {offered[o], {}}
  <2>1. CASE run.mode = "forward"
    BY <1>2, <2>1, StepsGo, OwnerTame DEF StopWriting, Return, Sound
  <2>2. CASE run.mode # "forward" /\ n = 0
    BY <1>2, <2>2, StepsGo, OwnerTame DEF StopWriting, GiveUp, Sound
  <2>3. CASE run.mode # "forward" /\ n # 0
    BY ZenonT(60), <1>1, <1>2, <2>3, OwnerTame DEF StopWriting, Goes, Sound, Run
  <2>. QED  BY <2>1, <2>2, <2>3
<1>3. run' = NextTarget => \/ Goes("validate")
                           \/ run.mode = "forward" /\ Goes("replan")
                           \/ run.mode # "forward" /\ Goes("stage")
  BY <1>1 DEF NextTarget, Goes, Run
<1>4. \A i, bad : BackTo(i, bad) => (Goes("report") /\ run'.at = 0) \/ Goes("keep")
  BY <1>1 DEF BackTo, Goes, Run
<1>. QED  BY <1>2, <1>3, <1>4

LEMMA WritePhase ==
  ASSUME Sound, \/ Stage \/ Check \/ Validate
                \/ \E f \in Files : Rename(f)
  PROVE  Phase'
<1>1. /\ UNCHANGED <<status, rec, settled>>
      /\ run.pc \in Writing
  BY DEF Stage, Check, Validate, Rename, journal, Writing
<1>2. \/ \E n : StopWriting(n)
      \/ UNCHANGED owner /\ \/ run.pc = "stage" /\ Goes("check")
                            \/ run.pc = "check" /\ Goes("rename")
                            \/ run.pc = "rename" /\ (run' = NextTarget \/ Goes("rename"))
                            \/ run.pc = "validate" /\ run.mode = "forward" /\ Goes("recovered")
                            \/ run.pc = "validate" /\ run.mode # "forward" /\ Goes("confirm")
  <2>1. CASE Stage \/ Check
    BY <2>1, StepsGo DEF Stage, Check, Step, Sound
  <2>2. CASE Validate
    BY <2>2, StepsGo DEF Validate, Step, Sound
  <2>3. ASSUME NEW f \in Files, Rename(f)
        PROVE  \/ \E n : StopWriting(n)
               \/ UNCHANGED owner /\ run.pc = "rename" /\ (run' = NextTarget \/ Goes("rename"))
    <3>1. run \in Run
      BY DEF Sound, Shape, RunOK
    <3>. QED  BY <2>3, <3>1 DEF Rename, Goes, Run
  <2>. QED  BY <2>1, <2>2, <2>3
<1>3. Tame
  BY <1>1, <1>2, WritingGoes, OwnerTame DEF Tame, Sound, Writing, AtTarget
<1>4. CASE Ends
  BY <1>1, <1>3, <1>4, EndedPhase, QuietRecords DEF Phase
<1>5. CASE ~Ends
  <2>1. \/ run.mode # "forward" /\ (Goes("abandon") \/ Goes("keep") \/ Goes("stage"))
        \/ run.pc = "stage" /\ Goes("check")
        \/ run.pc = "check" /\ Goes("rename")
        \/ run.pc = "rename" /\ (Goes("rename") \/ Goes("validate") \/ (run.mode = "forward" /\ Goes("replan")))
        \/ run.pc = "validate" /\ run.mode = "forward" /\ Goes("recovered")
        \/ run.pc = "validate" /\ run.mode # "forward" /\ Goes("confirm")
    BY <1>1, <1>2, <1>5, WritingGoes DEF Writing, AtTarget
  <2>2. ModeAt' /\ StatusAt' /\ PlanAt'
    BY <1>1, <2>1 DEF Goes, ModeAt, StatusAt, PlanAt, RunPhase, Phase, Sound, Early,
       Armed, Writing, Recording, Backward, Unbound, Resting, Begun
  <2>3. OffersAt' /\ SettledAt'
    BY <1>3, <2>1, GoneOnPhase
  <2>. QED  BY <1>1, <1>3, <2>2, <2>3, QuietRecords DEF Phase, RunPhase
<1>. QED  BY <1>4, <1>5

LEMMA RollbackPhase ==
  ASSUME Sound, Rollback, UNCHANGED <<journal, records, owner, outer, crashes>>
  PROVE  Phase'
<1>1. Tame /\ UNCHANGED status /\ run \in Run
  BY QuietTame DEF Sound, Shape, RunOK, journal
<1>2. run.pc \in Backward /\ run.pc # "report"
      /\ \/ Goes("report") /\ run'.at = 0
         \/ Goes("keep") \/ Goes("restore") \/ Goes("verify")
  <2>1. CASE RollbackKeep
    BY <1>1, <2>1, WritingGoes DEF RollbackKeep, Goes, Run, AtTarget, Backward
  <2>2. CASE RollbackVerify
    BY <2>2, WritingGoes DEF RollbackVerify, AtTarget, Backward
  <2>3. ASSUME NEW f \in Files, RollbackRestore(f)
        PROVE  run.pc = "restore" /\ (Goes("restore") \/ Goes("verify"))
    BY ZenonT(60), <1>1, <2>3 DEF RollbackRestore, Restored, Goes, Run
  <2>. QED  BY <2>1, <2>2, <2>3 DEF Rollback, Backward
<1>3. ModeAt' /\ StatusAt' /\ PlanAt'
  BY <1>1, <1>2 DEF Tame, Goes, ModeAt, StatusAt, PlanAt, RunPhase, Phase, Sound, Early,
     Armed, Writing, Recording, Backward, Unbound, Resting
<1>4. OffersAt' /\ SettledAt'
  BY <1>1, <1>2, GoneOnPhase
<1>. QED  BY <1>1, <1>3, <1>4, QuietRecords DEF Phase, RunPhase
-----------------------------------------------------------------------------
\* Recording what was written, and the end.

LEMMA RecordPhase == Sound /\ (Finalize \/ RecordOplog \/ RecordLineage) => Phase'
<1>. SUFFICES ASSUME Sound, Finalize \/ RecordOplog \/ RecordLineage PROVE Phase'
  OBVIOUS
<1>1. Tame /\ UNCHANGED status
  BY OwnerTame DEF Finalize, RecordOplog, RecordLineage, Return, Tame, Sound, journal
<1>2. \/ Ends
      \/ run.pc = "finalize" /\ Goes("oplog")
      \/ run.pc = "oplog" /\ Goes("lineage")
      \/ run.pc = "lineage" /\ Goes("close")
  BY StepsGo DEF Finalize, RecordOplog, RecordLineage, Step, Sound
<1>3. CASE Ends
  BY <1>1, <1>3, EndedPhase, QuietRecords DEF Phase
<1>4. CASE ~Ends
  <2>1. ModeAt' /\ StatusAt' /\ PlanAt'
    BY <1>1, <1>2, <1>4 DEF Tame, Goes, ModeAt, StatusAt, PlanAt, RunPhase, Phase, Sound, Early,
       Armed, Writing, Recording, Backward, Unbound, Resting
  <2>2. OffersAt' /\ SettledAt'
    BY <1>1, <1>2, <1>4, GoneOnPhase
  <2>. QED  BY <1>1, <2>1, <2>2, QuietRecords DEF Phase, RunPhase
<1>. QED  BY <1>3, <1>4

\* A step that ends the run, or appends an event and goes on.
LEMMA AppendPhase ==
  ASSUME Sound, run.pc \notin Resting, NEW e, NEW step, UNCHANGED <<rec, settled>>,
         \A o \in Ops : offered'[o] \in {offered[o], {}},
         \/ Journal(run.op, e) /\ Goes(step)
         \/ AppendFails(run.op, e) /\ Ends,
         \/ e \in {"abandoned", "failed"}
         \/ e \in {"recovered", "rolled_back", "left"} /\ rec[run.op].kind = "place"
         \/ e \in {"validated", "done"} /\ settled[run.op] = {} /\ (e = "done" \/ rec[run.op].kind = "place"),
         e = "failed" => rec[run.op].kind = "place",
         Journal(run.op, e) /\ Goes(step) => ModeAt' /\ StatusAt' /\ PlanAt'
  PROVE  Phase'
<1>1. /\ run.op \in Ops /\ status[run.op] # "none"
  BY DEF Sound, Shape, RunOK, JournalOK
<1>2. /\ status'[run.op] \in {status[run.op], e}
      /\ \A p \in Ops \ {run.op} : status'[p] = status[p]
  BY <1>1, StatusTame DEF Sound
<1>3. Tame
  BY <1>2 DEF Tame
<1>4. /\ status'[run.op] \in Begun \cup {"recovered", "rolled_back", "left"} => rec[run.op].kind = "place"
      /\ \/ status'[run.op] = status[run.op]
         \/ status'[run.op] \in {"abandoned", "failed", "recovered", "rolled_back", "left"}
         \/ status'[run.op] \in {"validated", "done"} /\ settled[run.op] = {}
  BY <1>1, <1>2 DEF Sound, Phase, JournalPhase, Begun
<1>5. JournalPhase'
  BY <1>1, <1>3, <1>4, TameRecords
<1>6. CASE Ends
  BY <1>3, <1>5, <1>6, EndedPhase DEF Phase
<1>7. CASE Journal(run.op, e) /\ Goes(step)
  BY <1>3, <1>5, <1>7, GoneOnPhase DEF Phase, RunPhase
<1>. QED  BY <1>6, <1>7

LEMMA ConfirmPhase == Sound /\ Confirm => Phase'
<1>. SUFFICES ASSUME Sound, Confirm PROVE Phase'
  OBVIOUS
<1>1. /\ run.pc = "confirm" /\ run.pc \notin Resting /\ run.op \in Ops /\ rec[run.op].kind = "place"
      /\ run.mode \in {"execute", "forward"} /\ UNCHANGED <<rec, settled>>
      /\ settled[run.op] = {}
  BY DEF Confirm, Sound, Shape, RunOK, Phase, RunPhase, JournalPhase, ModeAt, StatusAt, PlanAt, SettledAt, Resting
<1>2. \/ Journal(run.op, "validated") /\ Goes("finalize")
      \/ AppendFails(run.op, "validated") /\ Ends
  BY StepsGo DEF Confirm, Step, Sound
<1>3. \A o \in Ops : offered'[o] \in {offered[o], {}}
  BY OwnerTame DEF Confirm, Return, Sound
<1>4. ASSUME Journal(run.op, "validated"), Goes("finalize")
      PROVE  ModeAt' /\ StatusAt' /\ PlanAt'
  <2>1. status'[run.op] = "validated"
    BY <1>1, <1>4, StatusTame DEF Sound
  <2>. QED
    BY <1>1, <1>4, <2>1 DEF Goes, ModeAt, StatusAt, PlanAt, RunPhase, Phase, Sound, Early,
       Armed, Writing, Recording, Backward, Unbound, Resting
<1>. QED  BY <1>1, <1>2, <1>3, <1>4, AppendPhase

LEMMA ClosePhase == Sound /\ Close => Phase'
<1>. SUFFICES ASSUME Sound, Close PROVE Phase'
  OBVIOUS
<1>1. /\ run.pc = "close" /\ run.pc \notin Resting /\ run.op \in Ops
      /\ UNCHANGED <<rec, settled>> /\ settled[run.op] = {}
  BY DEF Close, Sound, Shape, RunOK, Phase, RunPhase, JournalPhase, StatusAt, Unwritten, Resting
<1>2. \/ Journal(run.op, "done") /\ Goes("unmark")
      \/ AppendFails(run.op, "done") /\ Ends
  BY StepsGo DEF Close, Step, Sound
<1>3. \A o \in Ops : offered'[o] \in {offered[o], {}}
  BY OwnerTame DEF Close, Return, Sound
<1>4. ASSUME Journal(run.op, "done"), Goes("unmark")
      PROVE  ModeAt' /\ StatusAt' /\ PlanAt'
  <2>1. status'[run.op] = "done"
    BY <1>1, <1>4, StatusTame DEF Sound
  <2>. QED
    BY <1>1, <1>4, <2>1 DEF Goes, ModeAt, StatusAt, PlanAt, RunPhase, Phase, Sound, Early,
       Armed, Writing, Recording, Backward, Unbound, Resting, IsOpen, Open
<1>. QED  BY <1>1, <1>2, <1>3, <1>4, AppendPhase

LEMMA RecoveredPhase == Sound /\ Recovered => Phase'
<1>. SUFFICES ASSUME Sound, Recovered PROVE Phase'
  OBVIOUS
<1>1. /\ run.pc = "recovered" /\ run.pc \notin Resting /\ run.op \in Ops /\ rec[run.op].kind = "place"
      /\ run.mode = "forward" /\ UNCHANGED <<rec, settled>>
  BY DEF Recovered, Sound, Shape, RunOK, Phase, RunPhase, ModeAt, PlanAt, Resting
<1>2. \/ Journal(run.op, "recovered") /\ Goes("confirm")
      \/ AppendFails(run.op, "recovered") /\ Ends
  BY StepsGo DEF Recovered, Step, Sound
<1>3. \A o \in Ops : offered'[o] \in {offered[o], {}}
  BY OwnerTame DEF Recovered, Return, Sound
<1>4. ASSUME Journal(run.op, "recovered"), Goes("confirm")
      PROVE  ModeAt' /\ StatusAt' /\ PlanAt'
  <2>1. status'[run.op] = "recovered"
    BY <1>1, <1>4, StatusTame DEF Sound
  <2>. QED
    BY <1>1, <1>4, <2>1 DEF Goes, ModeAt, StatusAt, PlanAt, RunPhase, Phase, Sound, Early,
       Armed, Writing, Recording, Backward, Unbound, Resting
<1>. QED  BY <1>1, <1>2, <1>3, <1>4, AppendPhase

LEMMA RolledBackPhase == Sound /\ RolledBack => Phase'
<1>. SUFFICES ASSUME Sound, RolledBack PROVE Phase'
  OBVIOUS
<1>1. /\ run.pc = "rolled_back" /\ run.pc \notin Resting /\ run.op \in Ops /\ rec[run.op].kind = "place"
      /\ run.mode = "back" /\ UNCHANGED <<rec, settled>>
  BY DEF RolledBack, Sound, Shape, RunOK, Phase, RunPhase, ModeAt, PlanAt, Resting
<1>2. /\ \/ Journal(run.op, "rolled_back") /\ Goes("audit")
         \/ AppendFails(run.op, "rolled_back") /\ Ends
      /\ Goes("audit") => run'.problem = run.problem
  BY StepsGo DEF RolledBack, Return, Step, Sound, Goes, Ends, Resting
<1>3. \A o \in Ops : offered'[o] \in {offered[o], {}}
  BY OwnerTame DEF RolledBack, Return, Sound
<1>4. ASSUME Journal(run.op, "rolled_back"), Goes("audit")
      PROVE  ModeAt' /\ StatusAt' /\ PlanAt'
  <2>1. status'[run.op] = "rolled_back" /\ ~run'.problem
    BY <1>1, <1>2, <1>4, StatusTame DEF Sound, Phase, RunPhase, StatusAt
  <2>. QED
    BY <1>1, <1>4, <2>1 DEF Goes, ModeAt, StatusAt, PlanAt, RunPhase, Phase, Sound, Early,
       Armed, Writing, Recording, Backward, Unbound, Resting, IsOpen, Open
<1>. QED  BY <1>1, <1>2, <1>3, <1>4, AppendPhase

LEMMA ReportBackPhase == Sound /\ ReportBack => Phase'
<1>. SUFFICES ASSUME Sound, ReportBack PROVE Phase'
  OBVIOUS
<1>1. /\ run.pc = "report" /\ run.pc \notin Resting /\ run.op \in Ops /\ rec[run.op].kind = "place"
      /\ run.mode = "back" /\ UNCHANGED <<rec, settled>> /\ run \in Run
  BY DEF ReportBack, Sound, Shape, RunOK, Phase, RunPhase, ModeAt, PlanAt, Resting
<1>2. \A o \in Ops : offered'[o] \in {offered[o], {}}
  BY OwnerTame DEF ReportBack, Return, Sound
<1>3. CASE Ends /\ UNCHANGED status
  <2>1. Tame
    BY <1>1, <1>2, <1>3 DEF Tame
  <2>. QED  BY <1>3, <2>1, EndedPhase, QuietRecords DEF Phase
<1>4. CASE \/ ~run.problem /\ Journal(run.op, "recovered") /\ Goes("rolled_back") /\ run'.problem = run.problem
           \/ AppendFails(run.op, "recovered") /\ Ends
  <2>1. ASSUME Journal(run.op, "recovered"), Goes("rolled_back"), ~run'.problem
        PROVE  ModeAt' /\ StatusAt' /\ PlanAt'
    <3>1. status'[run.op] = "recovered"
      BY <1>1, <2>1, StatusTame DEF Sound
    <3>. QED
      BY <1>1, <2>1, <3>1 DEF Goes, ModeAt, StatusAt, PlanAt, RunPhase, Phase, Sound, Early,
         Armed, Writing, Recording, Backward, Unbound, Resting
  <2>2. Ends => ~Goes("rolled_back")
    BY DEF Ends, Goes, Resting
  <2>. QED  BY <1>1, <1>2, <1>4, <2>1, <2>2, AppendPhase
<1>. QED  BY <1>3, <1>4, StepsGo DEF ReportBack, Sound, Step

LEMMA LeavePhase == Sound /\ (Leave \/ Left) => Phase'
<1>. SUFFICES ASSUME Sound, Leave \/ Left PROVE Phase'
  OBVIOUS
<1>1. /\ run.pc \in {"leave", "left"} /\ run.pc \notin Resting /\ run.op \in Ops /\ rec[run.op].kind = "place"
      /\ run.mode = "leave" /\ UNCHANGED <<rec, settled>>
  BY DEF Leave, Left, Sound, Shape, RunOK, Phase, RunPhase, ModeAt, PlanAt, Resting, journal
<1>2. \A o \in Ops : offered'[o] \in {offered[o], {}}
  BY OwnerTame DEF Leave, Left, Return, Sound
<1>3. CASE Leave
  <2>1. Tame /\ UNCHANGED status
    BY <1>1, <1>2, <1>3 DEF Tame, Leave, journal
  <2>2. Ends \/ (run.pc = "leave" /\ Goes("left"))
    BY <1>3, StepsGo DEF Leave, Step, Sound
  <2>3. ASSUME run.pc = "leave", Goes("left") PROVE RunPhase'
    <3>1. ModeAt' /\ StatusAt' /\ PlanAt'
      BY <1>1, <2>1, <2>3 DEF Goes, ModeAt, StatusAt, PlanAt, RunPhase, Phase, Sound, Early,
         Armed, Writing, Recording, Backward, Unbound, Resting
    <3>. QED  BY <2>1, <2>3, <3>1, GoneOnPhase DEF RunPhase
  <2>. QED  BY <2>1, <2>2, <2>3, EndedPhase, QuietRecords DEF Phase
<1>4. CASE Left
  <2>1. \/ Journal(run.op, "left") /\ Goes("unmark")
        \/ AppendFails(run.op, "left") /\ Ends
    BY <1>4, StepsGo DEF Left, Step, Sound
  <2>2. ASSUME Journal(run.op, "left"), Goes("unmark")
        PROVE  ModeAt' /\ StatusAt' /\ PlanAt'
    <3>1. status'[run.op] = "left"
      BY <1>1, <2>2, StatusTame DEF Sound
    <3>. QED
      BY <1>1, <2>2, <3>1 DEF Goes, ModeAt, StatusAt, PlanAt, RunPhase, Phase, Sound, Early,
         Armed, Writing, Recording, Backward, Unbound, Resting, IsOpen, Open
  <2>. QED  BY <1>1, <1>2, <2>1, <2>2, AppendPhase
<1>. QED  BY <1>3, <1>4

\* The end of an operation that was put back: the report, the audit line, the lineage.
LEMMA ReportPhase == Sound /\ Report => Phase'
<1>. SUFFICES ASSUME Sound, Report PROVE Phase'
  OBVIOUS
<1>1. /\ run.pc = "report" /\ run.pc \notin Resting /\ run.op \in Ops /\ rec[run.op].kind = "place"
      /\ run.mode = "execute" /\ UNCHANGED rec /\ run \in Run /\ status[run.op] = "writing"
      /\ offered[run.op] = {}
  BY DEF Report, Sound, Shape, RunOK, Phase, RunPhase, ModeAt, StatusAt, PlanAt, OffersAt, Resting, Backward
<1>2. \A o \in Ops : offered'[o] \in {offered[o], {}}
  BY OwnerTame DEF Report, Sound
<1>3. Goes("audit") /\ run'.problem = run.problem
  BY StepsGo DEF Report, Sound, Step
<1>4. /\ \A p \in Ops \ {run.op} : status'[p] = status[p] /\ settled'[p] = settled[p]
      /\ \/ ~run.problem /\ status'[run.op] \in {"writing", "rolled_back"} /\ UNCHANGED settled
         \/ run.problem /\ status'[run.op] = "writing" /\ UNCHANGED settled
         \/ run.problem /\ status'[run.op] = "failed"
  <2>1. CASE ~run.problem
    BY <1>1, <2>1, StatusTame DEF Report, Sound
  <2>2. CASE run.problem
    <3>1. /\ \A p \in Ops \ {run.op} : status'[p] = status[p]
          /\ status'[run.op] \in {"writing", "failed"}
      BY <1>1, <2>2, StatusTame DEF Report, Sound
    <3>2. \/ UNCHANGED settled
          \/ status'[run.op] = "failed" /\ settled' = [settled EXCEPT ![run.op] = SettledNow]
      BY <2>2 DEF Report
    <3>. QED  BY <1>1, <2>2, <3>1, <3>2 DEF Sound, Shape, JournalOK
  <2>. QED  BY <2>1, <2>2
<1>5. JournalPhase'
  BY <1>1, <1>2, <1>4 DEF Sound, Phase, JournalPhase, Begun, Unwritten
<1>6. ModeAt' /\ StatusAt' /\ PlanAt'
  BY <1>1, <1>3, <1>4 DEF Goes, ModeAt, StatusAt, PlanAt, RunPhase, Phase, Sound, Early,
     Armed, Writing, Recording, Backward, Unbound, Resting
<1>7. OffersAt' /\ SettledAt'
  BY <1>1, <1>2, <1>3 DEF Sound, Phase, RunPhase, Goes, OffersAt, SettledAt
<1>. QED  BY <1>5, <1>6, <1>7 DEF Phase, RunPhase

LEMMA AuditPhase == Sound /\ (Audit \/ Trace) => Phase'
<1>. SUFFICES ASSUME Sound, Audit \/ Trace PROVE Phase'
  OBVIOUS
<1>1. Tame /\ UNCHANGED status /\ run \in Run
  BY QuietTame DEF Audit, Trace, Sound, Shape, RunOK, journal
<1>2. \/ Ends
      \/ run.pc = "audit" /\ ~run.problem /\ Goes("trace")
      \/ run.pc = "audit" /\ ~run.problem /\ run.mode # "execute" /\ Goes("unmark")
      \/ run.pc = "trace" /\ Goes("unmark")
  <2>1. CASE Audit
    BY <1>1, <2>1, StepsGo DEF Audit, Goes, Run, Sound
  <2>2. CASE Trace
    BY <2>2, StepsGo DEF Trace, Step, Sound
  <2>. QED  BY <2>1, <2>2
<1>3. CASE Ends
  BY <1>1, <1>3, EndedPhase, QuietRecords DEF Phase
<1>4. CASE ~Ends
  <2>1. ModeAt' /\ StatusAt' /\ PlanAt'
    BY <1>1, <1>2, <1>4 DEF Tame, Goes, ModeAt, StatusAt, PlanAt, RunPhase, Phase, Sound, Early,
       Armed, Writing, Recording, Backward, Unbound, Resting, IsOpen, Open
  <2>2. OffersAt' /\ SettledAt'
    BY <1>1, <1>2, <1>4, GoneOnPhase
  <2>. QED  BY <1>1, <2>1, <2>2, QuietRecords DEF Phase, RunPhase
<1>. QED  BY <1>3, <1>4
-----------------------------------------------------------------------------
\* Where a run begins: an operation, a listing, recovery.

LEMMA BeginPhase ==
  ASSUME Sound, NEW o \in Ops, NEW kind, NEW ts, NEW ord, NEW step,
         <<kind, step>> \in {<<"place", "preserve">>, <<"keep", "copy">>},
         Begin(o, kind, ts, ord, step)
  PROVE  Phase'
<1>. DEFINE p == NewPlan(kind, ts, ord)
<1>1. /\ run.pc = "idle" /\ status[o] = "none" /\ UNCHANGED <<settled, offered>>
      /\ status' = [status EXCEPT ![o] = "preparing"] /\ rec' = [rec EXCEPT ![o] = p]
      /\ status \in [Ops -> Event] /\ rec \in [Ops -> Plan] /\ p.kind = kind
      /\ kind \in {"place", "keep"}
  BY DEF Begin, With, owner, Sound, Shape, JournalOK, NewPlan, NoPlan
<1>. HIDE DEF p
<1>2. JournalPhase'
  BY <1>1 DEF Sound, Phase, JournalPhase, Begun, Unwritten
<1>3. CASE UNCHANGED run
  BY <1>1, <1>2, <1>3 DEF Sound, Phase, RunPhase, ModeAt, StatusAt, PlanAt, OffersAt, SettledAt,
     Resting, Early, Armed, Writing, Recording, Backward, Unbound, Shape, RunOK
<1>4. CASE run' = [NoRun EXCEPT !.pc = step, !.op = o, !.mode = "execute", !.base = live, !.plan = p]
  <2>1. /\ run'.pc = step /\ run'.op = o /\ run'.mode = "execute" /\ run'.plan = p /\ run'.next = 0
        /\ rec'[o] = p /\ status'[o] = "preparing" /\ offered[o] = {}
    BY <1>1, <1>4 DEF NoRun, Sound, Phase, JournalPhase, Unwritten
  <2>2. ModeAt' /\ StatusAt' /\ PlanAt'
    BY <1>1, <2>1 DEF ModeAt, StatusAt, PlanAt, Early, Armed, Writing, Recording, Backward, Unbound, Resting
  <2>. QED  BY <1>1, <1>2, <2>1, <2>2 DEF Phase, RunPhase, OffersAt, SettledAt
<1>. QED  BY <1>3, <1>4 DEF Begin, p

\* A run of recovery on an op of the journal.
LEMMA RunOnGoes ==
  ASSUME NEW o \in Ops, NEW mode, NEW step, run' = RunOn(o, mode, step)
  PROVE  /\ run'.pc = step /\ run'.op = o /\ run'.mode = mode /\ run'.plan = rec[o]
         /\ run'.next = IF run.next = 0 THEN 0 ELSE o + 1
         /\ run'.at = Len(rec[o].targets) /\ run'.upto = Len(rec[o].targets)
         /\ run'.problem = FALSE
BY DEF RunOn, NoRun

LEMMA StartListingPhase == Sound /\ StartListing => Phase'
<1>. SUFFICES ASSUME Sound, StartListing PROVE Phase'
  OBVIOUS
<1>1. /\ run'.pc = "list" /\ run'.op = 0 /\ run'.mode = "none" /\ run'.next = 1
      /\ offered' = [o \in Ops |-> {}] /\ UNCHANGED <<status, rec, settled>>
  BY DEF StartListing, NoRun, journal
<1>2. ModeAt' /\ StatusAt' /\ PlanAt'
  BY <1>1 DEF ModeAt, StatusAt, PlanAt, Early, Armed, Writing, Recording, Backward, Unbound, Resting
<1>. QED  BY <1>1, <1>2 DEF Sound, Phase, RunPhase, JournalPhase, OffersAt, SettledAt

LEMMA EndListingPhase == Sound /\ EndListing => Phase'
<1>. SUFFICES ASSUME Sound, EndListing PROVE Phase'
  OBVIOUS
<1>1. Tame /\ UNCHANGED status /\ Ends
  BY QuietTame, StepsGo DEF EndListing, Sound, journal
<1>. QED  BY <1>1, EndedPhase, QuietRecords DEF Phase

LEMMA ListPhase == Sound /\ List => Phase'
<1>. SUFFICES ASSUME Sound, List PROVE Phase'
  OBVIOUS
<1>. DEFINE o == run.next
<1>1. /\ run.pc = "list" /\ o \in Ops /\ UNCHANGED <<rec, settled>> /\ Listed(o) /\ run \in Run
      /\ status \in [Ops -> Event] /\ offered \in [Ops -> SUBSET Choice] /\ run.op = 0
      /\ \A p \in Ops : p >= o => offered[p] = {}
  BY DEF List, Sound, Shape, RunOK, JournalOK, OwnerOK, Phase, RunPhase, PlanAt, OffersAt, Ops, Resting
<1>. HIDE DEF o
<1>2. CASE run' = ListNext /\ UNCHANGED <<status, owner>>
  <2>1. run'.pc = "list" /\ run'.op = 0 /\ run'.mode = run.mode /\ run'.next = run.next + 1 /\ UNCHANGED offered
    BY <1>1, <1>2 DEF ListNext, Run, owner
  <2>2. ModeAt' /\ StatusAt' /\ PlanAt'
    BY <1>1, <2>1 DEF ModeAt, StatusAt, PlanAt, Early, Armed, Writing, Recording, Backward, Unbound,
       Resting, Sound, Phase, RunPhase, Ops, o
  <2>3. OffersAt' /\ SettledAt'
    BY <1>1, <2>1 DEF OffersAt, SettledAt, Ops, o
  <2>. QED  BY <1>1, <1>2, <2>1, <2>2, <2>3 DEF Sound, Phase, RunPhase, JournalPhase
<1>3. ASSUME NEW step \in {"unmark", "finalize", "keep"}, NEW mode \in {"auto", "finish"},
             run' = RunOn(o, mode, step), UNCHANGED owner,
             \/ step = "unmark" /\ mode = "auto" /\ status[o] = "preparing"
                  /\ status' \in {status, [status EXCEPT ![o] = "abandoned"]}
             \/ step = "finalize" /\ mode = "finish" /\ status[o] = "validated" /\ UNCHANGED status
             \/ step = "keep" /\ mode = "auto" /\ status[o] = "writing" /\ UNCHANGED status
      PROVE  Phase'
  <2>1. /\ run'.pc = step /\ run'.op = o /\ run'.mode = mode /\ run'.plan = rec[o] /\ run'.next = o + 1
        /\ UNCHANGED offered /\ o \in Nat
    <3>1. run.next = o /\ o # 0 /\ o \in Nat
      BY <1>1 DEF Ops, o
    <3>. QED  BY ZenonT(60), <1>1, <1>3, <3>1, RunOnGoes DEF owner
  <2>2. /\ rec'[o].kind \in {"place", "keep"}
        /\ status[o] \in {"validated", "writing"} => rec'[o].kind = "place"
    BY <1>1, <1>3 DEF Sound, Phase, JournalPhase, Begun
  <2>3. ModeAt' /\ StatusAt' /\ PlanAt'
    BY <1>1, <1>3, <2>1, <2>2 DEF ModeAt, StatusAt, PlanAt, Early, Armed, Writing, Recording, Backward, Unbound,
       Resting, IsOpen, Open, Begun
  <2>4. OffersAt' /\ SettledAt'
    BY <1>1, <1>3, <2>1 DEF OffersAt, SettledAt, Ops
  <2>5. JournalPhase'
    BY <1>1, <1>3, <2>1 DEF Sound, Phase, JournalPhase, Begun, Unwritten
  <2>. QED  BY <2>3, <2>4, <2>5 DEF Phase, RunPhase
<1>4. CASE /\ status[o] \in Begun /\ run' = ListNext
           /\ offered' = [offered EXCEPT ![o] = Choices(o)] /\ UNCHANGED status
  <2>1. run'.pc = "list" /\ run'.op = 0 /\ run'.mode = run.mode /\ run'.next = run.next + 1
    BY <1>1, <1>4 DEF ListNext, Run
  <2>2. ModeAt' /\ StatusAt' /\ PlanAt'
    BY <1>1, <2>1 DEF ModeAt, StatusAt, PlanAt, Early, Armed, Writing, Recording, Backward, Unbound,
       Resting, Sound, Phase, RunPhase, Ops, o
  <2>3. OffersAt' /\ SettledAt'
    BY <1>1, <1>4, <2>1 DEF OffersAt, SettledAt, Ops, o
  <2>4. JournalPhase'
    BY <1>1, <1>4 DEF Sound, Phase, JournalPhase, Begun, Unwritten
  <2>. QED  BY <2>2, <2>3, <2>4 DEF Phase, RunPhase
<1>. QED
  BY <1>1, <1>2, <1>3, <1>4 DEF Listed, JournalQuietly, Journal, AppendFails, With, Begun

LEMMA ReportAutoPhase == Sound /\ ReportAuto => Phase'
<1>. SUFFICES ASSUME Sound, ReportAuto PROVE Phase'
  OBVIOUS
<1>1. /\ run.pc = "report" /\ run.op \in Ops /\ run.mode = "auto" /\ UNCHANGED <<status, rec, settled>>
      /\ status[run.op] = "writing" /\ offered \in [Ops -> SUBSET Choice] /\ run \in Run
      /\ run.next \in Nat
  BY DEF ReportAuto, Sound, Shape, RunOK, OwnerOK, Phase, RunPhase, StatusAt, Backward, Resting, journal, Run
<1>2. CASE run' = Resume /\ offered' = [offered EXCEPT ![run.op] = {"back", "leave"}]
  <2>1. ModeAt' /\ StatusAt' /\ PlanAt' /\ Ends
    BY <1>2, StepsGo DEF Sound, Ends, ModeAt, StatusAt, PlanAt, Resting, Early, Armed, Writing, Recording,
       Backward, Unbound
  <2>2. run.next # 0 => run.next > run.op
    BY <1>1 DEF Sound, Phase, RunPhase, PlanAt, Ops
  <2>3. OffersAt' /\ SettledAt'
    BY <1>1, <1>2, <2>1, <2>2 DEF Sound, Phase, RunPhase, Ends, OffersAt, SettledAt, Ops
  <2>4. JournalPhase'
    BY <1>1, <1>2 DEF Sound, Phase, JournalPhase, Unwritten
  <2>. QED  BY <2>1, <2>3, <2>4 DEF Phase, RunPhase
<1>3. CASE Goes("abandon") /\ UNCHANGED offered
  <2>1. Tame
    BY <1>1, <1>3 DEF Tame
  <2>2. ModeAt' /\ StatusAt' /\ PlanAt'
    BY <1>1, <1>3 DEF Goes, ModeAt, StatusAt, PlanAt, RunPhase, Phase, Sound, Early,
       Armed, Writing, Recording, Backward, Unbound, Resting
  <2>. QED  BY <1>1, <1>3, <2>1, <2>2, GoneOnPhase, QuietRecords DEF Phase, RunPhase
<1>. QED  BY <1>2, <1>3, StepsGo DEF ReportAuto, Sound, Step

LEMMA ResolvePhase ==
  ASSUME Sound, NEW o \in Ops, NEW choice \in Choice, Resolve(o, choice)
  PROVE  Phase'
<1>1. /\ run.pc = "idle" /\ choice \in offered[o] /\ UNCHANGED <<status, rec, settled, offered>>
      /\ status[o] \notin Unwritten /\ status \in [Ops -> Event]
  BY DEF Resolve, Sound, Shape, JournalOK, Phase, JournalPhase, journal
<1>2. JournalPhase'
  BY <1>1 DEF Sound, Phase, JournalPhase
<1>3. CASE UNCHANGED run
  BY <1>1, <1>2, <1>3 DEF Sound, Phase, RunPhase, ModeAt, StatusAt, PlanAt, OffersAt, SettledAt
<1>4. CASE ~Refused(o, choice)
  <2>1. /\ status[o] \in Begun /\ rec[o].kind = "place"
        /\ choice = "forward" => status[o] # "failed" /\ settled[o] = {}
    BY <1>1, <1>4 DEF Refused, IsOpen, Open, Begun, Unwritten, Sound, Phase, JournalPhase
  <2>2. \/ choice = "leave" /\ run' = RunOn(o, "leave", "leave")
        \/ choice = "forward" /\ run' = RunOn(o, "forward", "rederive")
        \/ choice = "back" /\ run' = RunOn(o, "back", "keep")
    BY <1>4 DEF Resolve, Choice
  <2>3. run.next = 0
    BY <1>1 DEF Sound, Phase, RunPhase, PlanAt
  <2>4. /\ run'.op = o /\ run'.plan = rec[o] /\ run'.next = 0
        /\ \/ run'.pc = "leave" /\ run'.mode = "leave"
           \/ run'.pc = "rederive" /\ run'.mode = "forward" /\ choice = "forward"
           \/ run'.pc = "keep" /\ run'.mode = "back"
    BY ZenonT(60), <2>2, <2>3, RunOnGoes
  <2>5. ModeAt' /\ StatusAt' /\ PlanAt'
    BY <1>1, <2>1, <2>4 DEF ModeAt, StatusAt, PlanAt, Early, Armed, Writing, Recording, Backward, Unbound,
       Resting, Begun
  <2>6. OffersAt' /\ SettledAt'
    BY <1>1, <2>1, <2>4 DEF OffersAt, SettledAt
  <2>. QED  BY <1>2, <2>5, <2>6 DEF Phase, RunPhase
<1>. QED  BY <1>3, <1>4 DEF Resolve

LEMMA ForwardPhase == Sound /\ (Rederive \/ Replan) => Phase'
<1>. SUFFICES ASSUME Sound, Rederive \/ Replan PROVE Phase'
  OBVIOUS
<1>1. Tame /\ UNCHANGED status /\ run \in Run
  BY OwnerTame DEF Rederive, Replan, Return, Tame, Sound, Shape, RunOK, journal
<1>2. \/ Ends
      \/ run.pc = "rederive" /\ Goes("replan")
      \/ run.pc = "replan" /\ run.mode = "forward" /\ (Goes("validate") \/ Goes("replan") \/ Goes("stage"))
  <2>1. CASE Rederive
    BY <1>1, <2>1, StepsGo DEF Rederive, Goes, Run, Sound
  <2>2. CASE Replan
    <3>1. run.mode = "forward"
      BY <2>2 DEF Replan, Sound, Phase, RunPhase, ModeAt
    <3>. QED  BY <1>1, <2>2, <3>1, WritingGoes DEF Replan, Goes, Run, AtTarget
  <2>. QED  BY <2>1, <2>2
<1>3. CASE Ends
  BY <1>1, <1>3, EndedPhase, QuietRecords DEF Phase
<1>4. CASE ~Ends
  <2>1. ModeAt' /\ StatusAt' /\ PlanAt'
    BY <1>1, <1>2, <1>4 DEF Tame, Goes, ModeAt, StatusAt, PlanAt, RunPhase, Phase, Sound, Early,
       Armed, Writing, Recording, Backward, Unbound, Resting
  <2>2. OffersAt' /\ SettledAt'
    BY <1>1, <1>2, <1>4, GoneOnPhase
  <2>. QED  BY <1>1, <2>1, <2>2, QuietRecords DEF Phase, RunPhase
<1>. QED  BY <1>3, <1>4

LEMMA OuterPhase == Sound /\ (Outer \/ UNCHANGED vars) => Phase'
<1>. SUFFICES ASSUME Sound, Outer \/ UNCHANGED vars PROVE Phase'
  OBVIOUS
<1>1. UNCHANGED <<status, rec, settled>>
  BY DEF Outer, OutsideWrite, GameStarts, GameStops, Crash, vars, journal
<1>2. CASE UNCHANGED <<run, owner>>
  BY <1>1, <1>2 DEF owner, Sound, Phase, RunPhase, JournalPhase, ModeAt, StatusAt, PlanAt, OffersAt, SettledAt,
     IsOpen
<1>3. CASE Crash
  <2>1. Tame /\ UNCHANGED status
    BY <1>1, <1>3 DEF Crash, Tame
  <2>. QED  BY <1>3, <2>1, StepsGo, EndedPhase, QuietRecords DEF Crash, Sound, Phase
<1>. QED  BY <1>2, <1>3 DEF Outer, OutsideWrite, GameStarts, GameStops, vars

LEMMA InitPhase == Init => Phase
<1>. SUFFICES ASSUME Init PROVE Phase
  OBVIOUS
<1>1. /\ run.pc = "idle" /\ run.op = 0 /\ run.mode = "none" /\ run.next = 0
      /\ \A o \in Ops : status[o] = "none" /\ offered[o] = {} /\ settled[o] = {}
  BY DEF Init, NoRun
<1>. QED
  BY <1>1 DEF Phase, RunPhase, JournalPhase, ModeAt, StatusAt, PlanAt, OffersAt, SettledAt, Early, Armed, Writing,
     Recording, Backward, Unbound, Resting, Begun

LEMMA NextPhase == Sound /\ [Next]_vars => Phase'
<1>. SUFFICES ASSUME Sound, [Next]_vars PROVE Phase'
  OBVIOUS
<1>1. ASSUME NEW o \in Ops, NEW ts \in TargetLists, NEW ord \in Orders, Start(o, ts, ord)
      PROVE  Phase'
  BY <1>1, BeginPhase DEF Start
<1>2. ASSUME NEW o \in Ops, NEW s \in Slots, KeepCopy(o, s)
      PROVE  Phase'
  BY <1>2, BeginPhase DEF KeepCopy
<1>3. CASE Execute
  BY <1>1, <1>2, <1>3, EarlyPhase, PreparePhase, IntendPhase, ArmedPhase, AbandonPhase, UnmarkPhase,
     WritePhase, RollbackPhase, RecordPhase, ConfirmPhase, ClosePhase, ReportPhase, AuditPhase DEF Execute
<1>4. CASE Recover
  BY <1>4, StartListingPhase, ListPhase, EndListingPhase, ReportAutoPhase, ResolvePhase, ForwardPhase,
     RecoveredPhase, ReportBackPhase, RolledBackPhase, LeavePhase DEF Recover
<1>. QED  BY <1>3, <1>4, OuterPhase DEF Next

\* At every moment the run is at a step that its operation's last event, its plan and its
\* offers allow (execute.py, recovery.py): recovery never finds a run it cannot place.
THEOREM PhaseHolds == Spec => []Phase
<1>1. Init => Phase
  BY InitPhase
<1>2. Shape /\ Phase /\ [Next]_vars => Phase'
  BY NextPhase DEF Sound
<1>. QED  BY <1>1, <1>2, ShapeHolds, PTL DEF Spec
-----------------------------------------------------------------------------
\* An end is final: every event goes to an op that is not closed yet.

Final == {"done", "rolled_back", "abandoned", "left"}

Appends(o) == /\ o \in Ops /\ status[o] \notin Final
              /\ \E e \in Event : status' \in {status, With(o, e)}

LEMMA RunAppends ==
  ASSUME Sound, \/ Intend \/ Abandon \/ Confirm \/ Close \/ Report
                \/ Recovered \/ ReportBack \/ RolledBack \/ Left
  PROVE  Appends(run.op)
<1>1. run.op \in Ops
  BY DEF Sound, Shape, RunOK, Resting, Intend, Abandon, Confirm, Close, Report, Recovered, ReportBack,
     RolledBack, Left
<1>2. status[run.op] \notin Final
  BY DEF Sound, Phase, RunPhase, StatusAt, ModeAt, Early, Armed, Writing, Backward, Begun, Final, Intend, Abandon,
     Confirm, Close, Report, Recovered, ReportBack, RolledBack, Left
<1>3. \E e \in Event : status' \in {status, With(run.op, e)}
  BY DEF Event, Journal, JournalQuietly, AppendFails, Intended, Intend, Abandon, Confirm, Close, Report, Recovered,
     ReportBack, RolledBack, Left
<1>. QED  BY <1>1, <1>2, <1>3 DEF Appends

LEMMA OtherAppends ==
  /\ \A o \in Ops : \A kind, ts, ord, step : Sound /\ Begin(o, kind, ts, ord, step) => Appends(o)
  /\ Sound /\ List => Appends(run.next) \/ UNCHANGED status
<1>1. \A o \in Ops : \A kind, ts, ord, step : Sound /\ Begin(o, kind, ts, ord, step) => Appends(o)
  BY DEF Begin, Appends, Final, Event
<1>2. Sound /\ List => Appends(run.next) \/ UNCHANGED status
  BY DEF List, Listed, JournalQuietly, Journal, AppendFails, Appends, Final, Event
<1>. QED  BY <1>1, <1>2

LEMMA FinalStays ==
  ASSUME Sound, [Next]_vars, NEW o \in Ops, status[o] \in Final
  PROVE  status'[o] = status[o]
<1>1. (\E p \in Ops : Appends(p)) \/ UNCHANGED status
  <2>1. CASE Execute
    <3>1. CASE \/ Preserve \/ Snapshot \/ (\E same \in SameSets : Prepare(same))
               \/ Mark \/ Probe \/ Unmark \/ Stage \/ Check \/ (\E f \in Files : Rename(f)) \/ Validate
               \/ Finalize \/ RecordOplog \/ RecordLineage \/ Audit \/ Trace \/ Copy \/ Copied
               \/ (Rollback /\ UNCHANGED <<journal, records, owner, outer, crashes>>)
      BY <3>1 DEF Preserve, Snapshot, Prepare, Mark, Probe, Unmark, Stage, Check, Rename, Validate, Finalize,
         RecordOplog, RecordLineage, Audit, Trace, Copy, Copied, journal
    <3>2. CASE (\E p \in Ops, ts \in TargetLists, ord \in Orders : Start(p, ts, ord))
               \/ (\E p \in Ops, s \in Slots : KeepCopy(p, s))
      BY <3>2, OtherAppends DEF Start, KeepCopy
    <3>. QED  BY <2>1, <3>1, <3>2, RunAppends DEF Execute, Appends
  <2>2. CASE Recover
    <3>1. CASE StartListing \/ EndListing \/ ReportAuto \/ Rederive \/ Replan \/ Leave
               \/ (\E p \in Ops, choice \in Choice : Resolve(p, choice))
      BY <3>1 DEF StartListing, EndListing, ReportAuto, Rederive, Replan, Leave, Resolve, journal
    <3>. QED  BY <2>2, <3>1, RunAppends, OtherAppends DEF Recover, Appends
  <2>3. CASE Outer \/ UNCHANGED vars
    BY <2>3 DEF Outer, OutsideWrite, GameStarts, GameStops, Crash, vars, journal
  <2>. QED  BY <2>1, <2>2, <2>3 DEF Next
<1>2. status \in [Ops -> Event]
  BY DEF Sound, Shape, JournalOK
<1>. QED  BY <1>1, <1>2 DEF Appends, With

\* A closed operation stays closed with the same end.
THEOREM EndsAreFinal == Spec => EndIsFinal
<1>1. Shape /\ Phase /\ [Next]_vars =>
        [\A o \in Ops : status[o] \in {"done", "rolled_back", "abandoned", "left"}
                          => status'[o] = status[o]]_vars
  BY FinalStays DEF Sound, Final
<1>. QED  BY <1>1, ShapeHolds, PhaseHolds, PTL DEF Spec, EndIsFinal

-----------------------------------------------------------------------------
(***************************************************************************)
(* No step of the app costs the owner a save (BytesKept), for any slots,   *)
(* files, target lists and bounds.                                         *)
(*                                                                         *)
(* A rename destroys what is in the file at that moment, so NothingLost    *)
(* needs what the run knows of it: the file is as it was compared (or a    *)
(* late write of the game); what it was compared with is the old content,  *)
(* which the vault holds, or the new one; and for a rollback, what is not  *)
(* the op's own was set aside first.                                       *)
(***************************************************************************)

\* Written by the game inside a race window.
Lately == {Game(k) : k \in {n \in 1..outside : late[n] # "no"}}

LostLately == \A c \in gone : c[3] \in Lately

\* A forward recovery found every file old or new.
Forwarded == run.mode = "forward" /\ run.pc \in {"rederive", "replan", "stage", "check", "rename"}
AsFound == Forwarded =>
  \A s \in Targets(run.plan), f \in Files :
     live[s][f] \in {run.plan.pre[s][f], run.plan.post[s][f]} \/ live[s][f] \in Lately

\* What the swap and the rollback compare with, and that they did.
Compared ==
  /\ run.pc \in {"stage", "check", "rename"} =>
       \A f \in run.todo : run.expect[f] \in {Pre(f), Post(f)} \/ run.expect[f] \in Lately
  /\ run.pc = "restore" =>
       \A f \in Files : \/ run.expect[f] \in {Absent, Pre(f), Post(f)}
                        \/ <<Slot, f, run.expect[f]>> \in kept
  /\ run.pc \in {"rename", "restore"} =>
       \A f \in run.todo : live[Slot][f] = run.expect[f] \/ live[Slot][f] \in Lately

Careful == LostLately /\ AsFound /\ Compared

Ready == Shape /\ Vouched /\ Phase /\ Careful

LEMMA CarefulLosesNothing == Careful => NothingLost
BY DEF Careful, LostLately, Lately, NothingLost, Game

-----------------------------------------------------------------------------
\* Most steps write no file and lead to no step that will.

Watched == {"rederive", "replan", "stage", "check", "rename", "restore"}

Calm == UNCHANGED <<live, kept, gone, outside, late>> /\ run'.pc \notin Watched

LEMMA CalmIsCareful == Careful /\ Calm => Careful'
<1>. SUFFICES ASSUME Careful, Calm PROVE Careful'
  OBVIOUS
<1>1. Lately \subseteq Lately'
  BY DEF Calm, Lately
<1>2. LostLately'
  BY <1>1 DEF Careful, LostLately, Calm
<1>. QED  BY <1>2 DEF Careful, AsFound, Forwarded, Compared, Calm, Watched

LEMMA CalmGoes ==
  /\ Shape => \A step \in Step \ Watched : Goto(step) => run'.pc \notin Watched
  /\ \A step : step \notin Watched /\ Goes(step) => run'.pc \notin Watched
  /\ Ends => run'.pc \notin Watched
BY DEF Goes, Ends, Watched, Goto, Shape, RunOK, Run

LEMMA EarlyIsCalm == Shape /\ (Preserve \/ Snapshot \/ Intend \/ Mark \/ Abandon \/ Unmark) => Calm
<1>. SUFFICES ASSUME Shape, Preserve \/ Snapshot \/ Intend \/ Mark \/ Abandon \/ Unmark PROVE Calm
  OBVIOUS
<1>1. run \in Run
  BY DEF Shape, RunOK
<1>2. run'.pc \notin Watched
  <2>1. CASE Snapshot
    BY <1>1, <2>1, StepsGo, CalmGoes DEF Snapshot, Run, Watched
  <2>2. CASE Preserve \/ Intend \/ Mark \/ Abandon \/ Unmark
    BY <2>2, StepsGo, CalmGoes DEF Preserve, Intend, Mark, Abandon, Unmark, Step, Watched
  <2>. QED  BY <2>1, <2>2
<1>. QED  BY <1>2 DEF Calm, Preserve, Snapshot, Intend, Mark, Abandon, Unmark, disk, outer

LEMMA PrepareIsCalm == \A same \in SameSets : Shape /\ Prepare(same) => Calm
<1>. SUFFICES ASSUME Shape, NEW same \in SameSets, Prepare(same) PROVE Calm
  OBVIOUS
<1>1. run \in Run
  BY DEF Shape, RunOK
<1>2. run'.pc \notin Watched
  BY ZenonT(60), <1>1, StepsGo, CalmGoes DEF Prepare, Run, Watched
<1>. QED  BY <1>2 DEF Calm, Prepare, disk, outer

LEMMA RecordingIsCalm ==
  Shape /\ (Confirm \/ Finalize \/ RecordOplog \/ RecordLineage \/ Close \/ Trace \/ Copy \/ Copied) => Calm
<1>. SUFFICES ASSUME Shape,
                     Confirm \/ Finalize \/ RecordOplog \/ RecordLineage \/ Close \/ Trace \/ Copy \/ Copied
              PROVE  Calm
  OBVIOUS
<1>1. run'.pc \notin Watched
  BY StepsGo, CalmGoes DEF Confirm, Finalize, RecordOplog, RecordLineage, Close, Trace, Copy, Copied, Step, Watched
<1>. QED
  BY <1>1 DEF Calm, Sweep, Confirm, Finalize, RecordOplog, RecordLineage, Close, Trace, Copy, Copied, disk, outer

LEMMA ReportingIsCalm == Shape /\ (Report \/ Audit \/ ReportAuto \/ ReportBack \/ RolledBack) => Calm
<1>. SUFFICES ASSUME Shape, Report \/ Audit \/ ReportAuto \/ ReportBack \/ RolledBack PROVE Calm
  OBVIOUS
<1>1. run \in Run
  BY DEF Shape, RunOK
<1>2. run'.pc \notin Watched
  <2>1. CASE Report \/ ReportAuto \/ ReportBack \/ RolledBack
    BY <2>1, StepsGo, CalmGoes DEF Report, ReportAuto, ReportBack, RolledBack, Step, Watched
  <2>2. CASE Audit
    BY <1>1, <2>2, StepsGo, CalmGoes DEF Audit, Run, Watched
  <2>. QED  BY <2>1, <2>2
<1>. QED  BY <1>2 DEF Calm, Report, Audit, ReportAuto, ReportBack, RolledBack, disk, outer

LEMMA ListingIsCalm == Shape /\ (StartListing \/ List \/ EndListing) => Calm
<1>. SUFFICES ASSUME Shape, StartListing \/ List \/ EndListing PROVE Calm
  OBVIOUS
<1>1. run \in Run
  BY DEF Shape, RunOK
<1>2. run'.pc \notin Watched
  <2>1. CASE StartListing
    <3>1. run'.pc = "list"
      BY <2>1 DEF StartListing, NoRun
    <3>. QED  BY <3>1 DEF Watched
  <2>2. CASE EndListing
    BY <2>2, StepsGo, CalmGoes DEF EndListing
  <2>3. CASE List
    <3>1. CASE run' = ListNext
      BY <1>1, <2>3, <3>1 DEF List, ListNext, Run, Watched
    <3>2. CASE \/ run' = RunOn(run.next, "auto", "unmark")
               \/ run' = RunOn(run.next, "finish", "finalize")
               \/ run' = RunOn(run.next, "auto", "keep")
      <4>1. \A mode, step : run' = RunOn(run.next, mode, step) => run'.pc = step
        BY DEF RunOn, NoRun
      <4>. QED  BY <3>2, <4>1 DEF Watched
    <3>. QED  BY <2>3, <3>1, <3>2 DEF List, Listed
  <2>. QED  BY <2>1, <2>2, <2>3
<1>. QED  BY <1>2 DEF Calm, StartListing, List, EndListing, disk, outer

LEMMA LeavingIsCalm == Shape /\ (Recovered \/ Leave \/ Left \/ Crash) => Calm
<1>. SUFFICES ASSUME Shape, Recovered \/ Leave \/ Left \/ Crash PROVE Calm
  OBVIOUS
<1>1. run'.pc \notin Watched
  BY StepsGo, CalmGoes DEF Recovered, Leave, Left, Crash, Step, Watched
<1>. QED  BY <1>1 DEF Calm, Sweep, Recovered, Leave, Left, Crash, disk, outer

LEMMA BeginIsCalm ==
  ASSUME NEW o, NEW kind, NEW ts, NEW ord, NEW step \in {"preserve", "copy"}, Begin(o, kind, ts, ord, step)
  PROVE  Calm
<1>1. run'.pc \notin Watched
  BY DEF Begin, NoRun, Watched
<1>. QED  BY <1>1 DEF Begin, Calm, disk, outer
-----------------------------------------------------------------------------
\* The steps that look at the files and write them.

\* A step that changes no file and no record of the game's writes.
Reading == UNCHANGED <<live, gone, outside, late>> /\ kept \subseteq kept'

LEMMA ReadingKeeps ==
  ASSUME Careful, Reading
  PROVE  LostLately' /\ Lately \subseteq Lately'
BY DEF Careful, LostLately, Reading, Lately

LEMMA ProbeIsCareful == Ready /\ Probe => Careful'
<1>. SUFFICES ASSUME Ready, Probe PROVE Careful'
  OBVIOUS
<1>1. run \in Run /\ Reading /\ run.mode = "execute"
  BY DEF Ready, Shape, RunOK, Probe, Reading, disk, outer, Phase, RunPhase, ModeAt, Armed
<1>2. CASE GiveUp("refused")
  <2>1. Calm
    BY <1>2, StepsGo, CalmGoes DEF Ready, Probe, Calm, disk, outer, Watched
  <2>. QED  BY <2>1, CalmIsCareful DEF Ready
<1>3. CASE run' = [run EXCEPT !.pc = "stage", !.at = 1, !.todo = Files,
                              !.expect = run.plan.pre[run.plan.targets[1]]]
  <2>1. /\ run'.pc = "stage" /\ run'.at = 1 /\ run'.plan = run.plan /\ run'.mode = "execute"
        /\ run'.expect = run.plan.pre[run.plan.targets[1]] /\ run'.todo = Files
    BY <1>1, <1>3 DEF Run
  <2>2. Compared' /\ AsFound'
    BY <2>1 DEF Compared, AsFound, Forwarded, Pre, Slot
  <2>. QED  BY <1>1, <2>2, ReadingKeeps DEF Ready, Careful
<1>. QED  BY <1>2, <1>3 DEF Probe

\* A write that stops is calm.
LEMMA StopIsCalm ==
  ASSUME Ready, run.pc \in AtTarget \cup {"validate"}, NEW n, StopWriting(n)
  PROVE  run'.pc \notin Watched
BY WritingGoes DEF Ready, Sound, Goes, Ends, Watched

LEMMA StageIsCareful == Ready /\ (Stage \/ Check \/ Validate) => Careful'
<1>. SUFFICES ASSUME Ready, Stage \/ Check \/ Validate PROVE Careful'
  OBVIOUS
<1>1. /\ run \in Run /\ UNCHANGED <<live, kept, gone, outside, late>>
      /\ run.pc \in {"stage", "check", "validate"}
  BY DEF Ready, Shape, RunOK, Stage, Check, Validate, StageFiles, Sweep, disk, outer
<1>2. CASE \E n : StopWriting(n)
  <2>1. Calm
    BY <1>1, <1>2, StopIsCalm DEF Calm, AtTarget
  <2>. QED  BY <2>1, CalmIsCareful DEF Ready
<1>3. CASE Validate /\ (Goto("recovered") \/ Goto("confirm"))
  <2>1. Calm
    BY <1>1, <1>3, CalmGoes DEF Calm, Ready, Step, Watched
  <2>. QED  BY <2>1, CalmIsCareful DEF Ready
<1>4. CASE \/ run.pc = "stage" /\ Goto("check")
           \/ run.pc = "check" /\ AsPlanned /\ Goto("rename")
  <2>1. /\ run'.pc \in {"check", "rename"} /\ run'.plan = run.plan /\ run'.mode = run.mode /\ run'.at = run.at
        /\ run'.todo = run.todo /\ run'.expect = run.expect /\ (run'.pc = "rename" => AsPlanned)
    BY <1>1, <1>4 DEF Goto, Run
  <2>2. LostLately' /\ Lately \subseteq Lately'
    BY <1>1, ReadingKeeps DEF Ready, Reading
  <2>3. AsFound'
    BY <1>1, <1>4, <2>1, <2>2 DEF Ready, Careful, AsFound, Forwarded
  <2>4. Compared'
    <3>1. UNCHANGED Slot /\ \A f : UNCHANGED <<Pre(f), Post(f)>>
      BY <2>1 DEF Slot, Pre, Post
    <3>2. \A f \in run.todo : run.expect[f] \in {Pre(f), Post(f)} \/ run.expect[f] \in Lately
      BY <1>4 DEF Ready, Careful, Compared
    <3>3. run'.pc = "rename" => \A f \in run.todo : live[Slot][f] = run.expect[f]
      BY <2>1 DEF AsPlanned
    <3>. QED  BY <1>1, <2>1, <3>1, <3>2, <3>3 DEF Compared, Lately
  <2>. QED  BY <2>2, <2>3, <2>4 DEF Careful
<1>. QED  BY <1>2, <1>3, <1>4 DEF Stage, Check, Validate

\* What the run moves on to when a target is done.
LEMMA NextIsCompared ==
  ASSUME Ready, run.pc \in AtTarget, run' = NextTarget
  PROVE  /\ Compared'
         /\ run'.plan = run.plan /\ run'.mode = run.mode
         /\ Forwarded' => run.mode = "forward"
<1>1. run \in Run
  BY DEF Ready, Shape, RunOK
<1>2. CASE run.at = Len(run.plan.targets)
  BY <1>1, <1>2 DEF NextTarget, Run, Compared, Forwarded
<1>3. CASE run.at # Len(run.plan.targets) /\ run.mode = "forward"
  BY <1>1, <1>3 DEF NextTarget, Run, Compared, Forwarded
<1>4. CASE run.at # Len(run.plan.targets) /\ run.mode # "forward"
  <2>1. /\ run'.pc = "stage" /\ run'.at = run.at + 1 /\ run'.plan = run.plan /\ run'.mode = run.mode
        /\ run'.expect = run.plan.pre[run.plan.targets[run.at + 1]]
    BY <1>1, <1>4 DEF NextTarget, Run
  <2>. QED  BY <1>4, <2>1 DEF Compared, Forwarded, Slot, Pre
<1>. QED  BY <1>2, <1>3, <1>4

\* What a write of the app replaces is old, new or late: the vault or the kept
\* files have what is neither.
LEMMA PutLosesNothing ==
  ASSUME Ready, run.pc \in {"rename", "restore"}, NEW f \in run.todo, NEW c, Put(Slot, f, c),
         \/ run.pc = "rename" /\ c = Post(f)
         \/ run.pc = "restore" /\ c = Pre(f),
         UNCHANGED <<vault, kept, outside, late>>
  PROVE  LostLately' /\ Lately \subseteq Lately'
<1>1. Slot \in Targets(run.plan) /\ f \in Files
  <2>1. Slot \in Targets(run.plan)
    BY SlotIsATarget DEF Ready, AtTarget
  <2>. QED  BY <2>1, AtASlot DEF Ready, AtTarget, Run
<1>2. Pre(f) = Absent \/ <<Slot, f, Pre(f)>> \in vault
  BY <1>1 DEF Ready, Vouched, VouchedPlan, Backed, Pre
<1>3. Lately' = Lately
  BY DEF Lately
<1>4. ASSUME NEW x, x = live[Slot][f], x \notin {Absent, c, Post(f)}, <<Slot, f, x>> \notin vault \cup kept
      PROVE  x \in Lately
  BY <1>1, <1>2, <1>4 DEF Ready, Careful, Compared
<1>5. ASSUME NEW y \in gone' PROVE y[3] \in Lately
  <2>1. gone' = gone \cup ({<<Slot, f, x>> : x \in {live[Slot][f]} \ {Absent, c, Post(f)}} \ (vault \cup kept))
    BY DEF Put, Post
  <2>2. CASE y \in gone
    BY <2>2 DEF Ready, Careful, LostLately
  <2>3. ASSUME NEW x, x = live[Slot][f], x \notin {Absent, c, Post(f)}, y = <<Slot, f, x>>, y \notin vault \cup kept
        PROVE  y[3] \in Lately
    <3>1. y[3] = x
      BY <2>3
    <3>. QED  BY <1>4, <2>3, <3>1
  <2>. QED  BY <1>5, <2>1, <2>2, <2>3, Zenon
<1>6. \A y \in gone' : y[3] \in Lately
  BY <1>5
<1>. QED  BY <1>3, <1>6 DEF LostLately

LEMMA RenameIsCareful ==
  ASSUME Ready, NEW f \in Files, Rename(f)
  PROVE  Careful'
<1>1. /\ run \in Run /\ run.pc = "rename" /\ f \in run.todo /\ UNCHANGED <<outside, late>>
      /\ Slot \in Slots /\ live \in Folder
  BY AtASlot DEF Ready, Shape, RunOK, DiskOK, Rename, IsNext, outer, AtTarget
<1>2. CASE RenameFile(f) /\ run' = IF run.todo = {f} THEN NextTarget ELSE [run EXCEPT !.todo = @ \ {f}]
  <2>1. LostLately' /\ Lately \subseteq Lately'
    BY <1>1, <1>2, PutLosesNothing DEF RenameFile
  <2>2. \A s \in Slots, g \in Files :
          live'[s][g] = IF s = Slot /\ g = f THEN Post(f) ELSE live[s][g]
    BY <1>1, <1>2 DEF RenameFile, Put, Folder
  <2>3. /\ run'.plan = run.plan /\ (Forwarded' => run.mode = "forward")
        /\ run.todo = {f} => Compared'
        /\ run.todo # {f} => /\ run'.pc = "rename" /\ run'.todo = run.todo \ {f}
                             /\ run'.expect = run.expect /\ run'.at = run.at
    <3>1. CASE run.todo = {f}
      BY <1>1, <1>2, <3>1, NextIsCompared DEF AtTarget
    <3>2. CASE run.todo # {f}
      BY <1>1, <1>2, <3>2 DEF Run, Forwarded
    <3>. QED  BY <3>1, <3>2
  <2>4. AsFound'
    <3>. SUFFICES ASSUME Forwarded', NEW s \in Targets(run.plan), NEW g \in Files
                  PROVE  live'[s][g] \in {run.plan.pre[s][g], run.plan.post[s][g]} \/ live'[s][g] \in Lately'
      BY <2>3 DEF AsFound
    <3>1. live[s][g] \in {run.plan.pre[s][g], run.plan.post[s][g]} \/ live[s][g] \in Lately
      BY <1>1, <2>3 DEF Ready, Careful, AsFound, Forwarded
    <3>2. s \in Slots
      BY <1>1, TargetsType DEF Run
    <3>. QED  BY <2>1, <2>2, <3>1, <3>2 DEF Post
  <2>5. run.todo # {f} => Compared'
    <3>. SUFFICES ASSUME run.todo # {f} PROVE Compared'
      OBVIOUS
    <3>1. UNCHANGED Slot /\ \A g : UNCHANGED <<Pre(g), Post(g)>>
      BY <2>3 DEF Slot, Pre, Post
    <3>2. \A g \in run'.todo : run'.expect[g] \in {Pre(g), Post(g)} \/ run.expect[g] \in Lately
      BY <1>1, <2>3 DEF Ready, Careful, Compared
    <3>3. \A g \in run'.todo : live'[Slot][g] = run.expect[g] \/ (live[Slot][g] \in Lately /\ live'[Slot][g] = live[Slot][g])
      BY <1>1, <2>2, <2>3 DEF Ready, Careful, Compared, Run
    <3>. QED  BY <2>1, <2>3, <3>1, <3>2, <3>3 DEF Compared
  <2>. QED  BY <2>1, <2>3, <2>4, <2>5 DEF Careful
<1>3. CASE StopWriting(run.at) /\ UNCHANGED <<disk, gone>>
  <2>1. Calm
    BY <1>1, <1>3, StopIsCalm DEF Calm, AtTarget, disk
  <2>. QED  BY <2>1, CalmIsCareful DEF Ready
<1>4. CASE StopWriting(run.at) /\ RenameFile(f)
  <2>1. LostLately'
    BY <1>1, <1>4, PutLosesNothing DEF RenameFile
  <2>2. run'.pc \notin Watched
    BY <1>1, <1>4, StopIsCalm DEF AtTarget
  <2>. QED  BY <2>1, <2>2 DEF Careful, AsFound, Forwarded, Compared, Watched
<1>. QED  BY <1>2, <1>3, <1>4 DEF Rename

LEMMA RestoreIsCareful ==
  ASSUME Ready, NEW f \in Files, RollbackRestore(f), UNCHANGED outer
  PROVE  Careful'
<1>1. /\ run \in Run /\ run.pc = "restore" /\ f \in run.todo /\ UNCHANGED <<outside, late, vault, kept>>
      /\ Slot \in Slots /\ live \in Folder
  BY AtASlot DEF Ready, Shape, RunOK, DiskOK, RollbackRestore, IsNext, outer, AtTarget
<1>2. /\ run'.plan = run.plan /\ run'.at = run.at /\ run'.expect = run.expect
      /\ run'.todo = run.todo \ {f} /\ run'.pc \in {"restore", "verify"}
  BY <1>1 DEF RollbackRestore, Restored, Run
<1>3. /\ LostLately' /\ Lately \subseteq Lately'
      /\ \A s \in Slots, g \in Files : ~(s = Slot /\ g = f) => live'[s][g] = live[s][g]
  <2>1. CASE Put(Slot, f, Pre(f))
    <3>1. \A s \in Slots, g \in Files : ~(s = Slot /\ g = f) => live'[s][g] = live[s][g]
      BY <1>1, <2>1 DEF Put, Folder
    <3>. QED  BY <1>1, <2>1, <3>1, PutLosesNothing
  <2>2. CASE UNCHANGED <<live, gone>>
    BY <1>1, <2>2 DEF Ready, Careful, LostLately, Lately
  <2>. QED  BY <2>1, <2>2 DEF RollbackRestore
<1>4. AsFound'
  BY <1>2 DEF AsFound, Forwarded
<1>5. Compared'
  <2>1. UNCHANGED Slot /\ \A g : UNCHANGED <<Pre(g), Post(g)>>
    BY <1>2 DEF Slot, Pre, Post
  <2>2. \A g \in Files : \/ run'.expect[g] \in {Absent, Pre(g), Post(g)}
                         \/ <<Slot, g, run'.expect[g]>> \in kept'
    BY <1>1, <1>2 DEF Ready, Careful, Compared
  <2>3. \A g \in run'.todo : live'[Slot][g] = run.expect[g] \/ (live[Slot][g] \in Lately /\ live'[Slot][g] = live[Slot][g])
    BY <1>1, <1>2, <1>3 DEF Ready, Careful, Compared, Run
  <2>. QED  BY <1>2, <1>3, <2>1, <2>2, <2>3 DEF Compared
<1>. QED  BY <1>3, <1>4, <1>5 DEF Careful

LEMMA RollbackIsCareful ==
  ASSUME Ready, Rollback, UNCHANGED <<journal, records, owner, outer, crashes>>
  PROVE  Careful'
<1>1. UNCHANGED outer /\ UNCHANGED <<outside, late>> /\ run \in Run
  BY DEF outer, Ready, Shape, RunOK
<1>2. CASE RollbackVerify \/ (RollbackKeep /\ BackTo(run.at - 1, TRUE) /\ UNCHANGED kept)
  <2>1. run.pc \in AtTarget /\ \E i, bad : BackTo(i, bad)
    BY <1>2 DEF RollbackVerify, AtTarget, RollbackKeep
  <2>2. run'.pc \notin Watched
    BY <2>1, WritingGoes DEF Ready, Sound, Goes, Watched
  <2>3. Calm
    BY <1>1, <1>2, <2>2 DEF RollbackVerify, RollbackKeep, Sweep, Calm
  <2>. QED  BY <2>3, CalmIsCareful DEF Ready
<1>3. CASE /\ RollbackKeep /\ kept' = kept \cup CopiesOf(live, {Slot}, Foreign)
           /\ run' = [run EXCEPT !.pc = "restore", !.todo = Files, !.expect = live[Slot]]
  <2>1. /\ run'.pc = "restore" /\ run'.plan = run.plan /\ run'.at = run.at /\ run'.expect = live[Slot]
        /\ run'.todo = Files /\ UNCHANGED <<live, gone>>
    BY <1>1, <1>3 DEF RollbackKeep, Run
  <2>2. LostLately'
    BY <1>1, <1>3, <2>1, ReadingKeeps DEF Reading, Ready
  <2>3. AsFound'
    BY <2>1 DEF AsFound, Forwarded
  <2>4. Compared'
    <3>1. UNCHANGED Slot /\ \A g : UNCHANGED <<Pre(g), Post(g)>>
      BY <2>1 DEF Slot, Pre, Post
    <3>2. \A f \in Files : \/ live[Slot][f] \in {Absent, Pre(f), Post(f)}
                           \/ <<Slot, f, live[Slot][f]>> \in CopiesOf(live, {Slot}, Foreign)
      BY DEF Foreign, Changed, CopiesOf
    <3>. QED  BY <1>3, <2>1, <3>1, <3>2 DEF Compared
  <2>. QED  BY <2>2, <2>3, <2>4 DEF Careful
<1>4. ASSUME NEW f \in Files, RollbackRestore(f) PROVE Careful'
  BY <1>1, <1>4, RestoreIsCareful
<1>. QED  BY <1>2, <1>3, <1>4 DEF Rollback, RollbackKeep

-----------------------------------------------------------------------------
\* A forward recovery.

LEMMA ForwardIsCareful == Ready /\ (Rederive \/ Replan) => Careful'
<1>. SUFFICES ASSUME Ready, Rederive \/ Replan PROVE Careful'
  OBVIOUS
<1>1. /\ run \in Run /\ UNCHANGED <<live, kept, gone, outside, late>> /\ run.mode = "forward"
      /\ run.pc \in {"rederive", "replan"}
  BY DEF Ready, Shape, RunOK, Phase, RunPhase, ModeAt, Rederive, Replan, Sweep, disk, outer
<1>2. /\ LostLately' /\ Lately' = Lately
      /\ \A s \in Targets(run.plan), f \in Files :
           live[s][f] \in {run.plan.pre[s][f], run.plan.post[s][f]} \/ live[s][f] \in Lately
  BY <1>1 DEF Ready, Careful, LostLately, Lately, AsFound, Forwarded
<1>3. run'.plan = run.plan => AsFound'
  BY <1>1, <1>2 DEF AsFound
<1>4. CASE Rederive
  <2>1. CASE Return("put_back_instead")
    <3>1. Calm
      BY <1>1, <2>1, StepsGo, CalmGoes DEF Calm, Ready
    <3>. QED  BY <3>1, CalmIsCareful DEF Ready
  <2>2. CASE run' = [run EXCEPT !.pc = "replan", !.at = 1]
    <3>1. run'.pc = "replan" /\ run'.plan = run.plan
      BY <1>1, <2>2 DEF Run
    <3>. QED  BY <1>2, <1>3, <3>1 DEF Careful, Compared
  <2>. QED  BY <1>4, <2>1, <2>2 DEF Rederive
<1>5. CASE Replan
  <2>1. CASE run' = NextTarget
    BY <1>2, <1>3, <1>5, <2>1, NextIsCompared DEF Replan, AtTarget, Careful
  <2>2. CASE run' = [run EXCEPT !.pc = "stage", !.todo = {f \in Files : live[Slot][f] # Post(f)},
                                !.expect = live[Slot]]
    <3>1. /\ run'.pc = "stage" /\ run'.plan = run.plan /\ run'.at = run.at /\ run'.todo \subseteq Files
          /\ run'.expect = live[Slot]
      BY <1>1, <2>2 DEF Run
    <3>2. Slot \in Targets(run.plan)
      BY <1>1, <1>5, SlotIsATarget DEF Ready, Replan, AtTarget
    <3>3. Compared'
      <4>1. UNCHANGED Slot /\ \A g : UNCHANGED <<Pre(g), Post(g)>>
        BY <3>1 DEF Slot, Pre, Post
      <4>2. \A f \in Files : live[Slot][f] \in {Pre(f), Post(f)} \/ live[Slot][f] \in Lately
        BY <1>2, <3>2 DEF Pre, Post
      <4>. QED  BY <1>2, <3>1, <4>1, <4>2 DEF Compared
    <3>. QED  BY <1>2, <1>3, <3>1, <3>3 DEF Careful
  <2>. QED  BY <1>5, <2>1, <2>2 DEF Replan
<1>. QED  BY <1>4, <1>5

\* What the owner's choice finds: forward only over files that are old or new.
LEMMA FoundAsPlanned ==
  ASSUME NEW o \in Ops, SlotState(o) # "other", settled[o] = {}
  PROVE  \A s \in Targets(rec[o]), f \in Files : live[s][f] \in {rec[o].pre[s][f], rec[o].post[s][f]}
<1>. SUFFICES ASSUME NEW s \in Targets(rec[o]), NEW f \in Files,
                     live[s][f] \notin {rec[o].pre[s][f], rec[o].post[s][f]}
              PROVE  FALSE
  OBVIOUS
<1>1. Says(o, s, f) /\ Kind(o, s, f) = "other"
  BY DEF Says, Kind
<1>2. "other" \in Kinds(o, s)
  BY <1>1 DEF Kinds
<1>. QED  BY <1>2 DEF SlotState

LEMMA ResolveIsCareful ==
  ASSUME Ready, NEW o \in Ops, NEW choice \in Choice, Resolve(o, choice)
  PROVE  Careful'
<1>1. UNCHANGED <<live, kept, gone, outside, late>> /\ run.pc = "idle"
  BY DEF Resolve, disk, outer
<1>2. CASE run'.pc \notin Watched
  <2>1. Calm
    BY <1>1, <1>2 DEF Calm
  <2>. QED  BY <2>1, CalmIsCareful DEF Ready
<1>3. CASE ~Refused(o, choice) /\ choice = "forward" /\ run' = RunOn(o, "forward", "rederive")
  <2>1. run'.pc = "rederive" /\ run'.plan = rec[o]
    BY <1>3, RunOnGoes
  <2>2. SlotState(o) # "other" /\ settled[o] = {}
    BY <1>3 DEF Refused, IsOpen, Open, Unwritten, Ready, Phase, JournalPhase
  <2>3. AsFound'
    BY <1>1, <2>1, <2>2, FoundAsPlanned DEF AsFound
  <2>4. LostLately' /\ Compared'
    BY <1>1, <2>1, ReadingKeeps DEF Reading, Ready, Compared
  <2>. QED  BY <2>3, <2>4 DEF Careful
<1>4. CASE run' = RunOn(o, "leave", "leave") \/ run' = RunOn(o, "back", "keep")
  <2>1. run'.pc \in {"leave", "keep"}
    BY ZenonT(60), <1>4, RunOnGoes
  <2>. QED  BY <1>2, <2>1 DEF Watched
<1>5. CASE UNCHANGED run
  BY <1>1, <1>2, <1>5 DEF Watched
<1>. QED  BY <1>3, <1>4, <1>5 DEF Resolve, Choice

-----------------------------------------------------------------------------
\* The game, or a sync, writes a file.

LEMMA OutsideIsCareful ==
  ASSUME Ready, NEW s \in Slots, NEW f \in Files, OutsideWrite(s, f)
  PROVE  Careful'
<1>1. /\ UNCHANGED <<run, kept, gone>> /\ outside' = outside + 1
      /\ outside \in Nat /\ outside + 1 \in 1..MaxOutside
      /\ live \in Folder /\ late \in [1..MaxOutside -> {"no", "swap", "forward"}]
  BY BoundsAreNat DEF OutsideWrite, Ready, Shape, OuterOK, DiskOK
<1>2. Lately \subseteq Lately'
  BY <1>1 DEF OutsideWrite, Lately
<1>3. \A t \in Slots, g \in Files : live'[t][g] = IF t = s /\ g = f THEN Game(outside + 1) ELSE live[t][g]
  BY <1>1 DEF OutsideWrite, Folder
<1>4. Moment # "no" => Game(outside + 1) \in Lately'
  BY <1>1 DEF OutsideWrite, Lately, Game
<1>5. LostLately'
  BY <1>1, <1>2 DEF Ready, Careful, LostLately
<1>6. AsFound'
  <2>. SUFFICES ASSUME Forwarded, NEW t \in Targets(run.plan), NEW g \in Files
                PROVE  live'[t][g] \in {run.plan.pre[t][g], run.plan.post[t][g]} \/ live'[t][g] \in Lately'
    BY <1>1 DEF AsFound, Forwarded
  <2>1. Moment # "no"
    BY DEF Moment, Forwarded
  <2>2. t \in Slots
    BY TargetsType DEF Ready, Shape, RunOK, Run
  <2>3. live[t][g] \in {run.plan.pre[t][g], run.plan.post[t][g]} \/ live[t][g] \in Lately
    BY DEF Ready, Careful, AsFound
  <2>. QED  BY <1>2, <1>3, <1>4, <2>1, <2>2, <2>3
<1>7. Compared'
  <2>1. UNCHANGED Slot /\ \A g : UNCHANGED <<Pre(g), Post(g)>>
    BY <1>1 DEF Slot, Pre, Post
  <2>2. ASSUME run.pc \in {"rename", "restore"}, NEW g \in run.todo
        PROVE  live'[Slot][g] = run.expect[g] \/ live'[Slot][g] \in Lately'
    <3>1. Moment # "no"
      BY <2>2 DEF Moment
    <3>2. Slot \in Slots /\ g \in Files
      BY <2>2, AtASlot DEF Ready, AtTarget, Shape, RunOK, Run
    <3>3. live[Slot][g] = run.expect[g] \/ live[Slot][g] \in Lately
      BY <2>2 DEF Ready, Careful, Compared
    <3>. QED  BY <1>2, <1>3, <1>4, <3>1, <3>2, <3>3
  <2>3. ASSUME run.pc \in {"stage", "check", "rename"}, NEW g \in run.todo
        PROVE  run.expect[g] \in {Pre(g), Post(g)} \/ run'.expect[g] \in Lately'
    BY <1>1, <1>2, <2>3 DEF Ready, Careful, Compared
  <2>. QED  BY <1>1, <2>1, <2>2, <2>3 DEF Ready, Careful, Compared
<1>. QED  BY <1>5, <1>6, <1>7 DEF Careful

LEMMA OuterIsCareful == Ready /\ (Outer \/ UNCHANGED vars) => Careful'
<1>. SUFFICES ASSUME Ready, Outer \/ UNCHANGED vars PROVE Careful'
  OBVIOUS
<1>1. CASE GameStarts \/ GameStops \/ UNCHANGED vars
  <2>1. UNCHANGED <<live, kept, gone, outside, late, run>>
    BY <1>1 DEF GameStarts, GameStops, vars, disk, outer
  <2>2. Lately' = Lately
    BY <2>1 DEF Lately
  <2>. QED
    BY <2>1, <2>2 DEF Ready, Careful, LostLately, AsFound, Forwarded, Compared, Slot, Pre, Post
<1>. QED  BY <1>1, OutsideIsCareful, LeavingIsCalm, CalmIsCareful DEF Outer, Ready

LEMMA InitIsCareful == Init => Careful
BY DEF Init, NoRun, Careful, LostLately, AsFound, Forwarded, Compared

LEMMA NextIsCareful == Ready /\ [Next]_vars => Careful'
<1>. SUFFICES ASSUME Ready, [Next]_vars PROVE Careful'
  OBVIOUS
<1>1. ASSUME NEW o \in Ops, NEW ts \in TargetLists, NEW ord \in Orders, Start(o, ts, ord)
      PROVE  Careful'
  BY <1>1, BeginIsCalm, CalmIsCareful DEF Start, Ready
<1>2. ASSUME NEW o \in Ops, NEW s \in Slots, KeepCopy(o, s)
      PROVE  Careful'
  BY <1>2, BeginIsCalm, CalmIsCareful DEF KeepCopy, Ready
<1>3. CASE Execute
  BY <1>1, <1>2, <1>3, EarlyIsCalm, PrepareIsCalm, RecordingIsCalm, ReportingIsCalm, CalmIsCareful,
     ProbeIsCareful, StageIsCareful, RenameIsCareful, RollbackIsCareful DEF Execute, Ready
<1>4. CASE Recover
  BY <1>4, ListingIsCalm, ReportingIsCalm, LeavingIsCalm, CalmIsCareful, ResolveIsCareful,
     ForwardIsCareful DEF Recover, Ready
<1>. QED  BY <1>3, <1>4, OuterIsCareful DEF Next

\* What a run compares with, and what a forward recovery found, is what the run needs to
\* know of the files it writes over.
THEOREM CarefulHolds == Spec => []Careful
<1>1. Init => Careful
  BY InitIsCareful
<1>2. Shape /\ Vouched /\ Phase /\ Careful /\ [Next]_vars => Careful'
  BY NextIsCareful DEF Ready
<1>. QED  BY <1>1, <1>2, ShapeHolds, VouchedHolds, PhaseHolds, PTL DEF Spec

\* The app replaces no save that is kept nowhere, unless the game wrote it inside a race
\* window (SteamWriter's swap and rollback, forward recovery).
THEOREM NothingIsLost == Spec => []NothingLost
BY CarefulHolds, CarefulLosesNothing, PTL

-----------------------------------------------------------------------------
(***************************************************************************)
(* Journal, marker, lineage and live files tell one story of an operation, *)
(* for any slots, files, target lists and bounds: RecordsAgree, the other  *)
(* half of BytesKept (a closed operation left no slot half written) and    *)
(* OutcomesHold.                                                           *)
(*                                                                         *)
(* None of the three is inductive.  That an operation that was put back    *)
(* left no byte behind needs how far a run has come (WrittenAt), whose     *)
(* bytes the folder may hold (Known) and that what a rollback puts back is *)
(* not the op's own (PlanStory); and the old contents an op recorded may   *)
(* be another op's, so that one must be over for good (Inherited).  That a *)
(* done op stays whole needs that no later plan brings an old file back    *)
(* (Behind, Ahead), which holds because the game never writes the same     *)
(* content twice (Dated).                                                  *)
(***************************************************************************)

\* The operation whose turn it is: open, or in a run.
Active(o) == rec[o].kind = "place" /\ (IsOpen(o) \/ run.op = o)

OneActive == \A o, p \in Ops : Active(o) /\ Active(p) => o = p

\* An op whose bytes may be in the folder, and the folders that hold only such bytes;
\* the old contents of a plan are of ops that are over.
Lasting(p) == /\ rec[p].kind = "place"
              /\ status[p] \notin Unwritten \cup {"rolled_back", "abandoned"}
              /\ lineage[p] # "rolled_back"

Known(folder) ==
  \A s \in Slots, f \in Files, p \in Ops :
    folder[s][f] = Op(p) => Lasting(p) /\ rec[p].post[s][f] = Op(p)

Inherited(o, folder) ==
  \A s \in Slots, f \in Files, p \in Ops :
    folder[s][f] = Op(p) => p # o /\ Lasting(p) /\ rec[p].post[s][f] = Op(p) /\ ~Active(p)

\* The game has written no more than it has.
Dated(folder) == \A s \in Slots, f \in Files :
                   folder[s][f].by = "game" => folder[s][f].n <= outside

PlanStory(o, p) == /\ \A s \in Slots, f \in Files : p.post[s][f] \in {p.pre[s][f], Op(o)}
                   /\ Inherited(o, p.pre)
                   /\ Dated(p.pre)

Plans == \A o \in Ops : PlanStory(o, rec[o])

\* A done op, and the folders that hold nothing it replaced.
Done(o) == status[o] = "done" /\ rec[o].kind = "place"

Behind(o, folder) == \A s \in Targets(rec[o]), f \in Files :
                       folder[s][f] = rec[o].pre[s][f] => rec[o].post[s][f] = folder[s][f]

Ahead(p) == \A o \in Ops : Done(o) => Behind(o, p.pre) /\ Behind(o, p.post)

Underway == Begun \cup {"recovered"}

Wholes == /\ Dated(live)
          /\ \A o \in Ops : Done(o) => Behind(o, live)
          /\ \A o \in Ops : Active(o) /\ status[o] \in Underway => Ahead(rec[o])

\* Staged files are of an op that recovery still knows; an open op whose bytes may be in
\* the folder has its marker; the lineage never runs ahead of the journal.
Staged == \A o \in Ops : TempsOf(o) # {} => status[o] \in Begun

Marked == \A o \in Ops :
            /\ IsOpen(o)
            /\ Written(o) \/ status[o] = "validated" \/ "forward" \in offered[o]
            => o \in marker

Traced ==
  \A o \in Ops :
    /\ status[o] \in Unwritten => lineage[o] = "none"
    /\ lineage[o] = "done" => status[o] \in {"validated", "recovered", "done", "left"}
    /\ lineage[o] = "rolled_back" => status[o] \notin {"validated", "done", "failed"}
    /\ Done(o) => lineage[o] = "done"
    /\ status[o] \in Underway /\ "back" \in offered[o] =>
         lineage[o] # "done" \/ (run.op = o /\ run.pc = "close")
    /\ status[o] \in Underway /\ "forward" \in offered[o] => lineage[o] # "rolled_back"

OpStory == OneActive /\ Known(live) /\ Plans /\ Wholes /\ Staged /\ Marked /\ Traced

\* The same of the run at hand.
PlannedAt == run.pc = "intend" => PlanStory(run.op, run.plan) /\ Ahead(run.plan)

Verified == {"recovered", "confirm", "close"} \cup Recording

VerifiedAt == run.pc \in Verified /\ run.plan.kind = "place" => Behind(run.op, live)

\* How far a run has written: only into the first n targets.
WrittenUpto(n) == \A s \in Slots, f \in Files :
                    Holds(run.op, s, f) => \E j \in 1..n : run.plan.targets[j] = s

WrittenAt ==
  /\ run.pc \in Armed \cup {"abandon", "trace", "rolled_back"} => WrittenUpto(0)
  /\ run.pc = "audit" /\ ~run.problem => WrittenUpto(0)
  /\ run.pc = "unmark" /\ IsOpen(run.op) => WrittenUpto(0)
  /\ run.mode = "execute" /\ run.pc \in {"stage", "check"} => WrittenUpto(run.at - 1)
  /\ run.mode = "execute" /\ run.pc = "rename" => WrittenUpto(run.at)
  /\ run.pc \in Backward /\ ~run.problem => WrittenUpto(run.at)

StagedAt ==
  /\ run.pc \in Armed \cup {"abandon", "confirm", "recovered", "oplog", "lineage", "close", "rolled_back"}
       => TempsOf(run.op) = {}
  /\ run.pc \in Backward => run.upto > 0
  /\ run.pc \in Backward /\ ~run.problem /\ run.at < run.upto => TempsOf(run.op) = {}

MarkedAt ==
  /\ run.pc \in {"probe", "rederive", "replan", "recovered", "confirm"} \cup Writing => run.op \in marker
  /\ run.pc = "unmark" /\ IsOpen(run.op) => run.mode \in {"execute", "auto"}

TracedAt ==
  /\ run.pc = "close" /\ run.plan.kind = "place" => lineage[run.op] = "done"
  /\ run.mode = "back" => lineage[run.op] # "done"
  /\ run.mode \in {"execute", "forward", "finish"} /\ run.pc # "unmark" => lineage[run.op] # "rolled_back"

RunStory == PlannedAt /\ VerifiedAt /\ WrittenAt /\ StagedAt /\ MarkedAt /\ TracedAt

Tale == Sound /\ Vouched /\ OpStory /\ RunStory

-----------------------------------------------------------------------------
\* What a step leaves alone: every op but the one it works on.

Stays(o) == UNCHANGED <<rec[o], status[o], lineage[o]>>

Begins == \/ \E o \in Ops, ts \in TargetLists, ord \in Orders : Start(o, ts, ord)
          \/ \E o \in Ops, s \in Slots : KeepCopy(o, s)

\* Where a step leaves the run.
OnTask == run'.op \in {0, run.op}

LEMMA TasksGo == Sound => /\ \A step : Goes(step) => OnTask
                          /\ Ends => OnTask
BY DEF Goes, Ends, OnTask

LEMMA ExecuteOnTask ==
  ASSUME Sound, \/ Preserve \/ Snapshot \/ (\E same \in SameSets : Prepare(same))
                \/ Intend \/ Mark \/ Probe \/ Abandon \/ Unmark
                \/ Confirm \/ Finalize \/ RecordOplog \/ RecordLineage \/ Close
                \/ Report \/ Audit \/ Trace \/ Copy \/ Copied
  PROVE  OnTask
<1>1. run \in Run
  BY DEF Sound, Shape, RunOK
<1>2. CASE \/ Preserve \/ Intend \/ Mark \/ Abandon \/ Unmark \/ Confirm \/ Finalize \/ RecordOplog \/ RecordLineage
           \/ Close \/ Report \/ Trace \/ Copy \/ Copied
  BY <1>2, StepsGo, TasksGo DEF Sound, Step, Preserve, Intend, Mark, Abandon, Unmark, Confirm, Finalize,
     RecordOplog, RecordLineage, Close, Report, Trace, Copy, Copied
<1>3. CASE Snapshot \/ (\E same \in SameSets : Prepare(same)) \/ Probe \/ Audit
  BY ZenonT(60), <1>1, <1>3, StepsGo, TasksGo DEF Sound, Step, Snapshot, Prepare, Probe, Audit, Run, OnTask
<1>. QED  BY <1>2, <1>3

LEMMA WriteOnTask ==
  ASSUME Sound, Stage \/ Check \/ Validate \/ Rollback \/ (\E f \in Files : Rename(f))
  PROVE  OnTask
<1>1. run \in Run
  BY DEF Sound, Shape, RunOK
<1>2. CASE Stage \/ Check \/ Validate
  BY <1>2, StepsGo, WritingGoes, TasksGo DEF Sound, Step, Stage, Check, Validate, AtTarget
<1>3. ASSUME NEW f \in Files, Rename(f) PROVE OnTask
  BY <1>1, <1>3, WritingGoes, TasksGo DEF Sound, Rename, AtTarget, Run, OnTask
<1>4. CASE Rollback
  BY <1>1, <1>4, WritingGoes, TasksGo DEF Sound, Rollback, RollbackKeep, RollbackRestore, RollbackVerify, Restored,
     AtTarget, Run, OnTask
<1>. QED  BY <1>2, <1>3, <1>4

LEMMA RecoverOnTask ==
  ASSUME Sound, \/ StartListing \/ EndListing \/ ReportAuto \/ Rederive \/ Replan \/ Recovered \/ ReportBack
                \/ RolledBack \/ Leave \/ Left \/ Outer \/ UNCHANGED vars
  PROVE  OnTask
<1>1. run \in Run
  BY DEF Sound, Shape, RunOK
<1>2. CASE EndListing \/ ReportAuto \/ Recovered \/ ReportBack \/ RolledBack \/ Leave \/ Left \/ Crash
  BY <1>2, StepsGo, TasksGo DEF Sound, Step, EndListing, ReportAuto, Recovered, ReportBack, RolledBack, Leave, Left, Crash
<1>3. CASE StartListing
  BY <1>3 DEF StartListing, NoRun, OnTask
<1>4. CASE Rederive \/ Replan
  BY <1>1, <1>4, StepsGo, WritingGoes, TasksGo DEF Sound, Rederive, Replan, AtTarget, Run, OnTask
<1>5. CASE Outer \/ UNCHANGED vars
  BY <1>2, <1>5 DEF Outer, OutsideWrite, GameStarts, GameStops, vars, OnTask
<1>. QED  BY <1>2, <1>3, <1>4, <1>5

\* A run begins with an op that is new or open, and touches no other.
LEMMA BeginTakes ==
  ASSUME Sound, NEW o \in Ops, NEW kind, NEW ts, NEW ord, NEW step, Begin(o, kind, ts, ord, step)
  PROVE  /\ status[o] = "none" /\ run'.op \in {0, o}
         /\ \A p \in Ops \ {o} : Stays(p)
<1>1. run.op = 0 /\ rec \in [Ops -> Plan] /\ status \in [Ops -> Event]
  BY DEF Begin, Sound, Shape, JournalOK, Phase, RunPhase, PlanAt, Resting
<1>2. run'.op \in {0, o}
  <2>1. CASE UNCHANGED run
    BY <1>1, <2>1
  <2>2. CASE run' = [NoRun EXCEPT !.pc = step, !.op = o, !.mode = "execute", !.base = live,
                                  !.plan = NewPlan(kind, ts, ord)]
    BY <2>2 DEF NoRun
  <2>. QED  BY <2>1, <2>2 DEF Begin
<1>. QED  BY <1>1, <1>2 DEF Begin, With, Stays, records

LEMMA ListTakes ==
  ASSUME Sound, List
  PROVE  /\ OnTask \/ (run'.op \in Ops /\ IsOpen(run'.op))
         /\ \A p \in Ops : p # run'.op => Stays(p)
<1>. DEFINE o == run.next
<1>1. /\ Listed(o) /\ o \in Ops /\ UNCHANGED <<rec, lineage>> /\ status \in [Ops -> Event] /\ run \in Run
  BY DEF List, Sound, Shape, JournalOK, RunOK, records
<1>. HIDE DEF o
<1>2. CASE run' = ListNext /\ UNCHANGED status
  BY <1>1, <1>2 DEF ListNext, Run, OnTask, Stays
<1>3. ASSUME NEW mode, NEW step, run' = RunOn(o, mode, step), IsOpen(o), NEW e,
             status' \in {status, With(o, e)}
      PROVE  run'.op = o /\ IsOpen(o) /\ \A p \in Ops : p # o => Stays(p)
  BY ZenonT(60), <1>1, <1>3, RunOnGoes DEF With, Stays
<1>. QED
  BY <1>1, <1>2, <1>3 DEF Listed, IsOpen, Open, JournalQuietly, Journal, AppendFails

LEMMA ResolveTakes ==
  ASSUME Sound, NEW o \in Ops, NEW choice \in Choice, Resolve(o, choice)
  PROVE  /\ OnTask \/ (run'.op = o /\ IsOpen(o))
         /\ \A p \in Ops : Stays(p)
<1>1. \A mode, step : run' = RunOn(o, mode, step) => run'.op = o
  BY RunOnGoes
<1>2. OnTask \/ (run'.op = o /\ IsOpen(o))
  BY <1>1 DEF Resolve, Refused, Choice, OnTask
<1>. QED  BY <1>2 DEF Resolve, Stays, journal, records

LEMMA OthersStay ==
  ASSUME Sound, [Next]_vars, ~Begins
  PROVE  /\ OnTask \/ (run'.op \in Ops /\ IsOpen(run'.op))
         /\ \A p \in Ops : p \notin {run.op, run'.op} => Stays(p)
<1>1. CASE Execute
  <2>1. CASE Intend \/ Abandon \/ Confirm \/ Close \/ Report
    <3>1. \A p \in Ops : p # run.op => UNCHANGED <<rec[p], status[p]>>
      <4>1. Appends(run.op) /\ status \in [Ops -> Event] /\ rec \in [Ops -> Plan]
        BY <2>1, RunAppends DEF Sound, Shape, JournalOK
      <4>. QED  BY <2>1, <4>1 DEF Appends, With, Intend, Intended, Abandon, Confirm, Close, Report
    <3>2. UNCHANGED lineage
      BY <2>1 DEF Intend, Abandon, Confirm, Close, Report, records
    <3>. QED  BY <2>1, <3>1, <3>2, ExecuteOnTask DEF Stays
  <2>2. CASE RecordLineage \/ Trace
    <3>1. UNCHANGED <<rec, status>> /\ \A p \in Ops : p # run.op => lineage'[p] = lineage[p]
      BY <2>2 DEF RecordLineage, Trace, journal, Sound, Shape, RecordsOK
    <3>. QED  BY <2>2, <3>1, ExecuteOnTask DEF Stays
  <2>3. CASE \/ Preserve \/ Snapshot \/ (\E same \in SameSets : Prepare(same)) \/ Mark \/ Probe \/ Unmark
             \/ Finalize \/ RecordOplog \/ Audit \/ Copy \/ Copied
    <3>1. UNCHANGED <<rec, status, lineage>>
      BY <2>3 DEF Preserve, Snapshot, Prepare, Mark, Probe, Unmark, Finalize, RecordOplog, Audit, Copy, Copied,
         journal, records
    <3>. QED  BY <2>3, <3>1, ExecuteOnTask DEF Stays
  <2>4. CASE \/ Stage \/ Check \/ (\E f \in Files : Rename(f)) \/ Validate
             \/ (Rollback /\ UNCHANGED <<journal, records, owner, outer, crashes>>)
    <3>1. UNCHANGED <<rec, status, lineage>>
      BY <2>4 DEF Stage, Check, Rename, Validate, journal, records
    <3>. QED  BY <2>4, <3>1, WriteOnTask DEF Stays
  <2>. QED  BY <1>1, <2>1, <2>2, <2>3, <2>4 DEF Execute, Begins
<1>2. CASE Recover
  <2>1. CASE List
    BY <2>1, ListTakes DEF OnTask
  <2>2. CASE \E o \in Ops, choice \in Choice : Resolve(o, choice)
    BY <2>2, ResolveTakes DEF OnTask
  <2>3. CASE StartListing \/ EndListing \/ ReportAuto \/ Rederive \/ Replan \/ Leave
    <3>1. UNCHANGED <<rec, status, lineage>>
      BY <2>3 DEF StartListing, EndListing, ReportAuto, Rederive, Replan, Leave, journal, records
    <3>. QED  BY <2>3, <3>1, RecoverOnTask DEF Stays
  <2>4. CASE Recovered \/ ReportBack \/ RolledBack \/ Left
    <3>1. \A p \in Ops : p # run.op => UNCHANGED status[p]
      BY <2>4, RunAppends DEF Appends, With, Sound, Shape, JournalOK
    <3>2. UNCHANGED <<rec, lineage>>
      BY <2>4 DEF Recovered, ReportBack, RolledBack, Left, records
    <3>. QED  BY <2>4, <3>1, <3>2, RecoverOnTask DEF Stays
  <2>. QED  BY <1>2, <2>1, <2>2, <2>3, <2>4 DEF Recover
<1>3. CASE Outer \/ UNCHANGED vars
  <2>1. UNCHANGED <<rec, status, lineage>>
    BY <1>3 DEF Outer, OutsideWrite, GameStarts, GameStops, Crash, vars, journal, records
  <2>. QED  BY <1>3, <2>1, RecoverOnTask DEF Stays
<1>. QED  BY <1>1, <1>2, <1>3 DEF Next

LEMMA BeginsAnew ==
  ASSUME Sound, Begins
  PROVE  \E o \in Ops : /\ status[o] = "none" /\ run'.op \in {0, o} /\ run.op = 0
                        /\ \A p \in Ops \ {o} : Stays(p)
                        /\ rec'[o].kind = "place" => ~RecoveryPending
<1>1. ASSUME NEW o \in Ops, NEW kind, NEW ts, NEW ord, NEW step, Begin(o, kind, ts, ord, step)
      PROVE  run.op = 0 /\ rec'[o].kind = kind
  BY <1>1 DEF Begin, Sound, Shape, JournalOK, Phase, RunPhase, PlanAt, Resting, NewPlan, NoPlan
<1>2. ASSUME NEW o \in Ops, NEW ts \in TargetLists, NEW ord \in Orders, Start(o, ts, ord)
      PROVE  /\ status[o] = "none" /\ run'.op \in {0, o} /\ run.op = 0
             /\ \A p \in Ops \ {o} : Stays(p)
             /\ rec'[o].kind = "place" => ~RecoveryPending
  BY <1>1, <1>2, BeginTakes DEF Start
<1>3. ASSUME NEW o \in Ops, NEW s \in Slots, KeepCopy(o, s)
      PROVE  /\ status[o] = "none" /\ run'.op \in {0, o} /\ run.op = 0
             /\ \A p \in Ops \ {o} : Stays(p)
             /\ rec'[o].kind = "place" => ~RecoveryPending
  BY <1>1, <1>3, BeginTakes DEF KeepCopy
<1>. QED  BY <1>2, <1>3 DEF Begins

\* An op that is over is over.
LEMMA InactiveStays ==
  ASSUME Sound, [Next]_vars, NEW p \in Ops, status[p] # "none", rec[p].kind = "place", ~Active(p)
  PROVE  Stays(p) /\ ~Active(p)'
<1>1. p # 0 /\ p # run.op /\ ~IsOpen(p)
  BY DEF Active, Ops
<1>2. CASE Begins
  <2>1. PICK o \in Ops : status[o] = "none" /\ run'.op \in {0, o} /\ \A q \in Ops \ {o} : Stays(q)
    BY <1>2, BeginsAnew
  <2>. QED  BY <1>1, <2>1 DEF Stays, Active, IsOpen
<1>3. CASE ~Begins
  BY <1>1, <1>3, OthersStay DEF OnTask, Stays, Active, IsOpen
<1>. QED  BY <1>2, <1>3

\* The journal's plan of an op changes only by its write-ahead event.
LEMMA RecStays ==
  ASSUME Sound, [Next]_vars, NEW o \in Ops, status[o] # "none"
  PROVE  /\ rec'[o] = rec[o] \/ (Intend /\ o = run.op /\ rec'[o] = run.plan)
         /\ rec'[o].kind = rec[o].kind
<1>1. rec'[o] = rec[o] \/ (Intend /\ o = run.op /\ rec'[o] = run.plan)
  <2>1. CASE Begins
    <3>1. PICK p \in Ops : status[p] = "none" /\ \A q \in Ops \ {p} : Stays(q)
      BY <2>1, BeginsAnew
    <3>. QED  BY <3>1 DEF Stays
  <2>2. CASE Intend
    BY <2>2 DEF Intend, Intended, Sound, Shape, JournalOK
  <2>3. CASE ~Begins /\ ~Intend /\ Execute
    BY <2>3 DEF Begins, Execute, Preserve, Snapshot, Prepare, Mark, Probe, Abandon, Unmark, Stage, Check, Rename, Validate,
       Confirm, Finalize, RecordOplog, RecordLineage, Close, Report, Audit, Trace, Copy, Copied, journal
  <2>4. CASE Recover
    BY <2>4 DEF Recover, StartListing, List, EndListing, ReportAuto, Resolve, Rederive, Replan, Recovered, ReportBack,
       RolledBack, Leave, Left, journal
  <2>5. CASE Outer \/ UNCHANGED vars
    BY <2>5 DEF Outer, OutsideWrite, GameStarts, GameStops, Crash, vars, journal
  <2>. QED  BY <2>1, <2>2, <2>3, <2>4, <2>5 DEF Next
<1>2. Intend => run.plan.kind = rec[run.op].kind
  BY DEF Intend, Sound, Phase, RunPhase, PlanAt, Resting
<1>. QED  BY <1>1, <1>2

LEMMA NextOneActive == Sound /\ OneActive /\ [Next]_vars => OneActive'
<1>. SUFFICES ASSUME Sound, OneActive, [Next]_vars PROVE OneActive'
  OBVIOUS
<1>1. CASE Begins
  <2>1. PICK o \in Ops : /\ status[o] = "none" /\ run'.op \in {0, o} /\ run.op = 0
                         /\ \A p \in Ops \ {o} : Stays(p)
                         /\ rec'[o].kind = "place" => ~RecoveryPending
    BY <1>1, BeginsAnew
  <2>2. \A p \in Ops \ {o} : Active(p)' => Active(p) /\ IsOpen(p)
    BY <2>1 DEF Stays, Active, IsOpen, Ops
  <2>3. Active(o)' => ~RecoveryPending
    BY <2>1 DEF Active
  <2>. QED  BY <2>2, <2>3 DEF OneActive, RecoveryPending
<1>2. CASE ~Begins
  <2>1. ASSUME NEW o \in Ops, Active(o)' PROVE Active(o)
    <3>1. o # 0
      BY DEF Ops
    <3>2. CASE o \notin {run.op, run'.op}
      BY <1>2, <2>1, <3>2, OthersStay DEF Stays, Active, IsOpen
    <3>3. CASE o \in {run.op, run'.op}
      <4>1. IsOpen(o) \/ o = run.op
        BY <1>2, <3>1, <3>3, OthersStay DEF OnTask
      <4>2. status[o] # "none"
        <5>1. run.op = o => status[o] # "none"
          BY <3>1 DEF Sound, Shape, RunOK, JournalOK, Phase, RunPhase, PlanAt
        <5>2. "none" \notin Open
          BY DEF Open
        <5>. QED  BY <4>1, <5>1, <5>2 DEF IsOpen
      <4>. QED  BY <2>1, <4>1, <4>2, RecStays DEF Active
    <3>. QED  BY <3>2, <3>3
  <2>. QED  BY <2>1 DEF OneActive
<1>. QED  BY <1>1, <1>2

-----------------------------------------------------------------------------
\* What the parts of the story need of a step.

LEMMA OutsideGrows == Sound /\ [Next]_vars => outside \in Nat /\ outside' \in Nat /\ outside <= outside'
<1>. SUFFICES ASSUME Sound, [Next]_vars PROVE outside' \in {outside, outside + 1}
  BY BoundsAreNat DEF Sound, Shape, OuterOK
<1>1. CASE Execute
  BY <1>1 DEF Execute, Start, KeepCopy, Begin, Preserve, Snapshot, Prepare, Intend, Mark, Probe, Abandon, Unmark, Stage,
     Check, Rename, Validate, Confirm, Finalize, RecordOplog, RecordLineage, Close, Report, Audit, Trace, Copy, Copied, outer
<1>2. CASE Recover
  BY <1>2 DEF Recover, StartListing, List, EndListing, ReportAuto, Resolve, Rederive, Replan, Recovered, ReportBack,
     RolledBack, Leave, Left, outer
<1>3. CASE Outer \/ UNCHANGED vars
  BY <1>3 DEF Outer, OutsideWrite, GameStarts, GameStops, Crash, vars, outer
<1>. QED  BY <1>1, <1>2, <1>3 DEF Next

LEMMA PlanStays ==
  ASSUME Tale, [Next]_vars, NEW o \in Ops, UNCHANGED rec[o]
  PROVE  PlanStory(o, rec[o])'
<1>1. PlanStory(o, rec[o]) /\ rec \in [Ops -> Plan] /\ rec' \in [Ops -> Plan]
  BY NextKeeps DEF Tale, Sound, OpStory, Plans, Shape, JournalOK
<1>2. ASSUME NEW p \in Ops, Lasting(p), ~Active(p) PROVE Lasting(p)' /\ ~Active(p)' /\ UNCHANGED rec[p]
  BY <1>2, InactiveStays DEF Tale, Lasting, Stays, Unwritten
<1>3. outside \in Nat /\ outside' \in Nat /\ outside <= outside'
  BY OutsideGrows DEF Tale
<1>4. Inherited(o, rec[o].pre)'
  BY <1>1, <1>2 DEF PlanStory, Inherited
<1>5. Dated(rec[o].pre)'
  BY <1>1, <1>3 DEF PlanStory, Dated, Plan, Folder, Content
<1>. QED  BY <1>1, <1>4, <1>5 DEF PlanStory

LEMMA PlansStay == Tale /\ [Next]_vars /\ UNCHANGED rec => Plans'
BY PlanStays DEF Plans

LEMMA LiveStaysDated == Tale /\ [Next]_vars /\ UNCHANGED live => Dated(live)'
BY OutsideGrows DEF Tale, Sound, Shape, DiskOK, OpStory, Wholes, Dated, Folder, Content

LEMMA KnownStays ==
  ASSUME Tale, UNCHANGED live, \A p \in Ops : Written(p) => Lasting(p)' /\ UNCHANGED rec[p]
  PROVE  Known(live)'
BY DEF Tale, OpStory, Known, Written, Holds

\* Where a step that begins nothing leaves the run.
Follows == OnTask \/ (run'.op \in Ops /\ IsOpen(run'.op))

\* What a step may offer of an op, and which markers it may take away.
Offers(o) ==
  \/ offered'[o] \in {offered[o], {}} /\ (run.pc = "close" /\ o = run.op => offered'[o] = {} \/ UNCHANGED run)
  \/ /\ "back" \in offered'[o] => lineage[o] # "done"
     /\ "forward" \in offered'[o] => lineage[o] # "rolled_back" /\ o \in marker'

Needs(o) == IsOpen(o) /\ (Written(o) \/ status[o] = "validated" \/ "forward" \in offered[o])

LEMMA QuietStory ==
  ASSUME Tale, [Next]_vars, Follows, UNCHANGED <<live, rec, status, lineage>>,
         \A o \in Ops : /\ TempsOf(o)' \subseteq TempsOf(o) \/ status[o] \in Begun
                        /\ o \in marker /\ Needs(o) => o \in marker'
                        /\ Offers(o)
  PROVE  OpStory'
<1>. USE DEF Tale, OpStory
<1>1. OneActive' /\ Plans'
  BY NextOneActive, PlansStay
<1>2. Known(live)'
  BY KnownStays DEF Known, Lasting, Written, Holds
<1>3. Wholes'
  <2>1. \A o \in Ops : Active(o)' => Active(o)
    BY DEF Active, IsOpen, Follows, OnTask, Ops
  <2>2. \A o \in Ops : Done(o)' = Done(o)
    BY DEF Done
  <2>3. (\A o \in Ops : Done(o) => Behind(o, live))'
    BY <2>2 DEF Wholes, Behind
  <2>4. (\A o \in Ops : Active(o) /\ status[o] \in Underway => Ahead(rec[o]))'
    BY <2>1, <2>2 DEF Wholes, Ahead, Behind
  <2>. QED  BY <2>3, <2>4, LiveStaysDated DEF Wholes
<1>4. Staged'
  BY DEF Staged
<1>5. Marked'
  BY DEF Marked, Offers, Needs, IsOpen, Written, Holds
<1>6. Traced'
  BY DEF Traced, Offers, Done
<1>. QED  BY <1>1, <1>2, <1>3, <1>4, <1>5, <1>6

LEMMA AppendStory ==
  ASSUME Tale, [Next]_vars, Follows, UNCHANGED <<live, rec, lineage, marker>>,
         NEW a \in Ops, a = run.op \/ IsOpen(a),
         NEW e \in Event \ Unwritten, status'[a] = e, \A o \in Ops \ {a} : status'[o] = status[o],
         \A o \in Ops : TempsOf(o)' \subseteq TempsOf(o) /\ Offers(o) /\ offered'[o] \in {offered[o], {}},
         e \in {"rolled_back", "abandoned"} => ~Written(a),
         e = "done" /\ rec[a].kind = "place" => Behind(a, live) /\ lineage[a] = "done",
         e \in Underway => status[a] \in Underway /\ rec[a].kind = "place",
         e \in Begun \/ TempsOf(a)' = {},
         e \in Begun => (e = "failed" /\ IsOpen(a)) \/ a \in marker,
         lineage[a] = "done" => e \in {"validated", "recovered", "done", "left"},
         lineage[a] = "rolled_back" => e \notin {"validated", "done", "failed"}
  PROVE  OpStory'
<1>. USE DEF Tale, OpStory
<1>0. a # 0 /\ e \notin Unwritten
  BY DEF Ops
<1>1. OneActive' /\ Plans'
  BY NextOneActive, PlansStay
<1>2. Known(live)'
  <2>1. ASSUME NEW p \in Ops, Written(p) PROVE Lasting(p)'
    <3>1. Lasting(p)
      BY <2>1 DEF Known, Written, Holds
    <3>2. p = a => e \notin Unwritten \cup {"rolled_back", "abandoned"}
      BY <1>0, <2>1
    <3>. QED  BY <3>1, <3>2 DEF Lasting
  <2>. QED  BY <2>1, KnownStays
<1>3. Wholes'
  <2>1. \A o \in Ops \ {a} : Active(o)' => Active(o)
    BY DEF Active, IsOpen, Follows, OnTask, Ops
  <2>2. \A o \in Ops \ {a} : Done(o)' = Done(o)
    BY DEF Done
  <2>3. (\A o \in Ops : Done(o) => Behind(o, live))'
    BY <2>2 DEF Wholes, Behind, Done
  <2>4. ASSUME NEW o \in Ops, Active(o)', status'[o] \in Underway, NEW d \in Ops, Done(d)'
        PROVE  Done(d) /\ Active(o) /\ status[o] \in Underway
    <3>1. CASE o = a
      <4>1. d # a
        BY <2>4, <3>1 DEF Done, Underway, Begun
      <4>2. Active(a)
        BY <2>4, <3>1 DEF Active
      <4>. QED  BY <2>2, <2>4, <3>1, <4>1, <4>2
    <3>2. CASE o # a
      <4>1. Active(o) /\ status[o] \in Underway
        BY <2>1, <2>4, <3>2
      <4>2. d # a
        BY <2>4, <3>2, <4>1 DEF OneActive, Active, Done
      <4>. QED  BY <2>2, <2>4, <4>1, <4>2
    <3>. QED  BY <3>1, <3>2
  <2>5. (\A o \in Ops : Active(o) /\ status[o] \in Underway => Ahead(rec[o]))'
    BY <2>4 DEF Wholes, Ahead, Behind
  <2>. QED  BY <2>3, <2>5, LiveStaysDated DEF Wholes
<1>4. Staged'
  <2>1. ASSUME NEW o \in Ops, TempsOf(o)' # {} PROVE status'[o] \in Begun
    BY <2>1 DEF Staged
  <2>. QED  BY <2>1 DEF Staged
<1>5. Marked'
  <2>1. e \in Open => e \in Begun
    BY <1>0 DEF Open, Begun, Unwritten
  <2>2. ASSUME NEW o \in Ops, IsOpen(o)', Written(o) \/ status'[o] = "validated" \/ "forward" \in offered'[o]
        PROVE  o \in marker
    <3>1. CASE o # a
      BY <2>2, <3>1 DEF Marked, IsOpen
    <3>2. CASE o = a
      <4>1. e \in Begun
        BY <2>1, <2>2, <3>2 DEF IsOpen
      <4>2. CASE e = "failed" /\ IsOpen(a)
        BY <2>2, <3>2, <4>2 DEF Marked
      <4>. QED  BY <3>2, <4>1, <4>2
    <3>. QED  BY <3>1, <3>2
  <2>. QED  BY <2>2 DEF Marked, Written, Holds
<1>6. Traced'
  <2>1. ASSUME NEW o \in Ops, status'[o] \in Underway
        PROVE  /\ "back" \in offered'[o] => lineage[o] # "done" \/ (run'.op = o /\ run'.pc = "close")
               /\ "forward" \in offered'[o] => lineage[o] # "rolled_back"
    <3>1. status[o] \in Underway
      BY <2>1
    <3>. QED  BY <3>1 DEF Traced, Offers
  <2>. QED  BY <1>0, <2>1 DEF Traced, Done
<1>. QED  BY <1>1, <1>2, <1>3, <1>4, <1>5, <1>6

\* A run that is over, or that goes on with the listing, says nothing more.
LEMMA EndedStory == run'.op = 0 /\ run'.mode = "none" /\ run'.pc \in Resting => RunStory'
BY DEF Resting, RunStory, PlannedAt, VerifiedAt, WrittenAt, StagedAt, MarkedAt, TracedAt, Verified, Armed, Backward,
   Recording, Writing


-----------------------------------------------------------------------------
\* An operation up to its write-ahead event.

LEMMA NothingHeld ==
  ASSUME Tale, run.op \in Ops
  PROVE  /\ status[run.op] \in Unwritten => WrittenUpto(0) /\ TempsOf(run.op) = {} /\ lineage[run.op] = "none"
         /\ WrittenUpto(0) => ~Written(run.op)
<1>1. \A n \in {0} : 1..n = {}
  OBVIOUS
<1>2. WrittenUpto(0) <=> ~Written(run.op)
  BY <1>1 DEF WrittenUpto, Written
<1>3. status[run.op] \in Unwritten => ~Written(run.op) /\ TempsOf(run.op) = {} /\ lineage[run.op] = "none"
  BY DEF Tale, OpStory, Known, Lasting, Written, Holds, Staged, Traced, Begun, Unwritten
<1>. QED  BY <1>2, <1>3

LEMMA ToldStory == \A what \in Outcome : Tale /\ Tell(what) => \A o \in Ops : offered'[o] \in {offered[o], {}}
BY OwnerTame DEF Tale, Sound

\* A run that puts nothing (or nothing more) back on its way to its end.
LEMMA GivenUpStory ==
  ASSUME Tale, Goes("abandon"), UNCHANGED <<live, lineage>>, WrittenUpto(0), TempsOf(run.op)' = {}, run.pc # "unmark"
  PROVE  RunStory'
<1>1. WrittenUpto(0)'
  BY DEF Goes, WrittenUpto, Holds
<1>2. TracedAt'
  BY DEF Tale, RunStory, TracedAt, Goes
<1>. QED
  BY <1>1, <1>2 DEF Goes, RunStory, PlannedAt, VerifiedAt, WrittenAt, StagedAt, MarkedAt, Verified, Armed, Backward,
     Recording, Writing

LEMMA EarlyStory ==
  ASSUME Tale, [Next]_vars, Preserve \/ Snapshot \/ Copy \/ Copied
  PROVE  OpStory' /\ RunStory'
<1>1. run.op \in Ops /\ run.pc \in Early /\ status[run.op] = "preparing" /\ run.mode = "execute"
  BY DEF Tale, Sound, Shape, RunOK, Resting, Preserve, Snapshot, Copy, Copied, Early, Phase, RunPhase, StatusAt, ModeAt
<1>2. WrittenUpto(0) /\ TempsOf(run.op) = {} /\ lineage[run.op] = "none"
  BY <1>1, NothingHeld DEF Unwritten
<1>3. OpStory'
  <2>1. Follows /\ run.pc # "close"
    BY ExecuteOnTask DEF Tale, Follows, Preserve, Snapshot, Copy, Copied
  <2>2. \A o \in Ops : offered'[o] \in {offered[o], {}}
    BY ToldStory, OwnerTame DEF Tale, Sound, Preserve, Snapshot, Copy, Copied, GiveUp, Outcome
  <2>3. UNCHANGED <<live, rec, status, lineage, marker, temps>>
    BY DEF Preserve, Snapshot, Copy, Copied, disk, journal, records
  <2>. QED  BY <2>1, <2>2, <2>3, QuietStory DEF Offers, TempsOf
<1>4. UNCHANGED <<live, lineage, temps, rec>>
  BY DEF Preserve, Snapshot, Copy, Copied, disk, records, journal
<1>5. CASE Goes("abandon")
  BY <1>1, <1>2, <1>3, <1>4, <1>5, GivenUpStory DEF Early, TempsOf, Goes
<1>6. CASE Goes("snapshot") \/ Goes("prepare") \/ Goes("copied") \/ (Goes("close") /\ run.plan.kind = "keep")
  <2>1. TempsOf(run.op)' = {}
    BY <1>2, <1>4, <1>6 DEF TempsOf, Goes
  <2>. QED
    BY <1>1, <1>2, <1>3, <1>4, <1>6, <2>1 DEF Goes, RunStory, PlannedAt, VerifiedAt, WrittenAt, StagedAt, MarkedAt, TracedAt,
       Verified, Armed, Backward, Recording, Writing
<1>7. \/ Goes("abandon") \/ Goes("snapshot") \/ Goes("prepare") \/ Goes("copied")
      \/ (Goes("close") /\ run.plan.kind = "keep")
  <2>1. run \in Run
    BY DEF Tale, Sound, Shape, RunOK
  <2>2. CASE Preserve \/ Copy \/ Copied
    BY <2>2, StepsGo DEF Preserve, Copy, Copied, Step, Tale, Sound, Phase, RunPhase, PlanAt
  <2>3. CASE Snapshot
    BY <2>1, <2>3, StepsGo DEF Snapshot, Goes, Run, Tale, Sound
  <2>. QED  BY <2>2, <2>3
<1>. QED  BY <1>5, <1>6, <1>7

LEMMA PrepareStory ==
  ASSUME Tale, [Next]_vars, NEW same \in SameSets, Prepare(same)
  PROVE  OpStory' /\ RunStory'
<1>. DEFINE T == Targets(run.plan)
            post == PlannedPost(run.op, T, same)
<1>1. /\ run.op \in Ops /\ run.pc = "prepare" /\ status[run.op] = "preparing" /\ run.mode = "execute"
      /\ run \in Run /\ run.plan \in Plan /\ run.plan.kind = "place" /\ run.plan = rec[run.op]
  BY DEF Tale, Sound, Shape, RunOK, Run, Resting, Prepare, Early, Phase, RunPhase, StatusAt, ModeAt, PlanAt, Unbound
<1>2. WrittenUpto(0) /\ TempsOf(run.op) = {} /\ lineage[run.op] = "none"
  BY <1>1, NothingHeld DEF Unwritten
<1>3. UNCHANGED <<live, rec, status, lineage, marker, temps, outside>>
  BY DEF Prepare, disk, journal, records, outer
<1>4. OpStory'
  <2>1. Follows /\ run.pc # "close"
    BY <1>1, ExecuteOnTask DEF Tale, Follows
  <2>2. \A o \in Ops : offered'[o] \in {offered[o], {}}
    BY ToldStory, OwnerTame DEF Tale, Sound, Prepare, GiveUp, Outcome
  <2>. QED  BY <1>3, <2>1, <2>2, QuietStory DEF Offers, TempsOf
<1>5. CASE GiveUp("refused")
  <2>1. Goes("abandon")
    BY <1>5, StepsGo DEF Tale, Sound
  <2>. QED  BY <1>1, <1>2, <1>3, <1>4, <2>1, GivenUpStory DEF TempsOf, Goes
<1>6. CASE run' = [run EXCEPT !.pc = "intend", !.plan.pre = live, !.plan.post = post, !.base = live, !.snap = Empty]
  <2>1. /\ run'.pc = "intend" /\ run'.op = run.op /\ run'.mode = "execute"
        /\ run'.plan.pre = live /\ run'.plan.post = post /\ run'.plan.kind = "place"
        /\ run'.plan.targets = run.plan.targets
    <3>. HIDE DEF post
    <3>. QED  BY <1>1, <1>6 DEF Run, Plan
  <2>2. \A s \in Slots, f \in Files : post[s][f] \in {live[s][f], Op(run.op)}
    BY DEF PlannedPost
  <2>3. Active(run.op) /\ status[run.op] \in Unwritten
    BY <1>1 DEF Active, Unwritten
  <2>4. ASSUME NEW s \in Slots, NEW f \in Files, NEW p \in Ops, live[s][f] = Op(p)
        PROVE  p # run.op /\ Lasting(p) /\ rec[p].post[s][f] = Op(p)
    <3>1. Lasting(p) /\ rec[p].post[s][f] = Op(p)
      BY <2>4 DEF Tale, OpStory, Known
    <3>. QED  BY <2>3, <3>1 DEF Lasting
  <2>5. \A p \in Ops : Lasting(p) /\ p # run.op => ~Active(p)
    BY <1>1, <2>3 DEF Tale, OpStory, OneActive
  <2>6. Inherited(run.op, live)
    BY <2>4, <2>5 DEF Inherited
  <2>7. Dated(live)
    BY DEF Tale, OpStory, Wholes
  <2>8. PlanStory(run.op, run.plan)'
    <3>. HIDE DEF post
    <3>1. \A p \in Ops : Lasting(p)' = Lasting(p) /\ (~Active(p) => ~Active(p)')
      BY <1>3, <2>1 DEF Lasting, Active, IsOpen
    <3>2. Inherited(run.op, run.plan.pre)'
      BY <1>3, <2>1, <2>6, <3>1 DEF Inherited
    <3>3. Dated(run.plan.pre)'
      BY <1>3, <2>1, <2>7 DEF Dated
    <3>. QED  BY <2>1, <2>2, <3>2, <3>3 DEF PlanStory
  <2>9. Ahead(run.plan)'
    <3>1. ASSUME NEW o \in Ops, Done(o) PROVE Behind(o, live) /\ Behind(o, post)
      <4>1. Behind(o, live)
        BY <3>1 DEF Tale, OpStory, Wholes
      <4>2. PlanStory(o, rec[o]) /\ rec \in [Ops -> Plan]
        BY DEF Tale, OpStory, Plans, Sound, Shape, JournalOK
      <4>3. \A s \in Slots, f \in Files : rec[o].pre[s][f] # Op(run.op)
        BY <1>1, <2>3, <4>2 DEF PlanStory, Inherited
      <4>4. Targets(rec[o]) \subseteq Slots
        BY <4>2, TargetsType
      <4>. HIDE DEF post
      <4>. QED  BY <2>2, <4>1, <4>3, <4>4 DEF Behind
    <3>. HIDE DEF post
    <3>2. \A o \in Ops : Done(o)' = Done(o) /\ rec'[o] = rec[o]
      BY <1>3 DEF Done
    <3>. QED  BY <2>1, <3>1, <3>2 DEF Ahead, Behind
  <2>10. VerifiedAt' /\ WrittenAt' /\ StagedAt' /\ MarkedAt' /\ TracedAt'
    BY <1>2, <1>3, <2>1 DEF VerifiedAt, WrittenAt, StagedAt, MarkedAt, TracedAt, Verified, Armed, Backward, Recording, Writing
  <2>11. PlannedAt'
    BY <2>8, <2>9 DEF PlannedAt
  <2>. QED  BY <1>4, <2>10, <2>11 DEF RunStory
<1>. QED  BY <1>5, <1>6 DEF Prepare


LEMMA IntendedStory ==
  ASSUME Tale, [Next]_vars, run.pc = "intend", Intended, OnTask, UNCHANGED <<live, temps, lineage, marker>>,
         \A o \in Ops : offered'[o] \in {offered[o], {}}
  PROVE  OpStory'
<1>. USE DEF Tale, OpStory
<1>1. /\ run.op \in Ops /\ status[run.op] = "preparing" /\ run.plan.kind = "place" /\ rec[run.op].kind = "place"
      /\ rec \in [Ops -> Plan] /\ status \in [Ops -> Event] /\ run.plan \in Plan
  BY DEF Sound, Shape, RunOK, Run, JournalOK, Resting, Early, Phase, RunPhase, StatusAt, PlanAt
<1>2. /\ rec'[run.op] = run.plan /\ status'[run.op] = "writing"
      /\ \A o \in Ops \ {run.op} : rec'[o] = rec[o] /\ status'[o] = status[o]
  BY <1>1 DEF Intended, With
<1>3. ~Written(run.op) /\ lineage[run.op] = "none" /\ offered[run.op] = {}
  <2>1. lineage[run.op] = "none" /\ ~Written(run.op)
    BY <1>1, NothingHeld DEF Unwritten
  <2>. QED  BY <1>1, <2>1 DEF Sound, Phase, JournalPhase, Unwritten
<1>4. PlanStory(run.op, run.plan) /\ Ahead(run.plan)
  BY DEF RunStory, PlannedAt
<1>5. OneActive'
  BY NextOneActive
<1>6. Plans'
  <2>1. ASSUME NEW o \in Ops, o # run.op PROVE PlanStory(o, rec[o])'
    BY <1>2, <2>1, PlanStays
  <2>2. ASSUME NEW p \in Ops, Lasting(p), ~Active(p) PROVE Lasting(p)' /\ ~Active(p)' /\ UNCHANGED rec[p]
    BY <2>2, InactiveStays DEF Lasting, Stays, Unwritten
  <2>3. outside \in Nat /\ outside' \in Nat /\ outside <= outside'
    BY OutsideGrows
  <2>4. ASSUME NEW o \in Ops, o = run.op PROVE PlanStory(o, rec[o])'
    <3>1. Inherited(o, rec[o].pre)'
      BY <1>2, <1>4, <2>2, <2>4 DEF PlanStory, Inherited
    <3>2. Dated(rec[o].pre)'
      BY <1>1, <1>2, <1>4, <2>3, <2>4 DEF PlanStory, Dated, Plan, Folder, Content
    <3>3. \A s \in Slots, f \in Files : rec'[o].post[s][f] \in {rec'[o].pre[s][f], Op(o)}
      BY <1>2, <1>4, <2>4 DEF PlanStory
    <3>. QED  BY <3>1, <3>2, <3>3 DEF PlanStory
  <2>. QED  BY <2>1, <2>4 DEF Plans
<1>7. Known(live)'
  <2>1. ASSUME NEW p \in Ops, Written(p) PROVE Lasting(p)' /\ UNCHANGED rec[p]
    <3>1. p # run.op /\ Lasting(p)
      BY <1>3, <2>1 DEF Known, Written, Holds
    <3>. QED  BY <1>2, <3>1 DEF Lasting
  <2>. QED  BY <2>1, KnownStays
<1>8. Wholes'
  <2>1. \A o \in Ops : Done(o)' = Done(o) /\ (Done(o) => o # run.op)
    BY <1>1, <1>2 DEF Done
  <2>2. (\A o \in Ops : Done(o) => Behind(o, live))'
    BY <1>2, <2>1 DEF Wholes, Behind
  <2>3. ASSUME NEW o \in Ops, Active(o)', status'[o] \in Underway PROVE Ahead(rec[o])'
    <3>1. CASE o = run.op
      <4>1. ASSUME NEW d \in Ops, Done(d)' PROVE Behind(d, rec[o].pre)' /\ Behind(d, rec[o].post)'
        <5>1. Done(d) /\ rec'[d] = rec[d]
          BY <1>2, <2>1, <4>1
        <5>2. Behind(d, run.plan.pre) /\ Behind(d, run.plan.post)
          BY <1>4, <5>1 DEF Ahead
        <5>. QED  BY <1>2, <3>1, <5>1, <5>2 DEF Behind
      <4>. QED  BY <4>1 DEF Ahead
    <3>2. CASE o # run.op
      <4>1. Active(o) /\ status[o] \in Underway
        BY <1>2, <2>3, <3>2 DEF Active, IsOpen, OnTask, Ops
      <4>. QED  BY SMTT(30), <1>2, <2>1, <3>2, <4>1 DEF Wholes, Ahead, Behind
    <3>. QED  BY <3>1, <3>2
  <2>. QED  BY <2>2, <2>3, LiveStaysDated DEF Wholes
<1>9. Staged'
  <2>1. ASSUME NEW o \in Ops, TempsOf(o)' # {} PROVE status'[o] \in Begun
    BY <1>2, <2>1 DEF Staged, TempsOf, Begun
  <2>. QED  BY <2>1 DEF Staged
<1>10. Marked'
  <2>1. ASSUME NEW o \in Ops, IsOpen(o)', Written(o) \/ status'[o] = "validated" \/ "forward" \in offered'[o]
        PROVE  o \in marker
    <3>1. o # run.op
      BY <1>2, <1>3, <2>1
    <3>. QED  BY <1>2, <2>1, <3>1 DEF Marked, IsOpen
  <2>. QED  BY <2>1 DEF Marked, Written, Holds
<1>11. Traced'
  <2>1. ASSUME NEW o \in Ops, o = run.op
        PROVE  status'[o] = "writing" /\ lineage'[o] = "none" /\ offered'[o] = {}
    BY <1>2, <1>3, <2>1
  <2>2. ASSUME NEW o \in Ops, o # run.op
        PROVE  status'[o] = status[o] /\ lineage'[o] = lineage[o] /\ offered'[o] \in {offered[o], {}} /\ rec'[o] = rec[o]
    BY <1>2, <2>2
  <2>. QED  BY <2>1, <2>2 DEF Traced, Done, Unwritten
<1>. QED  BY <1>5, <1>6, <1>7, <1>8, <1>9, <1>10, <1>11

LEMMA IntendStory == Tale /\ [Next]_vars /\ Intend => OpStory' /\ RunStory'
<1>. SUFFICES ASSUME Tale, [Next]_vars, Intend PROVE OpStory' /\ RunStory'
  OBVIOUS
<1>1. run.op \in Ops /\ run.pc = "intend" /\ status[run.op] = "preparing" /\ run.mode = "execute"
  BY DEF Tale, Sound, Shape, RunOK, Resting, Intend, Early, Phase, RunPhase, StatusAt, ModeAt
<1>2. WrittenUpto(0) /\ TempsOf(run.op) = {} /\ lineage[run.op] = "none"
  BY <1>1, NothingHeld DEF Unwritten
<1>3. UNCHANGED <<live, temps, lineage, marker>>
  BY DEF Intend, disk, records
<1>4. \A o \in Ops : offered'[o] \in {offered[o], {}}
  BY ToldStory, OwnerTame DEF Tale, Sound, Intend, GiveUp, Return, Outcome
<1>5. OnTask
  BY ExecuteOnTask DEF Tale
<1>6. OpStory'
  <2>1. CASE Intended
    BY <1>1, <1>3, <1>4, <1>5, <2>1, IntendedStory
  <2>2. CASE UNCHANGED <<status, rec>>
    BY <1>1, <1>3, <1>4, <1>5, <2>2, QuietStory DEF Follows, Offers, TempsOf
  <2>. QED  BY <2>1, <2>2 DEF Intend
<1>7. RunStory'
  <2>1. CASE Goes("mark")
    <3>1. TempsOf(run.op)' = {}
      BY <1>2, <1>3, <2>1 DEF TempsOf, Goes
    <3>2. WrittenUpto(0)'
      BY <1>2, <1>3, <2>1 DEF Goes, WrittenUpto, Holds
    <3>. QED
      BY <1>1, <1>2, <1>3, <2>1, <3>1, <3>2 DEF Goes, RunStory, PlannedAt, VerifiedAt, WrittenAt, StagedAt, MarkedAt, TracedAt,
         Verified, Armed, Backward, Recording, Writing
  <2>2. CASE Goes("abandon")
    BY <1>1, <1>2, <1>3, <2>2, GivenUpStory DEF TempsOf, Goes
  <2>3. CASE Ends
    BY <2>3, EndedStory DEF Ends, Resting
  <2>. QED  BY <2>1, <2>2, <2>3, StepsGo DEF Intend, Tale, Sound, Step
<1>. QED  BY <1>6, <1>7

LEMMA ArmedStory == Tale /\ [Next]_vars /\ (Mark \/ Probe) => OpStory' /\ RunStory'
<1>. SUFFICES ASSUME Tale, [Next]_vars, Mark \/ Probe PROVE OpStory' /\ RunStory'
  OBVIOUS
<1>1. run.op \in Ops /\ run.pc \in Armed /\ run.mode = "execute" /\ run \in Run /\ marker \subseteq Ops
  BY DEF Tale, Sound, Shape, RunOK, RecordsOK, Resting, Mark, Probe, Armed, Phase, RunPhase, ModeAt
<1>2. WrittenUpto(0) /\ TempsOf(run.op) = {} /\ lineage[run.op] # "rolled_back"
  BY <1>1 DEF Tale, RunStory, WrittenAt, StagedAt, TracedAt, Armed
<1>3. UNCHANGED <<live, temps, lineage, status, rec>> /\ marker' \in {marker, marker \cup {run.op}}
  BY DEF Mark, Probe, disk, records, journal
<1>4. \A o \in Ops : offered'[o] \in {offered[o], {}}
  BY ToldStory, OwnerTame DEF Tale, Sound, Mark, Probe, GiveUp, Return, Outcome
<1>5. OpStory'
  <2>1. Follows /\ run.pc # "close"
    BY <1>1, ExecuteOnTask DEF Tale, Follows, Armed
  <2>. QED  BY <1>3, <1>4, <2>1, QuietStory DEF Offers, TempsOf
<1>6. RunStory'
  <2>1. CASE Mark /\ Goes("probe")
    <3>1. TempsOf(run.op)' = {}
      BY <1>2, <1>3, <2>1 DEF TempsOf, Goes
    <3>2. WrittenUpto(0)'
      BY <1>2, <1>3, <2>1 DEF Goes, WrittenUpto, Holds
    <3>3. run.op \in marker'
      BY <2>1, StepsGo DEF Mark, Goes, Ends, Tale, Sound
    <3>. QED
      BY <1>1, <1>2, <1>3, <2>1, <3>1, <3>2, <3>3 DEF Goes, RunStory, PlannedAt, VerifiedAt, WrittenAt, StagedAt, MarkedAt,
         TracedAt, Verified, Armed, Backward, Recording, Writing
  <2>2. CASE Goes("abandon")
    BY <1>1, <1>2, <1>3, <2>2, GivenUpStory DEF TempsOf, Goes, Armed
  <2>3. CASE Ends
    BY <2>3, EndedStory DEF Ends, Resting
  <2>4. CASE Probe /\ run' = [run EXCEPT !.pc = "stage", !.at = 1, !.todo = Files,
                                         !.expect = run.plan.pre[run.plan.targets[1]]]
    <3>1. run'.pc = "stage" /\ run'.op = run.op /\ run'.mode = run.mode /\ run'.plan = run.plan /\ run'.at = 1
      BY <1>1, <2>4 DEF Run
    <3>2. WrittenUpto(0)' /\ run.op \in marker
      BY <1>2, <1>3, <2>4, <3>1 DEF WrittenUpto, Holds, Tale, RunStory, MarkedAt, Probe
    <3>3. (WrittenUpto(run.at - 1))'
      BY <3>1, <3>2
    <3>. QED
      BY <1>1, <1>2, <1>3, <3>1, <3>2, <3>3 DEF RunStory, PlannedAt, VerifiedAt, WrittenAt, StagedAt, MarkedAt,
         TracedAt, Verified, Armed, Backward, Recording, Writing
  <2>. QED  BY <2>1, <2>2, <2>3, <2>4, StepsGo DEF Mark, Probe, Tale, Sound, Step
<1>. QED  BY <1>5, <1>6


LEMMA AbandonStory == Tale /\ [Next]_vars /\ Abandon => OpStory' /\ RunStory'
<1>. SUFFICES ASSUME Tale, [Next]_vars, Abandon PROVE OpStory' /\ RunStory'
  OBVIOUS
<1>1. /\ run.op \in Ops /\ run.pc = "abandon" /\ status[run.op] \in {"preparing", "writing"}
      /\ run.mode \in {"execute", "auto"}
  BY DEF Tale, Sound, Shape, RunOK, Resting, Abandon, Phase, RunPhase, StatusAt, ModeAt
<1>2. WrittenUpto(0) /\ TempsOf(run.op) = {} /\ ~Written(run.op)
  BY <1>1, NothingHeld DEF Tale, RunStory, WrittenAt, StagedAt
<1>3. UNCHANGED <<live, temps, lineage, marker, rec, offered>> /\ Goes("unmark")
  BY StepsGo DEF Abandon, disk, records, owner, Tale, Sound, Step
<1>4. Follows /\ \A o \in Ops : TempsOf(o)' \subseteq TempsOf(o) /\ Offers(o)
  BY <1>1, <1>3 DEF Follows, OnTask, Goes, TempsOf, Offers
<1>5. OpStory'
  <2>1. CASE status' = status
    BY <1>3, <1>4, <2>1, QuietStory
  <2>2. CASE status'[run.op] = "abandoned" /\ \A o \in Ops \ {run.op} : status'[o] = status[o]
    <3>1. lineage[run.op] # "done"
      BY <1>1 DEF Tale, OpStory, Traced
    <3>. QED
      BY <1>1, <1>2, <1>3, <1>4, <2>2, <3>1, AppendStory DEF Event, Unwritten, Underway, Begun, TempsOf
  <2>3. status' = status \/ status' = With(run.op, "abandoned")
    BY DEF Abandon, JournalQuietly, Journal, AppendFails
  <2>. QED  BY <1>1, <2>1, <2>2, <2>3 DEF With, Tale, Sound, Shape, JournalOK
<1>6. RunStory'
  <2>1. WrittenUpto(0)'
    BY <1>2, <1>3 DEF Goes, WrittenUpto, Holds
  <2>2. TracedAt'
    BY <1>3 DEF Tale, RunStory, TracedAt, Goes
  <2>. QED
    BY <1>1, <1>3, <2>1, <2>2 DEF Goes, RunStory, PlannedAt, VerifiedAt, WrittenAt, StagedAt, MarkedAt, Verified, Armed,
       Backward, Recording, Writing
<1>. QED  BY <1>5, <1>6

LEMMA UnmarkStory == Tale /\ [Next]_vars /\ Unmark => OpStory' /\ RunStory'
<1>. SUFFICES ASSUME Tale, [Next]_vars, Unmark PROVE OpStory' /\ RunStory'
  OBVIOUS
<1>1. /\ run.op \in Ops /\ run.pc = "unmark" /\ status[run.op] # "validated"
      /\ IsOpen(run.op) => run.mode \in {"execute", "auto"} /\ ~Written(run.op)
  BY NothingHeld DEF Tale, Sound, Shape, RunOK, Resting, Unmark, Phase, RunPhase, StatusAt, RunStory, MarkedAt, WrittenAt
<1>2. ~Needs(run.op)
  BY <1>1 DEF Needs, Tale, Sound, Phase, RunPhase, OffersAt
<1>3. UNCHANGED <<live, temps, lineage, rec, status, offered>> /\ marker' \in {marker, marker \ {run.op}} /\ Ends
  BY StepsGo DEF Unmark, disk, journal, records, owner, Tale, Sound
<1>4. OpStory'
  BY <1>1, <1>2, <1>3, QuietStory DEF Follows, OnTask, Ends, TempsOf, Offers
<1>. QED  BY <1>3, <1>4, EndedStory DEF Ends, Resting

-----------------------------------------------------------------------------
\* The steps of a write.

\* What a write's steps leave alone, whatever they stage.
LEMMA WritingStory ==
  ASSUME Tale, [Next]_vars, run.pc \in AtTarget \cup {"validate"}, OnTask,
         UNCHANGED <<live, rec, status, lineage, marker>>, \A o \in Ops : offered'[o] \in {offered[o], {}},
         \A o \in Ops \ {run.op} : TempsOf(o)' \subseteq TempsOf(o)
  PROVE  OpStory'
<1>1. status[run.op] \in Begun /\ run.op \in Ops
  BY DEF Tale, Sound, Shape, RunOK, Resting, Phase, RunPhase, StatusAt, AtTarget, Writing, Backward, Begun
<1>2. \A o \in Ops : TempsOf(o)' \subseteq TempsOf(o) \/ status[o] \in Begun
  BY <1>1
<1>. QED  BY <1>2, QuietStory DEF Follows, Offers, AtTarget

\* A write that stops with n targets to put back.
LEMMA StopStory ==
  ASSUME Tale, run.pc \in {"stage", "check", "rename", "validate"}, NEW n \in Nat, StopWriting(n),
         run.mode = "execute" => WrittenUpto(n), n = 0 => TempsOf(run.op)' = {},
         UNCHANGED <<live, rec, lineage>>
  PROVE  RunStory' /\ OnTask /\ \A o \in Ops : offered'[o] \in {offered[o], {}}
<1>1. run.mode \in {"execute", "forward"} /\ run \in Run
  BY DEF Tale, Sound, Shape, RunOK, Phase, RunPhase, ModeAt, Writing
<1>2. CASE run.mode = "forward"
  <2>1. Return("put_back_instead")
    BY <1>2 DEF StopWriting
  <2>2. Ends
    BY <2>1, StepsGo DEF Tale, Sound
  <2>3. \A o \in Ops : offered'[o] \in {offered[o], {}}
    BY <2>1, ToldStory DEF Return, Outcome
  <2>. QED  BY <2>2, <2>3, EndedStory DEF Ends, Resting, OnTask
<1>3. CASE run.mode = "execute" /\ n = 0
  <2>1. GiveUp("refused")
    BY <1>3 DEF StopWriting
  <2>2. Goes("abandon")
    BY <2>1, StepsGo DEF Tale, Sound
  <2>3. \A o \in Ops : offered'[o] \in {offered[o], {}}
    BY <2>1, ToldStory DEF GiveUp, Outcome
  <2>. QED  BY <1>3, <2>2, <2>3, GivenUpStory DEF OnTask, Goes
<1>4. CASE run.mode = "execute" /\ n # 0
  <2>1. run' = [run EXCEPT !.pc = "keep", !.at = n, !.upto = n] /\ UNCHANGED owner
    BY <1>4 DEF StopWriting
  <2>2. run'.pc = "keep" /\ run'.op = run.op /\ run'.mode = run.mode /\ run'.plan = run.plan /\ run'.at = n /\ run'.upto = n
    BY <1>1, <2>1 DEF Run
  <2>3. (WrittenUpto(run.at))'
    BY <1>4, <2>2 DEF WrittenUpto, Holds
  <2>4. TracedAt'
    BY <2>2 DEF Tale, RunStory, TracedAt
  <2>5. RunStory'
    BY <1>4, <2>2, <2>3, <2>4 DEF RunStory, PlannedAt, VerifiedAt, WrittenAt, StagedAt, MarkedAt, Verified, Armed,
       Backward, Recording, Writing
  <2>. QED  BY <2>1, <2>2, <2>5 DEF OnTask, owner
<1>. QED  BY <1>1, <1>2, <1>3, <1>4

\* An op writes only into its targets.
LEMMA AllWritten == Tale /\ run.pc \notin Unbound => WrittenUpto(Len(run.plan.targets))
<1>. SUFFICES ASSUME Tale, run.pc \notin Unbound PROVE WrittenUpto(Len(run.plan.targets))
  OBVIOUS
<1>1. run.plan = rec[run.op] /\ run.op \in Ops /\ run.plan \in Plan
  BY DEF Tale, Sound, Shape, RunOK, Run, Phase, RunPhase, PlanAt, Unbound
<1>2. ASSUME NEW s \in Slots, NEW f \in Files, Holds(run.op, s, f) PROVE s \in Targets(run.plan)
  BY <1>1, <1>2 DEF Tale, Vouched, Placed, Holds
<1>3. DOMAIN run.plan.targets = 1..Len(run.plan.targets)
  BY <1>1 DEF Plan
<1>. QED  BY <1>2, <1>3 DEF WrittenUpto, Targets, Members

LEMMA MoreWritten == \A m, n \in Nat : m <= n /\ WrittenUpto(m) => WrittenUpto(n)
BY DEF WrittenUpto


LEMMA StageStory == Tale /\ [Next]_vars /\ (Stage \/ Check \/ Validate) => OpStory' /\ RunStory'
<1>. SUFFICES ASSUME Tale, [Next]_vars, Stage \/ Check \/ Validate PROVE OpStory' /\ RunStory'
  OBVIOUS
<1>1. /\ run.op \in Ops /\ run \in Run /\ run.mode \in {"execute", "forward"} /\ run.op \in marker
      /\ run.pc \in {"stage", "check", "validate"} /\ run.plan \in Plan /\ run.plan = rec[run.op]
      /\ run.pc # "validate" => run.at \in 1..Len(run.plan.targets) /\ run.at # 0 /\ run.at - 1 \in Nat
  BY DEF Tale, Sound, Shape, RunOK, Run, Resting, AtTarget, Stage, Check, Validate, Writing, Phase, RunPhase, ModeAt, PlanAt,
     Unbound, RunStory, MarkedAt
<1>2. UNCHANGED <<live, rec, status, lineage, marker>>
  BY DEF Stage, Check, Validate, StageFiles, Sweep, disk, journal, records
<1>3. \A o \in Ops \ {run.op} : TempsOf(o)' \subseteq TempsOf(o)
  BY DEF Stage, Check, Validate, StageFiles, Sweep, disk, TempsOf
<1>4. /\ run.pc = "stage" /\ run.mode = "execute" => WrittenUpto(run.at) /\ WrittenUpto(run.at - 1)
      /\ run.pc = "check" /\ run.mode = "execute" => WrittenUpto(run.at) /\ WrittenUpto(run.at - 1)
      /\ run.pc = "validate" => WrittenUpto(Len(run.plan.targets)) /\ Len(run.plan.targets) \in Nat \ {0}
  <2>1. run.pc \in {"stage", "check"} /\ run.mode = "execute" => WrittenUpto(run.at - 1)
    BY DEF Tale, RunStory, WrittenAt
  <2>2. run.pc \in {"stage", "check"} => run.at - 1 \in Nat /\ run.at \in Nat /\ run.at - 1 <= run.at
    BY <1>1
  <2>3. run.pc = "validate" => run.plan.targets # <<>>
    BY DEF Tale, Sound, Shape, RunOK, Resting
  <2>. QED  BY <1>1, <2>1, <2>2, <2>3, MoreWritten, AllWritten DEF Unbound, Resting, Plan
<1>5. ASSUME NEW n \in Nat, StopWriting(n), run.mode = "execute" => WrittenUpto(n), n = 0 => TempsOf(run.op)' = {}
      PROVE  OpStory' /\ RunStory'
  BY <1>1, <1>2, <1>3, <1>5, StopStory, WritingStory DEF AtTarget
<1>6. ASSUME NEW step \in {"check", "rename", "recovered", "confirm"}, Goes(step), run'.at = run.at, UNCHANGED owner,
             step = "check" => run.pc = "stage",
             step = "rename" => run.pc = "check",
             step \in {"recovered", "confirm"} => Valid /\ run.pc = "validate" /\ UNCHANGED temps
      PROVE  OpStory' /\ RunStory'
  <2>1. OpStory'
    BY <1>1, <1>2, <1>3, <1>6, WritingStory DEF AtTarget, OnTask, Goes, owner
  <2>2. WrittenAt'
    <3>1. step = "check" /\ run.mode = "execute" => (WrittenUpto(run.at - 1))'
      BY <1>2, <1>4, <1>6 DEF Goes, WrittenUpto, Holds
    <3>2. step = "rename" /\ run.mode = "execute" => (WrittenUpto(run.at))'
      BY <1>2, <1>4, <1>6 DEF Goes, WrittenUpto, Holds
    <3>. QED  BY <1>6, <3>1, <3>2 DEF Goes, WrittenAt, Armed, Backward
  <2>3. VerifiedAt' /\ StagedAt'
    <3>1. step \in {"recovered", "confirm"} => TempsOf(run.op)' = {} /\ Behind(run.op, live)'
      BY <1>1, <1>2, <1>6 DEF Valid, Behind, TempsOf, Goes
    <3>. QED  BY <1>6, <3>1 DEF Goes, VerifiedAt, StagedAt, Verified, Recording, Armed, Backward
  <2>4. MarkedAt' /\ TracedAt' /\ PlannedAt'
    BY <1>1, <1>2, <1>6 DEF Goes, MarkedAt, TracedAt, PlannedAt, Tale, RunStory, Writing
  <2>. QED  BY <2>1, <2>2, <2>3, <2>4 DEF RunStory
<1>7. CASE Stage
  <2>1. CASE Goto("check") /\ UNCHANGED owner
    <3>1. Goes("check") /\ run'.at = run.at /\ run.pc = "stage"
      BY <1>7, <2>1, StepsGo DEF Stage, Step, Tale, Sound
    <3>. QED  BY <2>1, <3>1, <1>6
  <2>2. CASE StopWriting(run.at)
    BY <1>1, <1>4, <1>7, <2>2, <1>5 DEF Stage
  <2>. QED  BY <1>7, <2>1, <2>2 DEF Stage
<1>8. CASE Check
  <2>1. CASE Goto("rename") /\ UNCHANGED owner
    <3>1. Goes("rename") /\ run'.at = run.at /\ run.pc = "check"
      BY <1>8, <2>1, StepsGo DEF Check, Step, Tale, Sound
    <3>. QED  BY <2>1, <3>1, <1>6
  <2>2. CASE Sweep /\ StopWriting(run.at - 1)
    <3>1. run' .op \in {0, run.op}
      BY <1>1, <1>8, WriteOnTask DEF OnTask, Tale
    <3>2. run'.op = run.op => TempsOf(run.op)' = {}
      BY <2>2 DEF Sweep, TempsOf
    <3>3. run.at - 1 = 0 => TempsOf(run.op)' = {} \/ run.mode = "forward"
      <4>1. ASSUME run.at - 1 = 0, run.mode # "forward" PROVE run'.op = run.op
        <5>1. GiveUp("refused")
          BY <2>2, <4>1 DEF StopWriting
        <5>. QED  BY <5>1, StepsGo DEF Goes, Tale, Sound
      <4>. QED  BY <3>2, <4>1
    <3>4. CASE run.mode = "forward"
      <4>1. Return("put_back_instead")
        BY <2>2, <3>4 DEF StopWriting
      <4>2. Ends /\ \A o \in Ops : offered'[o] \in {offered[o], {}}
        BY <4>1, StepsGo, ToldStory DEF Return, Outcome, Tale, Sound
      <4>. QED  BY <1>1, <1>2, <1>3, <1>8, <4>2, EndedStory, WritingStory DEF Ends, Resting, OnTask, AtTarget
    <3>. QED  BY <1>1, <1>4, <1>8, <2>2, <3>3, <3>4, <1>5 DEF Check
  <2>. QED  BY <1>8, <2>1, <2>2 DEF Check
<1>9. CASE Validate
  <2>1. CASE Valid /\ Goto(IF run.mode = "forward" THEN "recovered" ELSE "confirm") /\ UNCHANGED owner
    <3>1. \E step \in {"recovered", "confirm"} : Goto(step)
      BY <2>1
    <3>2. PICK step \in {"recovered", "confirm"} : Goto(step)
      BY <3>1
    <3>3. Goes(step) /\ run'.at = run.at /\ run.pc = "validate" /\ UNCHANGED temps
      BY <1>9, <3>2, StepsGo DEF Validate, disk, Step, Tale, Sound
    <3>. QED  BY <2>1, <3>3, <1>6
  <2>2. CASE StopWriting(Len(run.plan.targets))
    BY <1>1, <1>4, <1>9, <2>2, <1>5 DEF Validate
  <2>. QED  BY <1>9, <2>1, <2>2 DEF Validate
<1>. QED  BY <1>7, <1>8, <1>9


\* One file of the current target is put in place, the old content or the new one.
LEMMA PutStory ==
  ASSUME Tale, [Next]_vars, run.pc \in {"rename", "restore"}, OnTask,
         NEW f \in Files, NEW c, c \in {Pre(f), Post(f)}, Put(Slot, f, c),
         UNCHANGED <<rec, status, lineage, marker, offered>>, temps' \subseteq temps,
         c = Post(f) /\ c # Pre(f) => run.pc = "rename"
  PROVE  OpStory'
<1>. USE DEF Tale, OpStory
<1>1. /\ run.op \in Ops /\ run.plan = rec[run.op] /\ status[run.op] \in Begun /\ rec[run.op].kind = "place"
      /\ Slot \in Slots /\ live \in Folder /\ rec[run.op] \in Plan
  BY AtASlot DEF Sound, Shape, RunOK, DiskOK, Resting, AtTarget, Phase, RunPhase, PlanAt, StatusAt, Unbound, Writing, Backward,
     Begun, Slot, Run
<1>2. PlanStory(run.op, rec[run.op]) /\ Ahead(rec[run.op])
  BY <1>1 DEF Plans, Wholes, Active, Underway
<1>3. /\ live'[Slot][f] = c
      /\ \A s \in Slots, g \in Files : <<s, g>> # <<Slot, f>> => live'[s][g] = live[s][g]
  BY <1>1 DEF Put, Folder
<1>4. c = Op(run.op) => /\ c = rec[run.op].post[Slot][f] /\ run.op \in marker /\ lineage[run.op] # "rolled_back"
  <2>1. ASSUME c = Op(run.op) PROVE c = Post(f) /\ c # Pre(f)
    BY SMTT(30), <1>1, <1>2, <2>1 DEF PlanStory, Inherited, Pre, Post
  <2>2. run.pc = "rename" => run.op \in marker /\ lineage[run.op] # "rolled_back"
    BY DEF Sound, Phase, RunPhase, ModeAt, Writing, RunStory, MarkedAt, TracedAt
  <2>. QED  BY <1>1, <2>1, <2>2 DEF Post
<1>5. c # Op(run.op) => c = rec[run.op].pre[Slot][f]
  BY <1>1, <1>2 DEF PlanStory, Pre, Post
<1>6. \A p, q \in Ops : Op(p) = Op(q) => p = q
  BY DEF Op
<1>7. OneActive' /\ Plans'
  BY NextOneActive, PlansStay
<1>8. Known(live)'
  <2>1. ASSUME NEW s \in Slots, NEW g \in Files, NEW p \in Ops, live'[s][g] = Op(p)
        PROVE  Lasting(p) /\ rec[p].post[s][g] = Op(p)
    <3>1. CASE <<s, g>> # <<Slot, f>>
      BY <1>3, <2>1, <3>1 DEF Known
    <3>2. CASE s = Slot /\ g = f /\ p = run.op
      BY <1>1, <1>3, <1>4, <2>1, <3>2 DEF Lasting, Begun, Unwritten
    <3>3. CASE s = Slot /\ g = f /\ p # run.op
      BY <1>1, <1>2, <1>3, <1>5, <1>6, <2>1, <3>3 DEF PlanStory, Inherited
    <3>. QED  BY <3>1, <3>2, <3>3
  <2>2. \A p \in Ops : Lasting(p)' = Lasting(p)
    BY DEF Lasting
  <2>. QED  BY <2>1, <2>2 DEF Known
<1>9. Wholes'
  <2>1. \A o \in Ops : Done(o)' = Done(o) /\ (Active(o)' => Active(o))
    BY DEF Done, Active, IsOpen, OnTask, Ops
  <2>2. ASSUME NEW o \in Ops, Done(o), NEW s \in Targets(rec[o]), NEW g \in Files, live'[s][g] = rec[o].pre[s][g]
        PROVE  rec[o].post[s][g] = live'[s][g]
    <3>1. s \in Slots
      BY TargetsType DEF Sound, Shape, JournalOK
    <3>2. CASE <<s, g>> # <<Slot, f>>
      BY <1>3, <2>2, <3>1, <3>2 DEF Wholes, Behind
    <3>3. CASE s = Slot /\ g = f
      BY SMTT(30), <1>1, <1>2, <1>3, <2>2, <3>3 DEF Ahead, Behind, Pre, Post
    <3>. QED  BY <3>2, <3>3
  <2>3. (\A o \in Ops : Done(o) => Behind(o, live))'
    BY <2>1, <2>2 DEF Behind
  <2>4. (\A o \in Ops : Active(o) /\ status[o] \in Underway => Ahead(rec[o]))'
    BY <2>1 DEF Wholes, Ahead, Behind
  <2>5. Dated(live)'
    <3>1. outside \in Nat /\ outside' \in Nat /\ outside <= outside' /\ live \in Folder /\ rec[run.op].pre \in Folder
      BY <1>1, OutsideGrows DEF Plan
    <3>2. ASSUME NEW s \in Slots, NEW g \in Files, live'[s][g].by = "game" PROVE live'[s][g].n <= outside'
      <4>1. CASE <<s, g>> # <<Slot, f>>
        BY <1>3, <3>1, <3>2, <4>1 DEF Wholes, Dated, Folder, Content
      <4>2. CASE s = Slot /\ g = f
        <5>1. c = rec[run.op].pre[Slot][f]
          BY <1>3, <1>5, <3>2, <4>2 DEF Op
        <5>2. c \in Content
          BY <1>1, <3>1, <5>1 DEF Folder
        <5>3. c.by = "game" => c.n <= outside
          BY <1>1, <1>2, <5>1 DEF PlanStory, Dated
        <5>. QED  BY <1>3, <3>1, <3>2, <4>2, <5>2, <5>3 DEF Content
      <4>. QED  BY <4>1, <4>2
    <3>. QED  BY <3>2 DEF Dated
  <2>. QED  BY <2>3, <2>4, <2>5 DEF Wholes
<1>10. Staged'
  <2>1. ASSUME NEW o \in Ops, TempsOf(o)' # {} PROVE status'[o] \in Begun
    BY <2>1 DEF Staged, TempsOf
  <2>. QED  BY <2>1 DEF Staged
<1>11. Marked'
  <2>1. ASSUME NEW o \in Ops, IsOpen(o), NEW s \in Slots, NEW g \in Files, live'[s][g] = Op(o)
        PROVE  o \in marker
    <3>1. CASE <<s, g>> # <<Slot, f>>
      BY <1>3, <2>1, <3>1 DEF Marked, Written, Holds
    <3>2. CASE s = Slot /\ g = f /\ o # run.op
      <4>1. ~Active(o) /\ Lasting(o)
        BY <1>1, <1>2, <1>3, <1>5, <1>6, <2>1, <3>2 DEF PlanStory, Inherited
      <4>. QED  BY <2>1, <4>1 DEF Active, Lasting
    <3>3. CASE s = Slot /\ g = f /\ o = run.op
      BY <1>3, <1>4, <2>1, <3>3
    <3>. QED  BY <3>1, <3>2, <3>3
  <2>2. \A o \in Ops : IsOpen(o) /\ Written(o)' => o \in marker
    BY <2>1 DEF Written, Holds
  <2>. QED  BY <2>2 DEF Marked, IsOpen
<1>12. Traced'
  BY DEF Traced, Done
<1>. QED  BY <1>7, <1>8, <1>9, <1>10, <1>11, <1>12

\* What a run has written after a file was put: the same targets, or the current one too.
LEMMA PutWritten ==
  ASSUME Tale, run.pc \in {"rename", "restore"}, NEW f \in Files, NEW c, Put(Slot, f, c), WrittenUpto(run.at),
         run'.op = run.op, run'.plan = run.plan
  PROVE  (WrittenUpto(run.at))' \/ run'.at # run.at
<1>1. Slot \in Slots /\ live \in Folder /\ run.at \in Nat /\ run.at \in 1..run.at
  BY AtASlot DEF Tale, Sound, Shape, RunOK, DiskOK, AtTarget, Slot, Run
<1>2. ASSUME run'.at = run.at, NEW s \in Slots, NEW g \in Files, live'[s][g] = Op(run.op)
      PROVE  \E j \in 1..run.at : run.plan.targets[j] = s
  <2>1. CASE s = Slot
    BY <1>1, <2>1 DEF Slot
  <2>2. CASE s # Slot
    <3>1. live'[s][g] = live[s][g]
      BY <1>1, <2>2 DEF Put, Folder
    <3>. QED  BY <1>2, <3>1 DEF WrittenUpto, Holds
  <2>. QED  BY <2>1, <2>2
<1>. QED  BY <1>2 DEF WrittenUpto, Holds


LEMMA RenameStory ==
  ASSUME Tale, [Next]_vars, NEW f \in Files, Rename(f)
  PROVE  OpStory' /\ RunStory'
<1>1. /\ run.op \in Ops /\ run \in Run /\ run.mode \in {"execute", "forward"} /\ run.op \in marker /\ run.pc = "rename"
      /\ run.at \in 1..Len(run.plan.targets) /\ run.at \in Nat /\ run.at # 0
  BY AtASlot DEF Tale, Sound, Shape, RunOK, Run, Resting, AtTarget, Rename, Writing, Phase, RunPhase, ModeAt, RunStory, MarkedAt
<1>2. UNCHANGED <<rec, status, lineage, marker>>
  BY DEF Rename, journal, records
<1>3. run.mode = "execute" => WrittenUpto(run.at)
  BY <1>1 DEF Tale, RunStory, WrittenAt
<1>4. OnTask
  BY WriteOnTask DEF Tale
<1>5. CASE StopWriting(run.at) /\ UNCHANGED <<disk, gone>>
  <2>1. UNCHANGED live /\ \A o \in Ops : TempsOf(o)' = TempsOf(o)
    BY <1>5 DEF disk, TempsOf
  <2>. QED  BY <1>1, <1>2, <1>3, <1>5, <2>1, StopStory, WritingStory DEF AtTarget
<1>6. CASE /\ RenameFile(f) /\ UNCHANGED owner
           /\ run' = IF run.todo = {f} THEN NextTarget ELSE [run EXCEPT !.todo = @ \ {f}]
  <2>1. Put(Slot, f, Post(f)) /\ temps' \subseteq temps
    BY <1>6 DEF RenameFile
  <2>2. OpStory'
    BY <1>1, <1>2, <1>4, <1>6, <2>1, PutStory DEF owner
  <2>3. CASE run.todo # {f}
    <3>1. run' = [run EXCEPT !.todo = @ \ {f}]
      BY <1>6, <2>3
    <3>2. run'.pc = "rename" /\ run'.op = run.op /\ run'.mode = run.mode /\ run'.plan = run.plan /\ run'.at = run.at
      BY <1>1, <3>1 DEF Run
    <3>3. run.mode = "execute" => (WrittenUpto(run.at))'
      BY <1>1, <1>3, <2>1, <3>2, PutWritten
    <3>4. TracedAt' /\ MarkedAt'
      BY <1>1, <1>2, <3>2 DEF Tale, RunStory, TracedAt, MarkedAt
    <3>. QED  BY <2>2, <3>2, <3>3, <3>4 DEF RunStory, PlannedAt, VerifiedAt, WrittenAt, StagedAt, Verified, Armed,
         Backward, Recording
  <2>4. CASE run.todo = {f}
    <3>1. run' = NextTarget
      BY <1>6, <2>4
    <3>2. /\ run'.op = run.op /\ run'.mode = run.mode /\ run'.plan = run.plan
          /\ \/ run'.pc = "validate"
             \/ run'.pc = "replan" /\ run.mode = "forward"
             \/ run'.pc = "stage" /\ run'.at = run.at + 1
      BY <1>1, <3>1 DEF NextTarget, Run
    <3>3. run'.pc = "stage" /\ run.mode = "execute" => (WrittenUpto(run.at - 1))'
      <4>1. ASSUME run.mode = "execute", run'.pc = "stage"
            PROVE  \A s \in Slots, g \in Files : live'[s][g] = Op(run.op) => \E j \in 1..run.at : run.plan.targets[j] = s
        <5>1. Slot \in Slots /\ live \in Folder /\ run.at \in 1..run.at
          BY <1>1, AtASlot DEF Tale, Sound, Shape, DiskOK, AtTarget
        <5>2. ASSUME NEW s \in Slots, NEW g \in Files, live'[s][g] = Op(run.op), s # Slot PROVE live[s][g] = Op(run.op)
          BY <2>1, <5>1, <5>2 DEF Put, Folder
        <5>. QED  BY <1>3, <4>1, <5>1, <5>2 DEF WrittenUpto, Holds, Slot
      <4>2. run'.pc = "stage" /\ run.mode = "execute" => run'.at - 1 = run.at
        BY <1>1, <3>2
      <4>. QED  BY <3>2, <4>1, <4>2 DEF WrittenUpto, Holds
    <3>4. TracedAt' /\ MarkedAt'
      BY <1>1, <1>2, <3>2 DEF Tale, RunStory, TracedAt, MarkedAt
    <3>. QED  BY <2>2, <3>2, <3>3, <3>4 DEF RunStory, PlannedAt, VerifiedAt, WrittenAt, StagedAt, Verified, Armed,
         Backward, Recording
  <2>. QED  BY <2>3, <2>4
<1>7. CASE StopWriting(run.at) /\ RenameFile(f)
  <2>1. Put(Slot, f, Post(f)) /\ temps' \subseteq temps
    BY <1>7 DEF RenameFile
  <2>2. CASE run.mode = "forward"
    <3>1. Return("put_back_instead")
      BY <1>7, <2>2 DEF StopWriting
    <3>2. Ends /\ UNCHANGED offered
      BY <3>1, StepsGo DEF Tale, Sound, Return, Tell
    <3>3. OpStory'
      BY <1>1, <1>2, <2>1, <3>2, PutStory DEF Ends, OnTask
    <3>. QED  BY <3>2, <3>3, EndedStory DEF Ends, Resting
  <2>3. CASE run.mode = "execute"
    <3>1. run' = [run EXCEPT !.pc = "keep", !.at = run.at, !.upto = run.at] /\ UNCHANGED owner
      BY <1>1, <1>7, <2>3 DEF StopWriting
    <3>2. /\ run'.pc = "keep" /\ run'.op = run.op /\ run'.mode = run.mode /\ run'.plan = run.plan
          /\ run'.at = run.at /\ run'.upto = run.at
      BY <1>1, <3>1 DEF Run
    <3>3. OpStory'
      BY <1>1, <1>2, <2>1, <3>1, <3>2, PutStory DEF owner, OnTask
    <3>4. (WrittenUpto(run.at))'
      BY <1>1, <1>3, <2>1, <2>3, <3>2, PutWritten
    <3>5. TracedAt'
      BY <1>1, <1>2, <2>3, <3>2 DEF Tale, RunStory, TracedAt
    <3>. QED  BY <1>1, <2>3, <3>2, <3>3, <3>4, <3>5 DEF RunStory, PlannedAt, VerifiedAt, WrittenAt, StagedAt, MarkedAt,
         Verified, Armed, Backward, Recording, Writing
  <2>. QED  BY <1>1, <2>2, <2>3
<1>. QED  BY <1>5, <1>6, <1>7 DEF Rename

\* A target was put back: none of the op's bytes are left in it.
LEMMA PutBackWritten ==
  ASSUME Tale, run.pc \in AtTarget, WrittenUpto(run.at), Changed = {}, NEW n, n = run.at - 1
  PROVE  WrittenUpto(n)
<1>1. /\ run.op \in Ops /\ run.plan = rec[run.op] /\ Slot \in Slots /\ run.at \in Nat \ {0}
      /\ run.plan.targets[run.at] = Slot
  BY AtASlot DEF Tale, Sound, Shape, RunOK, Resting, AtTarget, Phase, RunPhase, PlanAt, Unbound, Slot
<1>2. \A f \in Files : live[Slot][f] # Op(run.op)
  BY <1>1 DEF Changed, Pre, Tale, OpStory, Plans, PlanStory, Inherited
<1>3. ASSUME NEW s \in Slots, NEW f \in Files, Holds(run.op, s, f)
      PROVE  \E j \in 1..n : run.plan.targets[j] = s
  <2>1. PICK j \in 1..run.at : run.plan.targets[j] = s
    BY <1>3 DEF WrittenUpto
  <2>2. s # Slot
    BY <1>2, <1>3 DEF Holds
  <2>3. j # run.at
    BY <1>1, <2>1, <2>2
  <2>. QED  BY <1>1, <2>1, <2>3
<1>. QED  BY <1>3 DEF WrittenUpto

LEMMA RollbackStory ==
  ASSUME Tale, [Next]_vars, Rollback, UNCHANGED <<journal, records, owner, outer, crashes>>
  PROVE  OpStory' /\ RunStory'
<1>1. /\ run.op \in Ops /\ run \in Run /\ run.pc \in {"keep", "restore", "verify"}
      /\ run.at \in 1..Len(run.plan.targets) /\ run.at \in Nat /\ run.at # 0 /\ run.upto \in Nat /\ run.upto > 0
  <2>1. run.pc \in {"keep", "restore", "verify"}
    BY DEF Rollback, RollbackKeep, RollbackRestore, RollbackVerify
  <2>. QED  BY <2>1, AtASlot DEF Tale, Sound, Shape, RunOK, Run, Resting, AtTarget, Backward, RunStory, StagedAt
<1>2. UNCHANGED <<rec, status, lineage, marker, offered>>
  BY DEF journal, records, owner
<1>3. ~run.problem => WrittenUpto(run.at)
  BY <1>1 DEF Tale, RunStory, WrittenAt, Backward
<1>4. OnTask
  BY WriteOnTask DEF Tale
<1>5. ASSUME UNCHANGED live, temps' \subseteq temps PROVE OpStory'
  <2>1. \A o \in Ops : TempsOf(o)' \subseteq TempsOf(o)
    BY <1>5 DEF TempsOf
  <2>. QED  BY <1>1, <1>2, <1>4, <1>5, <2>1, WritingStory DEF AtTarget
<1>6. CASE RollbackKeep
  <2>1. UNCHANGED <<live, temps>>
    BY <1>6 DEF RollbackKeep
  <2>2. \/ /\ run'.pc = "restore" /\ run'.at = run.at /\ run'.problem = run.problem
        \/ /\ run'.pc \in {"keep", "report"} /\ run'.problem = TRUE
    BY ZenonT(60), <1>1, <1>6 DEF RollbackKeep, BackTo, Run
  <2>3. run'.op = run.op /\ run'.mode = run.mode /\ run'.plan = run.plan /\ run'.upto = run.upto
    BY <1>1, <1>6 DEF RollbackKeep, BackTo, Run
  <2>4. ~run'.problem => (WrittenUpto(run.at))' /\ (run.at < run.upto => TempsOf(run.op)' = {})
    BY <1>1, <1>3, <2>1, <2>2, <2>3 DEF WrittenUpto, Holds, TempsOf, Tale, RunStory, StagedAt, Backward
  <2>5. TracedAt'
    BY <1>1, <1>2, <2>2, <2>3 DEF Tale, RunStory, TracedAt
  <2>6. (~run.problem /\ run.at < run.upto => TempsOf(run.op) = {})'
    BY <2>2, <2>3, <2>4 DEF TempsOf
  <2>. QED  BY <1>1, <1>5, <2>1, <2>2, <2>3, <2>4, <2>5, <2>6 DEF RunStory, PlannedAt, VerifiedAt, WrittenAt, StagedAt, MarkedAt,
       Verified, Armed, Backward, Recording, Writing
<1>7. ASSUME NEW f \in Files, RollbackRestore(f) PROVE OpStory' /\ RunStory'
  <2>1. \/ Put(Slot, f, Pre(f)) /\ UNCHANGED temps
        \/ UNCHANGED <<live, temps>>
    BY <1>7 DEF RollbackRestore
  <2>2. OpStory'
    BY <1>1, <1>2, <1>4, <1>5, <1>7, <2>1, PutStory DEF RollbackRestore
  <2>3. /\ run'.pc \in {"restore", "verify"} /\ run'.op = run.op /\ run'.mode = run.mode /\ run'.plan = run.plan
        /\ run'.at = run.at /\ run'.upto = run.upto /\ (~run'.problem => ~run.problem)
    BY ZenonT(60), <1>1, <1>7 DEF RollbackRestore, Restored, Run
  <2>4. ~run'.problem => (WrittenUpto(run.at))'
    <3>1. CASE UNCHANGED live
      BY <1>3, <2>3, <3>1 DEF WrittenUpto, Holds
    <3>2. CASE Put(Slot, f, Pre(f))
      BY <1>3, <1>7, <2>3, <3>2, PutWritten DEF RollbackRestore
    <3>. QED  BY <2>1, <3>1, <3>2
  <2>5. TracedAt'
    BY <1>1, <1>2, <2>3 DEF Tale, RunStory, TracedAt
  <2>6. (~run.problem /\ run.at < run.upto => TempsOf(run.op) = {})'
    BY <1>1, <2>1, <2>3 DEF TempsOf, Tale, RunStory, StagedAt, Backward
  <2>. QED  BY <1>1, <2>2, <2>3, <2>4, <2>5, <2>6 DEF RunStory, PlannedAt, VerifiedAt, WrittenAt, StagedAt, MarkedAt,
       Verified, Armed, Backward, Recording, Writing
<1>8. CASE RollbackVerify
  <2>1. UNCHANGED live /\ temps' \subseteq temps
    BY <1>8 DEF RollbackVerify, Sweep
  <2>2. /\ run'.pc \in {"keep", "report"} /\ run'.at = run.at - 1 /\ (~run'.problem => ~run.problem /\ Changed = {})
        /\ run'.op = run.op /\ run'.mode = run.mode /\ run'.plan = run.plan /\ run'.upto = run.upto
    BY <1>1, <1>8 DEF RollbackVerify, BackTo, Run
  <2>3. ~run'.problem => (WrittenUpto(run.at))'
    BY <1>1, <1>3, <2>1, <2>2, PutBackWritten DEF WrittenUpto, Holds, AtTarget
  <2>4. TempsOf(run.op)' = {}
    BY <1>8, <2>2 DEF RollbackVerify, Sweep, TempsOf
  <2>5. TracedAt'
    BY <1>1, <1>2, <2>2 DEF Tale, RunStory, TracedAt
  <2>. QED  BY <1>1, <1>5, <2>1, <2>2, <2>3, <2>4, <2>5 DEF RunStory, PlannedAt, VerifiedAt, WrittenAt, StagedAt, MarkedAt,
       Verified, Armed, Backward, Recording, Writing
<1>. QED  BY <1>6, <1>7, <1>8 DEF Rollback


-----------------------------------------------------------------------------
\* Recording what a run did.

\* An append of the run's op, whether it worked or not.
LEMMA AppendedStory ==
  ASSUME Tale, [Next]_vars, run.op \in Ops, NEW e \in Event \ Unwritten,
         Journal(run.op, e) \/ AppendFails(run.op, e), OnTask,
         UNCHANGED <<live, rec, lineage, marker>>, temps' \subseteq temps,
         \A o \in Ops : offered'[o] \in {offered[o], {}},
         run.pc = "close" => offered'[run.op] = {} \/ UNCHANGED run,
         e \in {"rolled_back", "abandoned"} => WrittenUpto(0),
         e = "done" /\ rec[run.op].kind = "place" => Behind(run.op, live) /\ lineage[run.op] = "done",
         e \in Underway => status[run.op] \in Underway /\ rec[run.op].kind = "place",
         e \in Begun \/ (\A t \in temps' : t[1] # run.op),
         e \in Begun => (e = "failed" /\ IsOpen(run.op)) \/ run.op \in marker,
         lineage[run.op] = "done" => e \in {"validated", "recovered", "done", "left"},
         lineage[run.op] = "rolled_back" => e \notin {"validated", "done", "failed"}
  PROVE  OpStory'
<1>1. Follows /\ \A o \in Ops : TempsOf(o)' \subseteq TempsOf(o) /\ Offers(o)
  BY DEF Follows, TempsOf, Offers
<1>2. CASE status' = status
  BY <1>1, <1>2, QuietStory
<1>3. CASE status' = With(run.op, e)
  <2>1. status'[run.op] = e /\ \A o \in Ops \ {run.op} : status'[o] = status[o]
    BY <1>3 DEF With, Tale, Sound, Shape, JournalOK
  <2>2. \A o \in {run.op} : e \in Begun \/ TempsOf(o)' = {}
    BY DEF TempsOf
  <2>3. e \in {"rolled_back", "abandoned"} => ~Written(run.op)
    BY NothingHeld
  <2>4. PICK a \in Ops : a = run.op
    OBVIOUS
  <2>. QED  BY <1>1, <2>1, <2>2, <2>3, <2>4, AppendStory
<1>. QED  BY <1>2, <1>3 DEF Journal, AppendFails

\* A run that moves on to a step of its record, with nothing written since.
LEMMA RecordedStory ==
  ASSUME Tale, NEW step \in {"confirm", "finalize", "oplog", "lineage"}, Goes(step), run.pc # "unmark",
         UNCHANGED <<live, rec, marker, lineage>>, run.plan.kind = "place" => Behind(run.op, live),
         step = "confirm" => run.op \in marker,
         step \in {"confirm", "oplog", "lineage"} => \A t \in temps' : t[1] # run.op
  PROVE  RunStory'
<1>1. PlannedAt' /\ WrittenAt' /\ MarkedAt' /\ TracedAt'
  BY DEF Tale, RunStory, PlannedAt, WrittenAt, MarkedAt, TracedAt, Goes, Armed, Backward, Writing
<1>2. StagedAt'
  BY DEF StagedAt, TempsOf, Goes, Armed, Backward
<1>3. VerifiedAt'
  BY DEF VerifiedAt, Behind, Goes
<1>. QED  BY <1>1, <1>2, <1>3 DEF RunStory

LEMMA ConfirmStory == Tale /\ [Next]_vars /\ (Confirm \/ Recovered) => OpStory' /\ RunStory'
<1>. SUFFICES ASSUME Tale, [Next]_vars, Confirm \/ Recovered PROVE OpStory' /\ RunStory'
  OBVIOUS
<1>1. /\ run.op \in Ops /\ run.pc \in {"confirm", "recovered"} /\ run.mode \in {"execute", "forward"}
      /\ run.plan.kind = "place" /\ rec[run.op].kind = "place"
      /\ status[run.op] \in {"writing", "validated", "recovered"}
  BY DEF Tale, Sound, Shape, RunOK, Resting, Confirm, Recovered, Phase, RunPhase, ModeAt, StatusAt, PlanAt, Unbound
<1>2. /\ TempsOf(run.op) = {} /\ run.op \in marker /\ lineage[run.op] # "rolled_back" /\ Behind(run.op, live)
  BY <1>1 DEF Tale, RunStory, StagedAt, MarkedAt, TracedAt, VerifiedAt, Verified
<1>3. UNCHANGED <<live, temps, rec, lineage, marker>>
  BY DEF Confirm, Recovered, disk, records
<1>4. \A o \in Ops : offered'[o] \in {offered[o], {}}
  BY ToldStory, OwnerTame DEF Tale, Sound, Confirm, Recovered, Return, Outcome
<1>5. OpStory'
  <2>1. OnTask
    BY ExecuteOnTask, RecoverOnTask DEF Tale
  <2>2. PICK e \in {"validated", "recovered"} : Journal(run.op, e) \/ AppendFails(run.op, e)
    BY DEF Confirm, Recovered
  <2>3. \A t \in temps' : t[1] # run.op
    BY <1>2, <1>3 DEF TempsOf
  <2>. QED  BY <1>1, <1>2, <1>3, <1>4, <2>1, <2>2, <2>3, AppendedStory DEF Event, Unwritten, Underway, Begun
<1>6. RunStory'
  <2>1. CASE Goes("finalize") \/ Goes("confirm")
    <3>1. \A t \in temps' : t[1] # run.op
      BY <1>2, <1>3 DEF TempsOf
    <3>. QED  BY <1>1, <1>2, <1>3, <2>1, <3>1, RecordedStory
  <2>2. CASE Ends
    BY <2>2, EndedStory DEF Ends, Resting
  <2>. QED  BY <2>1, <2>2, StepsGo DEF Confirm, Recovered, Tale, Sound, Step
<1>. QED  BY <1>5, <1>6

LEMMA RecordStory == Tale /\ [Next]_vars /\ (Finalize \/ RecordOplog) => OpStory' /\ RunStory'
<1>. SUFFICES ASSUME Tale, [Next]_vars, Finalize \/ RecordOplog PROVE OpStory' /\ RunStory'
  OBVIOUS
<1>1. run.op \in Ops /\ run.pc \in Recording /\ run.plan.kind = "place" /\ Behind(run.op, live)
  BY DEF Tale, Sound, Shape, RunOK, Resting, Finalize, RecordOplog, Recording, Phase, RunPhase, PlanAt, Unbound, RunStory,
     VerifiedAt, Verified
<1>2. UNCHANGED <<live, status, rec, lineage, marker>> /\ temps' \subseteq temps
  BY DEF Finalize, RecordOplog, Sweep, disk, journal, records
<1>3. \A t \in temps' : t[1] # run.op
  <2>1. CASE Finalize
    BY <2>1 DEF Finalize, Sweep, TempsOf
  <2>2. CASE RecordOplog
    BY <2>2 DEF RecordOplog, disk, TempsOf, Tale, RunStory, StagedAt
  <2>. QED  BY <2>1, <2>2
<1>4. OpStory'
  <2>1. \A o \in Ops : offered'[o] \in {offered[o], {}}
    BY ToldStory, OwnerTame DEF Tale, Sound, Finalize, RecordOplog, Return, Outcome
  <2>2. Follows /\ run.pc # "close"
    BY <1>1, ExecuteOnTask DEF Tale, Follows, Recording
  <2>. QED  BY <1>2, <2>1, <2>2, QuietStory DEF Offers, TempsOf
<1>5. CASE Goes("oplog") \/ Goes("lineage")
  BY <1>1, <1>2, <1>3, <1>4, <1>5, RecordedStory DEF Recording
<1>6. CASE Ends
  BY <1>4, <1>6, EndedStory DEF Ends, Resting
<1>. QED  BY <1>5, <1>6, StepsGo DEF Finalize, RecordOplog, Tale, Sound, Step

LEMMA CloseStory == Tale /\ [Next]_vars /\ Close => OpStory' /\ RunStory'
<1>. SUFFICES ASSUME Tale, [Next]_vars, Close PROVE OpStory' /\ RunStory'
  OBVIOUS
<1>1. /\ run.op \in Ops /\ run.pc = "close" /\ run.mode \in {"execute", "forward", "finish"}
      /\ run.plan.kind = rec[run.op].kind /\ run.plan.kind \in {"keep", "place"}
      /\ run.plan.kind = "keep" => status[run.op] = "preparing"
  BY DEF Tale, Sound, Shape, RunOK, Resting, Close, Phase, RunPhase, ModeAt, StatusAt, PlanAt, Unbound
<1>2. /\ TempsOf(run.op) = {} /\ lineage[run.op] # "rolled_back"
      /\ run.plan.kind = "place" => Behind(run.op, live) /\ lineage[run.op] = "done"
  BY <1>1 DEF Tale, RunStory, StagedAt, TracedAt, VerifiedAt, Verified
<1>3. UNCHANGED <<live, temps, rec, lineage, marker>>
  BY DEF Close, disk, records
<1>4. \A o \in Ops : offered'[o] \in {offered[o], {}}
  BY ToldStory DEF Close, Return, Outcome
<1>5. offered'[run.op] = {}
  <2>1. CASE run.plan.kind = "keep"
    BY <1>1, <1>4, <2>1 DEF Tale, Sound, Phase, JournalPhase, Unwritten
  <2>2. CASE run.plan.kind = "place"
    <3>1. Tell("done")
      BY <2>2 DEF Close, Return
    <3>. QED  BY <1>1, <3>1 DEF Tell, Tale, Sound, Shape, OwnerOK
  <2>. QED  BY <1>1, <2>1, <2>2
<1>6. OpStory'
  <2>1. OnTask /\ (Journal(run.op, "done") \/ AppendFails(run.op, "done"))
    BY ExecuteOnTask DEF Tale, Close
  <2>2. \A t \in temps' : t[1] # run.op
    BY <1>2, <1>3 DEF TempsOf
  <2>. QED  BY <1>1, <1>2, <1>3, <1>4, <1>5, <2>1, <2>2, AppendedStory DEF Event, Unwritten, Underway, Begun
<1>7. RunStory'
  <2>1. CASE Goes("unmark") /\ Journal(run.op, "done")
    <3>1. status'[run.op] = "done"
      BY <1>1, <2>1, StatusTame DEF Tale, Sound
    <3>. QED
      BY <1>1, <1>2, <1>3, <2>1, <3>1 DEF Goes, RunStory, PlannedAt, VerifiedAt, WrittenAt, StagedAt, MarkedAt, TracedAt,
         IsOpen, Open, Verified, Armed, Backward, Recording, Writing
  <2>2. CASE Ends
    BY <2>2, EndedStory DEF Ends, Resting
  <2>. QED  BY <2>1, <2>2, StepsGo DEF Close, Tale, Sound, Step
<1>. QED  BY <1>6, <1>7


\* The lineage follows the journal: bound after the write was confirmed, put back after
\* nothing is left of it.
LEMMA LineageStory ==
  ASSUME Tale, [Next]_vars, run.op \in Ops, NEW e \in {"done", "rolled_back"},
         lineage' \in {lineage, [lineage EXCEPT ![run.op] = e]}, OnTask,
         UNCHANGED <<live, temps, rec, status, marker>>, \A o \in Ops : offered'[o] \in {offered[o], {}},
         run.pc # "close", status[run.op] \notin Unwritten,
         e = "done" => status[run.op] = "validated" /\ (lineage' = lineage \/ (run'.op = run.op /\ run'.pc = "close")),
         e = "rolled_back" => /\ status[run.op] \in {"rolled_back", "writing"} /\ ~Written(run.op)
                              /\ IsOpen(run.op) => offered[run.op] = {}
  PROVE  OpStory'
<1>. USE DEF Tale, OpStory
<1>1. lineage \in [Ops -> {"none", "done", "rolled_back"}]
  BY DEF Sound, Shape, RecordsOK
<1>2. CASE lineage' = lineage
  BY <1>2, QuietStory DEF Follows, Offers, TempsOf
<1>3. CASE lineage' # lineage /\ lineage'[run.op] = e /\ \A o \in Ops \ {run.op} : lineage'[o] = lineage[o]
  <2>1. OneActive' /\ Plans'
    BY NextOneActive, PlansStay
  <2>2. Known(live)'
    <3>1. ASSUME NEW p \in Ops, Written(p) PROVE Lasting(p)' /\ UNCHANGED rec[p]
      BY <1>3, <3>1 DEF Known, Written, Holds, Lasting
    <3>. QED  BY <3>1, KnownStays
  <2>3. Wholes'
    <3>1. \A o \in Ops : (Active(o)' => Active(o)) /\ Done(o)' = Done(o)
      BY DEF Active, IsOpen, OnTask, Ops, Done
    <3>2. (\A o \in Ops : Done(o) => Behind(o, live))'
      BY <3>1 DEF Wholes, Behind
    <3>3. (\A o \in Ops : Active(o) /\ status[o] \in Underway => Ahead(rec[o]))'
      BY <3>1 DEF Wholes, Ahead, Behind
    <3>. QED  BY <3>2, <3>3, LiveStaysDated DEF Wholes
  <2>4. Staged' /\ Marked'
    BY DEF Staged, Marked, TempsOf, IsOpen, Written, Holds
  <2>5. Traced'
    <3>1. ASSUME NEW o \in Ops, o = run.op
          PROVE  /\ lineage'[o] = e
                 /\ e = "done" => status'[o] = "validated" /\ run'.op = o /\ run'.pc = "close"
                 /\ e = "rolled_back" => /\ status'[o] \in {"rolled_back", "writing"}
                                         /\ status'[o] \in Underway => offered'[o] = {}
      <4>1. "writing" \in Open /\ "rolled_back" \notin Underway
        BY DEF Open, Underway, Begun
      <4>. QED  BY <1>3, <3>1, <4>1 DEF IsOpen
    <3>2. ASSUME NEW o \in Ops, o # run.op
          PROVE  lineage'[o] = lineage[o] /\ status'[o] = status[o] /\ offered'[o] \in {offered[o], {}}
      BY <1>3, <3>2
    <3>. QED  BY <1>3, <3>1, <3>2 DEF Traced, Done, Unwritten
  <2>. QED  BY <2>1, <2>2, <2>3, <2>4, <2>5
<1>. QED  BY <1>1, <1>2, <1>3


LEMMA BoundStory == Tale /\ [Next]_vars /\ (RecordLineage \/ Trace) => OpStory' /\ RunStory'
<1>. SUFFICES ASSUME Tale, [Next]_vars, RecordLineage \/ Trace PROVE OpStory' /\ RunStory'
  OBVIOUS
<1>1. run.op \in Ops /\ OnTask /\ lineage \in [Ops -> {"none", "done", "rolled_back"}]
  BY ExecuteOnTask DEF Tale, Sound, Shape, RunOK, RecordsOK, Resting, RecordLineage, Trace
<1>2. UNCHANGED <<live, temps, rec, status, marker>>
  BY DEF RecordLineage, Trace, disk, journal
<1>3. \A o \in Ops : offered'[o] \in {offered[o], {}}
  BY ToldStory, OwnerTame DEF Tale, Sound, RecordLineage, Trace, Return, Outcome
<1>4. CASE RecordLineage
  <2>1. /\ run.pc = "lineage" /\ status[run.op] = "validated" /\ run.mode \in {"execute", "forward", "finish"}
        /\ run.plan.kind = "place" /\ Behind(run.op, live) /\ TempsOf(run.op) = {}
    BY <1>4 DEF RecordLineage, Tale, Sound, Phase, RunPhase, StatusAt, ModeAt, PlanAt, Recording, Resting, RunStory, VerifiedAt,
       Verified, StagedAt
  <2>2. CASE lineage' = [lineage EXCEPT ![run.op] = "done"] /\ Goes("close")
    <3>1. OpStory'
      BY <1>1, <1>2, <1>3, <2>1, <2>2, LineageStory DEF Goes, Unwritten
    <3>2. lineage'[run.op] = "done"
      BY <1>1, <2>2
    <3>3. TracedAt' /\ StagedAt'
      <4>1. TempsOf(run.op)' = {}
        BY <1>2, <2>1, <2>2 DEF TempsOf, Goes
      <4>. QED  BY <2>1, <2>2, <3>2, <4>1 DEF Goes, TracedAt, StagedAt, Armed, Backward
    <3>4. PlannedAt' /\ VerifiedAt' /\ WrittenAt' /\ MarkedAt'
      BY <1>2, <2>1, <2>2 DEF Goes, PlannedAt, VerifiedAt, WrittenAt, MarkedAt, Verified, Recording, Armed, Backward,
         Writing, Behind
    <3>. QED  BY <3>1, <3>3, <3>4 DEF RunStory
  <2>3. CASE UNCHANGED lineage /\ Ends
    <3>1. OpStory'
      BY <1>1, <1>2, <1>3, <2>1, <2>3, LineageStory DEF Unwritten
    <3>. QED  BY <2>3, <3>1, EndedStory DEF Ends, Resting
  <2>. QED  BY <1>4, <2>2, <2>3, StepsGo DEF RecordLineage, Tale, Sound, Step
<1>5. CASE Trace
  <2>1. /\ run.pc = "trace" /\ status[run.op] \in {"rolled_back", "writing"} /\ run.mode \in {"execute", "back"}
        /\ run.mode = "back" => ~IsOpen(run.op)
    BY <1>5 DEF Trace, Tale, Sound, Phase, RunPhase, StatusAt, ModeAt
  <2>2. WrittenUpto(0) /\ ~Written(run.op)
    BY <1>1, <2>1, NothingHeld DEF Tale, RunStory, WrittenAt
  <2>3. IsOpen(run.op) => offered[run.op] = {}
    BY <1>1, <2>1 DEF Tale, Sound, Phase, RunPhase, OffersAt
  <2>4. Goes("unmark") /\ lineage' \in {lineage, [lineage EXCEPT ![run.op] = "rolled_back"]}
    BY <1>5, StepsGo DEF Trace, Tale, Sound, Step
  <2>5. OpStory'
    BY <1>1, <1>2, <1>3, <2>1, <2>2, <2>3, <2>4, LineageStory DEF Unwritten
  <2>6. WrittenUpto(0)'
    BY <1>2, <2>2, <2>4 DEF Goes, WrittenUpto, Holds
  <2>7. TracedAt'
    BY <1>1, <2>1, <2>4 DEF Goes, TracedAt, Tale, RunStory
  <2>8. MarkedAt'
    BY <1>2, <2>1, <2>4 DEF Goes, MarkedAt, IsOpen, Writing
  <2>. QED  BY <2>4, <2>5, <2>6, <2>7, <2>8 DEF Goes, RunStory, PlannedAt, VerifiedAt, WrittenAt, StagedAt, Verified, Recording,
       Armed, Backward
<1>. QED  BY <1>4, <1>5

LEMMA AuditStory == Tale /\ [Next]_vars /\ Audit => OpStory' /\ RunStory'
<1>. SUFFICES ASSUME Tale, [Next]_vars, Audit PROVE OpStory' /\ RunStory'
  OBVIOUS
<1>1. /\ run.op \in Ops /\ OnTask /\ run \in Run /\ run.pc = "audit" /\ run.mode \in {"execute", "back"}
      /\ run.mode = "back" => ~IsOpen(run.op)
  BY ExecuteOnTask DEF Tale, Sound, Shape, RunOK, Resting, Audit, Phase, RunPhase, ModeAt, StatusAt
<1>2. UNCHANGED <<live, temps, rec, status, lineage, marker, offered>>
  BY DEF Audit, disk, journal, owner
<1>3. OpStory'
  BY <1>1, <1>2, QuietStory DEF Follows, Offers, TempsOf
<1>4. CASE Ends
  BY <1>3, <1>4, EndedStory DEF Ends, Resting
<1>5. CASE ~run.problem /\ (Goes("trace") \/ Goes("unmark"))
  <2>1. WrittenUpto(0)'
    BY <1>1, <1>2, <1>5 DEF Goes, WrittenUpto, Holds, Tale, RunStory, WrittenAt
  <2>2. TracedAt' /\ MarkedAt'
    BY <1>1, <1>2, <1>5 DEF Goes, TracedAt, MarkedAt, IsOpen, Writing, Tale, RunStory
  <2>. QED  BY <1>3, <1>5, <2>1, <2>2 DEF Goes, RunStory, PlannedAt, VerifiedAt, WrittenAt, StagedAt, Verified, Recording,
       Armed, Backward
<1>6. Ends \/ (~run.problem /\ (Goes("trace") \/ Goes("unmark")))
  BY <1>1, StepsGo DEF Audit, Tale, Sound, Goes, Run
<1>. QED  BY <1>4, <1>5, <1>6

\* After a rollback of every target.
LEMMA PutBack ==
  ASSUME Tale, run.pc = "report"
  PROVE  ~run.problem => WrittenUpto(0) /\ TempsOf(run.op) = {}
BY DEF Tale, Sound, Phase, RunPhase, PlanAt, RunStory, WrittenAt, StagedAt, Backward

LEMMA ReportStory == Tale /\ [Next]_vars /\ Report => OpStory' /\ RunStory'
<1>. SUFFICES ASSUME Tale, [Next]_vars, Report PROVE OpStory' /\ RunStory'
  OBVIOUS
<1>1. /\ run.op \in Ops /\ OnTask /\ run \in Run /\ run.pc = "report" /\ run.mode = "execute"
      /\ status[run.op] = "writing" /\ run.plan.kind = "place" /\ rec[run.op].kind = "place"
  BY ExecuteOnTask DEF Tale, Sound, Shape, RunOK, Resting, Report, Phase, RunPhase, StatusAt, PlanAt, Backward, Unbound
<1>2. UNCHANGED <<live, temps, rec, lineage, marker>> /\ Goes("audit") /\ run'.problem = run.problem
  BY StepsGo DEF Report, disk, records, Tale, Sound, Step
<1>3. lineage[run.op] \notin {"done", "rolled_back"} /\ IsOpen(run.op)
  BY <1>1 DEF Tale, OpStory, Traced, RunStory, TracedAt, IsOpen, Open
<1>4. \A o \in Ops : offered'[o] \in {offered[o], {}}
  BY ToldStory DEF Tale, Sound, Report, Outcome
<1>5. ~run.problem => WrittenUpto(0) /\ \A t \in temps : t[1] # run.op
  BY <1>1, PutBack DEF TempsOf
<1>6. OpStory'
  <2>1. CASE ~run.problem
    <3>1. Journal(run.op, "rolled_back") \/ AppendFails(run.op, "rolled_back")
      BY <2>1 DEF Report, JournalQuietly
    <3>. QED  BY <1>1, <1>2, <1>3, <1>4, <1>5, <2>1, <3>1, AppendedStory DEF Event, Unwritten, Underway, Begun
  <2>2. CASE run.problem
    <3>1. Journal(run.op, "failed") \/ AppendFails(run.op, "failed")
      BY <2>2 DEF Report, JournalQuietly
    <3>. QED  BY <1>1, <1>2, <1>3, <1>4, <2>2, <3>1, AppendedStory DEF Event, Unwritten, Underway, Begun
  <2>. QED  BY <2>1, <2>2
<1>7. RunStory'
  <2>1. ~run.problem => WrittenUpto(0)'
    BY <1>2, <1>5 DEF Goes, WrittenUpto, Holds
  <2>. QED  BY <1>1, <1>2, <1>3, <2>1 DEF Goes, RunStory, PlannedAt, VerifiedAt, WrittenAt, StagedAt, MarkedAt, TracedAt, Verified,
       Recording, Armed, Backward, Writing
<1>. QED  BY <1>6, <1>7

LEMMA BackStory == Tale /\ [Next]_vars /\ (ReportBack \/ RolledBack) => OpStory' /\ RunStory'
<1>. SUFFICES ASSUME Tale, [Next]_vars, ReportBack \/ RolledBack PROVE OpStory' /\ RunStory'
  OBVIOUS
<1>1. /\ run.op \in Ops /\ OnTask /\ run \in Run /\ run.pc \in {"report", "rolled_back"} /\ run.mode = "back"
      /\ status[run.op] \in Underway /\ rec[run.op].kind = "place"
      /\ run.pc = "rolled_back" => ~run.problem
  BY RecoverOnTask DEF Tale, Sound, Shape, RunOK, Resting, ReportBack, RolledBack, Phase, RunPhase, ModeAt, StatusAt, PlanAt,
     Backward, Unbound, Underway
<1>2. UNCHANGED <<live, temps, rec, lineage, marker>> /\ lineage[run.op] # "done"
  BY <1>1 DEF ReportBack, RolledBack, disk, records, Tale, RunStory, TracedAt
<1>3. \A o \in Ops : offered'[o] \in {offered[o], {}}
  BY ToldStory, OwnerTame DEF Tale, Sound, ReportBack, RolledBack, Return, Outcome
<1>4. ~run.problem => WrittenUpto(0) /\ TempsOf(run.op) = {}
  BY <1>1, PutBack DEF Tale, RunStory, WrittenAt, StagedAt
<1>5. OpStory'
  <2>1. CASE UNCHANGED status
    BY <1>1, <1>2, <1>3, <2>1, QuietStory DEF Follows, Offers, TempsOf
  <2>2. CASE ~run.problem
    <3>1. PICK e \in {"recovered", "rolled_back"} : Journal(run.op, e) \/ AppendFails(run.op, e)
      BY <2>2 DEF ReportBack, RolledBack
    <3>2. \A t \in temps' : t[1] # run.op
      BY <1>2, <1>4, <2>2 DEF TempsOf
    <3>. QED  BY <1>1, <1>2, <1>3, <1>4, <2>2, <3>1, <3>2, AppendedStory DEF Event, Unwritten, Underway, Begun
  <2>. QED  BY <1>1, <2>1, <2>2 DEF ReportBack, RolledBack
<1>6. CASE Ends
  BY <1>5, <1>6, EndedStory DEF Ends, Resting
<1>7. CASE ~run.problem /\ (Goes("rolled_back") \/ Goes("audit"))
  <2>1. WrittenUpto(0)' /\ TempsOf(run.op)' = {}
    BY <1>2, <1>4, <1>7 DEF Goes, WrittenUpto, Holds, TempsOf
  <2>. QED  BY <1>1, <1>2, <1>5, <1>7, <2>1 DEF Goes, RunStory, PlannedAt, VerifiedAt, WrittenAt, StagedAt, MarkedAt, TracedAt,
       Verified, Recording, Armed, Backward, Writing
<1>8. Ends \/ (~run.problem /\ (Goes("rolled_back") \/ Goes("audit")))
  BY <1>1, StepsGo DEF ReportBack, RolledBack, Tale, Sound, Step
<1>. QED  BY <1>6, <1>7, <1>8


LEMMA AutoStory == Tale /\ [Next]_vars /\ ReportAuto => OpStory' /\ RunStory'
<1>. SUFFICES ASSUME Tale, [Next]_vars, ReportAuto PROVE OpStory' /\ RunStory'
  OBVIOUS
<1>1. run.op \in Ops /\ OnTask /\ run.pc = "report" /\ run.mode = "auto" /\ status[run.op] = "writing"
  BY RecoverOnTask DEF Tale, Sound, Shape, RunOK, Resting, ReportAuto, Phase, RunPhase, StatusAt, Backward
<1>2. UNCHANGED <<live, temps, rec, status, lineage, marker>>
  BY DEF ReportAuto, disk, journal, records
<1>3. lineage[run.op] # "done"
  BY <1>1 DEF Tale, OpStory, Traced
<1>4. \A o \in Ops : Offers(o)
  <2>1. offered' = offered \/ offered' = [offered EXCEPT ![run.op] = {"back", "leave"}]
    BY DEF ReportAuto
  <2>. QED  BY <1>1, <1>3, <2>1 DEF Offers, Tale, Sound, Shape, OwnerOK
<1>5. OpStory'
  BY <1>1, <1>2, <1>4, QuietStory DEF Follows, TempsOf
<1>6. CASE run.problem
  <2>1. Ends
    BY <1>6, StepsGo DEF ReportAuto, Tale, Sound
  <2>. QED  BY <1>5, <2>1, EndedStory DEF Ends, Resting
<1>7. CASE ~run.problem
  <2>1. Goes("abandon")
    BY <1>7, StepsGo DEF ReportAuto, Tale, Sound, Step
  <2>. QED  BY <1>1, <1>2, <1>5, <1>7, <2>1, PutBack, GivenUpStory DEF TempsOf, Goes
<1>. QED  BY <1>6, <1>7

LEMMA LeaveStory == Tale /\ [Next]_vars /\ (Leave \/ Left) => OpStory' /\ RunStory'
<1>. SUFFICES ASSUME Tale, [Next]_vars, Leave \/ Left PROVE OpStory' /\ RunStory'
  OBVIOUS
<1>1. /\ run.op \in Ops /\ OnTask /\ run.pc \in {"leave", "left"} /\ run.mode = "leave" /\ status[run.op] \in Begun
  BY RecoverOnTask DEF Tale, Sound, Shape, RunOK, Resting, Leave, Left, Phase, RunPhase, ModeAt, StatusAt
<1>2. UNCHANGED <<live, rec, lineage, marker>> /\ temps' \subseteq temps
  BY DEF Leave, Left, Sweep, journal, records
<1>3. \A o \in Ops : offered'[o] \in {offered[o], {}}
  BY ToldStory, OwnerTame DEF Tale, Sound, Leave, Left, Return, Outcome
<1>4. OpStory'
  <2>1. CASE Leave
    BY <1>1, <1>2, <1>3, <2>1, QuietStory DEF Leave, journal, Follows, Offers, TempsOf
  <2>2. CASE Left
    <3>1. Journal(run.op, "left") \/ AppendFails(run.op, "left")
      BY <2>2 DEF Left
    <3>2. \A t \in temps' : t[1] # run.op
      BY <2>2 DEF Left, Sweep, TempsOf
    <3>. QED  BY <1>1, <1>2, <1>3, <3>1, <3>2, AppendedStory DEF Event, Unwritten, Underway, Begun
  <2>. QED  BY <2>1, <2>2
<1>5. CASE Ends
  BY <1>4, <1>5, EndedStory DEF Ends, Resting
<1>6. CASE Goes("left")
  BY <1>1, <1>4, <1>6 DEF Goes, RunStory, PlannedAt, VerifiedAt, WrittenAt, StagedAt, MarkedAt, TracedAt,
     Verified, Recording, Armed, Backward, Writing
<1>7. CASE Goes("unmark") /\ Journal(run.op, "left")
  <2>1. status'[run.op] = "left"
    BY <1>1, <1>7, StatusTame DEF Tale, Sound
  <2>. QED  BY <1>1, <1>4, <1>7, <2>1 DEF Goes, RunStory, PlannedAt, VerifiedAt, WrittenAt, StagedAt, MarkedAt, TracedAt,
       IsOpen, Open, Verified, Recording, Armed, Backward, Writing
<1>. QED  BY <1>5, <1>6, <1>7, StepsGo DEF Leave, Left, Tale, Sound, Step

-----------------------------------------------------------------------------
\* A run begins.

LEMMA BeginStory ==
  ASSUME Tale, [Next]_vars, NEW o \in Ops, NEW kind, NEW ts, NEW ord, NEW step \in {"preserve", "copy"},
         Begin(o, kind, ts, ord, step)
  PROVE  OpStory' /\ RunStory'
<1>. USE DEF Tale, OpStory
<1>. DEFINE plan == NewPlan(kind, ts, ord)
<1>1. /\ status[o] = "none" /\ run.pc = "idle" /\ run.op = 0 /\ run'.op \in {0, o}
      /\ \A p \in Ops \ {o} : Stays(p)
      /\ rec \in [Ops -> Plan] /\ status \in [Ops -> Event] /\ lineage \in [Ops -> {"none", "done", "rolled_back"}]
  <2>1. status[o] = "none" /\ run'.op \in {0, o} /\ \A p \in Ops \ {o} : Stays(p)
    BY BeginTakes
  <2>2. run.pc = "idle" /\ run.op = 0
    BY DEF Begin, Sound, Phase, RunPhase, PlanAt, Resting
  <2>. QED  BY <2>1, <2>2 DEF Sound, Shape, JournalOK, RecordsOK
<1>2. /\ status'[o] = "preparing" /\ rec'[o] = plan
      /\ UNCHANGED <<live, temps, marker, lineage, offered>>
  BY <1>1 DEF Begin, With, disk, records, owner
<1>3. plan.pre = Empty /\ plan.post = Empty
  BY DEF NewPlan, NoPlan
<1>4. ~Written(o) /\ TempsOf(o) = {} /\ lineage[o] = "none" /\ offered[o] = {}
  BY <1>1 DEF Known, Lasting, Written, Holds, Staged, Traced, Begun, Unwritten, Sound, Phase, JournalPhase
<1>. HIDE DEF plan
<1>5. OneActive'
  BY NextOneActive
<1>6. Plans'
  <2>1. ASSUME NEW p \in Ops, p # o PROVE PlanStory(p, rec[p])'
    BY <1>1, <2>1, PlanStays DEF Stays
  <2>2. PlanStory(o, rec[o])'
    BY <1>2, <1>3 DEF PlanStory, Inherited, Dated, Empty, Absent, Op
  <2>. QED  BY <2>1, <2>2 DEF Plans
<1>7. Known(live)'
  <2>1. ASSUME NEW p \in Ops, Written(p) PROVE Lasting(p)' /\ UNCHANGED rec[p]
    <3>1. p # o /\ Lasting(p)
      BY <1>4, <2>1 DEF Known, Written, Holds
    <3>. QED  BY <1>1, <3>1 DEF Stays, Lasting
  <2>. QED  BY <1>2, <2>1, KnownStays
<1>8. Wholes'
  <2>1. \A d \in Ops : Done(d)' => Done(d) /\ Stays(d)
    BY <1>1, <1>2 DEF Done, Stays
  <2>2. \A p \in Ops : Active(p)' /\ status'[p] \in Underway => Active(p) /\ status[p] \in Underway /\ Stays(p)
    BY <1>1, <1>2 DEF Active, IsOpen, Stays, Underway, Begun, Ops
  <2>3. (\A d \in Ops : Done(d) => Behind(d, live))'
    BY <1>2, <2>1 DEF Wholes, Behind, Stays
  <2>4. ASSUME NEW p \in Ops, Active(p)', status'[p] \in Underway PROVE Ahead(rec[p])'
    <3>1. Ahead(rec[p]) /\ rec'[p] = rec[p]
      BY <2>2, <2>4 DEF Wholes, Stays
    <3>. QED  BY <2>1, <3>1 DEF Ahead, Behind, Stays
  <2>. QED  BY <1>2, <2>3, <2>4, LiveStaysDated DEF Wholes
<1>9. Staged' /\ Marked' /\ Traced'
  <2>1. ASSUME NEW p \in Ops, p # o PROVE UNCHANGED <<status[p], lineage[p], rec[p]>>
    BY <1>1, <2>1 DEF Stays
  <2>2. Staged'
    BY <1>2, <1>4, <2>1 DEF Staged, TempsOf
  <2>3. Marked'
    BY <1>2, <1>4, <2>1 DEF Marked, IsOpen, Written, Holds
  <2>4. Traced'
    BY <1>1, <1>2, <1>4, <2>1 DEF Traced, Done, Underway, Begun
  <2>. QED  BY <2>2, <2>3, <2>4
<1>10. RunStory'
  <2>1. CASE UNCHANGED run
    BY <1>1, <1>2, <2>1 DEF RunStory, PlannedAt, VerifiedAt, WrittenAt, StagedAt, MarkedAt, TracedAt,
       Verified, Recording, Armed, Backward, Writing
  <2>2. CASE run'.pc = step /\ run'.op = o /\ run'.mode = "execute"
    BY <1>2, <1>4, <2>2 DEF RunStory, PlannedAt, VerifiedAt, WrittenAt, StagedAt, MarkedAt, TracedAt,
       Verified, Recording, Armed, Backward, Writing
  <2>. QED  BY <2>1, <2>2 DEF Begin, NoRun
<1>. QED  BY <1>5, <1>6, <1>7, <1>8, <1>9, <1>10

LEMMA BeginsStory == Tale /\ [Next]_vars /\ Begins => OpStory' /\ RunStory'
BY BeginStory DEF Begins, Start, KeepCopy

LEMMA ListingStory == Tale /\ [Next]_vars /\ (StartListing \/ EndListing) => OpStory' /\ RunStory'
<1>. SUFFICES ASSUME Tale, [Next]_vars, StartListing \/ EndListing PROVE OpStory' /\ RunStory'
  OBVIOUS
<1>1. OnTask /\ run.pc # "close" /\ UNCHANGED <<live, temps, rec, status, lineage>>
  BY RecoverOnTask DEF Tale, StartListing, EndListing, disk, journal, records
<1>2. \A o \in Ops : Offers(o) /\ (o \in marker /\ Needs(o) => o \in marker')
  BY <1>1 DEF StartListing, EndListing, StaleMarkers, Needs, Offers, records, owner
<1>3. OpStory'
  BY <1>1, <1>2, QuietStory DEF Follows, TempsOf
<1>4. run'.op = 0 /\ run'.mode = "none" /\ run'.pc \in {"list", "idle"}
  <2>1. CASE StartListing
    BY <2>1 DEF StartListing, NoRun
  <2>2. CASE EndListing
    BY <2>2 DEF EndListing, NoRun
  <2>. QED  BY <2>1, <2>2
<1>. QED  BY <1>3, <1>4, EndedStory DEF Resting


\* A run of recovery begins with an open op; what it puts back it has not begun yet.
LEMMA HeldInTargets ==
  ASSUME Tale, NEW o \in Ops, status[o] # "none"
  PROVE  /\ \A s \in Slots, f \in Files : Holds(o, s, f) => \E j \in 1..Len(rec[o].targets) : rec[o].targets[j] = s
         /\ Len(rec[o].targets) \in Nat /\ Len(rec[o].targets) > 0
<1>1. rec[o] \in Plan /\ rec[o].targets # <<>>
  BY DEF Tale, Sound, Shape, JournalOK
<1>2. \A s \in Slots, f \in Files : Holds(o, s, f) => s \in Targets(rec[o])
  BY DEF Tale, Vouched, Placed, Holds
<1>3. DOMAIN rec[o].targets = 1..Len(rec[o].targets) /\ Len(rec[o].targets) \in Nat /\ Len(rec[o].targets) > 0
  BY <1>1 DEF Plan
<1>. QED  BY <1>2, <1>3 DEF Targets, Members

LEMMA RunOnStory ==
  ASSUME Tale, NEW o \in Ops, status[o] # "none", NEW mode, NEW step, run' = RunOn(o, mode, step),
         UNCHANGED <<live, rec, lineage>>,
         \/ step = "unmark" /\ mode = "auto" /\ ~Written(o)
         \/ step = "keep" /\ mode = "auto"
         \/ step = "keep" /\ mode = "back" /\ lineage[o] # "done"
         \/ step = "finalize" /\ mode = "finish" /\ IsPost(o) /\ lineage[o] # "rolled_back"
         \/ step = "rederive" /\ mode = "forward" /\ o \in marker' /\ lineage[o] # "rolled_back"
         \/ step = "leave" /\ mode = "leave"
  PROVE  RunStory'
<1>1. /\ run'.pc = step /\ run'.op = o /\ run'.mode = mode /\ run'.plan = rec[o]
      /\ run'.at = Len(rec[o].targets) /\ run'.upto = Len(rec[o].targets)
  BY RunOnGoes
<1>2. PlannedAt' /\ MarkedAt' /\ TracedAt'
  BY <1>1 DEF PlannedAt, MarkedAt, TracedAt, Writing
<1>3. VerifiedAt'
  <2>1. IsPost(o) => Behind(o, live)
    BY DEF IsPost, Behind
  <2>. QED  BY <1>1, <2>1 DEF VerifiedAt, Verified, Recording, Behind
<1>4. StagedAt'
  BY <1>1, HeldInTargets DEF StagedAt, Armed, Backward
<1>5. WrittenAt'
  <2>1. step = "keep" => (WrittenUpto(run.at))'
    BY <1>1, HeldInTargets DEF WrittenUpto, Holds
  <2>2. step = "unmark" => WrittenUpto(0)'
    BY <1>1 DEF WrittenUpto, Holds, Written
  <2>. QED  BY <1>1, <2>1, <2>2 DEF WrittenAt, Armed, Backward
<1>. QED  BY <1>2, <1>3, <1>4, <1>5 DEF RunStory

\* A file of an op that can be written on is the op's own, or it has written none.
LEMMA TornIsWritten ==
  ASSUME Tale, NEW o \in Ops, status[o] = "writing", SlotState(o) \in {"post", "torn"}
  PROVE  Written(o)
<1>1. rec[o] \in Plan /\ settled[o] = {} /\ PlanStory(o, rec[o])
  BY DEF Tale, Sound, Shape, JournalOK, Phase, JournalPhase, OpStory, Plans
<1>2. PICK s \in Targets(rec[o]) : ~(Kinds(o, s) \subseteq {"pre"})
  BY DEF SlotState
<1>3. "other" \notin Kinds(o, s)
  BY <1>2 DEF SlotState
<1>4. PICK f \in Files : Says(o, s, f) /\ Kind(o, s, f) # "pre" /\ Kind(o, s, f) # "other"
  BY <1>2, <1>3 DEF Kinds
<1>5. live[s][f] # rec[o].pre[s][f] /\ live[s][f] = rec[o].post[s][f]
  BY <1>1, <1>4 DEF Kind
<1>6. s \in Slots
  BY <1>1, TargetsType
<1>. QED  BY <1>1, <1>5, <1>6 DEF PlanStory, Written, Holds

LEMMA ListStory == Tale /\ [Next]_vars /\ List => OpStory' /\ RunStory'
<1>. SUFFICES ASSUME Tale, [Next]_vars, List PROVE OpStory' /\ RunStory'
  OBVIOUS
<1>0. PICK o \in Ops : o = run.next
  BY DEF List
<1>1. /\ run.pc = "list" /\ o \in Ops /\ Listed(o) /\ run \in Run
      /\ status \in [Ops -> Event] /\ offered \in [Ops -> SUBSET Choice]
  BY <1>0 DEF List, Tale, Sound, Shape, RunOK, JournalOK, OwnerOK
<1>2. UNCHANGED <<live, temps, rec, lineage, marker>>
  BY DEF List, disk, records
<1>3. Follows
  BY ListTakes DEF Tale, Follows
<1>4. CASE /\ run' = ListNext /\ UNCHANGED status
           /\ \/ UNCHANGED owner
              \/ offered' = [offered EXCEPT ![o] = Choices(o)] /\ status[o] \in Begun
  <2>1. /\ "back" \in Choices(o) /\ status[o] \in Begun => lineage[o] # "done"
        /\ "forward" \in Choices(o) /\ status[o] \in Begun => lineage[o] # "rolled_back" /\ o \in marker
    <3>1. ASSUME "back" \in Choices(o), status[o] \in Begun PROVE lineage[o] # "done"
      <4>1. status[o] \in {"failed", "writing"}
        BY <3>1 DEF Choices, Begun
      <4>. QED  BY <1>1, <4>1 DEF Tale, OpStory, Traced
    <3>2. ASSUME "forward" \in Choices(o), status[o] \in Begun PROVE lineage[o] # "rolled_back" /\ o \in marker
      <4>1. status[o] = "validated" \/ (status[o] = "writing" /\ SlotState(o) \in {"post", "torn"})
        BY <3>2 DEF Choices, Begun, SlotState
      <4>2. IsOpen(o)
        BY <4>1 DEF IsOpen, Open
      <4>3. CASE status[o] = "validated"
        BY <1>1, <4>2, <4>3 DEF Tale, OpStory, Marked, Traced
      <4>4. CASE status[o] = "writing" /\ SlotState(o) \in {"post", "torn"}
        <5>1. Written(o)
          BY <1>1, <4>4, TornIsWritten
        <5>2. Lasting(o)
          BY <1>1, <5>1 DEF Tale, OpStory, Known, Written, Holds
        <5>. QED  BY <1>1, <4>2, <5>1, <5>2 DEF Tale, OpStory, Marked, Lasting
      <4>. QED  BY <4>1, <4>3, <4>4
    <3>. QED  BY <3>1, <3>2
  <2>2. \A p \in Ops : Offers(p)
    BY <1>1, <1>2, <1>4, <2>1 DEF Offers, owner
  <2>3. OpStory'
    BY <1>2, <1>3, <1>4, <2>2, QuietStory DEF TempsOf
  <2>4. run'.pc = "list" /\ run'.op = run.op /\ run'.mode = run.mode
    BY <1>1, <1>4 DEF ListNext, Run
  <2>. QED  BY <1>1, <1>2, <2>3, <2>4 DEF Tale, RunStory, PlannedAt, VerifiedAt, WrittenAt, StagedAt, MarkedAt, TracedAt,
       Verified, Recording, Armed, Backward, Writing
<1>5. CASE status[o] = "preparing" /\ JournalQuietly(o, "abandoned") /\ run' = RunOn(o, "auto", "unmark") /\ UNCHANGED owner
  <2>1. ~Written(o) /\ TempsOf(o) = {} /\ lineage[o] = "none" /\ IsOpen(o)
    BY <1>1, <1>5 DEF Tale, OpStory, Known, Lasting, Written, Holds, Staged, Traced, Begun, Unwritten, IsOpen, Open
  <2>2. \A p \in Ops : TempsOf(p)' \subseteq TempsOf(p) /\ Offers(p) /\ offered'[p] \in {offered[p], {}}
    BY <1>1, <1>2, <1>5 DEF TempsOf, Offers, owner
  <2>3. OpStory'
    <3>1. CASE status' = status
      BY <1>2, <1>3, <2>2, <3>1, QuietStory
    <3>2. CASE status' = With(o, "abandoned")
      <4>1. status'[o] = "abandoned" /\ \A p \in Ops \ {o} : status'[p] = status[p]
        BY <1>1, <3>2 DEF With
      <4>2. TempsOf(o)' = {}
        BY <2>1, <2>2
      <4>. QED  BY <1>1, <1>2, <1>3, <2>1, <2>2, <4>1, <4>2, AppendStory DEF Event, Unwritten, Underway, Begun
    <3>. QED  BY <1>5, <3>1, <3>2 DEF JournalQuietly, Journal, AppendFails
  <2>. QED  BY <1>1, <1>2, <1>5, <2>1, <2>3, RunOnStory
<1>6. CASE /\ UNCHANGED <<status, owner>>
           /\ \/ status[o] = "validated" /\ IsPost(o) /\ run' = RunOn(o, "finish", "finalize")
              \/ status[o] = "writing" /\ run' = RunOn(o, "auto", "keep")
  <2>1. OpStory'
    BY <1>1, <1>2, <1>3, <1>6, QuietStory DEF TempsOf, Offers, owner
  <2>2. status[o] = "validated" => lineage[o] # "rolled_back"
    BY <1>1 DEF Tale, OpStory, Traced
  <2>. QED  BY <1>1, <1>2, <1>6, <2>1, <2>2, RunOnStory
<1>. QED  BY <1>1, <1>4, <1>5, <1>6 DEF Listed, Begun

LEMMA ResolveStory ==
  ASSUME Tale, [Next]_vars, NEW o \in Ops, NEW choice \in Choice, Resolve(o, choice)
  PROVE  OpStory' /\ RunStory'
<1>1. run.pc = "idle" /\ choice \in offered[o] /\ UNCHANGED <<live, temps, rec, status, lineage, marker, offered>>
  BY DEF Resolve, disk, journal, records
<1>2. OpStory'
  <2>1. Follows
    BY ResolveTakes DEF Tale, Follows
  <2>. QED  BY <1>1, <2>1, QuietStory DEF TempsOf, Offers
<1>3. CASE UNCHANGED run
  BY <1>1, <1>2, <1>3 DEF Tale, RunStory, PlannedAt, VerifiedAt, WrittenAt, StagedAt, MarkedAt, TracedAt,
     Verified, Recording, Armed, Backward, Writing
<1>4. CASE ~Refused(o, choice)
  <2>1. status[o] \in Begun /\ IsOpen(o)
    BY <1>1, <1>4 DEF Refused, IsOpen, Open, Begun, Unwritten, Tale, Sound, Phase, JournalPhase
  <2>2. /\ "back" \in offered[o] => lineage[o] # "done"
        /\ "forward" \in offered[o] => lineage[o] # "rolled_back" /\ o \in marker
    BY <1>1, <2>1 DEF Tale, OpStory, Traced, Marked, Underway
  <2>3. \/ choice = "leave" /\ run' = RunOn(o, "leave", "leave")
        \/ choice = "forward" /\ run' = RunOn(o, "forward", "rederive")
        \/ choice = "back" /\ run' = RunOn(o, "back", "keep")
    BY <1>4 DEF Resolve, Choice
  <2>. QED  BY <1>1, <1>2, <2>1, <2>2, <2>3, RunOnStory DEF Begun
<1>. QED  BY <1>3, <1>4 DEF Resolve

LEMMA ForwardStory == Tale /\ [Next]_vars /\ (Rederive \/ Replan) => OpStory' /\ RunStory'
<1>. SUFFICES ASSUME Tale, [Next]_vars, Rederive \/ Replan PROVE OpStory' /\ RunStory'
  OBVIOUS
<1>1. /\ run.op \in Ops /\ OnTask /\ run \in Run /\ run.mode = "forward" /\ run.op \in marker
      /\ run.pc \in {"rederive", "replan"}
  BY RecoverOnTask DEF Tale, Sound, Shape, RunOK, Resting, Rederive, Replan, Phase, RunPhase, ModeAt, RunStory, MarkedAt
<1>2. UNCHANGED <<live, rec, status, lineage, marker>> /\ temps' \subseteq temps
  BY DEF Rederive, Replan, Sweep, disk, journal, records
<1>3. \A o \in Ops : offered'[o] \in {offered[o], {}}
  BY ToldStory, OwnerTame DEF Tale, Sound, Rederive, Replan, Return, Outcome
<1>4. OpStory'
  BY <1>1, <1>2, <1>3, QuietStory DEF Follows, Offers, TempsOf
<1>5. CASE Ends
  BY <1>4, <1>5, EndedStory DEF Ends, Resting
<1>6. CASE run'.pc \in {"replan", "stage", "validate"} /\ run'.op = run.op /\ run'.mode = run.mode
  BY <1>1, <1>2, <1>4, <1>6 DEF Tale, RunStory, PlannedAt, VerifiedAt, WrittenAt, StagedAt, MarkedAt, TracedAt,
     Verified, Recording, Armed, Backward, Writing
<1>7. CASE Rederive
  <2>1. CASE run' = [run EXCEPT !.pc = "replan", !.at = 1]
    BY <1>1, <1>6, <2>1 DEF Run
  <2>2. CASE Return("put_back_instead")
    BY <1>5, <2>2, StepsGo DEF Tale, Sound
  <2>. QED  BY <1>7, <2>1, <2>2 DEF Rederive
<1>8. CASE Replan
  <2>1. CASE run' = NextTarget
    <3>1. run.pc \in AtTarget \cup {"validate"}
      BY <1>8 DEF Replan, AtTarget
    <3>2. Goes("validate") \/ Goes("replan")
      BY <1>1, <2>1, <3>1, WritingGoes DEF Tale
    <3>. QED  BY <1>6, <3>2 DEF Goes
  <2>2. CASE run' # NextTarget
    <3>1. run' = [[[run EXCEPT !.pc = "stage"] EXCEPT !.todo = {f \in Files : live[Slot][f] # Post(f)}]
                    EXCEPT !.expect = live[Slot]]
      BY <1>8, <2>2 DEF Replan
    <3>. HIDE DEF Slot, Post
    <3>2. run'.pc = "stage" /\ run'.op = run.op /\ run'.mode = run.mode
      BY <1>1, <3>1 DEF Run
    <3>. QED  BY <1>6, <3>2
  <2>. QED  BY <2>1, <2>2
<1>. QED  BY <1>7, <1>8


-----------------------------------------------------------------------------
\* The game, a sync and crashes.

LEMMA OutsideStory ==
  ASSUME Tale, [Next]_vars, NEW s \in Slots, NEW f \in Files, OutsideWrite(s, f)
  PROVE  OpStory' /\ RunStory'
<1>1. /\ outside \in Nat /\ outside' = outside + 1
      /\ live \in Folder /\ live' = [live EXCEPT ![s][f] = Game(outside + 1)]
      /\ UNCHANGED <<temps, rec, status, lineage, marker, offered, run>>
      /\ rec \in [Ops -> Plan] /\ run.plan \in Plan
  BY BoundsAreNat DEF OutsideWrite, journal, records, owner, Tale, Sound, Shape, OuterOK, DiskOK, JournalOK, RunOK, Run
<1>2. \A t \in Slots, g \in Files : \/ live'[t][g] = live[t][g]
                                    \/ live'[t][g] = Game(outside + 1)
  BY <1>1 DEF Folder
<1>3. \A o, t, g : t \in Slots /\ g \in Files /\ live'[t][g] = Op(o) => live[t][g] = Op(o)
  BY <1>2 DEF Game, Op
<1>4. ASSUME NEW o \in Ops, Dated(rec[o].pre), Behind(o, live) PROVE Behind(o, live)'
  <2>1. ASSUME NEW t \in Targets(rec[o]), NEW g \in Files, live'[t][g] = rec[o].pre[t][g]
        PROVE  rec[o].post[t][g] = live'[t][g]
    <3>1. t \in Slots
      BY <1>1, TargetsType
    <3>2. rec[o].pre[t][g] # Game(outside + 1)
      BY <1>1, <1>4, <3>1 DEF Dated, Game
    <3>. QED  BY <1>2, <1>4, <2>1, <3>1, <3>2 DEF Behind
  <2>. QED  BY <1>1, <2>1 DEF Behind
<1>5. \A o \in Ops : PlanStory(o, rec[o])
  BY DEF Tale, OpStory, Plans
<1>6. OpStory'
  <2>1. OneActive' /\ Plans'
    BY <1>1, NextOneActive, PlansStay DEF Tale, OpStory
  <2>2. Known(live)'
    BY <1>1, <1>3 DEF Tale, OpStory, Known, Lasting
  <2>3. Wholes'
    <3>1. Dated(live)'
      BY <1>1, <1>2 DEF Tale, OpStory, Wholes, Dated, Folder, Content, Game
    <3>2. \A o \in Ops : Done(o)' = Done(o) /\ Active(o)' = Active(o)
      BY <1>1 DEF Done, Active, IsOpen
    <3>3. (\A o \in Ops : Done(o) => Behind(o, live))'
      BY <1>4, <1>5, <3>2 DEF Tale, OpStory, Wholes, PlanStory
    <3>4. (\A o \in Ops : Active(o) /\ status[o] \in Underway => Ahead(rec[o]))'
      BY <1>1, <3>2 DEF Tale, OpStory, Wholes, Ahead, Behind
    <3>. QED  BY <3>1, <3>3, <3>4 DEF Wholes
  <2>4. Staged' /\ Traced'
    BY <1>1 DEF Tale, OpStory, Staged, Traced, TempsOf, Done
  <2>5. Marked'
    BY <1>1, <1>3 DEF Tale, OpStory, Marked, IsOpen, Written, Holds
  <2>. QED  BY <2>1, <2>2, <2>3, <2>4, <2>5 DEF OpStory
<1>7. PlannedAt'
  <2>1. CASE run.pc = "intend"
    <3>1. PlanStory(run.op, run.plan) /\ Ahead(run.plan)
      BY <2>1 DEF Tale, RunStory, PlannedAt
    <3>2. Ahead(run.plan)'
      BY <1>1, <3>1 DEF Ahead, Done, Behind
    <3>3. Inherited(run.op, run.plan.pre)'
      BY <1>1, <3>1 DEF PlanStory, Inherited, Lasting, Active, IsOpen
    <3>4. Dated(run.plan.pre)'
      <4>1. run.plan.pre \in [Slots -> [Files -> Content]]
        BY <1>1 DEF Plan, Folder
      <4>2. \A t \in Slots, g \in Files : run.plan.pre[t][g].n \in Nat
        BY <4>1 DEF Content
      <4>. QED  BY <1>1, <3>1, <4>2 DEF PlanStory, Dated
    <3>. QED  BY <1>1, <3>1, <3>2, <3>3, <3>4 DEF PlannedAt, PlanStory
  <2>. QED  BY <1>1, <2>1 DEF PlannedAt
<1>8. VerifiedAt'
  <2>1. run.pc \in Verified => run.op \in Ops
    BY DEF Verified, Recording, Tale, Sound, Shape, RunOK, Resting
  <2>. QED  BY <1>1, <1>4, <1>5, <2>1 DEF Tale, RunStory, VerifiedAt, PlanStory
<1>9. WrittenAt'
  <2>1. \A n : WrittenUpto(n) => WrittenUpto(n)'
    BY <1>1, <1>3 DEF WrittenUpto, Holds
  <2>. QED  BY <1>1, <2>1 DEF Tale, RunStory, WrittenAt, IsOpen
<1>10. StagedAt' /\ MarkedAt' /\ TracedAt'
  BY <1>1 DEF Tale, RunStory, StagedAt, MarkedAt, TracedAt, TempsOf, IsOpen
<1>. QED  BY <1>6, <1>7, <1>8, <1>9, <1>10 DEF RunStory

LEMMA OuterStory == Tale /\ [Next]_vars /\ (Outer \/ UNCHANGED vars) => OpStory' /\ RunStory'
<1>. SUFFICES ASSUME Tale, [Next]_vars, Outer \/ UNCHANGED vars PROVE OpStory' /\ RunStory'
  OBVIOUS
<1>1. CASE GameStarts \/ GameStops \/ UNCHANGED vars
  <2>1. UNCHANGED <<live, temps, rec, status, lineage, marker, offered, run, outside>>
    BY <1>1 DEF GameStarts, GameStops, vars, disk, journal, records, owner, outer
  <2>2. OpStory'
    BY <2>1, QuietStory DEF Follows, OnTask, Offers, TempsOf
  <2>3. PlannedAt'
    BY <2>1 DEF Tale, RunStory, PlannedAt, PlanStory, Inherited, Dated, Lasting, Active, IsOpen, Ahead, Behind, Done
  <2>4. VerifiedAt' /\ WrittenAt'
    BY <2>1 DEF Tale, RunStory, VerifiedAt, WrittenAt, Behind, WrittenUpto, Holds, IsOpen
  <2>5. StagedAt' /\ MarkedAt' /\ TracedAt'
    BY <2>1 DEF Tale, RunStory, StagedAt, MarkedAt, TracedAt, TempsOf, IsOpen
  <2>. QED  BY <2>2, <2>3, <2>4, <2>5 DEF RunStory
<1>2. CASE Crash
  <2>1. /\ UNCHANGED <<live, temps, rec, status, lineage, marker>>
        /\ \A o \in Ops : offered'[o] = {}
        /\ Ends
    BY <1>2, StepsGo DEF Crash, disk, journal, records, Tale, Sound
  <2>2. OpStory'
    BY <2>1, QuietStory DEF Follows, OnTask, Offers, Ends, TempsOf
  <2>. QED  BY <2>1, <2>2, EndedStory DEF Ends, Resting
<1>. QED  BY <1>1, <1>2, OutsideStory DEF Outer

LEMMA InitStory == Init => OpStory /\ RunStory
<1>. SUFFICES ASSUME Init PROVE OpStory /\ RunStory
  OBVIOUS
<1>1. /\ \A o \in Ops : status[o] = "none" /\ rec[o] = NoPlan /\ lineage[o] = "none" /\ offered[o] = {}
      /\ temps = {} /\ outside = 0 /\ run = NoRun
  BY DEF Init
<1>2. \A s \in Slots, f \in Files : live[s][f] \in {First, Absent}
  BY DEF Init
<1>3. \A s \in Slots, f \in Files : NoPlan.pre[s][f] = Absent /\ NoPlan.post[s][f] = Absent
  BY DEF NoPlan, Empty
<1>4. NoPlan.kind = "none" /\ run.pc = "idle" /\ run.op = 0 /\ run.mode = "none"
  BY <1>1 DEF NoPlan, NoRun
<1>5. \A o \in Ops : ~Active(o) /\ ~Done(o) /\ ~IsOpen(o)
  BY <1>1, <1>4 DEF Active, Done, IsOpen, Open
<1>6. Plans
  BY <1>1, <1>3 DEF Plans, PlanStory, Inherited, Dated, Absent, Op
<1>7. Known(live) /\ Dated(live)
  BY <1>2 DEF Known, Dated, Absent, First, Op
<1>8. Staged /\ Marked /\ Traced
  BY <1>1, <1>5 DEF Staged, Marked, Traced, TempsOf, Underway, Begun
<1>9. RunStory
  BY <1>4 DEF RunStory, PlannedAt, VerifiedAt, WrittenAt, StagedAt, MarkedAt, TracedAt, Verified, Armed, Backward,
     Recording, Writing
<1>. QED  BY <1>5, <1>6, <1>7, <1>8, <1>9 DEF OpStory, OneActive, Wholes

LEMMA NextStory == Tale /\ [Next]_vars => OpStory' /\ RunStory'
<1>. SUFFICES ASSUME Tale, [Next]_vars PROVE OpStory' /\ RunStory'
  OBVIOUS
<1>1. CASE Execute
  <2>1. CASE \/ Begins \/ Preserve \/ Snapshot \/ Copy \/ Copied \/ (\E same \in SameSets : Prepare(same))
             \/ Intend \/ Mark \/ Probe \/ Abandon \/ Unmark
    BY <2>1, BeginsStory, EarlyStory, PrepareStory, IntendStory, ArmedStory, AbandonStory, UnmarkStory
  <2>2. CASE \/ Stage \/ Check \/ Validate \/ (\E f \in Files : Rename(f))
             \/ (Rollback /\ UNCHANGED <<journal, records, owner, outer, crashes>>)
    BY <2>2, StageStory, RenameStory, RollbackStory
  <2>3. CASE Confirm \/ Finalize \/ RecordOplog \/ RecordLineage \/ Close \/ Report \/ Audit \/ Trace
    BY <2>3, ConfirmStory, RecordStory, BoundStory, CloseStory, ReportStory, AuditStory
  <2>. QED  BY <1>1, <2>1, <2>2, <2>3 DEF Execute, Begins
<1>2. CASE Recover
  BY <1>2, ListingStory, ListStory, AutoStory, ResolveStory, ForwardStory, ConfirmStory, BackStory, LeaveStory
     DEF Recover
<1>. QED  BY <1>1, <1>2, OuterStory DEF Next

-----------------------------------------------------------------------------
\* At every moment the journal, the markers, the lineage and the live files tell one
\* story of every operation, and the run at hand fits in it.
THEOREM StoryHolds == Spec => [](OpStory /\ RunStory)
<1>1. Init => OpStory /\ RunStory
  BY InitStory
<1>2. Shape /\ Phase /\ Vouched /\ (OpStory /\ RunStory) /\ [Next]_vars => (OpStory /\ RunStory)'
  BY NextStory DEF Tale, Sound
<1>. QED  BY <1>1, <1>2, ShapeHolds, PhaseHolds, VouchedHolds, PTL DEF Spec


LEMMA StoryKeepsWhole == OpStory => ClosedIsWhole
<1>. SUFFICES ASSUME OpStory, NEW o \in Ops
              PROVE  /\ status[o] \in {"rolled_back", "abandoned"} => ~Written(o)
                     /\ status[o] = "done" =>
                          \A s \in Targets(rec[o]), f \in Files :
                            rec[o].kind = "place" /\ live[s][f] = rec[o].pre[s][f]
                              => rec[o].post[s][f] = live[s][f]
  BY DEF ClosedIsWhole
<1>1. status[o] \in {"rolled_back", "abandoned"} => ~Written(o)
  BY DEF OpStory, Known, Lasting, Written, Holds
<1>2. Done(o) => Behind(o, live)
  BY DEF OpStory, Wholes
<1>. QED  BY <1>1, <1>2 DEF Done, Behind

\* No step costs the owner a save, and an operation that is over left no slot half
\* written (execute.run_place, recovery.resolve): closed as put back, none of its bytes
\* are live; closed as done, nothing it replaced is.
THEOREM AllBytesKept == Spec => []BytesKept
BY NothingIsLost, StoryHolds, StoryKeepsWhole, PTL DEF BytesKept

LEMMA StoryAgrees == Tale => RecordsAgree
<1>. SUFFICES ASSUME Tale PROVE RecordsAgree
  OBVIOUS
<1>1. OneOpenMove
  BY DEF Tale, OpStory, OneActive, Active, OneOpenMove, OpenMoves
<1>2. MarkerCovers
  BY DEF Tale, OpStory, Marked, MarkerCovers
<1>3. LineageAgrees
  <2>1. \A o \in Ops : Written(o) => lineage[o] # "rolled_back"
    BY DEF Tale, OpStory, Known, Lasting, Written, Holds
  <2>. QED  BY <2>1 DEF Tale, OpStory, Traced, Done, LineageAgrees
<1>4. WriteAhead
  <2>1. ASSUME NEW o \in Ops, NEW s \in Slots, NEW f \in Files, Holds(o, s, f)
        PROVE  /\ status[o] \notin {"none", "preparing"}
               /\ s \in Targets(rec[o]) /\ rec[o].post[s][f] = Op(o)
    <3>1. Lasting(o) /\ rec[o].post[s][f] = Op(o)
      BY <2>1 DEF Tale, OpStory, Known, Holds
    <3>2. s \in Targets(rec[o])
      BY <2>1 DEF Tale, Vouched, Placed, Holds
    <3>. QED  BY <3>1, <3>2 DEF Lasting, Unwritten
  <2>2. \A o \in Ops : TempsOf(o) # {} => IsOpen(o)
    BY DEF Tale, OpStory, Staged, Begun, IsOpen, Open
  <2>. QED  BY <2>1, <2>2 DEF WriteAhead
<1>. QED  BY <1>1, <1>2, <1>3, <1>4 DEF RecordsAgree

\* Journal, marker and lineage agree on every operation at every step, through crashes,
\* appends that fail half way and recovery: one open move, its marker, its lineage, and
\* the write-ahead record before the first live byte.
THEOREM AllRecordsAgree == Spec => []RecordsAgree
<1>1. Shape /\ Phase /\ Vouched /\ OpStory /\ RunStory => RecordsAgree
  BY StoryAgrees DEF Tale, Sound
<1>. QED  BY <1>1, ShapeHolds, PhaseHolds, VouchedHolds, StoryHolds, PTL

-----------------------------------------------------------------------------
\* Who tells the owner of an end, and what is known then.

Ending(o) ==
  \/ told'[o] \in {told[o], "refused", "failed", "put_back_instead"}
  \/ /\ told'[o] = "done" /\ o = run.op
     /\ run.pc \in {"confirm", "oplog", "lineage", "close"} /\ UNCHANGED live
  \/ /\ told'[o] = "rolled_back" /\ o = run.op
     /\ \/ run.pc = "report" /\ ~run.problem /\ UNCHANGED live
        \/ run.pc = "rolled_back" /\ UNCHANGED live
        \/ status'[o] = "left"

LEMMA TellingEnds ==
  ASSUME Sound, NEW what, Tell(what), run.op \in Ops, NEW o \in Ops
  PROVE  told'[o] = told[o] \/ (o = run.op /\ told'[o] = what)
BY DEF Sound, Shape, OwnerOK, Tell

LEMMA OwnerStays == UNCHANGED owner => \A o \in Ops : Ending(o)
BY DEF owner, Ending

LEMMA EndingsTold ==
  ASSUME Sound, NEW what \in Outcome, Tell(what), run.op \in Ops,
         \/ what \in {"refused", "failed", "put_back_instead"}
         \/ /\ what = "done" /\ UNCHANGED live
            /\ run.pc \in {"confirm", "oplog", "lineage", "close"}
         \/ /\ what = "rolled_back"
            /\ \/ run.pc = "report" /\ ~run.problem /\ UNCHANGED live
               \/ run.pc = "rolled_back" /\ UNCHANGED live
               \/ status'[run.op] = "left"
  PROVE  \A o \in Ops : Ending(o)
BY TellingEnds DEF Ending

LEMMA OpTells ==
  ASSUME Sound, run.pc \notin Resting
  PROVE  run.op \in Ops
BY DEF Sound, Shape, RunOK, Resting

LEMMA PrepareTells ==
  ASSUME Sound, NEW same \in SameSets, Prepare(same)
  PROVE  \A o \in Ops : Ending(o)
<1>1. run.op \in Ops
  BY OpTells DEF Resting, Prepare
<1>2. UNCHANGED owner \/ Tell("refused")
  BY DEF Prepare, GiveUp
<1>. QED  BY <1>1, <1>2, OwnerStays, EndingsTold DEF Outcome

LEMMA StepsTell ==
  ASSUME Sound, \/ Preserve \/ Snapshot \/ (\E same \in SameSets : Prepare(same))
                \/ Intend \/ Mark \/ Probe \/ Abandon \/ Unmark \/ Copy \/ Copied
                \/ Confirm \/ Finalize \/ RecordOplog \/ RecordLineage \/ Close
                \/ Report \/ Audit \/ Trace
  PROVE  \A o \in Ops : Ending(o)
<1>1. CASE Preserve \/ Snapshot \/ Intend \/ Mark \/ Probe \/ Abandon \/ Unmark \/ Copy \/ Copied
  <2>1. run.op \in Ops
    BY <1>1, OpTells DEF Resting, Preserve, Snapshot, Intend, Mark, Probe, Abandon, Unmark, Copy, Copied
  <2>2. CASE Preserve \/ Snapshot \/ Copy \/ Copied \/ Probe
    <3>1. UNCHANGED owner \/ Tell("refused")
      BY <2>2 DEF Preserve, Snapshot, Copy, Copied, Probe, GiveUp
    <3>. QED  BY <2>1, <3>1, OwnerStays, EndingsTold DEF Outcome
  <2>3. CASE Intend \/ Mark \/ Abandon \/ Unmark
    <3>1. UNCHANGED owner \/ Tell("refused") \/ Tell("failed")
      BY <2>3 DEF Intend, Mark, Abandon, Unmark, GiveUp, Return
    <3>. QED  BY <2>1, <3>1, OwnerStays, EndingsTold DEF Outcome
  <2>. QED  BY <1>1, <2>2, <2>3
<1>2. CASE Confirm \/ Finalize \/ RecordOplog \/ RecordLineage \/ Close \/ Audit \/ Trace
  <2>1. run.op \in Ops
    BY <1>2, OpTells DEF Resting, Confirm, Finalize, RecordOplog, RecordLineage, Close, Audit, Trace
  <2>2. \/ UNCHANGED owner \/ Tell("failed")
        \/ Tell("done") /\ UNCHANGED live /\ run.pc \in {"confirm", "oplog", "lineage", "close"}
    BY <1>2 DEF Confirm, Finalize, RecordOplog, RecordLineage, Close, Audit, Trace, Return, disk
  <2>. QED  BY <2>1, <2>2, OwnerStays, EndingsTold DEF Outcome
<1>3. CASE Report
  <2>1. run.op \in Ops
    BY <1>3, OpTells DEF Resting, Report
  <2>2. Tell("failed") \/ (Tell("rolled_back") /\ run.pc = "report" /\ ~run.problem /\ UNCHANGED live)
    BY <1>3 DEF Report, disk
  <2>. QED  BY <2>1, <2>2, EndingsTold DEF Outcome
<1>. QED  BY <1>1, <1>2, <1>3, PrepareTells

LEMMA WritesTell ==
  ASSUME Sound, \/ Stage \/ Check \/ Validate \/ (\E f \in Files : Rename(f))
  PROVE  \A o \in Ops : Ending(o)
<1>1. run.op \in Ops
  BY OpTells DEF Resting, Stage, Check, Validate, Rename
<1>2. \A n : StopWriting(n) => UNCHANGED owner \/ Tell("refused") \/ Tell("put_back_instead")
  BY DEF StopWriting, GiveUp, Return
<1>3. UNCHANGED owner \/ Tell("refused") \/ Tell("put_back_instead")
  BY <1>2 DEF Stage, Check, Validate, Rename
<1>. QED  BY <1>1, <1>3, OwnerStays, EndingsTold DEF Outcome

LEMMA RecoveryTells == ASSUME Sound, Recover PROVE \A o \in Ops : Ending(o)
<1>1. CASE StartListing \/ List \/ ReportAuto
  BY <1>1 DEF StartListing, List, Listed, ReportAuto, Ending, owner
<1>2. CASE EndListing
  BY <1>2, OwnerStays DEF EndListing
<1>3. ASSUME NEW p \in Ops, NEW choice \in Choice, Resolve(p, choice) PROVE \A o \in Ops : Ending(o)
  <2>1. told' = told \/ told' = [told EXCEPT ![p] = "refused"]
    BY <1>3 DEF Resolve
  <2>. QED  BY <2>1 DEF Ending, Sound, Shape, OwnerOK
<1>4. CASE Rederive \/ Replan \/ Recovered \/ ReportBack \/ RolledBack \/ Leave \/ Left
  <2>1. run.op \in Ops /\ status \in [Ops -> Event]
    BY <1>4, OpTells DEF Resting, Rederive, Replan, Recovered, ReportBack, RolledBack, Leave, Left, Sound, Shape, JournalOK
  <2>2. \/ UNCHANGED owner
        \/ \E what \in {"failed", "refused", "put_back_instead"} : Tell(what)
        \/ RolledBack /\ Tell("rolled_back")
        \/ Left /\ Journal(run.op, "left") /\ Tell("rolled_back")
    BY <1>4 DEF Rederive, Replan, Recovered, ReportBack, RolledBack, Leave, Left, Return
  <2>3. RolledBack => run.pc = "rolled_back" /\ UNCHANGED live
    BY DEF RolledBack, disk
  <2>4. Journal(run.op, "left") => status'[run.op] = "left"
    BY <2>1 DEF Journal, With
  <2>. QED  BY <2>1, <2>2, <2>3, <2>4, OwnerStays, EndingsTold DEF Outcome
<1>. QED  BY <1>1, <1>2, <1>3, <1>4 DEF Recover

LEMMA AllTell == ASSUME Sound, [Next]_vars PROVE \A o \in Ops : Ending(o)
<1>1. CASE Begins \/ (Rollback /\ UNCHANGED <<journal, records, owner, outer, crashes>>)
  <2>1. \A o, kind, ts, ord, step : Begin(o, kind, ts, ord, step) => UNCHANGED owner
    BY DEF Begin
  <2>. QED  BY <1>1, <2>1, OwnerStays DEF Begins, Start, KeepCopy
<1>2. CASE Execute
  BY <1>1, <1>2, StepsTell, WritesTell DEF Execute, Begins
<1>3. CASE Outer \/ UNCHANGED vars
  BY <1>3 DEF Outer, OutsideWrite, GameStarts, GameStops, Crash, vars, owner, Ending
<1>. QED  BY <1>2, <1>3, RecoveryTells DEF Next

LEMMA ToldTruly ==
  ASSUME Tale, [Next]_vars, NEW o \in Ops, told'[o] # told[o]
  PROVE  /\ told'[o] = "rolled_back" /\ status'[o] # "left" => ~Written(o)'
         /\ told'[o] = "done" /\ rec[o].kind = "place" =>
              \A s \in Targets(rec[o]), f \in Files :
                live'[s][f] = rec[o].pre[s][f] => rec[o].post[s][f] = live'[s][f]
<1>1. Ending(o)
  BY AllTell DEF Tale
<1>2. ASSUME told'[o] = "rolled_back", status'[o] # "left" PROVE ~Written(o)'
  <2>1. o = run.op /\ UNCHANGED live /\ (run.pc = "rolled_back" \/ (run.pc = "report" /\ ~run.problem))
    BY <1>1, <1>2 DEF Ending
  <2>2. WrittenUpto(0)
    BY <2>1, PutBack DEF Tale, RunStory, WrittenAt
  <2>3. ~Written(o)
    BY <2>1, <2>2, NothingHeld
  <2>. QED  BY <2>1, <2>3 DEF Written, Holds
<1>3. ASSUME told'[o] = "done", rec[o].kind = "place"
      PROVE  \A s \in Targets(rec[o]), f \in Files :
               live'[s][f] = rec[o].pre[s][f] => rec[o].post[s][f] = live'[s][f]
  <2>1. o = run.op /\ UNCHANGED live /\ run.pc \in {"confirm", "oplog", "lineage", "close"}
    BY <1>1, <1>3 DEF Ending
  <2>2. run.plan.kind = "place"
    BY <1>3, <2>1 DEF Tale, Sound, Phase, RunPhase, PlanAt, Resting
  <2>3. Behind(o, live)
    BY <2>1, <2>2 DEF Tale, RunStory, VerifiedAt, Verified, Recording
  <2>. QED  BY <2>1, <2>3 DEF Behind
<1>. QED  BY <1>2, <1>3

\* What the owner was told stays true (OpOutcome of execute and of recovery): an end is
\* final, told "done" nothing is still the old one, told "rolled back" no byte is left.
THEOREM AllOutcomesHold == Spec => OutcomesHold
<1>1. Shape /\ Phase /\ Vouched /\ OpStory /\ RunStory /\ [Next]_vars =>
        [\A o \in Ops : told'[o] # told[o] =>
           /\ told'[o] = "rolled_back" /\ status'[o] # "left" => ~Written(o)'
           /\ told'[o] = "done" /\ rec[o].kind = "place" =>
                \A s \in Targets(rec[o]), f \in Files :
                  live'[s][f] = rec[o].pre[s][f] => rec[o].post[s][f] = live'[s][f]]_vars
  BY ToldTruly DEF Tale, Sound
<1>2. Spec => TellsTheTruth
  BY <1>1, ShapeHolds, PhaseHolds, VouchedHolds, StoryHolds, PTL DEF Spec, TellsTheTruth
<1>. QED  BY <1>2, EndsAreFinal DEF OutcomesHold

-----------------------------------------------------------------------------
(***************************************************************************)
(* LiveOps implements AtomicMove, for any slots, files, target lists and   *)
(* bounds, where a failing append leaves no line ("io" is not in Faults):  *)
(* seen by the owner, the files of an operation all change at once or none *)
(* does.                                                                   *)
(*                                                                         *)
(* A file that holds bytes of an undecided op counts as what the op found, *)
(* so a rename is no step for the owner, and the append that decides the   *)
(* op is the move.  That needs, of an op in hand, that each of its files   *)
(* is old, new or the game's (Fits); that a decided one has no old file    *)
(* left (NothingOld); and that a decided one is never taken back (Decided).   *)
(***************************************************************************)

\* A failing append leaves no line.
CleanAppends == "io" \notin Faults

Full(p) == \A s \in Targets(p), f \in Files : p.post[s][f] # Absent

Played(c) == c.by = "game"

Fits(p) == \A s \in Targets(p), f \in Files :
             live[s][f] \in {p.pre[s][f], p.post[s][f]} \/ Played(live[s][f])

AllFit == \A o \in Ops : status[o] \in Underway /\ Active(o) => Full(rec[o]) /\ Fits(rec[o])

Unplanned == \A o \in Ops : status[o] \in Unwritten => rec[o].post = Empty

IntendFits == run.pc = "intend" =>
  /\ Full(run.plan)
  /\ \A s \in Slots, f \in Files : live[s][f] = run.plan.pre[s][f] \/ Played(live[s][f])

\* A verified op has nothing left to replace, and goes one way.
NothingOld == \A o \in Ops : status[o] = "validated" => Behind(o, live)

Closing == Recording \cup {"close"}

Decided ==
  /\ \A o \in Ops : status[o] = "validated" /\ "back" \in offered[o] => run.op = o /\ run.pc \in Closing
  /\ run.mode = "back" /\ run.op \in Ops => status[run.op] # "validated"

Course == AllFit /\ Unplanned /\ IntendFits /\ NothingOld /\ Decided

Base == Tale /\ Course /\ CleanAppends

-----------------------------------------------------------------------------
\* What a step does to files, plans and events.

Puts(f) == \/ Rename(f) /\ Put(Slot, f, Post(f))
           \/ RollbackRestore(f) /\ Put(Slot, f, Pre(f)) /\ UNCHANGED <<journal, records, owner, outer, crashes>>

LEMMA WhoWrites ==
  ASSUME [Next]_vars, ~UNCHANGED live
  PROVE  /\ (\E f \in Files : Puts(f)) \/ (\E s \in Slots, f \in Files : OutsideWrite(s, f))
         /\ UNCHANGED <<rec, status, offered>>
<1>1. CASE Execute
  <2>1. \/ \E f \in Files : Rename(f)
        \/ Rollback /\ UNCHANGED <<journal, records, owner, outer, crashes>>
    BY <1>1 DEF Execute, Start, KeepCopy, Begin, Preserve, Snapshot, Prepare, Intend, Mark, Probe, Abandon, Unmark,
       Stage, StageFiles, Sweep, Check, Validate, Confirm, Finalize, RecordOplog, RecordLineage, Close, Report, Audit,
       Trace, Copy, Copied, disk
  <2>2. ASSUME NEW f \in Files, Rename(f) PROVE Puts(f) /\ UNCHANGED <<rec, status, offered>>
    <3>1. CASE StopWriting(run.at)
      <4>1. UNCHANGED offered
        BY <3>1 DEF StopWriting, Return, GiveUp, Tell, owner
      <4>2. UNCHANGED live \/ Put(Slot, f, Post(f))
        BY <2>2 DEF Rename, RenameFile, disk
      <4>3. UNCHANGED <<rec, status>>
        BY <2>2 DEF Rename, journal
      <4>. QED  BY <2>2, <4>1, <4>2, <4>3 DEF Puts
    <3>2. CASE RenameFile(f) /\ UNCHANGED owner
      <4>1. UNCHANGED <<rec, status>>
        BY <2>2 DEF Rename, journal
      <4>. QED  BY <2>2, <3>2, <4>1 DEF RenameFile, Puts, owner
    <3>. QED  BY <2>2, <3>1, <3>2 DEF Rename
  <2>3. CASE Rollback /\ UNCHANGED <<journal, records, owner, outer, crashes>>
    BY <2>3 DEF Rollback, RollbackKeep, RollbackRestore, RollbackVerify, Sweep, Puts, journal, owner
  <2>. QED  BY <2>1, <2>2, <2>3
<1>2. CASE Recover
  BY <1>2 DEF Recover, StartListing, List, EndListing, ReportAuto, Resolve, Rederive, Replan, Recovered, ReportBack,
     RolledBack, Leave, Left, Sweep, disk
<1>3. CASE Outer \/ UNCHANGED vars
  BY <1>3 DEF Outer, OutsideWrite, GameStarts, GameStops, Crash, vars, disk, journal, owner
<1>. QED  BY <1>1, <1>2, <1>3 DEF Next

\* Writing a file is a step of a run on an open op's own plan.
LEMMA PutsAsPlanned ==
  ASSUME Sound, NEW f \in Files, Puts(f)
  PROVE  /\ run.op \in Ops /\ run.plan = rec[run.op] /\ rec[run.op] \in Plan /\ rec[run.op].kind = "place"
         /\ status[run.op] \in Begun /\ IsOpen(run.op)
         /\ Slot \in Slots /\ Slot \in Targets(rec[run.op]) /\ live \in Folder
         /\ \E c \in {Pre(f), Post(f)} : /\ live' = [live EXCEPT ![Slot][f] = c]
                                         /\ c # Post(f) => run.mode # "forward" /\ run.pc = "restore"
<1>1. run.pc \in {"rename", "restore"}
  BY DEF Puts, Rename, RollbackRestore
<1>2. /\ run.op \in Ops /\ Slot \in Slots /\ Slot \in Targets(run.plan) /\ live \in Folder
      /\ run.plan = rec[run.op] /\ status[run.op] \in Begun /\ rec[run.op].kind = "place" /\ rec[run.op] \in Plan
  BY <1>1, AtASlot, SlotIsATarget DEF Sound, Shape, DiskOK, JournalOK, RunOK, Resting, AtTarget, Phase, RunPhase, PlanAt,
     StatusAt, Unbound, Writing, Backward, Begun
<1>3. run.pc = "restore" => run.mode # "forward"
  BY DEF Sound, Phase, RunPhase, ModeAt, Backward
<1>. QED  BY <1>1, <1>2, <1>3 DEF Puts, Put, Rename, RollbackRestore, IsOpen, Open, Begun

\* An event takes an op from one status to the next.
LEMMA Events ==
  ASSUME Sound, CleanAppends, [Next]_vars, ~UNCHANGED status
  PROVE  /\ UNCHANGED live
         /\ \/ Begins
            \/ Intend /\ Intended
            \/ \E o \in Ops, e \in Event :
                 /\ UNCHANGED rec /\ status' = With(o, e)
                 /\ \/ e = "abandoned" /\ status[o] = "preparing" /\ List
                    \/ /\ o = run.op
                       /\ \/ Abandon /\ e = "abandoned" /\ status[o] \in {"preparing", "writing"}
                          \/ Confirm /\ e = "validated" /\ status[o] \in {"writing", "recovered"}
                             /\ run'.pc = "finalize" /\ run'.op = o
                          \/ Close /\ e = "done" /\ status[o] = "validated" /\ run.plan.kind = "place"
                          \/ Close /\ e = "done" /\ status[o] = "preparing" /\ run.plan.kind = "keep"
                          \/ Report /\ e = "rolled_back" /\ status[o] = "writing" /\ ~run.problem
                          \/ Report /\ e = "failed" /\ status[o] = "writing"
                          \/ Recovered /\ e = "recovered" /\ status[o] \in {"writing", "validated"}
                          \/ ReportBack /\ e = "recovered" /\ status[o] \in Begun /\ ~run.problem
                          \/ RolledBack /\ e = "rolled_back" /\ status[o] = "recovered"
                          \/ Left /\ e = "left" /\ status[o] \in Begun
<1>1. UNCHANGED live
  BY WhoWrites
<1>2. CASE Execute
  <2>1. CASE Intend \/ Abandon \/ Confirm \/ Close \/ Report
    <3>1. run.op \in Ops /\ run \in Run
      BY <2>1 DEF Sound, Shape, RunOK, Resting, Intend, Abandon, Confirm, Close, Report
    <3>2. CASE Intend
      BY <1>1, <3>2 DEF Intend, CleanAppends, Fails
    <3>3. CASE Abandon
      <4>1. status' = With(run.op, "abandoned") /\ UNCHANGED rec /\ status[run.op] \in {"preparing", "writing"}
        BY <3>3 DEF Abandon, JournalQuietly, Journal, AppendFails, CleanAppends, Fails, Sound, Phase, RunPhase, StatusAt
      <4>. QED  BY <1>1, <3>1, <3>3, <4>1 DEF Event
    <3>4. CASE Confirm
      <4>1. status' = With(run.op, "validated") /\ UNCHANGED rec /\ Goto("finalize")
        BY <3>4 DEF Confirm, Journal, AppendFails, CleanAppends, Fails
      <4>2. status[run.op] \in {"writing", "recovered"}
        BY <3>4 DEF Confirm, Sound, Phase, RunPhase, StatusAt, ModeAt
      <4>3. run'.pc = "finalize" /\ run'.op = run.op
        BY <3>1, <4>1 DEF Goto, Run
      <4>. QED  BY <1>1, <3>1, <3>4, <4>1, <4>2, <4>3 DEF Event
    <3>5. CASE Close
      <4>1. status' = With(run.op, "done") /\ UNCHANGED rec
        BY <3>5 DEF Close, Journal, AppendFails, CleanAppends, Fails
      <4>2. \/ status[run.op] = "validated" /\ run.plan.kind = "place"
            \/ status[run.op] = "preparing" /\ run.plan.kind = "keep"
        BY <3>5 DEF Close, Sound, Phase, RunPhase, StatusAt, PlanAt, Resting
      <4>. QED  BY <1>1, <3>1, <3>5, <4>1, <4>2 DEF Event
    <3>6. CASE Report
      <4>1. /\ UNCHANGED rec
            /\ \/ status' = With(run.op, "rolled_back") /\ ~run.problem
               \/ status' = With(run.op, "failed")
        BY <3>6 DEF Report, JournalQuietly, Journal, AppendFails, CleanAppends, Fails
      <4>2. status[run.op] = "writing"
        BY <3>6 DEF Report, Sound, Phase, RunPhase, StatusAt, Backward
      <4>. QED  BY <1>1, <3>1, <3>6, <4>1, <4>2 DEF Event
    <3>. QED  BY <2>1, <3>2, <3>3, <3>4, <3>5, <3>6
  <2>2. CASE ~(Intend \/ Abandon \/ Confirm \/ Close \/ Report) /\ ~Begins
    BY <1>2, <2>2 DEF Begins, Execute, Preserve, Snapshot, Prepare, Mark, Probe, Unmark, Stage, Check, Rename, Validate,
       Finalize, RecordOplog, RecordLineage, Audit, Trace, Copy, Copied, journal
  <2>. QED  BY <1>1, <2>1, <2>2
<1>3. CASE Recover
  <2>1. CASE List
    <3>1. PICK o \in Ops : o = run.next
      BY <2>1 DEF List
    <3>2. status[o] = "preparing" /\ status' = With(o, "abandoned") /\ UNCHANGED rec
      BY <2>1, <3>1 DEF List, Listed, JournalQuietly, Journal, AppendFails, CleanAppends, Fails
    <3>. QED  BY <1>1, <2>1, <3>2 DEF Event
  <2>2. CASE Recovered \/ ReportBack \/ RolledBack \/ Left
    <3>1. run.op \in Ops
      BY <2>2 DEF Sound, Shape, RunOK, Resting, Recovered, ReportBack, RolledBack, Left
    <3>2. CASE Recovered
      <4>1. status' = With(run.op, "recovered") /\ UNCHANGED rec /\ status[run.op] \in {"writing", "validated"}
        BY <3>2 DEF Recovered, Journal, AppendFails, CleanAppends, Fails, Sound, Phase, RunPhase, StatusAt
      <4>. QED  BY <1>1, <3>1, <3>2, <4>1 DEF Event
    <3>3. CASE ReportBack
      <4>1. status' = With(run.op, "recovered") /\ UNCHANGED rec /\ status[run.op] \in Begun /\ ~run.problem
        BY <3>3 DEF ReportBack, Journal, AppendFails, CleanAppends, Fails, Sound, Phase, RunPhase, StatusAt, Backward
      <4>. QED  BY <1>1, <3>1, <3>3, <4>1 DEF Event
    <3>4. CASE RolledBack
      <4>1. status' = With(run.op, "rolled_back") /\ UNCHANGED rec /\ status[run.op] = "recovered"
        BY <3>4 DEF RolledBack, Journal, AppendFails, CleanAppends, Fails, Sound, Phase, RunPhase, StatusAt
      <4>. QED  BY <1>1, <3>1, <3>4, <4>1 DEF Event
    <3>5. CASE Left
      <4>1. status' = With(run.op, "left") /\ UNCHANGED rec /\ status[run.op] \in Begun
        BY <3>5 DEF Left, Journal, AppendFails, CleanAppends, Fails, Sound, Phase, RunPhase, StatusAt
      <4>. QED  BY <1>1, <3>1, <3>5, <4>1 DEF Event
    <3>. QED  BY <2>2, <3>2, <3>3, <3>4, <3>5
  <2>3. CASE ~(List \/ Recovered \/ ReportBack \/ RolledBack \/ Left)
    BY <1>3, <2>3 DEF Recover, StartListing, EndListing, ReportAuto, Resolve, Rederive, Replan, Leave, journal
  <2>. QED  BY <1>1, <2>1, <2>2, <2>3
<1>4. CASE Outer \/ UNCHANGED vars
  BY <1>4 DEF Outer, OutsideWrite, GameStarts, GameStops, Crash, vars, journal
<1>. QED  BY <1>2, <1>3, <1>4 DEF Next

-----------------------------------------------------------------------------
\* The course of an operation is kept.

\* An op in hand was in hand before, with the same plan, unless it is planned now.
LEMMA StaysUnderway ==
  ASSUME Sound, CleanAppends, [Next]_vars, NEW o \in Ops, status'[o] \in Underway, Active(o)'
  PROVE  \/ Intend /\ Intended /\ o = run.op
         \/ status[o] \in Underway /\ Active(o) /\ rec'[o] = rec[o]
<1>1. status \in [Ops -> Event] /\ o # 0
  BY DEF Sound, Shape, JournalOK, Ops
<1>2. CASE Begins
  <2>1. PICK p \in Ops : status[p] = "none" /\ run'.op \in {0, p} /\ \A q \in Ops \ {p} : Stays(q)
    BY <1>2, BeginsAnew
  <2>2. status'[p] = "preparing"
    <3>1. PICK q \in Ops : status[q] = "none" /\ status' = With(q, "preparing")
      BY <1>2 DEF Begins, Start, KeepCopy, Begin
    <3>2. q = p
      BY <1>1, <2>1, <3>1 DEF Stays, With
    <3>. QED  BY <1>1, <3>1, <3>2 DEF With
  <2>3. o # p
    BY <2>2 DEF Underway, Begun
  <2>. QED  BY <1>1, <2>1, <2>3 DEF Stays, Active, IsOpen
<1>3. CASE ~Begins /\ ~(Intend /\ Intended /\ o = run.op)
  <2>1. status[o] \in Underway
    <3>1. CASE UNCHANGED status
      BY <3>1
    <3>2. CASE Intend /\ Intended /\ o # run.op
      BY <1>1, <3>2 DEF Intended, With
    <3>3. CASE ~UNCHANGED status /\ ~(Intend /\ Intended)
      <4>1. PICK p \in Ops, e \in Event : /\ status' = With(p, e)
                                          /\ e \in Underway => status[p] \in Underway
        BY SMTT(30), <1>3, <3>3, Events DEF Underway, Begun
      <4>. QED  BY <1>1, <4>1 DEF With
    <3>. QED  BY <1>3, <3>1, <3>2, <3>3
  <2>2. rec'[o] = rec[o]
    <3>1. rec'[o] = rec[o] \/ (Intend /\ o = run.op)
      BY <2>1, RecStays DEF Underway, Begun, Unwritten
    <3>2. Intend /\ ~Intended => UNCHANGED rec
      BY DEF Intend
    <3>. QED  BY <1>3, <3>1, <3>2
  <2>3. Active(o)
    <3>1. rec[o].kind = "place"
      BY <2>2 DEF Active
    <3>2. IsOpen(o) \/ run.op = o
      <4>1. CASE o \notin {run.op, run'.op}
        BY <1>3, <4>1, OthersStay DEF Stays, Active, IsOpen
      <4>2. CASE o = run'.op
        BY <1>1, <1>3, <4>2, OthersStay DEF OnTask
      <4>. QED  BY <4>1, <4>2
    <3>. QED  BY <3>1, <3>2 DEF Active
  <2>. QED  BY <2>1, <2>2, <2>3
<1>. QED  BY <1>2, <1>3

LEMMA NextFits == ASSUME Base, [Next]_vars PROVE AllFit'
<1>. USE DEF Base, Tale, Course
<1>. SUFFICES ASSUME NEW o \in Ops, status'[o] \in Underway, Active(o)' PROVE Full(rec[o])' /\ Fits(rec[o])'
  BY DEF AllFit
<1>1. rec \in [Ops -> Plan] /\ rec' \in [Ops -> Plan]
  BY NextKeeps DEF Sound, Shape, JournalOK
<1>2. CASE Intend /\ Intended /\ o = run.op
  <2>1. rec'[o] = run.plan /\ UNCHANGED live /\ run.pc = "intend"
    BY <1>1, <1>2 DEF Intend, Intended, disk
  <2>. QED  BY <1>1, <2>1, TargetsType DEF IntendFits, Full, Fits
<1>3. CASE status[o] \in Underway /\ Active(o) /\ rec'[o] = rec[o]
  <2>1. Full(rec[o]) /\ Fits(rec[o]) /\ Targets(rec[o]) \subseteq Slots
    BY <1>1, <1>3, TargetsType DEF AllFit
  <2>2. CASE UNCHANGED live
    BY <1>3, <2>1, <2>2 DEF Full, Fits
  <2>3. ASSUME NEW s \in Slots, NEW f \in Files, OutsideWrite(s, f) PROVE Full(rec[o])' /\ Fits(rec[o])'
    <3>1. live' = [live EXCEPT ![s][f] = Game(outside + 1)] /\ live \in Folder
      BY <2>3 DEF OutsideWrite, Sound, Shape, DiskOK
    <3>2. \A t \in Slots, g \in Files : live'[t][g] = live[t][g] \/ Played(live'[t][g])
      BY <3>1 DEF Folder, Game, Played
    <3>. QED  BY <1>3, <2>1, <3>2 DEF Full, Fits
  <2>4. ASSUME NEW f \in Files, Puts(f) PROVE Full(rec[o])' /\ Fits(rec[o])'
    <3>1. /\ run.plan = rec[run.op] /\ run.op \in Ops /\ rec[run.op].kind = "place" /\ IsOpen(run.op) /\ Slot \in Slots
          /\ live \in Folder /\ \E c \in {Pre(f), Post(f)} : live' = [live EXCEPT ![Slot][f] = c]
      BY <2>4, PutsAsPlanned
    <3>2. o = run.op
      BY <1>3, <3>1 DEF OpStory, OneActive, Active
    <3>3. \A t \in Slots, g \in Files : live'[t][g] = live[t][g] \/ live'[t][g] \in {rec[o].pre[t][g], rec[o].post[t][g]}
      BY <3>1, <3>2 DEF Folder, Pre, Post
    <3>. QED  BY <1>3, <2>1, <3>3 DEF Full, Fits
  <2>. QED  BY <2>2, <2>3, <2>4, WhoWrites
<1>. QED  BY <1>2, <1>3, StaysUnderway

LEMMA NextUnplanned == ASSUME Base, [Next]_vars PROVE Unplanned'
<1>. USE DEF Base, Tale, Course
<1>. SUFFICES ASSUME NEW o \in Ops, status'[o] \in Unwritten PROVE rec'[o].post = Empty
  BY DEF Unplanned
<1>1. status \in [Ops -> Event] /\ rec \in [Ops -> Plan]
  BY DEF Sound, Shape, JournalOK
<1>2. CASE Begins
  <2>1. PICK p, kind, ts, ord : /\ p \in Ops /\ status[p] = "none" /\ status' = With(p, "preparing")
                                /\ rec' = [rec EXCEPT ![p] = NewPlan(kind, ts, ord)]
    <3>1. PICK p, kind, ts, ord, step : p \in Ops /\ Begin(p, kind, ts, ord, step)
      BY <1>2 DEF Begins, Start, KeepCopy
    <3>. QED  BY <3>1 DEF Begin
  <2>2. CASE o = p
    BY <1>1, <2>1, <2>2 DEF NewPlan, NoPlan
  <2>3. CASE o # p
    BY <1>1, <2>1, <2>3 DEF Unplanned, With
  <2>. QED  BY <2>2, <2>3
<1>3. CASE Intend /\ Intended
  BY <1>1, <1>3 DEF Intended, With, Unplanned, Unwritten
<1>4. CASE ~Begins /\ ~(Intend /\ Intended)
  <2>1. status[o] \in Unwritten
    <3>1. CASE ~UNCHANGED status
      <4>1. PICK p \in Ops, e \in Event : status' = With(p, e) /\ e \notin Unwritten
        BY SMTT(30), <1>4, <3>1, Events DEF Unwritten
      <4>. QED  BY <1>1, <4>1 DEF With
    <3>. QED  BY <3>1
  <2>2. rec'[o] = rec[o]
    <3>1. CASE ~UNCHANGED status
      BY <1>4, <3>1, Events
    <3>2. CASE UNCHANGED status /\ Execute
      BY <1>1, <1>4, <3>2 DEF Execute, Begins, Preserve, Snapshot, Prepare, Intend, Mark, Probe, Abandon, Unmark, Stage, Check,
         Rename, Validate, Confirm, Finalize, RecordOplog, RecordLineage, Close, Report, Audit, Trace, Copy, Copied, journal,
         CleanAppends, Fails
    <3>3. CASE Recover
      BY <3>3 DEF Recover, StartListing, List, EndListing, ReportAuto, Resolve, Rederive, Replan, Recovered, ReportBack,
         RolledBack, Leave, Left, journal
    <3>4. CASE Outer \/ UNCHANGED vars
      BY <3>4 DEF Outer, OutsideWrite, GameStarts, GameStops, Crash, vars, journal
    <3>. QED  BY <3>1, <3>2, <3>3, <3>4 DEF Next
  <2>. QED  BY <2>1, <2>2 DEF Unplanned
<1>. QED  BY <1>2, <1>3, <1>4

\* Where a run comes to write down its intent.
LEMMA IntendIsPrepared ==
  ASSUME Sound, [Next]_vars, run'.pc = "intend"
  PROVE  (\E same \in SameSets : Prepare(same)) \/ UNCHANGED run
<1>. SUFFICES ASSUME ~(\E same \in SameSets : Prepare(same)), ~UNCHANGED run PROVE FALSE
  OBVIOUS
<1>1. run \in Run
  BY DEF Sound, Shape, RunOK
<1>2. /\ \A step : Goes(step) => step = "intend"
      /\ ~Ends /\ ~(run' = NoRun \/ run' = Resume)
      /\ \A what : ~GiveUp(what) /\ ~Return(what)
      /\ \A step \in Step : Goto(step) => step = "intend"
  BY StepsGo DEF Goes, Ends, Sound
<1>3. \A o \in Ops : \A mode, step : run' = RunOn(o, mode, step) => step = "intend"
  BY RunOnGoes
<1>4. CASE Execute
  <2>1. CASE Begins
    <3>1. ASSUME NEW o \in Ops, NEW kind, NEW ts, NEW ord, NEW step, step # "intend", Begin(o, kind, ts, ord, step)
          PROVE  FALSE
      BY <3>1 DEF Begin, NoRun
    <3>. QED  BY <2>1, <3>1 DEF Begins, Start, KeepCopy
  <2>2. CASE Preserve \/ Intend \/ Mark \/ Abandon \/ Unmark \/ Confirm \/ Finalize \/ RecordOplog \/ RecordLineage
             \/ Close \/ Report \/ Trace \/ Copy \/ Copied
    BY <1>1, <1>2, <2>2 DEF Preserve, Intend, Mark, Abandon, Unmark, Confirm, Finalize, RecordOplog, RecordLineage, Close,
       Report, Trace, Copy, Copied, Step, Run
  <2>3. CASE Snapshot \/ Probe \/ Audit
    BY ZenonT(60), <1>1, <1>2, <2>3 DEF Snapshot, Probe, Audit, Run
  <2>4. CASE Stage \/ Check \/ Validate
    <3>1. run.pc \in AtTarget \cup {"validate"}
      BY <2>4 DEF Stage, Check, Validate, AtTarget
    <3>. QED  BY <1>2, <2>4, <3>1, WritingGoes DEF Stage, Check, Validate, Goes, Step
  <2>5. ASSUME NEW f \in Files, Rename(f) PROVE FALSE
    <3>1. run.pc = "rename" /\ run.pc \in AtTarget
      BY <2>5 DEF Rename, AtTarget
    <3>2. run' # [run EXCEPT !.todo = @ \ {f}]
      BY <1>1, <3>1 DEF Run
    <3>. QED  BY <1>2, <2>5, <3>1, <3>2, WritingGoes DEF Rename, Goes
  <2>6. CASE Rollback
    <3>1. run.pc \in AtTarget
      BY <2>6 DEF Rollback, RollbackKeep, RollbackRestore, RollbackVerify, AtTarget
    <3>2. \A i, bad : ~BackTo(i, bad)
      BY <1>2, <3>1, WritingGoes DEF Goes
    <3>3. \A f \in Files : \A bad : run.pc = "restore" => ~Restored(f, bad)
      BY ZenonT(60), <1>1 DEF Restored, Run
    <3>4. CASE RollbackKeep
      BY ZenonT(60), <1>1, <3>2, <3>4 DEF RollbackKeep, Run
    <3>. QED  BY <2>6, <3>2, <3>3, <3>4 DEF Rollback, RollbackRestore, RollbackVerify
  <2>. QED  BY <1>4, <2>1, <2>2, <2>3, <2>4, <2>5, <2>6 DEF Execute, Begins
<1>5. CASE Recover
  <2>1. CASE StartListing \/ EndListing \/ ReportAuto \/ Recovered \/ ReportBack \/ RolledBack \/ Leave \/ Left
    BY <1>2, <2>1 DEF StartListing, EndListing, ReportAuto, Recovered, ReportBack, RolledBack, Leave, Left, NoRun, Step
  <2>2. CASE List
    <3>1. run' # ListNext
      BY <1>1, <2>2 DEF List, ListNext, Run
    <3>. QED  BY <1>3, <2>2, <3>1 DEF List, Listed
  <2>3. CASE \E o \in Ops, choice \in Choice : Resolve(o, choice)
    BY <1>3, <2>3 DEF Resolve, Choice
  <2>4. CASE Rederive
    BY <1>1, <1>2, <2>4 DEF Rederive, Run
  <2>5. CASE Replan
    <3>1. run.pc \in AtTarget
      BY <2>5 DEF Replan, AtTarget
    <3>2. run' # NextTarget
      BY <1>2, <3>1, WritingGoes DEF Goes
    <3>3. PICK todo, expect : run' = [[[run EXCEPT !.pc = "stage"] EXCEPT !.todo = todo] EXCEPT !.expect = expect]
      BY <2>5, <3>2 DEF Replan
    <3>. QED  BY <1>1, <3>3 DEF Run
  <2>. QED  BY <1>5, <2>1, <2>2, <2>3, <2>4, <2>5 DEF Recover
<1>6. CASE Outer \/ UNCHANGED vars
  BY <1>2, <1>6 DEF Outer, OutsideWrite, GameStarts, GameStops, Crash, vars
<1>. QED  BY <1>4, <1>5, <1>6 DEF Next

LEMMA NextIntendFits == ASSUME Base, [Next]_vars PROVE IntendFits'
<1>. USE DEF Base, Tale, Course
<1>. SUFFICES ASSUME run'.pc = "intend" PROVE IntendFits'
  BY DEF IntendFits
<1>1. run \in Run /\ live \in Folder
  BY DEF Sound, Shape, RunOK, DiskOK
<1>2. ASSUME NEW same \in SameSets, Prepare(same) PROVE IntendFits'
  <2>1. /\ run' = [run EXCEPT !.pc = "intend", !.plan.pre = live, !.plan.post = PlannedPost(run.op, Targets(run.plan), same),
                              !.base = live, !.snap = Empty]
        /\ UNCHANGED live
    <3>1. ~GiveUp("refused")
      BY StepsGo DEF Goes, Sound
    <3>. QED  BY <1>2, <3>1 DEF Prepare, disk
  <2>2. run'.plan.pre = live /\ run'.plan.post = PlannedPost(run.op, Targets(run.plan), same)
        /\ run'.plan.targets = run.plan.targets /\ run.plan \in Plan
    BY <1>1, <2>1 DEF Run, Plan
  <2>3. Targets(run.plan) \subseteq Slots
    BY <2>2, TargetsType
  <2>4. \A s \in Targets(run.plan), f \in Files : PlannedPost(run.op, Targets(run.plan), same)[s][f] # Absent
    BY <2>3 DEF PlannedPost, Op, Absent
  <2>5. Targets(run'.plan) = Targets(run.plan)
    BY <2>2 DEF Targets, Members
  <2>6. Full(run.plan)'
    BY <2>2, <2>4, <2>5 DEF Full
  <2>7. \A s \in Slots, f \in Files : live'[s][f] = run'.plan.pre[s][f]
    BY <2>1, <2>2
  <2>. QED  BY <2>6, <2>7 DEF IntendFits
<1>3. CASE UNCHANGED run
  <2>1. IntendFits /\ run.pc = "intend"
    BY <1>3
  <2>2. CASE UNCHANGED live
    BY <1>3, <2>1, <2>2 DEF IntendFits, Full
  <2>3. CASE ~UNCHANGED live
    <3>1. ~\E f \in Files : Puts(f)
      BY <2>1 DEF Puts, Rename, RollbackRestore
    <3>2. PICK s \in Slots, f \in Files : OutsideWrite(s, f)
      BY <2>3, <3>1, WhoWrites
    <3>3. live' = [live EXCEPT ![s][f] = Game(outside + 1)]
      BY <3>2 DEF OutsideWrite
    <3>4. \A t \in Slots, g \in Files : live'[t][g] = live[t][g] \/ Played(live'[t][g])
      BY <1>1, <3>3 DEF Folder, Game, Played
    <3>. QED  BY <1>3, <2>1, <3>4 DEF IntendFits, Full
  <2>. QED  BY <2>2, <2>3
<1>. QED  BY <1>2, <1>3, IntendIsPrepared

LEMMA NextNothingOld == ASSUME Base, [Next]_vars PROVE NothingOld'
<1>. USE DEF Base, Tale, Course
<1>. SUFFICES ASSUME NEW o \in Ops, status'[o] = "validated" PROVE Behind(o, live)'
  BY DEF NothingOld
<1>1. /\ status \in [Ops -> Event] /\ rec \in [Ops -> Plan] /\ live \in Folder
  BY DEF Sound, Shape, JournalOK, DiskOK
<1>2. CASE status[o] = "validated"
  <2>1. /\ Behind(o, live) /\ rec[o].kind = "place" /\ Active(o) /\ Targets(rec[o]) \subseteq Slots
        /\ PlanStory(o, rec[o])
    BY <1>1, <1>2, TargetsType DEF NothingOld, Phase, JournalPhase, Begun, Active, IsOpen, Open, OpStory, Plans, Sound
  <2>2. rec'[o] = rec[o]
    <3>1. ~(Intend /\ o = run.op)
      BY <1>2 DEF Intend, Sound, Phase, RunPhase, StatusAt, Early
    <3>. QED  BY <1>2, <3>1, RecStays
  <2>3. CASE UNCHANGED live
    BY <2>1, <2>2, <2>3 DEF Behind
  <2>4. ASSUME NEW s \in Slots, NEW f \in Files, OutsideWrite(s, f) PROVE Behind(o, live)'
    <3>1. live' = [live EXCEPT ![s][f] = Game(outside + 1)] /\ outside \in Nat
      BY <2>4, BoundsAreNat DEF OutsideWrite, Sound, Shape, OuterOK
    <3>2. \A t \in Slots, g \in Files : live'[t][g] = live[t][g] \/ live'[t][g] = Game(outside + 1)
      BY <1>1, <3>1 DEF Folder
    <3>3. \A t \in Slots, g \in Files : rec[o].pre[t][g] # Game(outside + 1)
      BY <2>1, <3>1 DEF PlanStory, Dated, Game
    <3>. QED  BY <2>1, <2>2, <3>2, <3>3 DEF Behind
  <2>5. ASSUME NEW f \in Files, Puts(f) PROVE Behind(o, live)'
    <3>1. /\ run.plan = rec[run.op] /\ run.op \in Ops /\ rec[run.op].kind = "place" /\ IsOpen(run.op) /\ Slot \in Slots
          /\ \E c \in {Pre(f), Post(f)} : /\ live' = [live EXCEPT ![Slot][f] = c]
                                          /\ c # Post(f) => run.mode # "forward" /\ run.pc = "restore"
      BY <2>5, PutsAsPlanned
    <3>2. o = run.op
      BY <2>1, <3>1 DEF OpStory, OneActive, Active
    <3>3. ~(run.mode # "forward" /\ run.pc = "restore")
      BY <1>2, <3>2 DEF Decided, Sound, Phase, RunPhase, StatusAt, ModeAt, Backward
    <3>4. \A t \in Slots, g \in Files : live'[t][g] = live[t][g] \/ live'[t][g] = rec[o].post[t][g]
      BY <1>1, <3>1, <3>2, <3>3 DEF Folder, Post
    <3>. QED  BY <2>1, <2>2, <3>4 DEF Behind
  <2>. QED  BY <2>3, <2>4, <2>5, WhoWrites
<1>3. CASE status[o] # "validated"
  <2>1. ~UNCHANGED status /\ ~Begins /\ ~(Intend /\ Intended)
    <3>1. CASE Begins
      <4>1. PICK p \in Ops : status' = With(p, "preparing")
        BY <3>1 DEF Begins, Start, KeepCopy, Begin
      <4>. QED  BY <1>1, <1>3, <4>1 DEF With
    <3>2. CASE Intend /\ Intended
      BY <1>1, <1>3, <3>2 DEF Intended, With
    <3>. QED  BY <1>3, <3>1, <3>2
  <2>2. Confirm /\ o = run.op /\ UNCHANGED <<live, rec>>
    <3>1. PICK p \in Ops, e \in Event : /\ UNCHANGED <<live, rec>> /\ status' = With(p, e)
                                        /\ e = "validated" => Confirm /\ p = run.op
      BY SMTT(30), <2>1, Events
    <3>2. p = o /\ e = "validated"
      BY <1>1, <1>3, <3>1 DEF With
    <3>. QED  BY <3>1, <3>2
  <2>3. run.pc = "confirm" /\ run.plan.kind = "place" /\ Behind(o, live)
    BY <2>2 DEF Confirm, Sound, Phase, RunPhase, PlanAt, Resting, RunStory, VerifiedAt, Verified
  <2>. QED  BY <2>2, <2>3 DEF Behind
<1>. QED  BY <1>2, <1>3

\* What is offered anew of a verified op is never to put it back.
LEMMA NewOffers ==
  ASSUME Sound, CleanAppends, [Next]_vars, NEW o \in Ops, "back" \in offered'[o], "back" \notin offered[o]
  PROVE  status'[o] # "validated"
<1>1. status \in [Ops -> Event] /\ offered \in [Ops -> SUBSET Choice]
  BY DEF Sound, Shape, JournalOK, OwnerOK
<1>2. ~(\A p \in Ops : offered'[p] \in {offered[p], {}})
  BY DEF Choice
<1>3. ~UNCHANGED owner
  BY <1>2, OwnerTame DEF Sound
<1>4. \A what : ~Tell(what) /\ ~GiveUp(what) /\ ~Return(what)
  BY <1>2, OwnerTame DEF Sound, GiveUp, Return
<1>5. ~Execute
  <2>1. ~Rollback \/ ~(UNCHANGED <<journal, records, owner, outer, crashes>>)
    BY <1>3
  <2>2. \A n : run.pc \in AtTarget \cup {"validate"} => ~StopWriting(n)
    BY <1>2, WritingGoes
  <2>3. ~(Preserve \/ Snapshot \/ (\E same \in SameSets : Prepare(same)) \/ Intend \/ Mark \/ Probe \/ Abandon \/ Unmark
          \/ Confirm \/ Finalize \/ RecordOplog \/ RecordLineage \/ Close \/ Report \/ Audit \/ Trace \/ Copy \/ Copied)
    BY <1>3, <1>4 DEF Preserve, Snapshot, Prepare, Intend, Mark, Probe, Abandon, Unmark, Confirm, Finalize, RecordOplog,
       RecordLineage, Close, Report, Audit, Trace, Copy, Copied
  <2>4. ~(Stage \/ Check \/ (\E f \in Files : Rename(f)) \/ Validate)
    BY <1>3, <2>2 DEF Stage, Check, Rename, Validate, AtTarget
  <2>5. ~Begins
    BY <1>3 DEF Begins, Start, KeepCopy, Begin
  <2>. QED  BY <2>1, <2>3, <2>4, <2>5 DEF Execute, Begins
<1>6. CASE Recover
  <2>1. CASE List
    <3>1. PICK p \in Ops : p = run.next /\ Listed(p)
      BY <2>1 DEF List
    <3>2. UNCHANGED status /\ offered' = [offered EXCEPT ![p] = Choices(p)]
      BY <1>3, <3>1 DEF Listed
    <3>3. o = p /\ "back" \in Choices(o)
      BY <1>1, <3>2
    <3>4. status[o] # "validated"
      BY <3>3 DEF Choices
    <3>. QED  BY <3>2, <3>4
  <2>2. CASE ReportAuto
    <3>1. UNCHANGED status /\ offered' = [offered EXCEPT ![run.op] = {"back", "leave"}]
      BY <1>3, <2>2 DEF ReportAuto, owner, journal
    <3>2. o = run.op /\ status[run.op] = "writing"
      BY <1>1, <2>2, <3>1 DEF ReportAuto, Sound, Phase, RunPhase, StatusAt, Backward
    <3>. QED  BY <3>1, <3>2
  <2>3. CASE ~(List \/ ReportAuto)
    BY <1>2, <1>3, <1>4, <1>6, <2>3 DEF Recover, StartListing, EndListing, Resolve, Rederive, Replan, Recovered,
       ReportBack, RolledBack, Leave, Left, owner
  <2>. QED  BY <2>1, <2>2, <2>3
<1>7. CASE Outer \/ UNCHANGED vars
  BY <1>2, <1>3, <1>7 DEF Outer, OutsideWrite, GameStarts, GameStops, Crash, vars, owner
<1>. QED  BY <1>5, <1>6, <1>7 DEF Next

\* Where a run comes to take an op back.
LEMMA BackIsChosen ==
  ASSUME Sound, [Next]_vars, run'.mode = "back"
  PROVE  \/ run.mode = "back" /\ run'.op = run.op
         \/ \E o \in Ops : /\ Resolve(o, "back") /\ run'.op = o
                           /\ IsOpen(o) /\ UNCHANGED status
<1>. SUFFICES ASSUME ~(run.mode = "back" /\ run'.op = run.op)
              PROVE  \E o \in Ops : Resolve(o, "back") /\ run'.op = o /\ IsOpen(o) /\ UNCHANGED status
  OBVIOUS
<1>1. run \in Run
  BY DEF Sound, Shape, RunOK
<1>2. /\ \A step : ~Goes(step)
      /\ ~Ends /\ ~(run' = NoRun \/ run' = Resume)
      /\ \A what : ~GiveUp(what) /\ ~Return(what)
      /\ \A step \in Step : ~Goto(step)
      /\ ~UNCHANGED run
  BY StepsGo DEF Goes, Ends, Sound
<1>3. \A o \in Ops : \A mode, step : run' = RunOn(o, mode, step) => mode = "back" /\ run'.op = o
  BY RunOnGoes
<1>4. ~Execute
  <2>1. ~Begins
    <3>1. ASSUME NEW o \in Ops, NEW kind, NEW ts, NEW ord, NEW step, Begin(o, kind, ts, ord, step) PROVE FALSE
      BY <1>2, <3>1 DEF Begin, NoRun
    <3>. QED  BY <3>1 DEF Begins, Start, KeepCopy
  <2>2. ~(Preserve \/ Intend \/ Mark \/ Abandon \/ Unmark \/ Confirm \/ Finalize \/ RecordOplog \/ RecordLineage
          \/ Close \/ Report \/ Trace \/ Copy \/ Copied)
    BY <1>1, <1>2 DEF Preserve, Intend, Mark, Abandon, Unmark, Confirm, Finalize, RecordOplog, RecordLineage, Close,
       Report, Trace, Copy, Copied, Step, Run
  <2>3. ~(Snapshot \/ Probe \/ Audit)
    BY ZenonT(60), <1>1, <1>2 DEF Snapshot, Probe, Audit, Run
  <2>4. \A same \in SameSets : ~Prepare(same)
    BY ZenonT(60), <1>1, <1>2 DEF Prepare, Run
  <2>5. ~(Stage \/ Check \/ Validate)
    <3>1. Stage \/ Check \/ Validate => run.pc \in AtTarget \cup {"validate"}
      BY DEF Stage, Check, Validate, AtTarget
    <3>. QED  BY <1>2, <3>1, WritingGoes DEF Stage, Check, Validate, Step
  <2>6. \A f \in Files : ~Rename(f)
    <3>1. \A f \in Files : Rename(f) => run.pc \in AtTarget
      BY DEF Rename, AtTarget
    <3>2. \A f \in Files : run' # [run EXCEPT !.todo = @ \ {f}]
      BY <1>1 DEF Run
    <3>. QED  BY <1>2, <3>1, <3>2, WritingGoes DEF Rename
  <2>7. ~Rollback
    <3>1. Rollback => run.pc \in AtTarget
      BY DEF Rollback, RollbackKeep, RollbackRestore, RollbackVerify, AtTarget
    <3>2. \A i, bad : run.pc \in AtTarget => ~BackTo(i, bad)
      BY <1>2, WritingGoes
    <3>3. \A f \in Files : \A bad : ~Restored(f, bad)
      BY ZenonT(60), <1>1 DEF Restored, Run
    <3>4. ~RollbackKeep
      BY ZenonT(60), <1>1, <3>1, <3>2 DEF Rollback, RollbackKeep, Run
    <3>. QED  BY <3>1, <3>2, <3>3, <3>4 DEF Rollback, RollbackRestore, RollbackVerify
  <2>. QED  BY <2>1, <2>2, <2>3, <2>4, <2>5, <2>6, <2>7 DEF Execute, Begins
<1>5. CASE Recover
  <2>1. ~(StartListing \/ EndListing \/ ReportAuto \/ Recovered \/ ReportBack \/ RolledBack \/ Leave \/ Left)
    BY <1>2 DEF StartListing, EndListing, ReportAuto, Recovered, ReportBack, RolledBack, Leave, Left, NoRun, Step
  <2>2. ~List
    <3>1. run' # ListNext
      BY <1>1 DEF ListNext, Run
    <3>. QED  BY <1>3, <3>1 DEF List, Listed
  <2>3. ~Rederive
    BY <1>1, <1>2 DEF Rederive, Run
  <2>4. ~Replan
    <3>1. Replan => run.pc \in AtTarget
      BY DEF Replan, AtTarget
    <3>2. run.pc \in AtTarget => run' # NextTarget
      BY <1>2, WritingGoes
    <3>3. \A todo, expect : run' # [[[run EXCEPT !.pc = "stage"] EXCEPT !.todo = todo] EXCEPT !.expect = expect]
      BY <1>1 DEF Run
    <3>. QED  BY <3>1, <3>2, <3>3 DEF Replan
  <2>5. PICK o \in Ops, choice \in Choice : Resolve(o, choice)
    BY <1>5, <2>1, <2>2, <2>3, <2>4 DEF Recover
  <2>6. ~Refused(o, choice) /\ UNCHANGED status
    BY <1>2, <2>5 DEF Resolve, journal
  <2>7. choice = "back" /\ run'.op = o
    BY <1>3, <2>5, <2>6 DEF Resolve, Choice
  <2>. QED  BY <2>5, <2>6, <2>7 DEF Refused
<1>6. ~(Outer \/ UNCHANGED vars)
  BY <1>2 DEF Outer, OutsideWrite, GameStarts, GameStops, Crash, vars
<1>. QED  BY <1>4, <1>5, <1>6 DEF Next

\* A run that records what it verified ends it as done.
LEMMA ClosingGoes ==
  ASSUME Sound, CleanAppends, [Next]_vars, run.pc \in Closing, status[run.op] = "validated",
         status'[run.op] = "validated", "back" \in offered'[run.op]
  PROVE  run'.op = run.op /\ run'.pc \in Closing
<1>1. /\ run \in Run /\ run.op \in Ops /\ status \in [Ops -> Event] /\ offered \in [Ops -> SUBSET Choice]
      /\ run.pc = "close" => run.plan.kind # "keep"
  BY DEF Closing, Recording, Sound, Shape, RunOK, JournalOK, OwnerOK, Resting, Phase, RunPhase, StatusAt
<1>2. ~Tell("done")
  BY <1>1 DEF Tell
<1>3. CASE Finalize \/ RecordOplog \/ RecordLineage
  BY <1>2, <1>3, StepsGo DEF Sound, Finalize, RecordOplog, RecordLineage, Return, Goes, Step, Closing, Recording
<1>4. ~Close
  BY <1>1, <1>2 DEF Close, Journal, AppendFails, CleanAppends, Fails, With, Return
<1>5. CASE Outer \/ UNCHANGED vars
  <2>1. ~Crash
    BY <1>1 DEF Crash
  <2>. QED  BY <1>5, <2>1 DEF Outer, OutsideWrite, GameStarts, GameStops, vars
<1>6. CASE Execute
  BY <1>3, <1>4, <1>6 DEF Closing, Recording, Execute, Start, KeepCopy, Begin, Preserve, Snapshot, Prepare, Intend, Mark, Probe,
     Abandon, Unmark, Stage, Check, Rename, Validate, Confirm, Rollback, RollbackKeep, RollbackRestore, RollbackVerify, Report,
     Audit, Trace, Copy, Copied
<1>7. ~Recover
  BY DEF Closing, Recording, Recover, StartListing, List, EndListing, ReportAuto, Resolve, Rederive, Replan, Recovered,
     ReportBack, RolledBack, Leave, Left
<1>. QED  BY <1>5, <1>6, <1>7 DEF Next

LEMMA NextDecided == ASSUME Base, [Next]_vars PROVE Decided'
<1>. USE DEF Base, Tale, Course
<1>1. status \in [Ops -> Event]
  BY DEF Sound, Shape, JournalOK
<1>2. ASSUME NEW o \in Ops, status'[o] = "validated", status[o] # "validated"
      PROVE  Confirm /\ o = run.op /\ run'.op = o /\ run'.pc = "finalize"
  <2>1. ~UNCHANGED status /\ ~Begins /\ ~(Intend /\ Intended)
    <3>1. CASE Begins
      <4>1. PICK p \in Ops : status' = With(p, "preparing")
        BY <3>1 DEF Begins, Start, KeepCopy, Begin
      <4>. QED  BY <1>1, <1>2, <4>1 DEF With
    <3>2. CASE Intend /\ Intended
      BY <1>1, <1>2, <3>2 DEF Intended, With
    <3>. QED  BY <1>2, <3>1, <3>2
  <2>2. PICK p \in Ops, e \in Event : /\ status' = With(p, e)
                                      /\ e = "validated" => Confirm /\ p = run.op /\ run'.pc = "finalize" /\ run'.op = p
    BY SMTT(30), <2>1, Events
  <2>3. p = o /\ e = "validated"
    BY <1>1, <1>2, <2>2 DEF With
  <2>. QED  BY <2>2, <2>3
<1>3. ASSUME NEW o \in Ops, status'[o] = "validated", "back" \in offered'[o]
      PROVE  run'.op = o /\ run'.pc \in Closing
  <2>1. "back" \in offered[o]
    BY <1>3, NewOffers
  <2>2. CASE status[o] = "validated"
    BY <1>3, <2>1, <2>2, ClosingGoes DEF Decided
  <2>3. CASE status[o] # "validated"
    BY <1>2, <1>3, <2>3 DEF Closing, Recording
  <2>. QED  BY <2>2, <2>3
<1>4. ASSUME run'.mode = "back", run'.op \in Ops, status'[run'.op] = "validated" PROVE FALSE
  <2>1. CASE run.mode = "back" /\ run'.op = run.op
    <3>1. status[run.op] # "validated" /\ ~Confirm
      BY <1>4, <2>1 DEF Decided, Confirm, Sound, Phase, RunPhase, ModeAt
    <3>. QED  BY <1>2, <1>4, <2>1, <3>1
  <2>2. ASSUME NEW o \in Ops, Resolve(o, "back"), run'.op = o, UNCHANGED status PROVE FALSE
    BY <1>4, <2>2 DEF Resolve, Decided, Closing, Recording
  <2>. QED  BY <1>4, <2>1, <2>2, BackIsChosen
<1>. QED  BY <1>3, <1>4 DEF Decided

LEMMA InitCourse == Init => Course
<1>. SUFFICES ASSUME Init PROVE Course
  OBVIOUS
<1>1. /\ \A o \in Ops : status[o] = "none" /\ rec[o] = NoPlan
      /\ run.pc = "idle" /\ run.mode = "none"
  BY DEF Init, NoRun
<1>. QED  BY <1>1 DEF Course, AllFit, Unplanned, IntendFits, NothingOld, Decided, Underway, Begun, NoPlan

LEMMA NextCourse == ASSUME Base, [Next]_vars PROVE Course'
BY NextFits, NextUnplanned, NextIntendFits, NextNothingOld, NextDecided DEF Course

\* Every file of an operation in hand is old, new or the game's; a verified one has no old file
\* left and is not taken back.
THEOREM CourseHolds ==
  ASSUME CleanAppends
  PROVE  Spec => []Course
<1>1. Init => Course
  BY InitCourse
<1>2. Shape /\ Phase /\ Vouched /\ (OpStory /\ RunStory) /\ Course /\ [Next]_vars => Course'
  BY NextCourse DEF Base, Tale, Sound
<1>. QED  BY <1>1, <1>2, ShapeHolds, PhaseHolds, VouchedHolds, StoryHolds, PTL DEF Spec

-----------------------------------------------------------------------------
\* The owner's view.

LEMMA ViewOf ==
  ASSUME NEW s \in Slots, NEW f \in Files
  PROVE  /\ \A o \in Ops : Undecided(o) /\ Holds(o, s, f) => OwnersView[s][f] = rec[o].pre[s][f]
         /\ (\A o \in Ops : ~(Undecided(o) /\ Holds(o, s, f))) => OwnersView[s][f] = live[s][f]
<1>1. \A o, p \in Ops : Holds(o, s, f) /\ Holds(p, s, f) => o = p
  BY DEF Holds, Op
<1>2. ASSUME NEW o \in Ops, Undecided(o), Holds(o, s, f) PROVE OwnersView[s][f] = rec[o].pre[s][f]
  <2>. DEFINE q == CHOOSE p \in Ops : Undecided(p) /\ Holds(p, s, f)
  <2>1. q \in Ops /\ Undecided(q) /\ Holds(q, s, f)
    BY <1>2
  <2>2. q = o
    BY <1>1, <1>2, <2>1
  <2>. QED  BY <1>2, <2>2 DEF OwnersView
<1>3. (\A o \in Ops : ~(Undecided(o) /\ Holds(o, s, f))) => OwnersView[s][f] = live[s][f]
  BY DEF OwnersView
<1>. QED  BY <1>2, <1>3

\* ... of the next state.
LEMMA ViewNext ==
  ASSUME NEW s \in Slots, NEW f \in Files
  PROVE  /\ \A o \in Ops : Undecided(o)' /\ Holds(o, s, f)' => OwnersView'[s][f] = rec'[o].pre[s][f]
         /\ (\A o \in Ops : ~(Undecided(o) /\ Holds(o, s, f))') => OwnersView'[s][f] = live'[s][f]
<1>. USE DEF Undecided, Holds
<1>1. \A o, p \in Ops : Holds(o, s, f)' /\ Holds(p, s, f)' => o = p
  BY DEF Op
<1>2. ASSUME NEW o \in Ops, Undecided(o)', Holds(o, s, f)' PROVE OwnersView'[s][f] = rec'[o].pre[s][f]
  <2>. DEFINE q == CHOOSE p \in Ops : status'[p] \in {"preparing", "writing", "failed"} /\ live'[s][f] = Op(p)
  <2>0. \E p \in Ops : status'[p] \in {"preparing", "writing", "failed"} /\ live'[s][f] = Op(p)
    BY <1>2
  <2>1. q \in Ops /\ status'[q] \in {"preparing", "writing", "failed"} /\ live'[s][f] = Op(q)
    BY <2>0
  <2>2. q = o
    BY <1>1, <1>2, <2>1
  <2>. QED  BY <1>2, <2>2 DEF OwnersView
<1>3. (\A o \in Ops : ~(Undecided(o) /\ Holds(o, s, f))') => OwnersView'[s][f] = live'[s][f]
  BY DEF OwnersView
<1>. QED  BY <1>2, <1>3

LEMMA ViewIsFunction ==
  /\ OwnersView = [s \in Slots |-> [f \in Files |-> OwnersView[s][f]]]
  /\ OwnersView' = [s \in Slots |-> [f \in Files |-> OwnersView'[s][f]]]
BY DEF OwnersView

\* The view of a file stays when neither the file nor the op that holds it changes.
LEMMA ViewStays ==
  ASSUME NEW s \in Slots, NEW f \in Files, live'[s][f] = live[s][f],
         \A o \in Ops : Holds(o, s, f) => Undecided(o)' = Undecided(o) /\ rec'[o] = rec[o]
  PROVE  OwnersView'[s][f] = OwnersView[s][f]
<1>1. \A o \in Ops : Holds(o, s, f)' = Holds(o, s, f)
  BY DEF Holds
<1>. QED  BY <1>1, ViewOf, ViewNext

LEMMA WholeViewStays ==
  ASSUME UNCHANGED live, \A o \in Ops : Written(o) => Undecided(o)' = Undecided(o) /\ rec'[o] = rec[o]
  PROVE  UNCHANGED OwnersView
<1>1. \A s \in Slots, f \in Files : OwnersView'[s][f] = OwnersView[s][f]
  BY ViewStays DEF Written
<1>. QED  BY <1>1, ViewIsFunction

\* Only one op is undecided and may have bytes in the folder.
LEMMA OneUndecided ==
  ASSUME Tale, NEW o \in Ops, NEW p \in Ops, Undecided(o), rec[o].kind = "place", Undecided(p), Written(p)
  PROVE  p = o
<1>1. rec[p].kind = "place"
  BY DEF Tale, OpStory, Known, Lasting, Written, Holds
<1>. QED  BY <1>1 DEF Tale, OpStory, OneActive, Active, IsOpen, Open, Undecided

LEMMA UnwrittenHold == ASSUME Tale, NEW o \in Ops, status[o] \in Unwritten PROVE ~Written(o)
BY DEF Tale, OpStory, Known, Lasting, Written, Holds

-----------------------------------------------------------------------------
\* Each step is a step of the promise, or none.

LEMMA InitPromise == Init => Promise!Init
<1>. SUFFICES ASSUME Init PROVE Promise!Init
  OBVIOUS
<1>1. \A o \in Ops : status[o] = "none" /\ rec[o] = NoPlan
  BY DEF Init
<1>2. Fate = [o \in Ops |-> "none"]
  BY <1>1 DEF Fate
<1>3. Targets(NoPlan) = {}
  BY DEF Targets, Members, NoPlan
<1>4. Goal = [o \in Ops |-> {}]
  BY <1>1, <1>3 DEF Goal
<1>. QED  BY <1>2, <1>4 DEF Promise!Init

LEMMA NothingToSee == UNCHANGED <<live, rec, status>> => UNCHANGED Promise!vars
<1>. SUFFICES ASSUME UNCHANGED <<live, rec, status>> PROVE UNCHANGED Promise!vars
  OBVIOUS
<1>1. UNCHANGED OwnersView
  BY WholeViewStays DEF Undecided
<1>. QED  BY <1>1 DEF Promise!vars, Fate, Goal, Undecided

\* An op's fate is the sum of its events.
LEMMA FateMoves ==
  ASSUME Sound, NEW o \in Ops, NEW e, status' = With(o, e)
  PROVE  /\ \A p \in Ops : p # o => status'[p] = status[p] /\ Undecided(p)' = Undecided(p)
         /\ status'[o] = e
         /\ Fate' = [Fate EXCEPT ![o] = IF e = "none" THEN "none"
                                        ELSE IF e \in {"preparing", "writing", "failed"} THEN "open"
                                        ELSE IF e = "left" THEN "left" ELSE "closed"]
<1>1. status \in [Ops -> Event]
  BY DEF Sound, Shape, JournalOK
<1>2. status'[o] = e /\ \A p \in Ops : p # o => status'[p] = status[p]
  BY <1>1 DEF With
<1>. QED  BY <1>2 DEF Fate, Undecided

LEMMA BeginsPromise ==
  ASSUME Base, [Next]_vars, NEW o \in Ops, NEW kind, NEW ts, NEW ord, NEW step, Begin(o, kind, ts, ord, step)
  PROVE  Promise!Begin(o)
<1>. USE DEF Base, Tale
<1>1. /\ status[o] = "none" /\ status' = With(o, "preparing") /\ UNCHANGED live
      /\ rec' = [rec EXCEPT ![o] = NewPlan(kind, ts, ord)] /\ rec \in [Ops -> Plan]
  BY DEF Begin, disk, Sound, Shape, JournalOK
<1>2. ~Written(o)
  BY <1>1, UnwrittenHold DEF Unwritten
<1>3. UNCHANGED OwnersView
  BY <1>1, <1>2, FateMoves, WholeViewStays
<1>4. rec[o].post = Empty /\ rec'[o].post = Empty /\ \A p \in Ops : p # o => rec'[p] = rec[p]
  BY <1>1 DEF Course, Unplanned, Unwritten, NewPlan, NoPlan
<1>5. Targets(rec[o]) = {}
  BY <1>1 DEF Sound, Shape, JournalOK, Targets, Members
<1>6. Goal[o] = {} /\ Goal'[o] = {}
  <2>1. rec'[o] \in Plan /\ Targets(rec'[o]) \subseteq Slots
    BY NextKeeps, TargetsType DEF Sound, Shape, JournalOK
  <2>2. \A s \in Targets(rec'[o]), f \in Files :
          <<s, f, rec'[o].pre[s][f], rec'[o].post[s][f]>> \in Slots \X Files \X Content \X {Absent}
    BY <1>4, <2>1 DEF Plan, Folder, Empty
  <2>. QED  BY <1>5, <2>2 DEF Goal
<1>7. UNCHANGED Goal
  <2>1. \A p \in Ops : Goal'[p] = Goal[p]
    BY <1>4, <1>6 DEF Goal
  <2>. QED  BY <2>1 DEF Goal
<1>8. Fate[o] = "none" /\ Fate' = [Fate EXCEPT ![o] = "open"]
  BY <1>1, FateMoves DEF Fate
<1>. QED  BY <1>3, <1>7, <1>8 DEF Promise!Begin

\* The write-ahead event: from what the slots hold, or had until the game wrote there.
LEMMA IntendsPromise ==
  ASSUME Base, [Next]_vars, Intend, Intended
  PROVE  Promise!Aim(run.op)
<1>. USE DEF Base, Tale
<1>. DEFINE o == run.op
<1>1. /\ o \in Ops /\ status[o] = "preparing" /\ run.pc = "intend" /\ run.plan.kind = "place" /\ rec[o].kind = "place"
      /\ UNCHANGED live /\ rec \in [Ops -> Plan] /\ rec' = [rec EXCEPT ![o] = run.plan] /\ status' = With(o, "writing")
      /\ run.plan \in Plan /\ Targets(run.plan) \subseteq Slots
  BY TargetsType DEF Intend, Intended, disk, Sound, Shape, JournalOK, RunOK, Run, Resting, Phase, RunPhase, StatusAt, PlanAt,
     Early
<1>2. IntendFits /\ PlanStory(o, run.plan) /\ rec[o].post = Empty
  BY <1>1 DEF Course, Unplanned, Unwritten, RunStory, PlannedAt
<1>. HIDE DEF o
<1>3. ~Written(o) /\ \A p \in Ops : p # o => rec'[p] = rec[p]
  BY <1>1, UnwrittenHold DEF Unwritten
<1>4. Undecided(o) /\ \A p \in Ops : Undecided(p) => ~Written(p)
  BY <1>1, <1>3, OneUndecided DEF Undecided
<1>5. UNCHANGED OwnersView
  BY <1>1, <1>3, FateMoves, WholeViewStays
<1>6. \A s \in Slots, f \in Files : OwnersView[s][f] = live[s][f]
  BY <1>4, ViewOf DEF Written
<1>7. Fate[o] = "open" /\ UNCHANGED Fate
  <2>1. Fate[o] = "open"
    BY <1>1 DEF Fate, Undecided
  <2>2. Fate' = [Fate EXCEPT ![o] = "open"]
    BY <1>1, FateMoves
  <2>. QED  BY <1>1, <2>1, <2>2 DEF Fate
<1>8. Goal[o] = {}
  <2>1. rec[o] \in Plan /\ Targets(rec[o]) \subseteq Slots
    BY <1>1, TargetsType
  <2>2. \A s \in Targets(rec[o]), f \in Files :
          <<s, f, rec[o].pre[s][f], rec[o].post[s][f]>> \in Slots \X Files \X Content \X {Absent}
    BY <1>2, <2>1 DEF Plan, Folder, Empty
  <2>. QED  BY <1>1, <2>2 DEF Goal
<1>9. /\ Goal'[o] \subseteq {<<s, f, run.plan.pre[s][f], run.plan.post[s][f]>> : s \in Targets(run.plan), f \in Files}
      /\ Goal' = [Goal EXCEPT ![o] = Goal'[o]]
  <2>1. rec'[o] = run.plan
    BY <1>1
  <2>2. Goal'[o] \subseteq {<<s, f, rec'[o].pre[s][f], rec'[o].post[s][f]>> : s \in Targets(rec'[o]), f \in Files}
    BY <1>1 DEF Goal, Targets, Members
  <2>3. \A p \in Ops : p # o => Goal'[p] = Goal[p]
    BY <1>3 DEF Goal
  <2>4. Goal' = [Goal EXCEPT ![o] = Goal'[o]]
    <3>1. Goal = [p \in Ops |-> Goal[p]] /\ Goal' = [p \in Ops |-> Goal'[p]]
      BY DEF Goal
    <3>. QED  BY <1>1, <2>3, <3>1
  <2>5. Goal'[o] \subseteq {<<s, f, run.plan.pre[s][f], run.plan.post[s][f]>> : s \in Targets(run.plan), f \in Files}
    BY <2>1, <2>2
  <2>. QED  BY <2>4, <2>5
<1>10. ASSUME NEW x \in Goal'[o]
       PROVE  LET now == OwnersView[x[1]][x[2]] IN
              (x[3] = now \/ Promise!FromGame(now)) /\ x[4] \in {x[3], Promise!MovedBy(o)}
  <2>1. PICK s \in Slots, f \in Files : x = <<s, f, run.plan.pre[s][f], run.plan.post[s][f]>>
    BY <1>1, <1>9, <1>10
  <2>2. live[s][f] = run.plan.pre[s][f] \/ Played(live[s][f])
    BY <1>1, <1>2 DEF IntendFits
  <2>3. run.plan.post[s][f] \in {run.plan.pre[s][f], Op(o)}
    BY <1>2 DEF PlanStory
  <2>. QED  BY <1>6, <2>1, <2>2, <2>3 DEF Played, Op, Promise!FromGame, Promise!MovedBy
<1>. QED  BY <1>5, <1>7, <1>8, <1>9, <1>10 DEF Promise!Aim, o

\* A decision that leaves every file as the owner saw it.
LEMMA DecidesNothing ==
  ASSUME Base, NEW o \in Ops, NEW e \in {"done", "validated", "recovered", "rolled_back", "abandoned"}, status' = With(o, e),
         UNCHANGED <<live, rec>>, Undecided(o), ~Written(o)
  PROVE  Promise!NoMove(o)
<1>1. UNCHANGED OwnersView
  BY FateMoves, WholeViewStays DEF Base, Tale
<1>2. UNCHANGED Goal
  BY DEF Goal
<1>3. Fate[o] = "open" /\ Fate' = [Fate EXCEPT ![o] = "closed"]
  BY FateMoves DEF Base, Tale, Fate, Undecided
<1>. QED  BY <1>1, <1>2, <1>3 DEF Promise!NoMove, Promise!Decide

\* An event of an op that was decided, or that decides nothing.
LEMMA EventSaysNothing ==
  ASSUME Base, NEW o \in Ops, NEW e \in Event \ {"none", "left"}, status' = With(o, e), UNCHANGED <<live, rec>>,
         \/ status[o] \in {"validated", "recovered"} /\ e \in {"validated", "recovered", "done", "rolled_back"}
         \/ Undecided(o) /\ e = "failed"
  PROVE  UNCHANGED Promise!vars
<1>1. Undecided(o)' = Undecided(o)
  BY FateMoves DEF Base, Tale, Undecided
<1>2. UNCHANGED OwnersView
  BY <1>1, FateMoves, WholeViewStays DEF Base, Tale
<1>3. Fate' = Fate
  <2>1. Fate' = [Fate EXCEPT ![o] = Fate[o]]
    BY FateMoves DEF Base, Tale, Fate, Undecided
  <2>. QED  BY <2>1 DEF Fate
<1>. QED  BY <1>2, <1>3 DEF Promise!vars, Goal

\* The append that decides a verified op moves all its files.
LEMMA DecidesMove ==
  ASSUME Base, NEW o \in Ops, NEW e \in {"validated", "recovered"}, status' = With(o, e), UNCHANGED <<live, rec>>,
         status[o] = "writing", rec[o].kind = "place", Behind(o, live)
  PROVE  Promise!Move(o) \/ Promise!NoMove(o)
<1>. USE DEF Base, Tale
<1>1. /\ rec[o] \in Plan /\ Targets(rec[o]) \subseteq Slots /\ Full(rec[o]) /\ Fits(rec[o]) /\ PlanStory(o, rec[o])
      /\ Undecided(o) /\ ~Undecided(o)'
  <2>1. rec[o] \in Plan /\ Undecided(o) /\ ~Undecided(o)'
    BY FateMoves DEF Sound, Shape, JournalOK, Undecided
  <2>2. Full(rec[o]) /\ Fits(rec[o]) /\ PlanStory(o, rec[o])
    BY DEF Course, AllFit, Underway, Begun, Active, IsOpen, Open, OpStory, Plans
  <2>. QED  BY <2>1, <2>2, TargetsType
<1>2. UNCHANGED Goal /\ Fate[o] = "open" /\ Fate' = [Fate EXCEPT ![o] = "closed"]
  BY FateMoves DEF Goal, Fate, Undecided
<1>3. Promise!Decide(o)
  BY <1>2 DEF Promise!Decide
<1>4. \A p \in Ops : p # o /\ Undecided(p) => ~Written(p)
  BY <1>1, OneUndecided
<1>5. \A p \in Ops : Undecided(p)' => Undecided(p) /\ p # o
  BY <1>1, FateMoves
<1>6. ASSUME NEW s \in Slots, NEW f \in Files PROVE OwnersView'[s][f] = live[s][f]
  <2>1. \A p \in Ops : ~(Undecided(p)' /\ Holds(p, s, f)')
    BY <1>4, <1>5 DEF Written, Holds
  <2>. QED  BY <2>1, ViewNext DEF Undecided, Holds
<1>7. ASSUME NEW s \in Slots, NEW f \in Files, ~Holds(o, s, f) PROVE OwnersView[s][f] = live[s][f]
  BY <1>4, <1>7, ViewOf DEF Written
<1>8. ASSUME NEW s \in Targets(rec[o]), NEW f \in Files
      PROVE  <<s, f, rec[o].pre[s][f], rec[o].post[s][f]>> \in Goal[o]
  BY <1>1, <1>8 DEF Goal, Full
<1>9. \A x \in Goal[o] : x[1] \in Targets(rec[o]) /\ x[2] \in Files
  BY DEF Goal
<1>10. ASSUME NEW s \in Slots, NEW f \in Files, s \in Targets(rec[o]), live[s][f] = rec[o].post[s][f]
       PROVE  Promise!AtGoal(o, s, f)
  BY <1>6, <1>8, <1>10 DEF Promise!AtGoal
<1>11. ASSUME NEW s \in Slots, NEW f \in Files
       PROVE  \/ Promise!AtGoal(o, s, f)
              \/ Promise!Untouched(s, f) /\ (Promise!OnGoal(o, s, f) => Promise!FromGame(OwnersView[s][f]))
  <2>1. CASE Holds(o, s, f)
    <3>1. s \in Targets(rec[o]) /\ live[s][f] = rec[o].post[s][f]
      BY <2>1 DEF Vouched, Placed, OpStory, Known, Holds
    <3>. QED  BY <1>10, <3>1
  <2>2. CASE ~Holds(o, s, f) /\ s \in Targets(rec[o])
    <3>1. live[s][f] = rec[o].post[s][f] \/ Played(live[s][f])
      BY <1>1, <2>2 DEF Fits, Behind
    <3>2. CASE live[s][f] = rec[o].post[s][f]
      BY <1>10, <2>2, <3>2
    <3>3. CASE Played(live[s][f])
      BY <1>6, <1>7, <2>2, <3>3 DEF Played, Promise!Untouched, Promise!FromGame
    <3>. QED  BY <3>1, <3>2, <3>3
  <2>3. CASE ~Holds(o, s, f) /\ s \notin Targets(rec[o])
    <3>1. ~Promise!OnGoal(o, s, f)
      BY <1>9, <2>3 DEF Promise!OnGoal
    <3>. QED  BY <1>6, <1>7, <2>3, <3>1 DEF Promise!Untouched
  <2>. QED  BY <2>1, <2>2, <2>3
<1>12. CASE Goal[o] # {}
  BY <1>3, <1>11, <1>12 DEF Promise!Move
<1>13. CASE Goal[o] = {}
  <2>1. ~Written(o)
    BY <1>8, <1>13 DEF Vouched, Placed, Written, Holds
  <2>. QED  BY <1>1, <2>1, DecidesNothing
<1>. QED  BY <1>12, <1>13

\* What the owner leaves stays as it is.
LEMMA LeavesPromise ==
  ASSUME Base, NEW o \in Ops, status' = With(o, "left"), UNCHANGED <<live, rec>>, status[o] \in Begun, rec[o].kind = "place"
  PROVE  Promise!Leave(o)
<1>. USE DEF Base, Tale
<1>1. UNCHANGED Goal /\ Fate' = [Fate EXCEPT ![o] = "left"] /\ Fate[o] = IF Undecided(o) THEN "open" ELSE "closed"
  BY FateMoves DEF Goal, Fate, Undecided, Begun
<1>2. rec[o] \in Plan /\ Full(rec[o])
  BY DEF Sound, Shape, JournalOK, Course, AllFit, Underway, Begun, Active, IsOpen, Open
<1>3. ASSUME NEW s \in Slots, NEW f \in Files
      PROVE  Promise!Untouched(s, f) \/ (Fate[o] = "open" /\ Promise!AtGoal(o, s, f))
  <2>1. CASE Holds(o, s, f) /\ Undecided(o)
    <3>1. s \in Targets(rec[o]) /\ live[s][f] = rec[o].post[s][f]
      BY <2>1 DEF Vouched, Placed, OpStory, Known, Holds
    <3>2. <<s, f, rec[o].pre[s][f], rec[o].post[s][f]>> \in Goal[o]
      BY <1>2, <3>1 DEF Goal, Full
    <3>3. OwnersView'[s][f] = live[s][f]
      <4>1. \A p \in Ops : Undecided(p)' => p # o
        BY FateMoves DEF Undecided
      <4>2. \A p \in Ops : Holds(p, s, f)' => p = o
        BY <2>1 DEF Holds, Op
      <4>. QED  BY <4>1, <4>2, ViewNext DEF Undecided, Holds
    <3>. QED  BY <1>1, <2>1, <3>1, <3>2, <3>3 DEF Promise!AtGoal
  <2>2. CASE ~(Holds(o, s, f) /\ Undecided(o))
    <3>1. \A p \in Ops : Holds(p, s, f) => Undecided(p)' = Undecided(p) /\ rec'[p] = rec[p]
      BY <2>2, FateMoves DEF Undecided
    <3>. QED  BY <3>1, ViewStays DEF Promise!Untouched
  <2>. QED  BY <2>1, <2>2
<1>. QED  BY <1>1, <1>3 DEF Promise!Leave

\* What an op found is of nobody who is undecided.
LEMMA OldIsOver ==
  ASSUME Tale, NEW o \in Ops, NEW s \in Slots, NEW f \in Files, NEW p \in Ops, rec[o].pre[s][f] = Op(p)
  PROVE  p # o /\ ~Undecided(p)
BY DEF Tale, OpStory, Plans, PlanStory, Inherited, Lasting, Active, IsOpen, Open, Undecided

\* One file changes, and nothing else.
LEMMA OneFileChanges ==
  ASSUME NEW s \in Slots, NEW f \in Files, NEW c, live \in Folder, live' = [live EXCEPT ![s][f] = c],
         UNCHANGED <<rec, status>>
  PROVE  /\ Promise!OneFile(s, f)
         /\ OwnersView'[s][f] = OwnersView[s][f] => UNCHANGED Promise!vars
         /\ live'[s][f] = c
<1>1. live'[s][f] = c /\ \A t \in Slots, g \in Files : <<t, g>> # <<s, f>> => live'[t][g] = live[t][g]
  BY DEF Folder
<1>2. \A t \in Slots, g \in Files : <<t, g>> # <<s, f>> => OwnersView'[t][g] = OwnersView[t][g]
  BY <1>1, ViewStays DEF Undecided
<1>3. OwnersView' = [OwnersView EXCEPT ![s][f] = OwnersView'[s][f]]
  BY <1>2, ViewIsFunction
<1>4. UNCHANGED <<Fate, Goal>>
  BY DEF Fate, Goal, Undecided
<1>5. OwnersView'[s][f] = OwnersView[s][f] => UNCHANGED OwnersView
  BY <1>2, ViewIsFunction
<1>. QED  BY <1>1, <1>3, <1>4, <1>5 DEF Promise!OneFile, Promise!vars

\* A file of the run is written: nothing the owner sees, unless the game wrote there.
LEMMA PutsPromise ==
  ASSUME Base, UNCHANGED <<rec, status>>, NEW f \in Files, Puts(f), NEW o, o = run.op, NEW s, s = Slot
  PROVE  UNCHANGED Promise!vars \/ Promise!PutBack(o, s, f) \/ Promise!MoveAgain(o, s, f)
<1>. USE DEF Base, Tale
<1>0. PICK pre, post : pre = rec[o].pre[s][f] /\ post = rec[o].post[s][f]
  OBVIOUS
<1>1. /\ o \in Ops /\ rec[o] \in Plan /\ status[o] \in Begun /\ rec[o].kind = "place" /\ IsOpen(o) /\ run.plan = rec[o]
      /\ s \in Slots /\ s \in Targets(rec[o]) /\ live \in Folder
  BY PutsAsPlanned
<1>2. PICK c \in {pre, post} : /\ live' = [live EXCEPT ![s][f] = c]
                               /\ c # post => run.mode # "forward" /\ run.pc = "restore"
  BY <1>0, <1>1, PutsAsPlanned DEF Pre, Post
<1>3. /\ live[s][f] \in {pre, post} \/ Played(live[s][f])
      /\ post \in {pre, Op(o)} /\ post # Absent
  BY <1>0, <1>1 DEF Course, AllFit, Underway, Active, Full, Fits, OpStory, Plans, PlanStory
<1>4. Promise!OneFile(s, f) /\ live'[s][f] = c /\ (OwnersView'[s][f] = OwnersView[s][f] => UNCHANGED Promise!vars)
  <2>1. s \in Slots /\ live \in Folder /\ live' = [live EXCEPT ![s][f] = c] /\ UNCHANGED <<rec, status>>
    BY <1>1, <1>2
  <2>. QED  BY ONLY <2>1, f \in Files, OneFileChanges
<1>5. <<s, f, pre, post>> \in Goal[o]
  <2>1. f \in Files /\ s \in Targets(rec[o]) /\ rec[o].post[s][f] # Absent
    BY <1>0, <1>1, <1>3
  <2>2. <<s, f, rec[o].pre[s][f], rec[o].post[s][f]>> \in Goal[o]
    BY <1>1, <2>1 DEF Goal
  <2>. QED  BY <1>0, <2>2
<1>6. \A p \in Ops : pre = Op(p) => p # o /\ ~Undecided(p)
  BY <1>0, <1>1, OldIsOver
<1>7. \A p \in Ops : Undecided(p)' = Undecided(p) /\ rec'[p] = rec[p]
  BY DEF Undecided
<1>8. Played(live[s][f]) => OwnersView[s][f] = live[s][f]
  BY <1>1, ViewOf DEF Played, Holds, Op
<1>9. CASE Undecided(o)
  <2>1. OwnersView'[s][f] = pre
    <3>1. CASE c = Op(o)
      <4>1. Holds(o, s, f)' /\ Undecided(o)'
        BY <1>1, <1>4, <1>7, <1>9, <3>1 DEF Holds
      <4>. QED  BY <1>0, <1>1, <1>7, <4>1, ViewNext
    <3>2. CASE c # Op(o)
      <4>1. c = pre
        BY <1>2, <1>3, <3>2
      <4>2. \A p \in Ops : ~(Undecided(p) /\ Holds(p, s, f))'
        BY <1>4, <1>6, <1>7, <4>1 DEF Holds
      <4>. QED  BY <1>1, <1>4, <4>1, <4>2, ViewNext
    <3>. QED  BY <3>1, <3>2
  <2>2. CASE live[s][f] \in {pre, post}
    <3>1. OwnersView[s][f] = pre
      <4>1. CASE live[s][f] = Op(o)
        BY <1>0, <1>1, <1>9, <4>1, ViewOf DEF Holds
      <4>2. CASE live[s][f] # Op(o)
        <5>1. live[s][f] = pre
          BY <1>3, <2>2, <4>2
        <5>2. \A p \in Ops : ~(Undecided(p) /\ Holds(p, s, f))
          BY <1>6, <5>1 DEF Holds
        <5>. QED  BY <1>1, <5>1, <5>2, ViewOf
      <4>. QED  BY <4>1, <4>2
    <3>. QED  BY <1>4, <2>1, <3>1
  <2>3. CASE Played(live[s][f])
    <3>1. Fate[o] = "open"
      BY <1>1, <1>9 DEF Fate, Undecided
    <3>2. Promise!FromGame(OwnersView[s][f])
      BY <1>8, <2>3 DEF Promise!FromGame, Played
    <3>. QED  BY <1>4, <1>5, <2>1, <3>1, <3>2 DEF Promise!PutBack
  <2>. QED  BY <1>3, <2>2, <2>3
<1>10. CASE ~Undecided(o)
  <2>1. status[o] = "validated"
    BY <1>1, <1>10 DEF Begun, Undecided
  <2>2. c = post
    <3>1. SUFFICES ASSUME c # post PROVE FALSE
      OBVIOUS
    <3>2. run.mode = "back"
      BY <1>2, <2>1, <3>1 DEF Sound, Phase, RunPhase, StatusAt, ModeAt, Backward
    <3>. QED  BY <1>1, <2>1, <3>2 DEF Course, Decided
  <2>3. live[s][f] = post \/ Played(live[s][f])
    BY <1>0, <1>1, <1>3, <2>1 DEF Course, NothingOld, Behind
  <2>4. \A p \in Ops : post = Op(p) => ~Undecided(p)
    BY <1>3, <1>6, <1>10 DEF Op
  <2>5. OwnersView'[s][f] = post
    <3>1. \A p \in Ops : ~(Undecided(p) /\ Holds(p, s, f))'
      BY <1>4, <1>7, <2>2, <2>4 DEF Holds
    <3>. QED  BY <1>1, <1>4, <2>2, <3>1, ViewNext
  <2>6. CASE live[s][f] = post
    <3>1. \A p \in Ops : ~(Undecided(p) /\ Holds(p, s, f))
      BY <2>4, <2>6 DEF Holds
    <3>2. OwnersView[s][f] = post
      BY <1>1, <2>6, <3>1, ViewOf
    <3>. QED  BY <1>4, <2>5, <3>2
  <2>7. CASE Played(live[s][f])
    <3>1. Fate[o] = "closed"
      BY <1>1, <2>1 DEF Fate, Undecided
    <3>2. Promise!FromGame(OwnersView[s][f])
      BY <1>8, <2>7 DEF Promise!FromGame, Played
    <3>. QED  BY <1>4, <1>5, <2>5, <3>1, <3>2 DEF Promise!MoveAgain
  <2>. QED  BY <2>3, <2>6, <2>7
<1>. QED  BY <1>9, <1>10

LEMMA OutsidePromise ==
  ASSUME Base, NEW s \in Slots, NEW f \in Files, OutsideWrite(s, f), UNCHANGED <<rec, status>>
  PROVE  Promise!GameWrites(s, f)
<1>1. live \in Folder /\ live' = [live EXCEPT ![s][f] = Game(outside + 1)]
  BY DEF Base, Tale, Sound, Shape, DiskOK, OutsideWrite
<1>2. Promise!OneFile(s, f) /\ live'[s][f] = Game(outside + 1)
  BY <1>1, OneFileChanges
<1>3. \A p \in Ops : ~(Undecided(p) /\ Holds(p, s, f))'
  BY <1>2 DEF Holds, Op, Game
<1>4. OwnersView'[s][f] = Game(outside + 1)
  BY <1>2, <1>3, ViewNext
<1>. QED  BY <1>2, <1>4 DEF Promise!GameWrites, Promise!FromGame, Game

\* An event decides the op, or says nothing new.
LEMMA EventPromise ==
  ASSUME Base, [Next]_vars, ~UNCHANGED status
  PROVE  \/ UNCHANGED Promise!vars
         \/ \E o \in Ops : Promise!Begin(o) \/ Promise!Aim(o) \/ Promise!Move(o) \/ Promise!NoMove(o) \/ Promise!Leave(o)
<1>. USE DEF Base, Tale
<1>1. UNCHANGED live
  BY Events
<1>2. CASE Begins
  <2>1. PICK o, kind, ts, ord, step : o \in Ops /\ Begin(o, kind, ts, ord, step)
    BY <1>2 DEF Begins, Start, KeepCopy
  <2>. QED  BY <2>1, BeginsPromise
<1>3. CASE Intend /\ Intended
  <2>1. run.op \in Ops
    BY <1>3 DEF Intend, Sound, Shape, RunOK, Resting
  <2>. QED  BY <1>3, <2>1, IntendsPromise
<1>4. CASE ~Begins /\ ~(Intend /\ Intended)
  <2>1. ASSUME NEW o \in Ops, NEW e \in Event, status' = With(o, e), UNCHANGED rec,
               e = "abandoned", status[o] = "preparing"
        PROVE  Promise!NoMove(o)
    BY <1>1, <2>1, UnwrittenHold, DecidesNothing DEF Unwritten, Undecided
  <2>2. ASSUME NEW e \in Event, status' = With(run.op, e), UNCHANGED rec, run.op \in Ops,
               WrittenUpto(0), Undecided(run.op), e \in {"rolled_back", "recovered", "abandoned"}
        PROVE  Promise!NoMove(run.op)
    <3>1. ~Written(run.op)
      BY <2>2 DEF WrittenUpto, Written
    <3>. QED  BY <1>1, <2>2, <3>1, DecidesNothing
  <2>3. ASSUME NEW e \in {"validated", "recovered"}, status' = With(run.op, e), UNCHANGED rec, run.op \in Ops,
               Confirm \/ Recovered, status[run.op] \in {"writing", "validated", "recovered"}
        PROVE  UNCHANGED Promise!vars \/ Promise!Move(run.op) \/ Promise!NoMove(run.op)
    <3>1. CASE status[run.op] = "writing"
      <4>1. rec[run.op].kind = "place" /\ Behind(run.op, live)
        BY <2>3 DEF Confirm, Recovered, Sound, Phase, RunPhase, PlanAt, Resting, RunStory, VerifiedAt, Verified
      <4>. QED  BY <1>1, <2>3, <3>1, <4>1, DecidesMove
    <3>2. CASE status[run.op] # "writing"
      BY <1>1, <2>3, <3>2, EventSaysNothing DEF Event
    <3>. QED  BY <3>1, <3>2
  <2>4. PICK o \in Ops, e \in Event :
          /\ UNCHANGED rec /\ status' = With(o, e)
          /\ \/ e = "abandoned" /\ status[o] = "preparing" /\ List
             \/ /\ o = run.op
                /\ \/ Abandon /\ e = "abandoned" /\ status[o] \in {"preparing", "writing"}
                   \/ Confirm /\ e = "validated" /\ status[o] \in {"writing", "recovered"}
                   \/ Close /\ e = "done" /\ status[o] = "validated" /\ run.plan.kind = "place"
                   \/ Close /\ e = "done" /\ status[o] = "preparing" /\ run.plan.kind = "keep"
                   \/ Report /\ e = "rolled_back" /\ status[o] = "writing" /\ ~run.problem
                   \/ Report /\ e = "failed" /\ status[o] = "writing"
                   \/ Recovered /\ e = "recovered" /\ status[o] \in {"writing", "validated"}
                   \/ ReportBack /\ e = "recovered" /\ status[o] \in Begun /\ ~run.problem
                   \/ RolledBack /\ e = "rolled_back" /\ status[o] = "recovered"
                   \/ Left /\ e = "left" /\ status[o] \in Begun
    BY SMTT(30), <1>4, Events
  <2>5. CASE e = "abandoned" /\ status[o] = "preparing"
    BY <2>1, <2>4, <2>5
  <2>6. CASE o = run.op /\ Abandon /\ e = "abandoned" /\ status[o] = "writing"
    <3>1. WrittenUpto(0)
      BY <2>6 DEF Abandon, RunStory, WrittenAt
    <3>. QED  BY <2>2, <2>4, <2>6, <3>1 DEF Undecided
  <2>7. CASE o = run.op /\ (Confirm \/ Recovered) /\ e \in {"validated", "recovered"}
             /\ status[o] \in {"writing", "validated", "recovered"}
    BY <2>3, <2>4, <2>7
  <2>8. CASE e = "done" /\ status[o] = "preparing"
    BY <1>1, <2>4, <2>8, UnwrittenHold, DecidesNothing DEF Unwritten, Undecided
  <2>9. CASE o = run.op /\ Report /\ e = "rolled_back" /\ status[o] = "writing" /\ ~run.problem
    <3>1. WrittenUpto(0)
      BY <2>9, PutBack DEF Report
    <3>. QED  BY <2>2, <2>4, <2>9, <3>1 DEF Undecided
  <2>10. CASE o = run.op /\ ReportBack /\ e = "recovered" /\ status[o] \in Begun /\ ~run.problem
    <3>1. WrittenUpto(0)
      BY <2>10, PutBack DEF ReportBack
    <3>2. Undecided(run.op)
      BY <2>10 DEF ReportBack, Course, Decided, Begun, Undecided
    <3>. QED  BY <2>2, <2>4, <2>10, <3>1, <3>2
  <2>11. CASE \/ e = "done" /\ status[o] = "validated"
              \/ e = "failed" /\ status[o] = "writing"
              \/ e = "rolled_back" /\ status[o] = "recovered"
    BY <1>1, <2>4, <2>11, EventSaysNothing DEF Undecided, Event
  <2>12. CASE e = "left" /\ status[o] \in Begun
    <3>1. rec[o].kind = "place"
      BY <2>12 DEF Sound, Phase, JournalPhase
    <3>. QED  BY <1>1, <2>4, <2>12, <3>1, LeavesPromise
  <2>. QED  BY SMTT(30), <2>4, <2>5, <2>6, <2>7, <2>8, <2>9, <2>10, <2>11, <2>12
<1>. QED  BY <1>2, <1>3, <1>4

\* A plan is recorded with an event.
LEMMA PlansAreJournaled ==
  ASSUME Base, [Next]_vars, UNCHANGED status
  PROVE  UNCHANGED rec
<1>. USE DEF Base, Tale
<1>1. status \in [Ops -> Event]
  BY DEF Sound, Shape, JournalOK
<1>2. ~Begins
  <2>1. \A o, kind, ts, ord, step : o \in Ops => ~Begin(o, kind, ts, ord, step)
    BY <1>1 DEF Begin, With
  <2>. QED  BY <2>1 DEF Begins, Start, KeepCopy
<1>3. ~(Intend /\ Intended)
  BY <1>1 DEF Intend, Intended, With, Sound, Shape, RunOK, Resting, Phase, RunPhase, StatusAt, Early
<1>4. CASE Execute
  BY <1>2, <1>3, <1>4 DEF Execute, Begins, Preserve, Snapshot, Prepare, Intend, Mark, Probe, Abandon, Unmark, Stage, Check,
     Rename, Validate, Confirm, Finalize, RecordOplog, RecordLineage, Close, Report, Audit, Trace, Copy, Copied, journal,
     CleanAppends, Fails
<1>5. CASE Recover
  BY <1>5 DEF Recover, StartListing, List, EndListing, ReportAuto, Resolve, Rederive, Replan, Recovered, ReportBack,
     RolledBack, Leave, Left, journal
<1>6. CASE Outer \/ UNCHANGED vars
  BY <1>6 DEF Outer, OutsideWrite, GameStarts, GameStops, Crash, vars, journal
<1>. QED  BY <1>4, <1>5, <1>6 DEF Next

LEMMA NextPromise == Base /\ [Next]_vars => [Promise!Next]_(Promise!vars)
<1>. SUFFICES ASSUME Base, [Next]_vars PROVE Promise!Next \/ UNCHANGED Promise!vars
  OBVIOUS
<1>1. CASE ~UNCHANGED status
  BY <1>1, EventPromise DEF Promise!Next
<1>2. CASE UNCHANGED status /\ UNCHANGED live
  BY <1>2, PlansAreJournaled, NothingToSee
<1>3. CASE UNCHANGED status /\ ~UNCHANGED live
  <2>1. UNCHANGED <<rec, status>>
    BY <1>3, WhoWrites
  <2>2. ASSUME NEW f \in Files, Puts(f) PROVE Promise!Next \/ UNCHANGED Promise!vars
    <3>1. PICK o \in Ops, s \in Slots : o = run.op /\ s = Slot
      BY <2>2, PutsAsPlanned DEF Base, Tale
    <3>. QED  BY <2>1, <2>2, <3>1, PutsPromise DEF Promise!Next
  <2>3. ASSUME NEW s \in Slots, NEW f \in Files, OutsideWrite(s, f) PROVE Promise!Next
    BY <2>1, <2>3, OutsidePromise DEF Promise!Next
  <2>. QED  BY <1>3, <2>2, <2>3, WhoWrites
<1>. QED  BY <1>1, <1>2, <1>3

\* Each operation moves its save into all its slots at once or not at all.
THEOREM MovesAtOnce ==
  ASSUME CleanAppends
  PROVE  Spec => MovesAreAtomic
<1>1. Init => Promise!Init
  BY InitPromise
<1>2. Shape /\ Phase /\ Vouched /\ (OpStory /\ RunStory) /\ Course /\ [Next]_vars => [Promise!Next]_(Promise!vars)
  BY NextPromise DEF Base, Tale, Sound
<1>3. Spec => []Course
  BY CourseHolds
<1>. QED  BY <1>1, <1>2, <1>3, ShapeHolds, PhaseHolds, VouchedHolds, StoryHolds, PTL DEF Spec, MovesAreAtomic, Promise!Spec
=============================================================================
