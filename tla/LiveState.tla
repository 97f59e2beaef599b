------------------------------ MODULE LiveState ------------------------------
(***************************************************************************)
(* The state a live operation of core/liveops works on, and the few        *)
(* formulae every part of it uses: the live slots of one account folder,   *)
(* the vault, the operations journal (ops.jsonl) with the records beside   *)
(* it, and the run: what the process holding the live-op lock remembers.   *)
(*                                                                         *)
(* A file's content is one token: who wrote it and when.  Names, bytes,    *)
(* metas and times are abstracted to it: two files are equal exactly when  *)
(* their sha256, size and mtime are.                                       *)
(***************************************************************************)
EXTENDS Naturals, Sequences

CONSTANTS
  Slots,        \* the slots of the account folder
  Files,        \* the file names of one slot: data and meta of both positions
  Data,         \* those of Files that hold a save (the others are its metas)
  Orders,       \* swap orders over Files: the loading position's pair is last
  TargetLists,  \* the target lists an operation may have
  SameSets,     \* the sets of files whose planned content equals the old one
  Filled,       \* the sets of files a slot may hold at the start
  MaxOps,       \* bound: operations started
  MaxOutside,   \* bound: files written by the game or a sync
  MaxCrashes,   \* bound: crashes of the app
  MaxFaults,    \* bound: steps of the app that fail
  Faults        \* the kinds of step that may fail

ASSUME BoundsAreNat == /\ MaxOps \in Nat
                       /\ MaxOutside \in Nat
                       /\ MaxCrashes \in Nat
                       /\ MaxFaults \in Nat

ASSUME PlansAreLists == /\ Data \subseteq Files
                        /\ Orders \subseteq Seq(Files)
                        /\ \A ord \in Orders : \A f \in Files :
                             \E i \in DOMAIN ord : ord[i] = f
                        /\ TargetLists \subseteq Seq(Slots)
                        /\ <<>> \notin TargetLists
                        /\ SameSets \subseteq SUBSET Files
                        /\ Filled \subseteq SUBSET Files

Ops == 1..MaxOps

\* Contents of a live file
Content == [by : {"nobody", "owner", "op", "game"}, n : Nat]
Absent  == [by |-> "nobody", n |-> 0]
First   == [by |-> "owner",  n |-> 0]
Op(o)   == [by |-> "op",     n |-> o]
Game(k) == [by |-> "game",   n |-> k]

Folder == [Slots -> [Files -> Content]]
Copies == Slots \X Files \X Content        \* a content kept for one file
Empty  == [s \in Slots |-> [f \in Files |-> Absent]]

\* What the `writing` event records of an operation; `kind` and `targets` are
\* already in its `preparing` event.
Plan == [kind    : {"none", "place", "keep"},
         targets : Seq(Slots),
         order   : Seq(Files),
         pre     : Folder,
         post    : Folder]
NoPlan == [kind |-> "none", targets |-> <<>>, order |-> <<>>,
           pre |-> Empty, post |-> Empty]

Event == {"none", "preparing", "writing", "validated", "done", "rolled_back",
          "failed", "abandoned", "left", "recovered"}
   \* "left" is `abandoned` with the reason "superseded"
Open  == {"preparing", "writing", "validated", "failed"}

Choice  == {"forward", "back", "leave"}
Outcome == {"nothing", "done", "rolled_back", "failed", "refused", "put_back_instead"}

Step == {"idle", "preserve", "snapshot", "prepare", "intend", "mark", "probe",
         "stage", "check", "rename", "validate", "recovered", "confirm",
         "finalize", "oplog", "lineage", "close", "abandon", "unmark",
         "keep", "restore", "verify", "report", "rolled_back", "audit", "trace",
         "rederive", "replan", "leave", "left", "copy", "copied", "list"}
Mode == {"none", "execute", "forward", "back", "auto", "finish", "leave"}

Run == [pc      : Step,
        op      : Nat,            \* the operation, 0 when idle
        mode    : Mode,
        plan    : Plan,
        at      : Nat,            \* index of the current target
        upto    : Nat,            \* the targets written so far
        todo    : SUBSET Files,   \* files of the current target still to do
        expect  : [Files -> Content],   \* what the swap compares with
        base    : Folder,         \* the folder as it was last read
        snap    : Folder,         \* what the safety snapshot holds
        problem : BOOLEAN,        \* a rollback did not succeed
        next    : Nat,            \* the next op a recovery listing looks at, or 0
        free    : BOOLEAN]        \* the listing found that the game does not run
NoRun == [pc |-> "idle", op |-> 0, mode |-> "none", plan |-> NoPlan,
          at |-> 0, upto |-> 0, todo |-> {},
          expect |-> [f \in Files |-> Absent],
          base |-> Empty, snap |-> Empty, problem |-> FALSE,
          next |-> 0, free |-> FALSE]

VARIABLES
  live,     \* the account folder: slot -> file -> content
  temps,    \* staged files in the folder: <<op, slot, file>>
  vault,    \* what the version store holds (preserve entries, snapshots, kept copies)
  kept,     \* <vault>/rollback-kept
  status,   \* op -> its last lifecycle event in ops.jsonl
  rec,      \* op -> what its events record of the plan
  settled,  \* op -> what its files held when it failed
  oplog,    \* op -> status of its line in oplog.jsonl
  lineage,  \* op -> status of its records in the organizer's lineage
  marker,   \* ops with an open-op marker on this machine
  run,      \* the memory of the process holding the live-op lock
  offered,  \* op -> the choices the recovery list shows the owner
  told,     \* op -> the last outcome the owner was told (history)
  game,     \* the game runs
  outside,  \* how many files the game or a sync has written
  late,     \* outside write -> when it raced with the app (history)
  gone,     \* contents the app replaced and kept nowhere (history)
  crashes, faults

disk    == <<live, temps, vault, kept>>
journal == <<status, rec, settled>>
records == <<oplog, lineage, marker>>
owner   == <<offered, told>>
outer   == <<game, outside, late>>
vars    == <<disk, journal, records, run, owner, outer, gone, crashes, faults>>

-----------------------------------------------------------------------------
\* Failures of a single step

Works       == UNCHANGED faults
Fails(kind) == kind \in Faults /\ faults < MaxFaults /\ faults' = faults + 1

\* The plan at hand

Members(seq) == {seq[i] : i \in DOMAIN seq}
Targets(p)   == Members(p.targets)
Slot         == run.plan.targets[run.at]
Pre(f)       == run.plan.pre[Slot][f]
Post(f)      == run.plan.post[Slot][f]

CopiesOf(folder, S, F) ==
  {<<s, f, folder[s][f]>> : s \in S, f \in F} \ (S \X F \X {Absent})

TempsOf(o) == {t \in temps : t[1] = o}

IsOpen(o) == status[o] \in Open

\* Appends one event.
With(o, e)    == [status EXCEPT ![o] = e]
Journal(o, e) == Works /\ status' = With(o, e)

\* An append fails when the store lock is busy, with nothing appended, or in
\* the write or its fsync: then the line may be in the file all the same.
AppendFails(o, e) == \/ Fails("busy") /\ UNCHANGED status
                     \/ Fails("io") /\ status' \in {status, With(o, e)}

\* append_quietly only logs a failure.
JournalQuietly(o, e) == Journal(o, e) \/ AppendFails(o, e)

Goto(step) == run' = [run EXCEPT !.pc = step]

\* What the owner is told.  A move that is done is no longer offered.
Tell(what) ==
  /\ told' = [told EXCEPT ![run.op] = what]
  /\ offered' = IF what = "done" THEN [offered EXCEPT ![run.op] = {}] ELSE offered

\* The run ends; one that a recovery listing started goes on with the listing.
Resume == IF run.next = 0 THEN NoRun
          ELSE [NoRun EXCEPT !.pc = "list", !.next = run.next, !.free = run.free]
Return(what) == run' = Resume /\ Tell(what)

\* The app puts content c into a live file.  What it replaces is lost when it
\* is a save kept nowhere; the op's own write can be derived again.
Put(s, f, c) ==
  /\ live' = [live EXCEPT ![s][f] = c]
  /\ gone' = gone \cup
       ({<<s, f, x>> : x \in {live[s][f]} \ {Absent, c, run.plan.post[s][f]}}
          \ (vault \cup kept))

LiveTypeOK ==
  /\ live \in Folder
  /\ temps \subseteq Ops \X Slots \X Files
  /\ vault \subseteq Copies
  /\ kept \subseteq Copies
  /\ status \in [Ops -> Event]
  /\ rec \in [Ops -> Plan]
  /\ settled \in [Ops -> SUBSET Copies]
  /\ oplog \in [Ops -> {"none", "done", "rolled_back", "failed"}]
  /\ lineage \in [Ops -> {"none", "done", "rolled_back"}]
  /\ marker \subseteq Ops
  /\ run \in Run
  /\ run.op \in {0} \cup Ops
  /\ offered \in [Ops -> SUBSET Choice]
  /\ told \in [Ops -> Outcome]
  /\ game \in BOOLEAN
  /\ outside \in 0..MaxOutside
  /\ late \in [1..MaxOutside -> {"no", "swap", "forward"}]
  /\ gone \subseteq Copies
  /\ crashes \in 0..MaxCrashes
  /\ faults \in 0..MaxFaults
=============================================================================
