-------------------------- MODULE VaultLayoutProofs --------------------------
(***************************************************************************)
(* Upgrade, fold, freeing and undo lose no backup and no store that an     *)
(* interrupted operation needs (UndoIsReady, VaultIsKept), for any         *)
(* windows, ids and bounds.                                                *)
(*                                                                         *)
(* What is listed is not inductive: a folder may be gone because the store *)
(* has the backup, an entry because the folder is back.  The invariant     *)
(* (Sure) follows each backup through the steps that move it: where store/ *)
(* and the copy are at each step of a job (LayoutAt, CopyAt), what a fold  *)
(* still has to fold (FoldAt), why what is deleted may be (FreeAt), and    *)
(* what an undo took on, what came too late for it and what is back        *)
(* (UndoAt).  The locks say who works alone; what the others can do to the *)
(* vault meanwhile (Beside) takes nothing away from what that job knows.   *)
(***************************************************************************)
EXTENDS VaultLayout, TLAPS

-----------------------------------------------------------------------------
\* Types, and which step belongs to which job.

Ops == {"none", "backup", "upgrade", "cleanup", "fold", "free", "undo", "live"}
Ats == {"idle", "copy", "catalog", "keep", "mark", "sync", "settle", "rename", "record", "format",
        "unmark", "remove", "unmake", "fold", "folded", "judge", "delete", "drop", "freed",
        "compare", "recount", "export", "restore", "out", "live"}
Jobs == [op : Ops, at : Ats, id : Nat, todo : SUBSET Ids, back : SUBSET Ids, ids : SUBSET Ids, round : Nat]

Fits(j) ==
  \/ j = Idle
  \/ j.op = "backup"  /\ j.at \in {"copy", "catalog", "keep"}
  \/ j.op = "upgrade" /\ j.at \in {"mark", "sync", "settle", "rename", "record", "format", "unmark",
                                   "remove", "unmake"}
  \/ j.op = "cleanup" /\ j.at \in {"unmark", "remove", "unmake"}
  \/ j.op = "fold"    /\ j.at \in {"fold", "folded"}
  \/ j.op = "free"    /\ j.at \in {"judge", "delete", "drop", "freed"}
  \/ j.op = "undo"    /\ j.at \in {"compare", "recount", "export", "restore", "out"}
  \/ j.op = "live"    /\ j.at = "live"

JobsFit == job \in [Windows -> Jobs] /\ \A w \in Windows : Fits(job[w])

Places == [Ids -> Contents]

Typed ==
  /\ folder \in Places /\ stored \in Places /\ sound \in [Ids -> BOOLEAN]
  /\ cat \subseteq Ids /\ moved \subseteq Ids /\ made \subseteq Ids /\ late \subseteq Ids
  /\ dir \in [there : BOOLEAN, format : BOOLEAN, marker : {"none", "copying", "rolling-back"}]
  /\ mig \in [copy : {"missing", "none", "named"}, fold : [Ids -> {"none", "verified", "elsewhere"}],
              free : [Ids -> {"none", "freeing", "freed"}]]
  /\ copy \in [at : {"none", "partial", "final"}, folder : Places, cat : SUBSET Ids]
  /\ aside \subseteq Ids \X Contents
  /\ lock \in [{"vault", "upgrade", "live"} -> Windows \cup {Nobody}]
  /\ liveop \in {"none", "running", "open"}

\* Who holds which lock.
Alone     == {"upgrade", "cleanup", "fold", "free", "undo"}
Undoable  == {"mark", "sync", "settle", "rename", "record", "format"}
Commits   == {"rename", "record", "format", "unmark"}
Locks ==
  \A w \in Windows :
    /\ lock["upgrade"] = w <=> job[w].op \in Alone
    /\ lock["live"] = w <=> job[w].op \in {"undo", "live"}
    /\ lock["vault"] = w <=> job[w].op = "upgrade" /\ job[w].at \in Commits

-----------------------------------------------------------------------------
\* The layout: what store/ is at each step of a job.

Is(c) == c \in {"whole", "edited"}

Layout ==
  /\ dir.format \/ dir.marker # "none" => dir.there
  /\ ~dir.format => /\ dir.marker # "rolling-back" /\ liveop = "none"
                    /\ \A i \in Ids : stored[i] = "none"

LayoutAt(w) ==
  LET op == job[w].op  at == job[w].at IN
  /\ at \in {"mark", "sync", "settle", "rename", "record", "format", "remove", "unmake"} => ~dir.format /\ dir.there
  /\ at = "mark" => dir.marker = "none" /\ copy.at = "none"
  /\ at \in {"sync", "settle", "rename", "record", "format"} => dir.marker = "copying"
  /\ at = "unmark" => dir.format /\ dir.marker = "copying"
  /\ op \in {"fold", "free", "undo"} => dir.format
  /\ op = "undo" => liveop = "none" /\ dir.marker \in {"none", "rolling-back"}
  /\ op = "live" => liveop = "running"
  /\ at \in {"export", "restore", "out"} => dir.marker = "rolling-back"

\* The copy is the vault from its comparison to the commit.
SameAsVault == copy.cat = cat /\ \A i \in cat : copy.folder[i] = folder[i]
CopyAt(w) ==
  LET at == job[w].at IN
  /\ at = "rename" => SameAsVault
  /\ at \in {"record", "format"} => copy.at = "none" \/ (copy.at = "final" /\ SameAsVault)
  /\ at = "format" => mig.copy = IF copy.at = "final" THEN "named" ELSE "none"

-----------------------------------------------------------------------------
\* Where a backup is.

\* An undo moved the folder aside and has not restored it: one of the two was edited.
Between(i) == /\ dir.format /\ i \in copy.cat
              /\ <<i, "edited">> \in aside \/ copy.folder[i] = "edited"

Somewhere ==
  /\ made \subseteq cat \cup Kept \cup late
  /\ \A i \in cat : folder[i] # "none" \/ stored[i] # "none" \/ Between(i) \/ i \in late
  /\ copy.cat \subseteq cat \cup Kept
  /\ \A i \in copy.cat : Is(copy.folder[i]) \/ i \in late

Entries ==
  /\ \A i \in Ids : stored[i] # "part" \/ i \in late
  /\ \A i \in Ids : folder[i] = "part" => i \in late \/ (dir.format /\ mig.fold[i] = "verified")
  /\ \A i \in Ids : mig.fold[i] = "verified" => stored[i] # "none"
  /\ \A i \in Ids : ~sound[i] => i \in Kept \cup moved

\* A backup under way has an id of its own.
BackupAt(w) ==
  job[w].op = "backup" =>
    LET i == job[w].id IN
    /\ i \in Ids \ (cat \cup moved \cup Kept)
    /\ \A v \in Windows \ {w} : job[v].op = "backup" => job[v].id # i
    /\ folder[i] = IF job[w].at = "catalog" THEN "whole" ELSE "none"

\* What a fold finds: a whole folder, or half of one that an undo could not put back.
Found(i) == folder[i] # "none" /\ (Is(folder[i]) \/ i \in late)

FoldAt(w) ==
  job[w].op = "fold" =>
    /\ \A i \in job[w].todo : i \in cat /\ Found(i)
    /\ job[w].at = "folded" => /\ job[w].id \in job[w].todo
                               /\ job[w].ids = {} => stored[job[w].id] # "none"

FreeAt(w) ==
  job[w].op = "free" =>
    LET i == job[w].id IN
    /\ StoreIsSound
    /\ job[w].at # "judge" => i \in Kept /\ mig.fold[i] = "verified"
    /\ job[w].at = "delete" => folder[i] = stored[i] \/ ~Is(folder[i])

\* Of an undo: the entries it has to export, those that came while it compared.
Missed(i) == i \in late /\ i \notin cat /\ folder[i] = "none"
Takes(S, T) == T \subseteq S \ copy.cat /\ \A i \in S \ copy.cat : i \in T \/ Missed(i)

UndoAt(w) ==
  job[w].op = "undo" =>
    LET j == job[w] IN
    /\ j.todo \subseteq Kept \ copy.cat /\ j.back \subseteq copy.cat
    /\ \A i \in copy.cat \ j.back : Is(folder[i]) \/ i \in late
    /\ j.at = "compare" => Takes(Kept, j.todo)
    /\ j.at = "recount" => Takes(j.ids, j.todo) /\ j.ids \subseteq Kept
    /\ j.at \in {"export", "restore", "out"} =>
         /\ Takes(Kept, j.ids) /\ j.todo \subseteq j.ids
         /\ \A i \in j.ids \ j.todo : Is(folder[i]) \/ i \in late
    /\ j.at \in {"restore", "out"} => j.todo = {}
    /\ j.at = "out" => j.back = {} /\ copy.cat \cup j.ids \subseteq cat

Sure == /\ Typed /\ JobsFit /\ Locks /\ Layout /\ Somewhere /\ Entries
        /\ \A w \in Windows : LayoutAt(w) /\ CopyAt(w) /\ BackupAt(w) /\ FoldAt(w) /\ FreeAt(w) /\ UndoAt(w)

-----------------------------------------------------------------------------
\* What the proofs need of the constants.
LEMMA IdsAreNat == Ids \subseteq Nat /\ Nobody \notin Windows
  BY LayoutBounds DEF LayoutBounds

-----------------------------------------------------------------------------
\* How each step moves its window's job; no other window's job changes.

Only(w) == /\ job' \in [Windows -> Jobs] /\ \A v \in Windows \ {w} : job'[v] = job[v]
           /\ Fits(job'[w])

Same(w) == /\ job'[w].op = job[w].op /\ job'[w].id = job[w].id /\ job'[w].ids = job[w].ids
           /\ job'[w].todo = job[w].todo /\ job'[w].back = job[w].back

On(w, op, at)   == job[w].op = op /\ job[w].at = at
Then(w, op, at) == job'[w].op = op /\ job'[w].at = at

\* A job goes on to its next place, with what it has to do.
Goes(w, op, at, next) == Only(w) /\ On(w, op, at) /\ Then(w, op, next) /\ Same(w)

\* What FoldOne has stored, of which folder, under which id (of its own: S = {}).
Folds(i, S) ==
  \/ /\ S = {} /\ stored[i] \in {"none", folder[i]}
     /\ stored' = [stored EXCEPT ![i] = folder[i]] /\ sound' = [sound EXCEPT ![i] = TRUE]
     /\ late' = late
  \/ \E j \in Fresh : /\ S = {j} /\ stored' = [stored EXCEPT ![j] = folder[i]] /\ sound' = sound
                      /\ late' = IF i \in late THEN late \cup {j} ELSE late

LEMMA IdleFits == Idle \in Jobs /\ Fits(Idle)
  BY DEF Idle, Jobs, Ops, Ats, Fits

LEMMA StepMoves ==
  ASSUME JobsFit, NEW w \in Windows, NEW a \in Ats, Step(w, a)
  PROVE  /\ job' \in [Windows -> Jobs] /\ \A v \in Windows \ {w} : job'[v] = job[v]
         /\ Same(w) /\ job'[w].at = a
  BY DEF JobsFit, Jobs, Step, Same

LEMMA EndMoves ==
  ASSUME JobsFit, NEW w \in Windows, End(w)
  PROVE  Only(w) /\ job'[w] = Idle
  BY IdleFits DEF JobsFit, End, Only

LEMMA BeginMoves ==
  ASSUME JobsFit, NEW w \in Windows, NEW j \in Jobs, Fits(j), Begin(w, j)
  PROVE  Only(w) /\ job[w] = Idle /\ job'[w] = j
  BY DEF JobsFit, Begin, Only

LEMMA BackupMoves ==
  ASSUME JobsFit, NEW w \in Windows
  PROVE  /\ StartBackup(w) => /\ Only(w) /\ job[w] = Idle /\ Then(w, "backup", IF Mode = "store" THEN "keep" ELSE "copy")
                              /\ job'[w].id \in Fresh
         /\ CopyFolder(w) => Goes(w, "backup", "copy", "catalog")
         /\ Catalogue(w) => Only(w) /\ On(w, "backup", "catalog") /\ job'[w] = Idle
         /\ KeepInStore(w) => Only(w) /\ On(w, "backup", "keep") /\ job'[w] = Idle
<1>1. ASSUME StartBackup(w)
      PROVE  /\ Only(w) /\ job[w] = Idle /\ Then(w, "backup", IF Mode = "store" THEN "keep" ELSE "copy")
             /\ job'[w].id \in Fresh
  <2>1. PICK i \in Ids : /\ NewId(i)
                         /\ Begin(w, [Idle EXCEPT !.op = "backup", !.id = i, !.at = IF Mode = "store" THEN "keep" ELSE "copy"])
    BY <1>1 DEF StartBackup
  <2> DEFINE j == [Idle EXCEPT !.op = "backup", !.id = i, !.at = IF Mode = "store" THEN "keep" ELSE "copy"]
  <2>2. j \in Jobs /\ Fits(j) /\ j.id = i /\ j.op = "backup" /\ j.at = IF Mode = "store" THEN "keep" ELSE "copy"
    BY IdsAreNat DEF Idle, Jobs, Ops, Ats, Fits
  <2> HIDE DEF j
  <2>3. Only(w) /\ job[w] = Idle /\ job'[w] = j
    BY <2>1, <2>2, BeginMoves DEF j
  <2> QED
    BY <2>1, <2>2, <2>3 DEF Then, NewId
<1>2. ASSUME CopyFolder(w) PROVE Goes(w, "backup", "copy", "catalog")
  <2>1. "catalog" \in Ats BY DEF Ats
  <2> QED
    BY <1>2, <2>1, StepMoves DEF CopyFolder, Goes, Only, On, Then, Same, Fits
<1>3. ASSUME Catalogue(w) PROVE Only(w) /\ On(w, "backup", "catalog") /\ job'[w] = Idle
  BY <1>3, EndMoves DEF Catalogue, JobsFit, Fits, On, Idle
<1>4. ASSUME KeepInStore(w) PROVE Only(w) /\ On(w, "backup", "keep") /\ job'[w] = Idle
  BY <1>4, EndMoves DEF KeepInStore, JobsFit, Fits, On, Idle
<1> QED
  BY <1>1, <1>2, <1>3, <1>4

LEMMA UpgradeMoves ==
  ASSUME JobsFit, Typed, NEW w \in Windows
  PROVE  /\ StartUpgrade(w) => Only(w) /\ job[w] = Idle /\ Then(w, "upgrade", "mark")
         /\ MarkUpgrade(w) => /\ Only(w) /\ On(w, "upgrade", "mark") /\ Same(w)
                              /\ job'[w].at = IF job[w].ids # {} THEN "sync" ELSE "record"
         /\ SyncCopy(w) => Goes(w, "upgrade", "sync", "settle")
         /\ Settle(w) => /\ Only(w) /\ On(w, "upgrade", "settle") /\ Same(w)
                         /\ IF Settled THEN job'[w].at = "rename" ELSE job'[w].at \in {"sync", "remove"}
         /\ RenameCopy(w) => Goes(w, "upgrade", "rename", "record")
         /\ WriteRecord(w) => Goes(w, "upgrade", "record", "format")
         /\ CreateStore(w) => Goes(w, "upgrade", "format", "unmark")
         /\ FailUpgrade(w) => /\ Only(w) /\ Same(w) /\ job'[w].at = "remove"
                              /\ job[w].op = "upgrade" /\ job[w].at \in Undoable
<1>1. ASSUME StartUpgrade(w) PROVE Only(w) /\ job[w] = Idle /\ Then(w, "upgrade", "mark")
  <2> DEFINE j == [Idle EXCEPT !.op = "upgrade", !.at = "mark", !.ids = cat]
  <2>1. j \in Jobs /\ Fits(j) /\ j.op = "upgrade" /\ j.at = "mark"
    BY DEF Idle, Jobs, Ops, Ats, Fits, Typed
  <2> HIDE DEF j
  <2>2. Only(w) /\ job[w] = Idle /\ job'[w] = j
    BY <1>1, <2>1, BeginMoves DEF j, StartUpgrade
  <2> QED
    BY <2>1, <2>2 DEF Then
<1> USE DEF Ats
<1>2. ASSUME MarkUpgrade(w)
      PROVE  /\ Only(w) /\ On(w, "upgrade", "mark") /\ Same(w)
             /\ job'[w].at = IF job[w].ids # {} THEN "sync" ELSE "record"
  <2>1. On(w, "upgrade", "mark")
    BY <1>2 DEF MarkUpgrade, JobsFit, Fits, On, Idle
  <2>2. Step(w, IF job[w].ids # {} THEN "sync" ELSE "record")
    BY <1>2 DEF MarkUpgrade
  <2> QED
    BY <2>1, <2>2, StepMoves DEF Only, On, Same, Fits
<1>3. ASSUME SyncCopy(w) PROVE Goes(w, "upgrade", "sync", "settle")
  BY <1>3, StepMoves DEF SyncCopy, JobsFit, Goes, Only, On, Then, Same, Fits, Idle
<1>4. ASSUME Settle(w)
      PROVE  /\ Only(w) /\ On(w, "upgrade", "settle") /\ Same(w)
             /\ IF Settled THEN job'[w].at = "rename" ELSE job'[w].at \in {"sync", "remove"}
  <2>1. On(w, "upgrade", "settle")
    BY <1>4 DEF Settle, JobsFit, Fits, On, Idle
  <2>2. CASE Settled
    BY <1>4, <2>1, <2>2, StepMoves DEF Settle, Only, On, Same, Fits
  <2>3. CASE ~Settled
    <3>1. job' = [job EXCEPT ![w].round = @ + 1, ![w].at = IF job[w].round = MaxRounds THEN "remove" ELSE "sync"]
      BY <1>4, <2>3 DEF Settle
    <3> QED
      BY <2>1, <2>3, <3>1 DEF JobsFit, Jobs, Only, On, Same, Fits
  <2> QED
    BY <2>2, <2>3
<1>5. ASSUME RenameCopy(w) PROVE Goes(w, "upgrade", "rename", "record")
  BY <1>5, StepMoves DEF RenameCopy, JobsFit, Goes, Only, On, Then, Same, Fits, Idle
<1>6. ASSUME WriteRecord(w) PROVE Goes(w, "upgrade", "record", "format")
  BY <1>6, StepMoves DEF WriteRecord, JobsFit, Goes, Only, On, Then, Same, Fits, Idle
<1>7. ASSUME CreateStore(w) PROVE Goes(w, "upgrade", "format", "unmark")
  BY <1>7, StepMoves DEF CreateStore, JobsFit, Goes, Only, On, Then, Same, Fits, Idle
<1>8. ASSUME FailUpgrade(w)
      PROVE  /\ Only(w) /\ Same(w) /\ job'[w].at = "remove"
             /\ job[w].op = "upgrade" /\ job[w].at \in Undoable
  BY <1>8, StepMoves DEF FailUpgrade, Only, Same, Fits, Undoable
<1> QED
  BY <1>1, <1>2, <1>3, <1>4, <1>5, <1>6, <1>7, <1>8

LEMMA CleanupMoves ==
  ASSUME JobsFit, NEW w \in Windows
  PROVE  /\ Cleanup(w) => /\ Only(w) /\ job[w] = Idle
                          /\ Then(w, "cleanup", IF dir.format THEN "unmark" ELSE "remove")
         /\ RemoveCopy(w) => \E op \in {"upgrade", "cleanup"} : Goes(w, op, "remove", "unmake")
         /\ RemoveStore(w) => /\ Only(w) /\ job'[w] = Idle
                              /\ \E op \in {"upgrade", "cleanup"} : On(w, op, "unmake")
         /\ Unmark(w) => /\ Only(w) /\ job'[w] = Idle
                         /\ \E op \in {"upgrade", "cleanup"} : On(w, op, "unmark")
<1>1. ASSUME Cleanup(w)
      PROVE  Only(w) /\ job[w] = Idle /\ Then(w, "cleanup", IF dir.format THEN "unmark" ELSE "remove")
  <2> DEFINE j == [Idle EXCEPT !.op = "cleanup", !.at = IF dir.format THEN "unmark" ELSE "remove"]
  <2>1. j \in Jobs /\ Fits(j) /\ j.op = "cleanup" /\ j.at = IF dir.format THEN "unmark" ELSE "remove"
    BY DEF Idle, Jobs, Ops, Ats, Fits
  <2>2. job[w] = Idle /\ job' = [job EXCEPT ![w] = j]
    BY <1>1 DEF Cleanup
  <2> HIDE DEF j
  <2> QED
    BY <2>1, <2>2 DEF JobsFit, Only, Then
<1>2. ASSUME RemoveCopy(w) PROVE \E op \in {"upgrade", "cleanup"} : Goes(w, op, "remove", "unmake")
  <2>1. "unmake" \in Ats /\ job[w].op \in {"upgrade", "cleanup"} /\ job[w].at = "remove"
    BY <1>2 DEF RemoveCopy, JobsFit, Fits, Idle, Ats
  <2>2. Goes(w, job[w].op, "remove", "unmake")
    BY <1>2, <2>1, StepMoves DEF RemoveCopy, Goes, Only, On, Then, Same, Fits
  <2> QED
    BY <2>1, <2>2
<1>3. ASSUME RemoveStore(w)
      PROVE  Only(w) /\ job'[w] = Idle /\ \E op \in {"upgrade", "cleanup"} : On(w, op, "unmake")
  BY <1>3, EndMoves DEF RemoveStore, JobsFit, Fits, On, Idle
<1>4. ASSUME Unmark(w)
      PROVE  Only(w) /\ job'[w] = Idle /\ \E op \in {"upgrade", "cleanup"} : On(w, op, "unmark")
  BY <1>4, EndMoves DEF Unmark, JobsFit, Fits, On, Idle
<1> QED
  BY <1>1, <1>2, <1>3, <1>4

LEMMA FoldMoves ==
  ASSUME JobsFit, Typed, NEW w \in Windows
  PROVE  /\ StartFold(w) => Only(w) /\ job[w] = Idle /\ Then(w, "fold", "fold") /\ job'[w].todo = ToFold
         /\ FoldOne(w) => /\ Only(w) /\ On(w, "fold", "fold") /\ Then(w, "fold", "folded")
                          /\ job'[w].todo = job[w].todo /\ job'[w].id \in job[w].todo
                          /\ Folds(job'[w].id, job'[w].ids)
         /\ SaveFold(w) => /\ Only(w) /\ On(w, "fold", "folded") /\ Then(w, "fold", "fold")
                           /\ job'[w].todo = job[w].todo \ {job[w].id}
         /\ EndFold(w) => Only(w) /\ On(w, "fold", "fold") /\ job'[w] = Idle
<1>1. ASSUME StartFold(w)
      PROVE  Only(w) /\ job[w] = Idle /\ Then(w, "fold", "fold") /\ job'[w].todo = ToFold
  <2> DEFINE j == [Idle EXCEPT !.op = "fold", !.at = "fold", !.todo = ToFold]
  <2>1. j \in Jobs /\ Fits(j) /\ j.op = "fold" /\ j.at = "fold" /\ j.todo = ToFold
    BY DEF Idle, Jobs, Ops, Ats, Fits, Typed, ToFold
  <2> HIDE DEF j
  <2>2. Only(w) /\ job[w] = Idle /\ job'[w] = j
    BY <1>1, <2>1, BeginMoves DEF j, StartFold
  <2> QED
    BY <2>1, <2>2 DEF Then
<1>2. ASSUME FoldOne(w)
      PROVE  /\ Only(w) /\ On(w, "fold", "fold") /\ Then(w, "fold", "folded")
             /\ job'[w].todo = job[w].todo /\ job'[w].id \in job[w].todo
             /\ Folds(job'[w].id, job'[w].ids)
  <2>1. PICK i \in job[w].todo : \E S \in SUBSET Ids :
          /\ job' = [job EXCEPT ![w].at = "folded", ![w].id = i, ![w].ids = S]
          /\ Folds(i, S)
    BY <1>2 DEF FoldOne, Fresh, Folds
  <2>2. PICK S \in SUBSET Ids :
          job' = [job EXCEPT ![w].at = "folded", ![w].id = i, ![w].ids = S] /\ Folds(i, S)
    BY <2>1
  <2>3. On(w, "fold", "fold") /\ i \in Nat
    BY <1>2, IdsAreNat DEF FoldOne, JobsFit, Jobs, Fits, On, Idle
  <2>t. job[w] \in Jobs
    BY DEF JobsFit
  <2> DEFINE j == [job[w] EXCEPT !.at = "folded", !.id = i, !.ids = S]
  <2>4. j \in Jobs /\ j.op = "fold" /\ j.at = "folded" /\ j.id = i /\ j.ids = S /\ j.todo = job[w].todo
    BY <2>3, <2>t DEF Jobs, Ats, On
  <2>5. job' = [job EXCEPT ![w] = j]
    BY <2>2
  <2> HIDE DEF j
  <2>6. Fits(j)
    BY <2>4 DEF Fits
  <2>7. job'[w] = j /\ Only(w)
    BY <2>4, <2>5, <2>6 DEF JobsFit, Only
  <2> QED
    BY <2>2, <2>3, <2>4, <2>7 DEF Then
<1>3. ASSUME SaveFold(w)
      PROVE  /\ Only(w) /\ On(w, "fold", "folded") /\ Then(w, "fold", "fold")
             /\ job'[w].todo = job[w].todo \ {job[w].id}
  <2>1. On(w, "fold", "folded")
    BY <1>3 DEF SaveFold, JobsFit, Fits, On, Idle
  <2> DEFINE j == [job[w] EXCEPT !.at = "fold", !.todo = @ \ {job[w].id}]
  <2>t. job[w] \in Jobs
    BY DEF JobsFit
  <2>2. j \in Jobs /\ j.op = "fold" /\ j.at = "fold" /\ j.todo = job[w].todo \ {job[w].id}
    BY <2>1, <2>t DEF Jobs, Ats, On
  <2>3. job' = [job EXCEPT ![w] = j]
    BY <1>3 DEF SaveFold
  <2> HIDE DEF j
  <2>4. Fits(j)
    BY <2>2 DEF Fits
  <2> QED
    BY <2>1, <2>2, <2>3, <2>4 DEF JobsFit, Only, Then
<1>4. ASSUME EndFold(w) PROVE Only(w) /\ On(w, "fold", "fold") /\ job'[w] = Idle
  BY <1>4, EndMoves DEF EndFold, On
<1> QED
  BY <1>1, <1>2, <1>3, <1>4

LEMMA FreeMoves ==
  ASSUME JobsFit, NEW w \in Windows
  PROVE  /\ StartFree(w) => Only(w) /\ job[w] = Idle /\ Then(w, "free", "judge")
         /\ Judge(w) => /\ Only(w) /\ On(w, "free", "judge") /\ Then(w, "free", "delete")
                        /\ job'[w].id \in Ids /\ Freeable(job'[w].id)
                        /\ mig' = [mig EXCEPT !.free[job'[w].id] = "freeing"]
         /\ DeleteFiles(w) => /\ Only(w) /\ On(w, "free", "delete") /\ Same(w)
                              /\ job'[w].at \in {"drop", "judge"}
         /\ DropCatalogEntry(w) => Goes(w, "free", "drop", "freed")
         /\ SaveFreed(w) => Goes(w, "free", "freed", "judge")
         /\ EndFree(w) => Only(w) /\ On(w, "free", "judge") /\ job'[w] = Idle
<1>1. ASSUME StartFree(w) PROVE Only(w) /\ job[w] = Idle /\ Then(w, "free", "judge")
  <2> DEFINE j == [Idle EXCEPT !.op = "free", !.at = "judge"]
  <2>1. j \in Jobs /\ Fits(j) /\ j.op = "free" /\ j.at = "judge"
    BY DEF Idle, Jobs, Ops, Ats, Fits
  <2> HIDE DEF j
  <2>2. Only(w) /\ job[w] = Idle /\ job'[w] = j
    BY <1>1, <2>1, BeginMoves DEF j, StartFree
  <2> QED
    BY <2>1, <2>2 DEF Then
<1>2. ASSUME Judge(w)
      PROVE  /\ Only(w) /\ On(w, "free", "judge") /\ Then(w, "free", "delete")
             /\ job'[w].id \in Ids /\ Freeable(job'[w].id)
             /\ mig' = [mig EXCEPT !.free[job'[w].id] = "freeing"]
  <2>1. PICK i \in Ids : /\ Freeable(i) /\ mig' = [mig EXCEPT !.free[i] = "freeing"]
                         /\ job' = [job EXCEPT ![w].at = "delete", ![w].id = i]
    BY <1>2 DEF Judge
  <2>2. On(w, "free", "judge") /\ i \in Nat
    BY <1>2, IdsAreNat DEF Judge, JobsFit, Fits, On, Idle
  <2> DEFINE j == [job[w] EXCEPT !.at = "delete", !.id = i]
  <2>t. job[w] \in Jobs
    BY DEF JobsFit
  <2>3. j \in Jobs /\ j.op = "free" /\ j.at = "delete" /\ j.id = i
    BY <2>2, <2>t DEF Jobs, Ats, On
  <2>4. job' = [job EXCEPT ![w] = j]
    BY <2>1
  <2> HIDE DEF j
  <2>5. Fits(j)
    BY <2>3 DEF Fits
  <2>6. Only(w) /\ job'[w] = j
    BY <2>3, <2>4, <2>5 DEF JobsFit, Only
  <2> QED
    BY <2>1, <2>2, <2>3, <2>6 DEF Then
<1> USE DEF Ats
<1>3. ASSUME DeleteFiles(w)
      PROVE  Only(w) /\ On(w, "free", "delete") /\ Same(w) /\ job'[w].at \in {"drop", "judge"}
  <2>1. On(w, "free", "delete")
    BY <1>3 DEF DeleteFiles, JobsFit, Fits, On, Idle
  <2>2. PICK a \in {"drop", "judge"} : Step(w, a)
    BY <1>3 DEF DeleteFiles
  <2> QED
    BY <2>1, <2>2, StepMoves DEF Only, On, Same, Fits
<1>4. ASSUME DropCatalogEntry(w) PROVE Goes(w, "free", "drop", "freed")
  BY <1>4, StepMoves DEF DropCatalogEntry, JobsFit, Goes, Only, On, Then, Same, Fits, Idle
<1>5. ASSUME SaveFreed(w) PROVE Goes(w, "free", "freed", "judge")
  BY <1>5, StepMoves DEF SaveFreed, JobsFit, Goes, Only, On, Then, Same, Fits, Idle
<1>6. ASSUME EndFree(w) PROVE Only(w) /\ On(w, "free", "judge") /\ job'[w] = Idle
  BY <1>6, EndMoves DEF EndFree, JobsFit, Fits, On, Idle
<1> QED
  BY <1>1, <1>2, <1>3, <1>4, <1>5, <1>6

\* An undo's place and what it has to do.
Has(w, at, todo, back, ids) ==
  /\ Then(w, "undo", at) /\ job'[w].todo = todo /\ job'[w].back = back /\ job'[w].ids = ids

LEMMA UndoRecord ==
  ASSUME JobsFit, NEW w \in Windows, NEW j \in Jobs, j.op = "undo",
         j.at \in {"compare", "recount", "export", "restore", "out"}, job' = [job EXCEPT ![w] = j]
  PROVE  Only(w) /\ Has(w, j.at, j.todo, j.back, j.ids)
<1>1. Fits(j)
  BY DEF Fits
<1> QED
  BY <1>1 DEF JobsFit, Only, Has, Then

LEMMA UndoMoves ==
  ASSUME JobsFit, Typed, NEW w \in Windows
  PROVE  /\ StartUndo(w) => Only(w) /\ job[w] = Idle /\ Has(w, "compare", Exports, Restores, {})
         /\ CountEntries(w) => /\ Only(w) /\ On(w, "undo", "compare")
                               /\ Has(w, "recount", job[w].todo, job[w].back, Kept)
         /\ MarkUndo(w) => /\ Only(w) /\ On(w, "undo", "recount")
                           /\ IF SameEntries(w) THEN Has(w, "export", job[w].todo, job[w].back, job[w].todo)
                                                ELSE job'[w] = Idle
         /\ ExportsDone(w) => /\ Only(w) /\ On(w, "undo", "export")
                              /\ Has(w, "restore", job[w].todo, job[w].back, job[w].ids)
         /\ UniteCatalogs(w) => /\ Only(w) /\ On(w, "undo", "restore")
                                /\ Has(w, "out", job[w].todo, job[w].back, job[w].ids)
         /\ MoveStoreOut(w) => Only(w) /\ On(w, "undo", "out") /\ job'[w] = Idle
         /\ StopUndo(w) => /\ Only(w) /\ job[w].op = "undo" /\ job'[w] = Idle
                           /\ job[w].at \in {"export", "restore", "out"}
<1>1. ASSUME StartUndo(w)
      PROVE  Only(w) /\ job[w] = Idle /\ Has(w, "compare", Exports, Restores, {})
  <2> DEFINE j == [Idle EXCEPT !.op = "undo", !.at = "compare", !.todo = Exports, !.back = Restores]
  <2>1. Exports \in SUBSET Ids /\ Restores \in SUBSET Ids
    BY DEF Exports, Restores, Kept, Typed
  <2>2. j \in Jobs /\ Fits(j) /\ j.op = "undo" /\ j.at = "compare" /\ j.todo = Exports /\ j.back = Restores /\ j.ids = {}
    BY <2>1 DEF Idle, Jobs, Ops, Ats, Fits
  <2> HIDE DEF j
  <2>3. Only(w) /\ job[w] = Idle /\ job'[w] = j
    BY <1>1, <2>2, BeginMoves DEF j, StartUndo
  <2> QED
    BY <2>2, <2>3 DEF Has, Then
<1>2. ASSUME CountEntries(w)
      PROVE  Only(w) /\ On(w, "undo", "compare") /\ Has(w, "recount", job[w].todo, job[w].back, Kept)
  <2>1. On(w, "undo", "compare")
    BY <1>2 DEF CountEntries, JobsFit, Fits, On, Idle
  <2>t. job[w] \in Jobs /\ Kept \in SUBSET Ids
    BY DEF JobsFit, Kept
  <2> DEFINE j == [job[w] EXCEPT !.at = "recount", !.ids = Kept]
  <2>2. /\ j \in Jobs /\ j.op = "undo" /\ j.at = "recount" /\ j.ids = Kept
        /\ j.todo = job[w].todo /\ j.back = job[w].back
    BY <2>1, <2>t DEF Jobs, Ats, On
  <2>3. job' = [job EXCEPT ![w] = j]
    BY <1>2 DEF CountEntries
  <2> HIDE DEF j
  <2> QED
    BY <2>1, <2>2, <2>3, UndoRecord
<1>3. ASSUME MarkUndo(w)
      PROVE  /\ Only(w) /\ On(w, "undo", "recount")
             /\ IF SameEntries(w) THEN Has(w, "export", job[w].todo, job[w].back, job[w].todo)
                                  ELSE job'[w] = Idle
  <2>1. On(w, "undo", "recount")
    BY <1>3 DEF MarkUndo, JobsFit, Fits, On, Idle
  <2>2. CASE SameEntries(w)
    <3> DEFINE j == [job[w] EXCEPT !.at = "export", !.ids = job[w].todo]
    <3>1. /\ j \in Jobs /\ j.op = "undo" /\ j.at = "export" /\ j.ids = job[w].todo
          /\ j.todo = job[w].todo /\ j.back = job[w].back
      BY <2>1 DEF JobsFit, Jobs, Ats, On
    <3>2. job' = [job EXCEPT ![w] = j]
      BY <1>3, <2>2 DEF MarkUndo
    <3> HIDE DEF j
    <3> QED
      BY <2>1, <2>2, <3>1, <3>2, UndoRecord
  <2>3. CASE ~SameEntries(w)
    BY <1>3, <2>1, <2>3, EndMoves DEF MarkUndo
  <2> QED
    BY <2>2, <2>3
<1> USE DEF Ats
<1>4. ASSUME ExportsDone(w)
      PROVE  Only(w) /\ On(w, "undo", "export") /\ Has(w, "restore", job[w].todo, job[w].back, job[w].ids)
  BY <1>4, StepMoves DEF ExportsDone, JobsFit, Has, Only, On, Then, Same, Fits, Idle
<1>5. ASSUME UniteCatalogs(w)
      PROVE  Only(w) /\ On(w, "undo", "restore") /\ Has(w, "out", job[w].todo, job[w].back, job[w].ids)
  BY <1>5, StepMoves DEF UniteCatalogs, JobsFit, Has, Only, On, Then, Same, Fits, Idle
<1>6. ASSUME MoveStoreOut(w) PROVE Only(w) /\ On(w, "undo", "out") /\ job'[w] = Idle
  BY <1>6, EndMoves DEF MoveStoreOut, JobsFit, Fits, On, Idle
<1>7. ASSUME StopUndo(w)
      PROVE  Only(w) /\ job[w].op = "undo" /\ job'[w] = Idle /\ job[w].at \in {"export", "restore", "out"}
  BY <1>7, EndMoves DEF StopUndo
<1> QED
  BY <1>1, <1>2, <1>3, <1>4, <1>5, <1>6, <1>7

\* One folder of an undo: moved aside, or put in place and done with.
PutsBack(w, i, there) ==
  \/ /\ folder[i] \notin {"none", there} /\ job' = job
     /\ aside' = aside \cup {<<i, folder[i]>>} /\ folder' = [folder EXCEPT ![i] = "none"]
  \/ /\ folder[i] \in {"none", there} /\ Only(w) /\ aside' = aside
     /\ folder' = [folder EXCEPT ![i] = there]

LEMMA RestoringMoves ==
  ASSUME JobsFit, NEW w \in Windows
  PROVE  /\ Export(w) => /\ On(w, "undo", "export")
                         /\ \E i \in job[w].todo :
                              /\ sound[i] /\ PutsBack(w, i, stored[i])
                              /\ job' # job => Has(w, "export", job[w].todo \ {i}, job[w].back, job[w].ids)
         /\ Restore(w) => /\ On(w, "undo", "restore")
                          /\ \E i \in job[w].back :
                               /\ PutsBack(w, i, copy.folder[i])
                               /\ job' # job => Has(w, "restore", job[w].todo, job[w].back \ {i}, job[w].ids)
<1>1. ASSUME Export(w)
      PROVE  /\ On(w, "undo", "export")
             /\ \E i \in job[w].todo :
                  /\ sound[i] /\ PutsBack(w, i, stored[i])
                  /\ job' # job => Has(w, "export", job[w].todo \ {i}, job[w].back, job[w].ids)
  <2>1. On(w, "undo", "export")
    BY <1>1 DEF Export, JobsFit, Fits, On, Idle
  <2>2. PICK i \in job[w].todo :
          /\ sound[i]
          /\ \/ folder[i] \notin {"none", stored[i]} /\ MoveAside(w, i)
             \/ /\ folder[i] \in {"none", stored[i]}
                /\ folder' = [folder EXCEPT ![i] = stored[i]]
                /\ job' = [job EXCEPT ![w].todo = @ \ {i}] /\ aside' = aside
    BY <1>1 DEF Export
  <2>3. CASE folder[i] \notin {"none", stored[i]}
    BY <2>1, <2>2, <2>3 DEF PutsBack, MoveAside
  <2>4. CASE folder[i] \in {"none", stored[i]}
    <3> DEFINE j == [job[w] EXCEPT !.todo = @ \ {i}]
    <3>1. /\ j \in Jobs /\ j.op = "undo" /\ j.at = "export" /\ j.ids = job[w].ids
          /\ j.todo = job[w].todo \ {i} /\ j.back = job[w].back
      BY <2>1 DEF JobsFit, Jobs, Ats, On
    <3>2. job' = [job EXCEPT ![w] = j]
      BY <2>2, <2>4
    <3> HIDE DEF j
    <3>3. Only(w) /\ Has(w, "export", job[w].todo \ {i}, job[w].back, job[w].ids)
      BY <3>1, <3>2, UndoRecord
    <3> QED
      BY <2>1, <2>2, <2>4, <3>3 DEF PutsBack
  <2> QED
    BY <2>3, <2>4
<1>2. ASSUME Restore(w)
      PROVE  /\ On(w, "undo", "restore")
             /\ \E i \in job[w].back :
                  /\ PutsBack(w, i, copy.folder[i])
                  /\ job' # job => Has(w, "restore", job[w].todo, job[w].back \ {i}, job[w].ids)
  <2>1. On(w, "undo", "restore")
    BY <1>2 DEF Restore, JobsFit, Fits, On, Idle
  <2>2. PICK i \in job[w].back :
          \/ folder[i] \notin {"none", copy.folder[i]} /\ MoveAside(w, i)
          \/ /\ folder[i] \in {"none", copy.folder[i]}
             /\ folder' = [folder EXCEPT ![i] = copy.folder[i]]
             /\ job' = [job EXCEPT ![w].back = @ \ {i}] /\ aside' = aside
    BY <1>2 DEF Restore
  <2>3. CASE folder[i] \notin {"none", copy.folder[i]}
    BY <2>1, <2>2, <2>3 DEF PutsBack, MoveAside
  <2>4. CASE folder[i] \in {"none", copy.folder[i]}
    <3> DEFINE j == [job[w] EXCEPT !.back = @ \ {i}]
    <3>1. /\ j \in Jobs /\ j.op = "undo" /\ j.at = "restore" /\ j.ids = job[w].ids
          /\ j.back = job[w].back \ {i} /\ j.todo = job[w].todo
      BY <2>1 DEF JobsFit, Jobs, Ats, On
    <3>2. job' = [job EXCEPT ![w] = j]
      BY <2>2, <2>4
    <3> HIDE DEF j
    <3>3. Only(w) /\ Has(w, "restore", job[w].todo, job[w].back \ {i}, job[w].ids)
      BY <3>1, <3>2, UndoRecord
    <3> QED
      BY <2>1, <2>2, <2>4, <3>3 DEF PutsBack
  <2> QED
    BY <2>3, <2>4
<1> QED
  BY <1>1, <1>2

LEMMA LeavingMoves ==
  ASSUME JobsFit, NEW w \in Windows, NotRestored(w)
  PROVE  /\ Only(w) /\ On(w, "undo", "restore")
         /\ UNCHANGED <<folder, cat, dir, stored, sound, mig, copy, aside, moved, lock, liveop, made>>
         /\ \E i \in job[w].back : /\ late' = late \cup {i}
                                   /\ Has(w, "restore", job[w].todo, job[w].back \ {i}, job[w].ids)
<1>1. On(w, "undo", "restore")
  BY DEF NotRestored, JobsFit, Fits, On, Idle
<1>2. PICK i \in job[w].back : job' = [job EXCEPT ![w].back = @ \ {i}] /\ late' = late \cup {i}
  BY DEF NotRestored
<1> DEFINE j == [job[w] EXCEPT !.back = @ \ {i}]
<1>3. /\ j \in Jobs /\ j.op = "undo" /\ j.at = "restore" /\ j.ids = job[w].ids
      /\ j.back = job[w].back \ {i} /\ j.todo = job[w].todo
  BY <1>1 DEF JobsFit, Jobs, Ats, On
<1>4. job' = [job EXCEPT ![w] = j]
  BY <1>2
<1> HIDE DEF j
<1>5. Only(w) /\ Has(w, "restore", job[w].todo, job[w].back \ {i}, job[w].ids)
  BY <1>3, <1>4, UndoRecord
<1> QED
  BY <1>1, <1>2, <1>5 DEF NotRestored

LEMMA OtherMoves ==
  ASSUME JobsFit, NEW w \in Windows
  PROVE  /\ StartLiveOp(w) => Only(w) /\ job[w] = Idle /\ Then(w, "live", "live")
         /\ EndLiveOp(w) => Only(w) /\ On(w, "live", "live") /\ job'[w] = Idle
         /\ Crash(w) => Only(w) /\ job[w] # Idle /\ job'[w] = Idle
<1>1. ASSUME StartLiveOp(w) PROVE Only(w) /\ job[w] = Idle /\ Then(w, "live", "live")
  <2> DEFINE j == [Idle EXCEPT !.op = "live", !.at = "live"]
  <2>1. j \in Jobs /\ Fits(j) /\ j.op = "live" /\ j.at = "live"
    BY DEF Idle, Jobs, Ops, Ats, Fits
  <2> HIDE DEF j
  <2>2. Only(w) /\ job[w] = Idle /\ job'[w] = j
    BY <1>1, <2>1, BeginMoves DEF j, StartLiveOp
  <2> QED
    BY <2>1, <2>2 DEF Then
<1>2. ASSUME EndLiveOp(w) PROVE Only(w) /\ On(w, "live", "live") /\ job'[w] = Idle
  BY <1>2, EndMoves DEF EndLiveOp, JobsFit, Fits, On, Idle
<1>3. ASSUME Crash(w) PROVE Only(w) /\ job[w] # Idle /\ job'[w] = Idle
  BY <1>3, EndMoves DEF Crash
<1> QED
  BY <1>1, <1>2, <1>3

-----------------------------------------------------------------------------
\* Types.

LockTyped == lock \in [{"vault", "upgrade", "live"} -> Windows \cup {Nobody}]

LEMMA EndTyped == ASSUME LockTyped, NEW w \in Windows, End(w) PROVE LockTyped'
  BY DEF LockTyped, End

LEMMA HoldTyped == ASSUME LockTyped, NEW w \in Windows, NEW k \in {"vault", "upgrade", "live"}, Hold(k, w) PROVE LockTyped'
  BY DEF LockTyped, Hold

LEMMA TypedKept ==
  ASSUME Typed, JobsFit, \A w \in Windows : BackupAt(w), Next
  PROVE  Typed'
<1> USE DEF Typed, Places, Contents
<1>l. LockTyped /\ (LockTyped' => lock' \in [{"vault", "upgrade", "live"} -> Windows \cup {Nobody}])
  BY DEF LockTyped
<1>1. ASSUME NEW w \in Windows, BackupStep(w) PROVE Typed'
  <2>1. job[w].op = "backup" => job[w].id \in Ids
    BY DEF BackupAt
  <2>2. CASE StartBackup(w)
    BY <2>2 DEF StartBackup, Begin
  <2>3. CASE CopyFolder(w)
    BY <2>1, <2>3 DEF CopyFolder
  <2>4. CASE Catalogue(w)
    <3>1. LockTyped'
      BY <1>l, <2>4, EndTyped DEF Catalogue
    <3>2. job[w].id \in Ids
      BY <2>1, <2>4, BackupMoves DEF On
    <3> QED
      BY <1>l, <2>4, <3>1, <3>2 DEF Catalogue
  <2>5. CASE KeepInStore(w)
    <3>1. LockTyped'
      BY <1>l, <2>5, EndTyped DEF KeepInStore
    <3>2. job[w].id \in Ids
      BY <2>1, <2>5, BackupMoves DEF On
    <3> QED
      BY <1>l, <2>5, <3>1, <3>2 DEF KeepInStore
  <2> QED
    BY <1>1, <2>2, <2>3, <2>4, <2>5 DEF BackupStep
<1>2. ASSUME NEW w \in Windows, FailUpgrade(w) \/ Crash(w) \/ StartUpgrade(w) PROVE Typed'
  <2>1. CASE FailUpgrade(w)
    BY <2>1 DEF FailUpgrade
  <2>2. CASE Crash(w)
    <3>1. LockTyped'
      BY <1>l, <2>2, EndTyped DEF Crash
    <3> QED
      BY <1>l, <2>2, <3>1 DEF Crash
  <2>3. CASE StartUpgrade(w)
    <3>1. LockTyped'
      BY <1>l, <2>3, HoldTyped DEF StartUpgrade
    <3> QED
      BY <1>l, <2>3, <3>1 DEF StartUpgrade
  <2> QED
    BY <1>2, <2>1, <2>2, <2>3
<1>3. ASSUME NEW w \in Windows, UpgradeStep(w) PROVE Typed'
  <2>1. CASE MarkUpgrade(w) \/ Settle(w) \/ Cleanup(w) \/ Unmark(w)
    BY <2>1 DEF MarkUpgrade, Settle, Cleanup, Unmark, Hold, End
  <2>2. CASE SyncCopy(w)
    BY <2>2 DEF SyncCopy
  <2>3. CASE RenameCopy(w)
    BY <2>3 DEF RenameCopy
  <2>4. CASE WriteRecord(w)
    BY <2>4 DEF WriteRecord, NoRecord
  <2>5. CASE CreateStore(w)
    BY <2>5 DEF CreateStore
  <2>6. CASE RemoveCopy(w)
    BY <2>6 DEF RemoveCopy, NoCopy
  <2>7. CASE RemoveStore(w)
    <3>1. LockTyped'
      BY <1>l, <2>7, EndTyped DEF RemoveStore
    <3> QED
      BY <1>l, <2>7, <3>1 DEF RemoveStore, NoStore, NoRecord
  <2> QED
    BY <1>3, <2>1, <2>2, <2>3, <2>4, <2>5, <2>6, <2>7 DEF UpgradeStep
<1>4. ASSUME NEW w \in Windows, FoldStep(w) PROVE Typed'
  <2>1. CASE StartFold(w) \/ EndFold(w)
    BY <2>1 DEF StartFold, EndFold, Begin, Hold, End
  <2>2. CASE FoldOne(w)
    <3>1. PICK i \in Ids, j \in Ids : stored' = [stored EXCEPT ![j] = folder[i]] /\ sound' \in {sound, [sound EXCEPT ![i] = TRUE]}
      BY <2>2 DEF FoldOne, JobsFit, Jobs, Fresh
    <3>t. folder[i] \in Contents
      OBVIOUS
    <3>5. stored' \in Places
      BY <3>1, <3>t
    <3>6. sound' \in [Ids -> BOOLEAN]
      BY <3>1
    <3>2. stored' \in Places /\ sound' \in [Ids -> BOOLEAN]
      BY <3>5, <3>6
    <3>3. UNCHANGED <<folder, cat, dir, mig, copy, aside, moved, lock, liveop, made>>
      BY <2>2 DEF FoldOne
    <3>4. late' \subseteq Ids
      BY <2>2 DEF FoldOne, Fresh
    <3> QED
      BY <3>2, <3>3, <3>4
  <2>3. CASE SaveFold(w)
    BY <2>3 DEF SaveFold
  <2> QED
    BY <1>4, <2>1, <2>2, <2>3 DEF FoldStep
<1>5. ASSUME NEW w \in Windows, FreeStep(w) PROVE Typed'
  <2>1. CASE StartFree(w) \/ EndFree(w)
    BY <2>1 DEF StartFree, EndFree, Begin, Hold, End
  <2>2. CASE Judge(w) \/ SaveFreed(w)
    BY <2>2 DEF Judge, SaveFreed
  <2>3. CASE DeleteFiles(w) \/ DropCatalogEntry(w)
    BY <2>3 DEF DeleteFiles, DropCatalogEntry
  <2> QED
    BY <1>5, <2>1, <2>2, <2>3 DEF FreeStep
<1>6. ASSUME NEW w \in Windows, UndoStep(w) PROVE Typed'
  <2>1. CASE CountEntries(w) \/ ExportsDone(w) \/ KeepUpgrade(w)
    BY <2>1 DEF CountEntries, KeepUpgrade, ExportsDone
  <2>6. CASE StartUndo(w)
    BY <2>6 DEF StartUndo
  <2>2. CASE MarkUndo(w) \/ StopUndo(w)
    BY <2>2 DEF MarkUndo, StopUndo, End
  <2>3. CASE Export(w) \/ Restore(w)
    BY <2>3 DEF Export, Restore, MoveAside, JobsFit, Jobs
  <2>4. CASE UniteCatalogs(w)
    BY <2>4 DEF UniteCatalogs, Union, JobsFit, Jobs
  <2>5. CASE MoveStoreOut(w)
    BY <2>5 DEF MoveStoreOut, NoCopy, NoStore, NoRecord, Kept, End
  <2>7. CASE NotRestored(w)
    BY <2>7 DEF NotRestored, JobsFit, Jobs
  <2> QED
    BY <1>6, <2>1, <2>2, <2>3, <2>4, <2>5, <2>6, <2>7 DEF UndoStep
<1>7. ASSUME NEW w \in Windows, LiveStep(w) PROVE Typed'
  BY <1>7 DEF LiveStep, StartLiveOp, EndLiveOp, RecoverLiveOp, Begin, Hold, End
<1>8. ASSUME NEW i \in Ids, EditFolder(i) PROVE Typed'
  BY <1>8 DEF EditFolder
<1>9. ASSUME NEW i \in Ids, DamageEntry(i) PROVE Typed'
  BY <1>9 DEF DamageEntry
<1> QED
  BY <1>1, <1>2, <1>3, <1>4, <1>5, <1>6, <1>7, <1>8, <1>9 DEF Next

-----------------------------------------------------------------------------
\* Locks: who is at work alone.

Holds(k, j) == IF k = "upgrade" THEN j.op \in Alone
               ELSE IF k = "live" THEN j.op \in {"undo", "live"}
               ELSE j.op = "upgrade" /\ j.at \in Commits

\* A step of a job that takes no lock and gives none up.
LEMMA LocksStay ==
  ASSUME Locks, NEW w \in Windows, \A v \in Windows \ {w} : job'[v] = job[v], lock' = lock,
         \A k \in {"vault", "upgrade", "live"} : Holds(k, job'[w]) <=> Holds(k, job[w])
  PROVE  Locks'
  BY DEF Locks, Holds

\* A job that ends gives its locks up.
LEMMA LocksEnd ==
  ASSUME Locks, LockTyped, NEW w \in Windows, Only(w), End(w), job'[w] = Idle
  PROVE  Locks'
<1>1. Nobody \notin Windows
  BY IdsAreNat
<1>2. \A k \in {"vault", "upgrade", "live"} : lock'[k] = IF lock[k] = w THEN Nobody ELSE lock[k]
  BY DEF End, LockTyped
<1>3. ~Holds("vault", Idle) /\ ~Holds("upgrade", Idle) /\ ~Holds("live", Idle)
  BY DEF Holds, Idle, Alone
<1> QED
  BY <1>1, <1>2, <1>3 DEF Locks, Holds, Only

\* A job that takes free locks, and only those its new place has.
LEMMA LocksTaken ==
  ASSUME Locks, NEW w \in Windows, \A v \in Windows \ {w} : job'[v] = job[v],
         \A k \in {"vault", "upgrade", "live"} :
            \/ lock'[k] = lock[k] /\ (Holds(k, job'[w]) <=> Holds(k, job[w]))
            \/ lock[k] = Nobody /\ lock'[k] = w /\ Holds(k, job'[w])
            \/ lock[k] = w /\ lock'[k] = Nobody /\ ~Holds(k, job'[w])
  PROVE  Locks'
  BY IdsAreNat DEF Locks, Holds

LEMMA LocksKept ==
  ASSUME Typed, JobsFit, Locks, Next
  PROVE  Locks'
<1>l. LockTyped
  BY DEF Typed, LockTyped
<1>1. ASSUME NEW w \in Windows, BackupStep(w) PROVE Locks'
  <2>1. CASE StartBackup(w)
    <3>1. Only(w) /\ job[w] = Idle /\ job'[w].op = "backup" /\ lock' = lock
      BY <2>1, BackupMoves DEF StartBackup, Then
    <3> QED
      BY <3>1, LocksStay DEF Only, Holds, Idle, Alone
  <2>2. CASE CopyFolder(w)
    <3>1. Goes(w, "backup", "copy", "catalog") /\ lock' = lock
      BY <2>2, BackupMoves DEF CopyFolder
    <3> QED
      BY <3>1, LocksStay DEF Goes, Only, Holds, Same, On
  <2>3. CASE Catalogue(w) \/ KeepInStore(w)
    BY <1>l, <2>3, BackupMoves, LocksEnd DEF Catalogue, KeepInStore
  <2> QED
    BY <1>1, <2>1, <2>2, <2>3 DEF BackupStep
<1>2. ASSUME NEW w \in Windows, StartUpgrade(w) \/ FailUpgrade(w) PROVE Locks'
  <2>1. CASE StartUpgrade(w)
    <3>1. Only(w) /\ job[w] = Idle /\ Then(w, "upgrade", "mark") /\ Hold("upgrade", w)
      BY <2>1, UpgradeMoves DEF StartUpgrade
    <3> QED
      BY <1>l, <3>1, LocksTaken DEF Only, Holds, Hold, Idle, Alone, Commits, Then, LockTyped
  <2>2. CASE FailUpgrade(w)
    <3>1. /\ Only(w) /\ Same(w) /\ job'[w].at = "remove"
          /\ job[w].op = "upgrade" /\ job[w].at \in Undoable
          /\ lock' = [lock EXCEPT !["vault"] = IF @ = w THEN Nobody ELSE @]
      BY <2>2, UpgradeMoves DEF FailUpgrade
    <3> QED
      <4>1. lock["vault"] = w <=> job[w].at \in Commits
        BY <3>1 DEF Locks
      <4> QED
        BY <1>l, <3>1, <4>1, LocksTaken DEF Only, Same, Holds, Alone, Commits, LockTyped
  <2> QED
    BY <1>2, <2>1, <2>2
<1>3. ASSUME NEW w \in Windows, UpgradeStep(w) PROVE Locks'
  <2>1. CASE MarkUpgrade(w)
    <3>1. /\ Only(w) /\ Same(w) /\ On(w, "upgrade", "mark")
          /\ \/ job'[w].at = "sync" /\ lock' = lock
             \/ job'[w].at = "record" /\ Hold("vault", w)
      BY <2>1, UpgradeMoves DEF MarkUpgrade
    <3> QED
      BY <1>l, <3>1, LocksTaken DEF Only, Same, On, Holds, Hold, Alone, Commits, LockTyped
  <2>2. CASE Settle(w)
    <3>1. /\ Only(w) /\ Same(w) /\ On(w, "upgrade", "settle")
          /\ \/ job'[w].at \in {"sync", "remove"} /\ lock' = lock
             \/ job'[w].at = "rename" /\ Hold("vault", w)
      BY <2>2, UpgradeMoves DEF Settle
    <3> QED
      BY <1>l, <3>1, LocksTaken DEF Only, Same, On, Holds, Hold, Alone, Commits, LockTyped
  <2>3. CASE SyncCopy(w) \/ RenameCopy(w) \/ WriteRecord(w) \/ CreateStore(w)
    <3>1. /\ lock' = lock
          /\ \/ Goes(w, "upgrade", "sync", "settle")
             \/ \E a, b \in Commits : Goes(w, "upgrade", a, b)
      BY <2>3, UpgradeMoves DEF SyncCopy, RenameCopy, WriteRecord, CreateStore, Commits
    <3> QED
      BY <3>1, LocksStay DEF Goes, Only, On, Then, Same, Holds, Commits
  <2>4. CASE Cleanup(w)
    <3>1. Only(w) /\ job[w] = Idle /\ job'[w].op = "cleanup" /\ Hold("upgrade", w)
      BY <2>4, CleanupMoves DEF Cleanup, Then
    <3> QED
      BY <1>l, <3>1, LocksTaken DEF Only, Holds, Hold, Idle, Alone, Commits, LockTyped
  <2>5. CASE RemoveCopy(w)
    <3>1. lock' = lock /\ \E op \in {"upgrade", "cleanup"} : Goes(w, op, "remove", "unmake")
      BY <2>5, CleanupMoves DEF RemoveCopy
    <3> QED
      BY <3>1, LocksStay DEF Goes, Only, On, Then, Same, Holds, Commits
  <2>6. CASE RemoveStore(w) \/ Unmark(w)
    BY <1>l, <2>6, CleanupMoves, LocksEnd DEF RemoveStore, Unmark
  <2> QED
    BY <1>3, <2>1, <2>2, <2>3, <2>4, <2>5, <2>6 DEF UpgradeStep
<1>4. ASSUME NEW w \in Windows, FoldStep(w) PROVE Locks'
  <2>1. CASE StartFold(w)
    <3>1. Only(w) /\ job[w] = Idle /\ Then(w, "fold", "fold") /\ Hold("upgrade", w)
      BY <2>1, FoldMoves DEF StartFold
    <3> QED
      BY <1>l, <3>1, LocksTaken DEF Only, Holds, Hold, Idle, Alone, Then, LockTyped
  <2>2. CASE FoldOne(w) \/ SaveFold(w)
    <3>1. Only(w) /\ lock' = lock /\ job[w].op = "fold" /\ job'[w].op = "fold"
      BY <2>2, FoldMoves DEF FoldOne, SaveFold, On, Then
    <3> QED
      BY <3>1, LocksStay DEF Only, Holds
  <2>3. CASE EndFold(w)
    BY <1>l, <2>3, FoldMoves, LocksEnd DEF EndFold
  <2> QED
    BY <1>4, <2>1, <2>2, <2>3 DEF FoldStep
<1>5. ASSUME NEW w \in Windows, FreeStep(w) PROVE Locks'
  <2>1. CASE StartFree(w)
    <3>1. Only(w) /\ job[w] = Idle /\ Then(w, "free", "judge") /\ Hold("upgrade", w)
      BY <2>1, FreeMoves DEF StartFree
    <3> QED
      BY <1>l, <3>1, LocksTaken DEF Only, Holds, Hold, Idle, Alone, Then, LockTyped
  <2>2. CASE Judge(w) \/ DeleteFiles(w) \/ DropCatalogEntry(w) \/ SaveFreed(w)
    <3>1. Only(w) /\ lock' = lock /\ job[w].op = "free" /\ job'[w].op = "free"
      BY <2>2, FreeMoves DEF Judge, DeleteFiles, DropCatalogEntry, SaveFreed, On, Then, Goes, Same
    <3> QED
      BY <3>1, LocksStay DEF Only, Holds
  <2>3. CASE EndFree(w)
    BY <1>l, <2>3, FreeMoves, LocksEnd DEF EndFree
  <2> QED
    BY <1>5, <2>1, <2>2, <2>3 DEF FreeStep
<1>6. ASSUME NEW w \in Windows, UndoStep(w) PROVE Locks'
  <2>1. CASE StartUndo(w)
    <3>1. /\ Only(w) /\ job[w] = Idle /\ job'[w].op = "undo" /\ lock["live"] = Nobody /\ lock["upgrade"] = Nobody
          /\ lock' = [lock EXCEPT !.live = w, !.upgrade = w]
      BY <2>1, UndoMoves DEF StartUndo, Has, Then, NoLiveOps, IsFree
    <3> QED
      BY <1>l, <3>1, LocksTaken DEF Only, Holds, Idle, Alone, LockTyped
  <2>2. CASE CountEntries(w) \/ ExportsDone(w) \/ UniteCatalogs(w) \/ NotRestored(w) \/ (MarkUndo(w) /\ SameEntries(w))
    <3>1. Only(w) /\ lock' = lock /\ job[w].op = "undo" /\ job'[w].op = "undo"
      BY <2>2, UndoMoves, LeavingMoves DEF CountEntries, ExportsDone, UniteCatalogs, MarkUndo, On, Has, Then
    <3> QED
      BY <3>1, LocksStay DEF Only, Holds
  <2>3. CASE Export(w) \/ Restore(w)
    <3>1. lock' = lock /\ job[w].op = "undo" /\ (job' = job \/ (Only(w) /\ job'[w].op = "undo"))
      BY <2>3, RestoringMoves DEF Export, Restore, MoveAside, PutsBack, On, Has, Then
    <3> QED
      BY <3>1, LocksStay DEF Only, Holds
  <2>4. CASE MoveStoreOut(w) \/ StopUndo(w) \/ (MarkUndo(w) /\ ~SameEntries(w))
    BY <1>l, <2>4, UndoMoves, LocksEnd DEF MoveStoreOut, StopUndo, MarkUndo
  <2>5. CASE KeepUpgrade(w)
    BY <2>5 DEF KeepUpgrade, Locks
  <2> QED
    BY <1>6, <2>1, <2>2, <2>3, <2>4, <2>5 DEF UndoStep
<1>7. ASSUME NEW w \in Windows, LiveStep(w) \/ Crash(w) PROVE Locks'
  <2>1. CASE StartLiveOp(w)
    <3>1. Only(w) /\ job[w] = Idle /\ Then(w, "live", "live") /\ Hold("live", w)
      BY <2>1, OtherMoves DEF StartLiveOp
    <3> QED
      BY <1>l, <3>1, LocksTaken DEF Only, Holds, Hold, Idle, Alone, Then, LockTyped
  <2>2. CASE EndLiveOp(w) \/ Crash(w)
    BY <1>l, <2>2, OtherMoves, LocksEnd DEF EndLiveOp, Crash
  <2>3. CASE RecoverLiveOp(w)
    BY <2>3 DEF RecoverLiveOp, Locks
  <2> QED
    BY <1>7, <2>1, <2>2, <2>3 DEF LiveStep
<1>8. ASSUME NEW i \in Ids, EditFolder(i) \/ DamageEntry(i) PROVE Locks'
  BY <1>8 DEF EditFolder, DamageEntry, Locks
<1> QED
  BY <1>1, <1>2, <1>3, <1>4, <1>5, <1>6, <1>7, <1>8 DEF Next

LEMMA Exclusive ==
  ASSUME Locks, NEW v \in Windows
  PROVE  /\ \A w \in Windows \ {v} : /\ job[w].op \in Alone => job[v].op \notin Alone
                                     /\ job[w].op \in {"undo", "live"} => job[v].op \notin {"undo", "live"}
         /\ lock["upgrade"] = Nobody => job[v].op \notin Alone
         /\ lock["live"] = Nobody => job[v].op \notin {"undo", "live"}
         /\ lock["vault"] = Nobody => ~(job[v].op = "upgrade" /\ job[v].at \in Commits)
  BY IdsAreNat DEF Locks

-----------------------------------------------------------------------------
\* What store/ is at each step.

\* Jobs that do not work alone do not depend on store/ staying as it is.
LEMMA LayoutOfOthers ==
  ASSUME JobsFit, NEW v \in Windows, job'[v] = job[v], job[v].op \notin Alone,
         job[v].op = "live" => LayoutAt(v) /\ liveop' = liveop
  PROVE  LayoutAt(v)'
<1>1. job[v].at \in {"idle", "copy", "catalog", "keep", "live"} /\ job[v].op \in {"none", "backup", "live"}
  BY DEF JobsFit, Fits, Alone, Idle
<1> QED
  BY <1>1 DEF LayoutAt

\* A step that leaves store/, the live operation and the place of the copy alone.
SameLayout == UNCHANGED <<dir, liveop, copy.at>>

LEMMA LayoutStays ==
  ASSUME SameLayout, NEW v \in Windows, LayoutAt(v), job'[v] = job[v]
  PROVE  LayoutAt(v)'
  BY DEF SameLayout, LayoutAt

LEMMA LayoutKept ==
  ASSUME Typed, JobsFit, Locks, Layout, \A w \in Windows : LayoutAt(w), Next
  PROVE  Layout' /\ \A v \in Windows : LayoutAt(v)'
<1> DEFINE Fine == Layout' /\ \A v \in Windows : LayoutAt(v)'
<1>a. ASSUME NEW w \in Windows, Only(w), SameLayout, LayoutAt(w)', ~dir.format => stored' = stored
      PROVE  Fine
  <2>1. \A v \in Windows : LayoutAt(v)'
    BY <1>a, LayoutStays DEF Only
  <2>2. Layout'
    BY <1>a DEF Layout, SameLayout
  <2> QED
    BY <2>1, <2>2
<1>b. ASSUME NEW w \in Windows, Only(w), job[w].op \in Alone \/ lock["upgrade"] = Nobody, liveop' = liveop,
             LayoutAt(w)', Layout'
      PROVE  Fine
  <2>1. \A v \in Windows \ {w} : job[v].op \notin Alone
    BY <1>b, Exclusive
  <2>2. \A v \in Windows \ {w} : LayoutAt(v)'
    BY <1>b, <2>1, LayoutOfOthers DEF Only
  <2> QED
    BY <1>b, <2>2
<1>1. ASSUME NEW w \in Windows, BackupStep(w) PROVE Fine
  <2>1. Only(w) /\ job'[w].op \in {"backup", "none"}
    BY <1>1, BackupMoves DEF BackupStep, Goes, Then, Idle
  <2>4. SameLayout
    BY <1>1 DEF BackupStep, SameLayout, StartBackup, CopyFolder, Catalogue, KeepInStore
  <2>2. LayoutAt(w)'
    BY <2>1 DEF LayoutAt, Only, Fits, Idle
  <2>3. ~dir.format => stored' = stored
    BY <1>1 DEF BackupStep, StartBackup, CopyFolder, Catalogue, KeepInStore, Mode
  <2> QED
    BY <1>a, <2>1, <2>2, <2>3, <2>4
<1>2. ASSUME NEW w \in Windows, StartUpgrade(w) PROVE Fine
  <2>1. Only(w) /\ Then(w, "upgrade", "mark") /\ MayUpgrade /\ lock["upgrade"] = Nobody
    BY <1>2, UpgradeMoves DEF StartUpgrade, Hold
  <2>2. dir' = [dir EXCEPT !.there = TRUE] /\ UNCHANGED <<liveop, copy, stored>>
    BY <1>2 DEF StartUpgrade
  <2>3. ~dir.format /\ dir.marker = "none" /\ copy.at = "none"
    BY <2>1 DEF MayUpgrade, Mode
  <2>4. LayoutAt(w)'
    BY <2>1, <2>2, <2>3 DEF LayoutAt, Then, Typed
  <2>5. Layout'
    BY <2>2 DEF Layout, Typed
  <2> QED
    BY <1>b, <2>1, <2>2, <2>4, <2>5
<1>3. ASSUME NEW w \in Windows, FailUpgrade(w) PROVE Fine
  <2>1. /\ Only(w) /\ Same(w) /\ job'[w].at = "remove" /\ SameLayout /\ stored' = stored
        /\ job[w].op = "upgrade" /\ job[w].at \in Undoable
    BY <1>3, UpgradeMoves DEF FailUpgrade, SameLayout
  <2>2. LayoutAt(w)'
    BY <2>1 DEF LayoutAt, SameLayout, Same, Undoable
  <2> QED
    BY <1>a, <2>1, <2>2
<1>4. ASSUME NEW w \in Windows, UpgradeStep(w) PROVE Fine
  <2>1. CASE MarkUpgrade(w)
    <3>1. Only(w) /\ Same(w) /\ On(w, "upgrade", "mark") /\ job'[w].at \in {"sync", "record"}
      BY <2>1, UpgradeMoves
    <3>2. dir' = [dir EXCEPT !.marker = "copying"] /\ UNCHANGED <<liveop, copy, stored>>
      BY <2>1 DEF MarkUpgrade
    <3>3. ~dir.format /\ dir.there /\ copy.at = "none"
      BY <3>1 DEF LayoutAt, On
    <3>4. LayoutAt(w)'
      BY <3>1, <3>2, <3>3 DEF LayoutAt, On, Same, Typed
    <3>5. Layout'
      BY <3>2, <3>3 DEF Layout, Typed
    <3> QED
      BY <1>b, <3>1, <3>2, <3>4, <3>5 DEF On, Alone
  <2>2. CASE SyncCopy(w) \/ Settle(w) \/ RenameCopy(w) \/ WriteRecord(w)
    <3>1. /\ Only(w) /\ Same(w) /\ job[w].op = "upgrade" /\ UNCHANGED <<dir, liveop, stored>>
          /\ job[w].at \in {"sync", "settle", "rename", "record"}
          /\ job'[w].at \in {"sync", "settle", "rename", "record", "format", "remove"}
      BY <2>2, UpgradeMoves DEF SyncCopy, Settle, RenameCopy, WriteRecord, Goes, On, Then
    <3>2. LayoutAt(w)'
      BY <3>1 DEF LayoutAt, Same
    <3>3. Layout'
      BY <3>1 DEF Layout
    <3> QED
      BY <1>b, <3>1, <3>2, <3>3 DEF Alone
  <2>3. CASE CreateStore(w)
    <3>1. Goes(w, "upgrade", "format", "unmark")
      BY <2>3, UpgradeMoves
    <3>2. dir' = [dir EXCEPT !.format = TRUE] /\ UNCHANGED liveop
      BY <2>3 DEF CreateStore
    <3>3. ~dir.format /\ dir.there /\ dir.marker = "copying"
      BY <3>1 DEF LayoutAt, Goes, On
    <3>4. LayoutAt(w)'
      BY <3>1, <3>2, <3>3 DEF LayoutAt, Goes, Then, Typed
    <3>5. Layout'
      BY <3>2, <3>3 DEF Layout, Typed
    <3> QED
      BY <1>b, <3>1, <3>2, <3>4, <3>5 DEF Goes, On, Alone
  <2>4. CASE Unmark(w)
    <3>1. Only(w) /\ job'[w] = Idle /\ job[w].op \in Alone /\ job[w].at = "unmark"
      BY <2>4, CleanupMoves DEF On, Alone
    <3>2. dir' = [dir EXCEPT !.marker = "none"] /\ UNCHANGED liveop
      BY <2>4 DEF Unmark
    <3>3. dir.format /\ dir.there
      BY <3>1 DEF LayoutAt, Layout
    <3>4. LayoutAt(w)'
      BY <3>1 DEF LayoutAt, Idle
    <3>5. Layout'
      BY <3>2, <3>3 DEF Layout, Typed
    <3> QED
      BY <1>b, <3>1, <3>2, <3>4, <3>5
  <2>5. CASE Cleanup(w)
    <3>1. /\ Only(w) /\ Then(w, "cleanup", IF dir.format THEN "unmark" ELSE "remove")
          /\ SameLayout /\ stored' = stored /\ dir.marker = "copying"
      BY <2>5, CleanupMoves DEF Cleanup, SameLayout
    <3>2. LayoutAt(w)'
      BY <3>1 DEF LayoutAt, Layout, Then, SameLayout
    <3> QED
      BY <1>a, <3>1, <3>2
  <2>6. CASE RemoveCopy(w)
    <3>1. PICK op \in {"upgrade", "cleanup"} : Goes(w, op, "remove", "unmake")
      BY <2>6, CleanupMoves
    <3>2. UNCHANGED <<dir, liveop, stored>>
      BY <2>6 DEF RemoveCopy
    <3>3. LayoutAt(w)'
      BY <3>1, <3>2 DEF LayoutAt, Goes, On, Then
    <3>4. Layout'
      BY <3>2 DEF Layout
    <3> QED
      BY <1>b, <3>1, <3>2, <3>3, <3>4 DEF Goes, On, Alone
  <2>7. CASE RemoveStore(w)
    <3>1. Only(w) /\ job'[w] = Idle /\ job[w].op \in Alone /\ job[w].at = "unmake"
      BY <2>7, CleanupMoves DEF On, Alone
    <3>2. dir' = NoStore /\ UNCHANGED <<liveop, stored>>
      BY <2>7 DEF RemoveStore
    <3>3. ~dir.format
      BY <3>1 DEF LayoutAt
    <3>4. LayoutAt(w)'
      BY <3>1 DEF LayoutAt, Idle
    <3>5. Layout'
      BY <3>2, <3>3 DEF Layout, NoStore
    <3> QED
      BY <1>b, <3>1, <3>2, <3>4, <3>5
  <2> QED
    BY <1>4, <2>1, <2>2, <2>3, <2>4, <2>5, <2>6, <2>7 DEF UpgradeStep
<1>5. ASSUME NEW w \in Windows, FoldStep(w) PROVE Fine
  <2>1. SameLayout
    BY <1>5 DEF FoldStep, StartFold, FoldOne, SaveFold, EndFold, SameLayout
  <2>2. Only(w) /\ job'[w].op \in {"fold", "none"} /\ (job'[w].op = "none" => job'[w] = Idle)
    BY <1>5, FoldMoves DEF FoldStep, Then, Idle
  <2>3. job[w].op = "fold" \/ dir.format
    BY <1>5, FoldMoves DEF FoldStep, On, StartFold, Mode
  <2>4. dir.format
    BY <2>3 DEF LayoutAt
  <2>5. LayoutAt(w)'
    BY <2>1, <2>2, <2>4 DEF LayoutAt, SameLayout, Only, Fits, Idle
  <2> QED
    BY <1>a, <2>1, <2>2, <2>4, <2>5
<1>6. ASSUME NEW w \in Windows, FreeStep(w) PROVE Fine
  <2>1. SameLayout
    BY <1>6 DEF FreeStep, StartFree, Judge, DeleteFiles, DropCatalogEntry, SaveFreed, EndFree, SameLayout
  <2>2. Only(w) /\ job'[w].op \in {"free", "none"}
    BY <1>6, FreeMoves DEF FreeStep, Then, Idle, Goes, Same, On
  <2>3. job[w].op = "free" \/ dir.format
    BY <1>6, FreeMoves DEF FreeStep, On, Goes, StartFree, Mode
  <2>4. dir.format
    BY <2>3 DEF LayoutAt
  <2>5. LayoutAt(w)'
    BY <2>1, <2>2, <2>4 DEF LayoutAt, SameLayout, Only, Fits, Idle
  <2> QED
    BY <1>a, <2>1, <2>2, <2>4, <2>5
<1>7. ASSUME NEW w \in Windows, UndoStep(w) PROVE Fine
  <2>1. CASE StartUndo(w)
    <3>1. Only(w) /\ Then(w, "undo", "compare") /\ SameLayout /\ stored' = stored /\ MayUndo /\ liveop = "none"
      BY <2>1, UndoMoves DEF StartUndo, Has, NoLiveOps, SameLayout
    <3>2. LayoutAt(w)'
      BY <3>1 DEF LayoutAt, Then, SameLayout, MayUndo
    <3> QED
      BY <1>a, <3>1, <3>2
  <2>2. CASE CountEntries(w) \/ ExportsDone(w) \/ UniteCatalogs(w) \/ NotRestored(w)
    <3>1. /\ Only(w) /\ job[w].op = "undo" /\ job'[w].op = "undo" /\ SameLayout /\ stored' = stored
          /\ \/ job'[w].at \notin {"export", "restore", "out"}
             \/ job[w].at \in {"export", "restore"}
      BY <2>2, UndoMoves, LeavingMoves DEF CountEntries, ExportsDone, UniteCatalogs, On, Has, Then, SameLayout
    <3>2. LayoutAt(w)'
      BY <3>1 DEF LayoutAt, SameLayout, Only, Fits, Idle
    <3> QED
      BY <1>a, <3>1, <3>2
  <2>3. CASE Export(w) \/ Restore(w)
    <3>1. /\ SameLayout /\ stored' = stored /\ job[w].op = "undo" /\ job[w].at \in {"export", "restore"}
          /\ job' = job \/ (Only(w) /\ job'[w].op = "undo" /\ job'[w].at \in {"export", "restore"})
      BY <2>3, RestoringMoves DEF Export, Restore, MoveAside, PutsBack, On, Has, Then, SameLayout
    <3>2. CASE job' = job
      BY <3>1, <3>2, LayoutStays DEF Layout, SameLayout
    <3>3. CASE Only(w) /\ job'[w].op = "undo" /\ job'[w].at \in {"export", "restore"}
      <4>1. LayoutAt(w)'
        BY <3>1, <3>3 DEF LayoutAt, SameLayout
      <4> QED
        BY <1>a, <3>1, <3>3, <4>1
    <3> QED
      BY <3>1, <3>2, <3>3
  <2>4. CASE MarkUndo(w)
    <3>1. Only(w) /\ On(w, "undo", "recount") /\ job'[w].op \in {"undo", "none"} /\ UNCHANGED <<liveop, stored, copy>>
      BY <2>4, UndoMoves DEF MarkUndo, Has, Then, Idle
    <3>2. \/ job'[w].op = "undo" /\ job'[w].at = "export" /\ dir' = [dir EXCEPT !.marker = "rolling-back"]
          \/ job'[w] = Idle /\ dir' = dir
      BY <2>4, UndoMoves DEF MarkUndo, Has, Then
    <3>3. dir.format /\ dir.there /\ liveop = "none"
      BY <3>1 DEF On, LayoutAt, Layout
    <3>4. LayoutAt(w)'
      BY <3>1, <3>2, <3>3 DEF LayoutAt, Typed, Idle
    <3>5. Layout'
      BY <3>1, <3>2, <3>3 DEF Layout, Typed
    <3> QED
      BY <1>b, <3>1, <3>4, <3>5 DEF On, Alone
  <2>5. CASE MoveStoreOut(w)
    <3>1. Only(w) /\ On(w, "undo", "out") /\ job'[w] = Idle /\ dir' = NoStore /\ UNCHANGED liveop
      BY <2>5, UndoMoves DEF MoveStoreOut
    <3>2. \A i \in Ids : stored'[i] = "none"
      BY <2>5 DEF MoveStoreOut
    <3>3. liveop = "none"
      BY <3>1 DEF On, LayoutAt
    <3>4. LayoutAt(w)'
      BY <3>1 DEF LayoutAt, Idle
    <3>5. Layout'
      BY <3>1, <3>2, <3>3 DEF Layout, NoStore
    <3> QED
      BY <1>b, <3>1, <3>4, <3>5 DEF On, Alone
  <2>6. CASE StopUndo(w)
    <3>1. Only(w) /\ job'[w] = Idle /\ SameLayout /\ stored' = stored
      BY <2>6, UndoMoves DEF StopUndo, SameLayout
    <3>2. LayoutAt(w)'
      BY <3>1 DEF LayoutAt, Idle
    <3> QED
      BY <1>a, <3>1, <3>2
  <2>7. CASE KeepUpgrade(w)
    <3>1. /\ lock["upgrade"] = Nobody /\ job' = job /\ UNCHANGED <<liveop, stored>>
          /\ dir.marker = "rolling-back" /\ dir' = [dir EXCEPT !.marker = "none"]
      BY <2>7 DEF KeepUpgrade, IsFree
    <3>2. Layout'
      BY <3>1 DEF Layout, Typed
    <3>3. \A v \in Windows : LayoutAt(v)'
      BY <3>1, Exclusive, LayoutOfOthers
    <3> QED
      BY <3>2, <3>3
  <2> QED
    BY <1>7, <2>1, <2>2, <2>3, <2>4, <2>5, <2>6, <2>7 DEF UndoStep
<1>8. ASSUME NEW w \in Windows, LiveStep(w) PROVE Fine
  <2>1. CASE StartLiveOp(w) \/ EndLiveOp(w)
    <3>1. /\ Only(w) /\ UNCHANGED <<dir, copy, stored>>
          /\ \/ Then(w, "live", "live") /\ liveop' = "running" /\ dir.format /\ lock["live"] = Nobody
             \/ job[w].op = "live" /\ job'[w] = Idle /\ liveop' = "none"
      BY <2>1, OtherMoves DEF StartLiveOp, EndLiveOp, Hold, On, Mode
    <3>2. Layout'
      BY <3>1 DEF Layout
    <3>3. \A v \in Windows \ {w} : job[v].op \notin {"undo", "live"}
      BY <3>1, Exclusive
    <3>4. \A v \in Windows \ {w} : LayoutAt(v)'
      BY <3>1, <3>3 DEF LayoutAt, Only, JobsFit, Fits, Idle
    <3>5. LayoutAt(w)'
      BY <3>1 DEF LayoutAt, Then, Idle
    <3> QED
      BY <3>2, <3>4, <3>5
  <2>2. CASE RecoverLiveOp(w)
    <3>1. UNCHANGED <<dir, copy, stored, job>> /\ liveop' = "none" /\ liveop = "open"
      BY <2>2 DEF RecoverLiveOp
    <3> QED
      BY <3>1 DEF Layout, LayoutAt
  <2> QED
    BY <1>8, <2>1, <2>2 DEF LiveStep
<1>9. ASSUME NEW w \in Windows, Crash(w) PROVE Fine
  <2>1. Only(w) /\ job'[w] = Idle /\ UNCHANGED <<dir, copy, stored>>
    BY <1>9, OtherMoves DEF Crash
  <2>2. LayoutAt(w)'
    BY <2>1 DEF LayoutAt, Idle
  <2>3. CASE job[w].op # "live"
    <3>1. liveop' = liveop
      BY <1>9, <2>3 DEF Crash
    <3> QED
      BY <1>a, <2>1, <2>2, <3>1 DEF SameLayout
  <2>4. CASE job[w].op = "live"
    <3>1. liveop = "running" /\ liveop' = "open"
      BY <1>9, <2>4 DEF Crash, LayoutAt
    <3>2. Layout'
      BY <2>1, <3>1 DEF Layout
    <3>3. \A v \in Windows \ {w} : job[v].op \notin {"undo", "live"}
      BY <2>4, Exclusive
    <3>4. \A v \in Windows \ {w} : LayoutAt(v)'
      BY <2>1, <3>3 DEF LayoutAt, Only, JobsFit, Fits, Idle
    <3> QED
      BY <2>2, <3>2, <3>4
  <2> QED
    BY <2>3, <2>4
<1>10. ASSUME NEW i \in Ids, EditFolder(i) \/ DamageEntry(i) PROVE Fine
  BY <1>10 DEF EditFolder, DamageEntry, Layout, LayoutAt
<1> HIDE DEF Fine
<1>11. Fine
  BY <1>1, <1>2, <1>3, <1>4, <1>5, <1>6, <1>7, <1>8, <1>9, <1>10 DEF Next
<1> QED
  BY <1>11 DEF Fine

-----------------------------------------------------------------------------
\* A window's step moves no other window's job, and leaves its own one of the jobs there are.

LEMMA StaysOthers ==
  ASSUME JobsFit, Typed, NEW w \in Windows,
         \/ BackupStep(w) \/ StartUpgrade(w) \/ UpgradeStep(w) \/ FailUpgrade(w)
         \/ FoldStep(w) \/ FreeStep(w) \/ UndoStep(w) \/ LiveStep(w) \/ Crash(w)
  PROVE  job' = job \/ Only(w)
<1>1. CASE BackupStep(w)
  BY <1>1, BackupMoves DEF BackupStep, Goes
<1>2. CASE StartUpgrade(w) \/ UpgradeStep(w) \/ FailUpgrade(w)
  BY <1>2, UpgradeMoves, CleanupMoves DEF UpgradeStep, Goes
<1>3. CASE FoldStep(w) \/ FreeStep(w)
  BY <1>3, FoldMoves, FreeMoves DEF FoldStep, FreeStep, Goes
<1>4. CASE Export(w) \/ Restore(w) \/ KeepUpgrade(w)
  BY <1>4, RestoringMoves DEF PutsBack, KeepUpgrade
<1>5. CASE UndoStep(w) /\ ~(Export(w) \/ Restore(w) \/ KeepUpgrade(w))
  BY <1>5, UndoMoves, LeavingMoves DEF UndoStep
<1>6. CASE LiveStep(w) \/ Crash(w)
  BY <1>6, OtherMoves DEF LiveStep, RecoverLiveOp
<1> QED
  BY <1>1, <1>2, <1>3, <1>4, <1>5, <1>6

LEMMA FitsKept ==
  ASSUME JobsFit, Typed, Next
  PROVE  JobsFit'
<1>1. ASSUME NEW w \in Windows, Only(w) PROVE JobsFit'
  BY <1>1 DEF JobsFit, Only
<1>2. ASSUME NEW i \in Ids, EditFolder(i) \/ DamageEntry(i) PROVE job' = job
  BY <1>2 DEF EditFolder, DamageEntry
<1>3. job' = job => JobsFit'
  BY DEF JobsFit
<1> QED
  BY <1>1, <1>2, <1>3, StaysOthers DEF Next

-----------------------------------------------------------------------------
\* What can happen while a job is at work alone.

Data == <<folder, cat, dir, stored, sound, mig, copy, aside, moved, made, late>>

\* A step of another window: of its backup, or one that leaves the vault as it is.
LEMMA Company ==
  ASSUME JobsFit, Locks, NEW v \in Windows, job[v].op \in Alone, NEW w \in Windows \ {v},
         \/ BackupStep(w) \/ StartUpgrade(w) \/ UpgradeStep(w) \/ FailUpgrade(w)
         \/ FoldStep(w) \/ FreeStep(w) \/ UndoStep(w) \/ LiveStep(w) \/ Crash(w)
  PROVE  job'[v] = job[v] /\ (BackupStep(w) \/ UNCHANGED Data)
<1>1. job[w].op \notin Alone /\ lock["upgrade"] # Nobody
  BY Exclusive
<1>2. job[w].at \in {"idle", "copy", "catalog", "keep", "live"}
  BY <1>1 DEF JobsFit, Fits, Alone, Idle
<1>3. CASE BackupStep(w)
  BY <1>3, BackupMoves DEF BackupStep, Only, Goes
<1>4. CASE LiveStep(w) \/ Crash(w)
  BY <1>4, OtherMoves DEF LiveStep, StartLiveOp, EndLiveOp, RecoverLiveOp, Crash, Only, Data
<1>5. CASE StartUpgrade(w) \/ UpgradeStep(w) \/ FailUpgrade(w)
  BY <1>1, <1>2, <1>5 DEF StartUpgrade, UpgradeStep, FailUpgrade, MarkUpgrade, SyncCopy, Settle, RenameCopy,
     WriteRecord, CreateStore, Unmark, Cleanup, RemoveCopy, RemoveStore, Hold
<1>6. CASE FoldStep(w) \/ FreeStep(w)
  BY <1>1, <1>2, <1>6 DEF FoldStep, StartFold, FoldOne, SaveFold, EndFold, FreeStep, StartFree, Judge,
     DeleteFiles, DropCatalogEntry, SaveFreed, EndFree, Hold
<1>7. CASE UndoStep(w)
  BY <1>1, <1>2, <1>7 DEF UndoStep, StartUndo, CountEntries, MarkUndo, Export, ExportsDone, Restore, NotRestored,
     UniteCatalogs, MoveStoreOut, StopUndo, KeepUpgrade, IsFree, Alone
<1> QED
  BY <1>3, <1>4, <1>5, <1>6, <1>7

\* The backup's own id is in no list, and in no folder before its own.
\* What they do to the vault, of a backup of an id that is nowhere else in it.
BackedUp(i) ==
  /\ UNCHANGED <<dir, sound, mig, copy, aside, moved>>
  /\ \/ /\ folder[i] = "none" /\ folder' = [folder EXCEPT ![i] = "whole"]
        /\ UNCHANGED <<cat, stored, made, late>>
     \/ /\ lock["vault"] = Nobody /\ Mode # "upgrading" /\ folder[i] = "whole"
        /\ cat' = cat \cup {i} /\ made' = made \cup {i}
        /\ UNCHANGED <<folder, stored, late>>
     \/ /\ lock["vault"] = Nobody /\ folder' = [folder EXCEPT ![i] = "none"]
        /\ UNCHANGED <<cat, stored, made, late>>
     \/ /\ lock["vault"] = Nobody /\ Mode = "store" /\ folder[i] = "none"
        /\ stored' = [stored EXCEPT ![i] = "whole"] /\ made' = made \cup {i}
        /\ late' = IF \E v \in Windows : job[v].at = "compare" THEN late \cup {i} ELSE late
        /\ UNCHANGED <<folder, cat>>

LEMMA BackupIsApart ==
  ASSUME Typed, JobsFit, NEW w \in Windows, BackupAt(w), BackupStep(w)
  PROVE  \/ UNCHANGED Data
         \/ /\ job[w].op = "backup" /\ job[w].id \in Ids \ (cat \cup Kept \cup moved)
            /\ BackedUp(job[w].id)
<1> DEFINE i == job[w].id
<1>1. CASE StartBackup(w)
  BY <1>1 DEF StartBackup, Data
<1>2. ASSUME job[w].op = "backup"
      PROVE  i \in Ids \ (cat \cup Kept \cup moved) /\ folder[i] = IF job[w].at = "catalog" THEN "whole" ELSE "none"
  BY <1>2 DEF BackupAt
<1>3. CASE CopyFolder(w)
  <2>1. job[w].op = "backup" /\ job[w].at # "catalog"
    BY <1>3 DEF CopyFolder
  <2>2. BackedUp(i)
    BY <1>2, <1>3, <2>1 DEF CopyFolder, BackedUp
  <2> QED
    BY <1>2, <2>1, <2>2
<1>4. CASE Catalogue(w)
  <2>1. job[w].op = "backup" /\ job[w].at = "catalog"
    BY <1>4, BackupMoves DEF On
  <2>2. BackedUp(i)
    BY <1>2, <1>4, <2>1 DEF Catalogue, MayCatalogue, IsFree, BackedUp
  <2> QED
    BY <1>2, <2>1, <2>2
<1>5. CASE KeepInStore(w)
  <2>1. job[w].op = "backup" /\ job[w].at = "keep"
    BY <1>5, BackupMoves DEF On
  <2>2. CASE Mode = "store"
    <3>1. BackedUp(i)
      BY <1>2, <1>5, <2>1, <2>2 DEF KeepInStore, IsFree, BackedUp
    <3> QED
      BY <1>2, <2>1, <3>1
  <2>3. CASE Mode # "store"
    BY <1>5, <2>3 DEF KeepInStore, Data
  <2> QED
    BY <2>2, <2>3
<1> QED
  BY <1>1, <1>3, <1>4, <1>5 DEF BackupStep

\* What a job at work alone sees happen to the vault.
Beside ==
  \/ UNCHANGED Data
  \/ \E i \in Ids \ (cat \cup Kept \cup moved) : BackedUp(i)
  \/ \E i \in cat : /\ folder[i] = "whole" /\ folder' = [folder EXCEPT ![i] = "edited"]
                    /\ \A w \in Windows : job[w].at \notin {"delete", "rename", "record", "format"}
                    /\ UNCHANGED <<cat, dir, stored, sound, mig, copy, aside, moved, made, late>>
  \/ \E i \in Kept : /\ sound' = [sound EXCEPT ![i] = FALSE] /\ \A w \in Windows : job[w].op # "free"
                     /\ UNCHANGED <<folder, cat, dir, stored, mig, copy, aside, moved, made, late>>

LEMMA BesideStep ==
  ASSUME Typed, JobsFit, Locks, \A w \in Windows : BackupAt(w), Next
  PROVE  \/ Beside /\ job' = job
         \/ \E w \in Windows :
              /\ \/ BackupStep(w) \/ StartUpgrade(w) \/ UpgradeStep(w) \/ FailUpgrade(w)
                 \/ FoldStep(w) \/ FreeStep(w) \/ UndoStep(w) \/ LiveStep(w) \/ Crash(w)
              /\ \A v \in Windows \ {w} : job[v].op \in Alone => Beside /\ job'[v] = job[v]
<1>1. ASSUME NEW i \in Ids, EditFolder(i) PROVE Beside /\ job' = job
  <2>1. i \in cat
    BY <1>1 DEF EditFolder
  <2> QED
    BY <1>1, <2>1 DEF EditFolder, Beside
<1>2. ASSUME NEW i \in Ids, DamageEntry(i) PROVE Beside /\ job' = job
  <2>1. i \in Kept
    BY <1>2 DEF DamageEntry
  <2> QED
    BY <1>2, <2>1 DEF DamageEntry, Beside
<1>3. ASSUME NEW w \in Windows,
             \/ BackupStep(w) \/ StartUpgrade(w) \/ UpgradeStep(w) \/ FailUpgrade(w)
             \/ FoldStep(w) \/ FreeStep(w) \/ UndoStep(w) \/ LiveStep(w) \/ Crash(w),
             NEW v \in Windows \ {w}, job[v].op \in Alone
      PROVE  Beside /\ job'[v] = job[v]
  <2>1. w \in Windows \ {v}
    OBVIOUS
  <2>2. job'[v] = job[v] /\ (BackupStep(w) \/ UNCHANGED Data)
    BY <1>3, <2>1, Company
  <2> QED
    BY <2>2, BackupIsApart DEF Beside
<1> QED
  BY <1>1, <1>2, <1>3 DEF Next

-----------------------------------------------------------------------------
\* What a job at work alone knows stays so.

LEMMA CopyStands ==
  ASSUME Typed, Locks, NEW v \in Windows, JobsFit, CopyAt(v), job'[v] = job[v], Beside
  PROVE  CopyAt(v)'
<1>1. CASE job[v].at \notin {"rename", "record", "format"}
  BY <1>1 DEF CopyAt
<1>2. CASE job[v].at \in {"rename", "record", "format"}
  <2>1. lock["vault"] # Nobody
    BY <1>2, Exclusive DEF JobsFit, Fits, Commits, Idle
  <2>2. UNCHANGED <<cat, mig, copy>> /\ \A i \in cat : folder'[i] = folder[i]
    BY <1>2, <2>1 DEF Beside, BackedUp, Data, Typed, Places
  <2> QED
    BY <2>2 DEF CopyAt, SameAsVault
<1> QED
  BY <1>1, <1>2

LEMMA FoldStands ==
  ASSUME Typed, JobsFit, NEW v \in Windows, FoldAt(v), job'[v] = job[v], Beside
  PROVE  FoldAt(v)'
<1>1. /\ \A i \in cat : i \in cat' /\ (Found(i) => Found(i)')
      /\ \A i \in Ids : stored[i] # "none" => stored'[i] # "none"
  BY DEF Beside, BackedUp, Data, Typed, Places, Is, Kept, Found
<1>2. job[v].todo \subseteq Ids
  BY DEF JobsFit, Jobs
<1> QED
  BY <1>1, <1>2 DEF FoldAt

LEMMA FreeStands ==
  ASSUME Typed, JobsFit, Entries, NEW v \in Windows, FreeAt(v), job'[v] = job[v], Beside
  PROVE  FreeAt(v)'
<1> SUFFICES ASSUME job[v].op = "free" PROVE FreeAt(v)'
  BY DEF FreeAt
<1>1. StoreIsSound'
  <2>1. StoreIsSound
    BY DEF FreeAt
  <2>2. \A i \in Ids \ (Kept \cup moved) : sound[i]
    BY DEF Entries, Typed
  <2> QED
    BY <2>1, <2>2 DEF Beside, BackedUp, Data, Typed, Places, StoreIsSound, Kept
<1>2. mig' = mig /\ \A i \in Kept : i \in Kept' /\ stored'[i] = stored[i]
  BY DEF Beside, BackedUp, Data, Typed, Places, Kept
<1>3. job[v].at = "delete" => \A i \in Kept : folder'[i] = folder[i]
  BY DEF Beside, BackedUp, Data, Typed, Places, Kept
<1> QED
  BY <1>1, <1>2, <1>3 DEF FreeAt

LEMMA UndoStands ==
  ASSUME Typed, JobsFit, Somewhere, NEW v \in Windows, UndoAt(v), LayoutAt(v), job'[v] = job[v], Beside
  PROVE  UndoAt(v)'
<1> SUFFICES ASSUME job[v].op = "undo" PROVE UndoAt(v)'
  BY DEF UndoAt
<1>1. copy' = copy /\ Kept \subseteq Kept' /\ \A k \in cat \cup Kept : Is(folder[k]) \/ k \in late => Is(folder'[k]) \/ k \in late'
  BY DEF Beside, BackedUp, Data, Typed, Places, Is, Kept
<1>2. \A k \in Kept : Missed(k) => Missed(k)'
  BY DEF Beside, BackedUp, Data, Typed, Places, Kept, Missed
<1>3. ASSUME NEW k \in Kept' \ Kept
      PROVE  Mode = "store" /\ (job[v].at = "compare" => Missed(k)')
  BY <1>3 DEF Beside, BackedUp, Data, Typed, Places, Kept, Missed
<1>4. job[v].at \in {"export", "restore", "out"} => Kept' = Kept
  BY <1>1, <1>3 DEF LayoutAt, Mode
<1>5. /\ job[v].todo \subseteq Kept /\ job[v].back \subseteq copy.cat /\ copy.cat \subseteq cat \cup Kept
      /\ job[v].at \in {"recount", "export", "restore", "out"} => job[v].ids \subseteq Kept
  BY DEF UndoAt, Somewhere, Takes
<1>6. job[v].at = "compare" => Takes(Kept, job[v].todo)'
  <2> SUFFICES ASSUME job[v].at = "compare" PROVE Takes(Kept, job[v].todo)'
    OBVIOUS
  <2>1. Takes(Kept, job[v].todo)
    BY DEF UndoAt
  <2> QED
    BY <1>1, <1>2, <1>3, <2>1 DEF Takes
<1>7. job[v].at = "recount" => Takes(job[v].ids, job[v].todo)' /\ job[v].ids \subseteq Kept'
  BY <1>1, <1>2, <1>5 DEF UndoAt, Takes
<1>8. job[v].at \in {"export", "restore", "out"} =>
        /\ Takes(Kept, job[v].ids)'
        /\ \A i \in job[v].ids \ job[v].todo : Is(folder'[i]) \/ i \in late'
  BY <1>1, <1>2, <1>4, <1>5 DEF UndoAt, Takes
<1>9. cat \subseteq cat'
  BY DEF Beside, BackedUp, Data
<1> QED
  BY <1>1, <1>5, <1>6, <1>7, <1>8, <1>9 DEF UndoAt

-----------------------------------------------------------------------------
\* What a job's own steps make of what it knows.

AllAt(w) == CopyAt(w) /\ FoldAt(w) /\ FreeAt(w) /\ UndoAt(w)

LEMMA NothingKnown ==
  ASSUME NEW w \in Windows, Only(w), job'[w].op \notin {"upgrade", "fold", "free", "undo"}
  PROVE  AllAt(w)'
<1>1. job'[w].at \notin {"rename", "record", "format"}
  BY DEF Only, Fits, Idle
<1> QED
  BY <1>1 DEF AllAt, CopyAt, FoldAt, FreeAt, UndoAt

LEMMA UpgradeKnows ==
  ASSUME Typed, JobsFit, NEW w \in Windows, LayoutAt(w), CopyAt(w), StartUpgrade(w) \/ UpgradeStep(w) \/ FailUpgrade(w)
  PROVE  AllAt(w)'
<1>1. ASSUME Only(w), job'[w].op = "upgrade", CopyAt(w)' PROVE AllAt(w)'
  BY <1>1 DEF AllAt, FoldAt, FreeAt, UndoAt
<1>2. CASE StartUpgrade(w) \/ FailUpgrade(w) \/ SyncCopy(w) \/ CreateStore(w)
  <2>1. Only(w) /\ job'[w].op = "upgrade" /\ job'[w].at \in {"mark", "remove", "settle", "unmark"}
    BY <1>2, UpgradeMoves DEF Goes, Then, Same
  <2> QED
    BY <1>1, <2>1 DEF CopyAt
<1>3. CASE Cleanup(w) \/ RemoveCopy(w) \/ RemoveStore(w) \/ Unmark(w)
  <2>1. Only(w) /\ job'[w].op \in {"none", "upgrade", "cleanup"} /\ job'[w].at \in {"idle", "unmark", "remove", "unmake"}
    BY <1>3, CleanupMoves DEF Goes, Then, Idle
  <2> QED
    BY <1>1, <2>1, NothingKnown DEF CopyAt
<1>4. CASE MarkUpgrade(w)
  <2>1. Only(w) /\ Same(w) /\ On(w, "upgrade", "mark") /\ job'[w].at \in {"sync", "record"} /\ copy' = copy
    BY <1>4, UpgradeMoves DEF MarkUpgrade
  <2>2. copy.at = "none"
    BY <2>1 DEF LayoutAt, On
  <2> QED
    BY <1>1, <2>1, <2>2 DEF CopyAt, Same, On
<1>5. CASE Settle(w)
  <2>1. /\ Only(w) /\ Same(w) /\ On(w, "upgrade", "settle") /\ UNCHANGED <<copy, folder, cat>>
        /\ Settled \/ job'[w].at \in {"sync", "remove"}
        /\ job'[w].at \in {"rename", "sync", "remove"}
    BY <1>5, UpgradeMoves DEF Settle
  <2> QED
    BY <1>1, <2>1 DEF CopyAt, SameAsVault, Settled, Same, On
<1>6. CASE RenameCopy(w)
  <2>1. Goes(w, "upgrade", "rename", "record") /\ copy' = [copy EXCEPT !.at = "final"] /\ UNCHANGED <<folder, cat>>
    BY <1>6, UpgradeMoves DEF RenameCopy
  <2>2. SameAsVault
    BY <2>1 DEF CopyAt, Goes, On
  <2>3. CopyAt(w)'
    BY <2>1, <2>2 DEF CopyAt, SameAsVault, Goes, Then, Typed
  <2> QED
    BY <1>1, <2>1, <2>3 DEF Goes, Then
<1>7. CASE WriteRecord(w)
  <2>1. /\ Goes(w, "upgrade", "record", "format") /\ UNCHANGED <<folder, cat, copy>>
        /\ mig' = [NoRecord EXCEPT !.copy = IF copy.at = "final" THEN "named" ELSE "none"]
    BY <1>7, UpgradeMoves DEF WriteRecord
  <2>2. copy.at = "none" \/ (copy.at = "final" /\ SameAsVault)
    BY <2>1 DEF CopyAt, Goes, On
  <2>3. CopyAt(w)'
    BY <2>1, <2>2 DEF CopyAt, SameAsVault, Goes, Then, NoRecord
  <2> QED
    BY <1>1, <2>1, <2>3 DEF Goes, Then
<1> QED
  BY <1>2, <1>3, <1>4, <1>5, <1>6, <1>7 DEF UpgradeStep

LEMMA FoldKnows ==
  ASSUME Typed, JobsFit, Entries, NEW w \in Windows, FoldAt(w), FoldStep(w)
  PROVE  AllAt(w)'
<1>1. ASSUME Only(w), job'[w].op = "fold", FoldAt(w)' PROVE AllAt(w)'
  <2>1. job'[w].at \notin {"rename", "record", "format"}
    BY <1>1 DEF Only, Fits, Idle
  <2> QED
    BY <1>1, <2>1 DEF AllAt, CopyAt, FreeAt, UndoAt
<1>2. CASE StartFold(w)
  <2>1. Only(w) /\ Then(w, "fold", "fold") /\ job'[w].todo = ToFold /\ UNCHANGED <<folder, cat>>
    BY <1>2, FoldMoves DEF StartFold
  <2>2. \A i \in ToFold : i \in cat /\ Found(i)
    BY DEF ToFold, Skipped, Entries, Is, Typed, Places, Contents, Found
  <2>3. FoldAt(w)'
    BY <1>2, <2>1, <2>2 DEF FoldAt, Then, Found, StartFold
  <2> QED
    BY <1>1, <2>1, <2>3 DEF Then
<1>3. CASE FoldOne(w)
  <2>1. /\ Only(w) /\ On(w, "fold", "fold") /\ Then(w, "fold", "folded")
        /\ job'[w].todo = job[w].todo /\ job'[w].id \in job[w].todo
        /\ Folds(job'[w].id, job'[w].ids) /\ UNCHANGED <<folder, cat>>
    BY <1>3, FoldMoves DEF FoldOne
  <2>2. \A i \in job[w].todo : i \in cat /\ Found(i)
    BY <2>1 DEF FoldAt, On
  <2>3. job'[w].ids = {} => stored'[job'[w].id] = folder[job'[w].id]
    BY <2>1, <2>2 DEF Folds, Typed, Places
  <2>4. FoldAt(w)'
    BY <1>3, <2>1, <2>2, <2>3 DEF FoldAt, Found, FoldOne
  <2> QED
    BY <1>1, <2>1, <2>4 DEF Then
<1>4. CASE SaveFold(w)
  <2>1. /\ Only(w) /\ On(w, "fold", "folded") /\ Then(w, "fold", "fold")
        /\ job'[w].todo = job[w].todo \ {job[w].id} /\ UNCHANGED <<folder, cat>>
    BY <1>4, FoldMoves DEF SaveFold
  <2>2. FoldAt(w)'
    BY <1>4, <2>1 DEF FoldAt, On, Then, Found, SaveFold
  <2> QED
    BY <1>1, <2>1, <2>2 DEF Then
<1>5. CASE EndFold(w)
  BY <1>5, FoldMoves, NothingKnown DEF Idle
<1> QED
  BY <1>2, <1>3, <1>4, <1>5 DEF FoldStep

LEMMA FreeKnows ==
  ASSUME Typed, JobsFit, Entries, NEW w \in Windows, FreeAt(w), FreeStep(w)
  PROVE  AllAt(w)'
<1>1. ASSUME Only(w), job'[w].op = "free", FreeAt(w)' PROVE AllAt(w)'
  <2>1. job'[w].at \notin {"rename", "record", "format"}
    BY <1>1 DEF Only, Fits, Idle
  <2> QED
    BY <1>1, <2>1 DEF AllAt, CopyAt, FoldAt, UndoAt
<1>0. /\ UNCHANGED <<stored, sound>> /\ StoreIsSound' = StoreIsSound
      /\ job[w].op = "free" => StoreIsSound
  BY DEF FreeStep, StartFree, Judge, DeleteFiles, DropCatalogEntry, SaveFreed, EndFree, StoreIsSound, Kept, FreeAt
<1>2. CASE StartFree(w)
  <2>1. Only(w) /\ Then(w, "free", "judge") /\ StoreIsSound
    BY <1>2, FreeMoves DEF StartFree
  <2> QED
    BY <1>0, <1>1, <2>1 DEF FreeAt, Then
<1>3. CASE Judge(w)
  <2>1. /\ Only(w) /\ On(w, "free", "judge") /\ Then(w, "free", "delete") /\ UNCHANGED folder
        /\ job'[w].id \in Ids /\ Freeable(job'[w].id) /\ mig' = [mig EXCEPT !.free[job'[w].id] = "freeing"]
    BY <1>3, FreeMoves DEF Judge
  <2>2. mig'.fold = mig.fold
    BY <2>1 DEF Typed
  <2>3. FreeAt(w)'
    BY <1>0, <2>1, <2>2 DEF FreeAt, On, Then, Freeable, Kept, Is
  <2> QED
    BY <1>1, <2>1, <2>3 DEF Then
<1>4. CASE DeleteFiles(w)
  <2>1. /\ Only(w) /\ On(w, "free", "delete") /\ Same(w) /\ job'[w].at \in {"drop", "judge"} /\ UNCHANGED mig
    BY <1>4, FreeMoves DEF DeleteFiles
  <2>2. FreeAt(w)'
    BY <1>0, <2>1 DEF FreeAt, On, Same, Kept
  <2> QED
    BY <1>1, <2>1, <2>2 DEF Same, On
<1>5. CASE DropCatalogEntry(w) \/ SaveFreed(w)
  <2>1. \/ Goes(w, "free", "drop", "freed") /\ mig' = mig
        \/ Goes(w, "free", "freed", "judge")
    BY <1>5, FreeMoves DEF DropCatalogEntry
  <2>2. FreeAt(w)'
    BY <1>0, <2>1 DEF FreeAt, On, Goes, Then, Same, Kept
  <2> QED
    BY <1>1, <2>1, <2>2 DEF Goes, Then
<1>6. CASE EndFree(w)
  BY <1>6, FreeMoves, NothingKnown DEF Idle
<1> QED
  BY <1>2, <1>3, <1>4, <1>5, <1>6 DEF FreeStep

LEMMA UndoKnows ==
  ASSUME Typed, JobsFit, Somewhere, Entries, NEW w \in Windows, AllAt(w), UndoStep(w)
  PROVE  AllAt(w)'
<1>1. ASSUME Only(w), job'[w].op = "undo", UndoAt(w)' PROVE AllAt(w)'
  <2>1. job'[w].at \notin {"rename", "record", "format"}
    BY <1>1 DEF Only, Fits, Idle
  <2> QED
    BY <1>1, <2>1 DEF AllAt, CopyAt, FoldAt, FreeAt
<1>0. UndoAt(w)
  BY DEF AllAt
<1>2. CASE StartUndo(w)
  <2>1. Only(w) /\ Has(w, "compare", Exports, Restores, {}) /\ UNCHANGED <<folder, stored, copy, late, cat>>
    BY <1>2, UndoMoves DEF StartUndo
  <2>2. Kept' = Kept
    BY <2>1 DEF Kept
  <2>3. Takes(Kept, Exports)' /\ Exports \subseteq Kept \ copy.cat /\ Restores \subseteq copy.cat
    BY <2>1, <2>2 DEF Takes, Exports, Restores
  <2>4. \A i \in copy.cat \ Restores : Is(folder[i]) \/ i \in late
    BY DEF Restores, Somewhere, Is
  <2>5. UndoAt(w)'
    BY <2>1, <2>2, <2>3, <2>4 DEF UndoAt, Has, Then, Takes, Exports
  <2> QED
    BY <1>1, <2>1, <2>5 DEF Has, Then
<1>3. CASE CountEntries(w)
  <2>1. /\ Only(w) /\ On(w, "undo", "compare") /\ Has(w, "recount", job[w].todo, job[w].back, Kept)
        /\ UNCHANGED <<folder, stored, copy, late, cat>>
    BY <1>3, UndoMoves DEF CountEntries
  <2>2. Kept' = Kept
    BY <2>1 DEF Kept
  <2>3. UndoAt(w)'
    BY <1>0, <2>1, <2>2 DEF UndoAt, On, Has, Then, Takes, Missed
  <2> QED
    BY <1>1, <2>1, <2>3 DEF Has, Then
<1>4. CASE MarkUndo(w)
  <2>1. /\ Only(w) /\ On(w, "undo", "recount") /\ UNCHANGED <<folder, stored, copy, late, cat>>
        /\ IF SameEntries(w) THEN Has(w, "export", job[w].todo, job[w].back, job[w].todo) ELSE job'[w] = Idle
    BY <1>4, UndoMoves DEF MarkUndo
  <2>2. CASE SameEntries(w)
    <3>1. Kept' = Kept /\ job[w].ids = Kept
      BY <2>1, <2>2 DEF Kept, SameEntries
    <3>2. UndoAt(w)'
      BY <1>0, <2>1, <2>2, <3>1 DEF UndoAt, On, Has, Then, Takes, Missed
    <3> QED
      BY <1>1, <2>1, <2>2, <3>2 DEF Has, Then
  <2>3. CASE ~SameEntries(w)
    BY <2>1, <2>3, NothingKnown DEF Idle
  <2> QED
    BY <2>2, <2>3
<1>5. CASE Export(w)
  <2>1. PICK i \in job[w].todo : PutsBack(w, i, stored[i]) /\ (job' # job => Has(w, "export", job[w].todo \ {i}, job[w].back, job[w].ids))
    BY <1>5, RestoringMoves
  <2>2. On(w, "undo", "export") /\ UNCHANGED <<stored, copy, late, cat>>
    BY <1>5, RestoringMoves DEF Export, MoveAside
  <2>3. Kept' = Kept /\ i \in Kept \ copy.cat /\ i \in job[w].ids /\ i \in Ids
    BY <1>0, <2>1, <2>2 DEF UndoAt, On, Kept
  <2>4. Is(stored[i]) \/ i \in late
    BY <2>3 DEF Kept, Entries, Typed, Places, Contents, Is
  <2>5. \A k \in Ids \ {i} : folder'[k] = folder[k]
    BY <2>1 DEF PutsBack, Typed, Places
  <2>6. Takes(Kept, job[w].ids)'
    <3>1. Takes(Kept, job[w].ids)
      BY <1>0, <2>2 DEF UndoAt, On
    <3>2. job'[w].ids = job[w].ids
      BY <2>1 DEF Has
    <3> QED
      BY <2>2, <2>3, <2>5, <3>1, <3>2 DEF Takes, Missed, Kept
  <2>7. CASE job' = job
    <3>1. UndoAt(w)'
      BY <1>0, <2>1, <2>2, <2>3, <2>5, <2>6, <2>7 DEF UndoAt, On, Takes, Kept, Typed
    <3> QED
      BY <2>2, <2>7, <3>1 DEF AllAt, CopyAt, FoldAt, FreeAt, On
  <2>8. CASE job' # job
    <3>1. Only(w) /\ Has(w, "export", job[w].todo \ {i}, job[w].back, job[w].ids) /\ folder' = [folder EXCEPT ![i] = stored[i]]
      BY <2>1, <2>8 DEF PutsBack
    <3>2. Is(folder'[i]) \/ i \in late'
      BY <2>2, <2>3, <2>4, <3>1 DEF Typed, Places
    <3>3. UndoAt(w)'
      BY <1>0, <2>2, <2>3, <2>5, <2>6, <3>1, <3>2 DEF UndoAt, On, Has, Then, Takes, Kept
    <3> QED
      BY <1>1, <3>1, <3>3 DEF Has, Then
  <2> QED
    BY <2>7, <2>8
<1>6. CASE Restore(w)
  <2>1. PICK i \in job[w].back : PutsBack(w, i, copy.folder[i]) /\ (job' # job => Has(w, "restore", job[w].todo, job[w].back \ {i}, job[w].ids))
    BY <1>6, RestoringMoves
  <2>2. On(w, "undo", "restore") /\ UNCHANGED <<stored, copy, late, cat>>
    BY <1>6, RestoringMoves DEF Restore, MoveAside
  <2>3. Kept' = Kept /\ i \in copy.cat /\ i \in Ids
    BY <1>0, <2>1, <2>2 DEF UndoAt, On, Kept, Typed
  <2>4. Is(copy.folder[i]) \/ i \in late
    BY <2>3 DEF Somewhere
  <2>5. \A k \in Ids \ {i} : folder'[k] = folder[k]
    BY <2>1 DEF PutsBack, Typed, Places
  <2>6. Takes(Kept, job[w].ids)'
    <3>1. Takes(Kept, job[w].ids)
      BY <1>0, <2>2 DEF UndoAt, On
    <3>2. job'[w].ids = job[w].ids
      BY <2>1 DEF Has
    <3> QED
      BY <2>2, <2>3, <2>5, <3>1, <3>2 DEF Takes, Missed, Kept
  <2>7. CASE job' = job
    <3>1. UndoAt(w)'
      BY <1>0, <2>1, <2>2, <2>3, <2>5, <2>6, <2>7 DEF UndoAt, On, Takes, Kept, Typed
    <3> QED
      BY <2>2, <2>7, <3>1 DEF AllAt, CopyAt, FoldAt, FreeAt, On
  <2>8. CASE job' # job
    <3>1. Only(w) /\ Has(w, "restore", job[w].todo, job[w].back \ {i}, job[w].ids) /\ folder' = [folder EXCEPT ![i] = copy.folder[i]]
      BY <2>1, <2>8 DEF PutsBack
    <3>2. Is(folder'[i]) \/ i \in late'
      BY <2>2, <2>3, <2>4, <3>1 DEF Typed, Places
    <3>3. UndoAt(w)'
      BY <1>0, <2>2, <2>3, <2>5, <2>6, <3>1, <3>2 DEF UndoAt, On, Has, Then, Takes, Kept, Typed
    <3> QED
      BY <1>1, <3>1, <3>3 DEF Has, Then
  <2> QED
    BY <2>7, <2>8
<1>7. CASE ExportsDone(w)
  <2>1. /\ Only(w) /\ On(w, "undo", "export") /\ Has(w, "restore", job[w].todo, job[w].back, job[w].ids)
        /\ job[w].todo = {} /\ UNCHANGED <<folder, stored, copy, late, cat>>
    BY <1>7, UndoMoves DEF ExportsDone
  <2>2. UndoAt(w)'
    BY <1>0, <2>1 DEF UndoAt, On, Has, Then, Takes, Missed, Kept
  <2> QED
    BY <1>1, <2>1, <2>2 DEF Has, Then
<1>8. CASE UniteCatalogs(w)
  <2>1. /\ Only(w) /\ On(w, "undo", "restore") /\ Has(w, "out", job[w].todo, job[w].back, job[w].ids)
        /\ job[w].back = {} /\ cat' = cat \cup copy.cat \cup job[w].ids /\ UNCHANGED <<folder, stored, copy, late>>
    BY <1>8, UndoMoves DEF UniteCatalogs, Union
  <2>2. Kept' = Kept
    BY <2>1 DEF Kept
  <2>3. Takes(Kept, job[w].ids)'
    <3>1. Takes(Kept, job[w].ids)
      BY <1>0, <2>1 DEF UndoAt, On
    <3> QED
      BY <2>1, <2>2, <3>1 DEF Takes, Missed, Has
  <2>4. UndoAt(w)'
    BY <1>0, <2>1, <2>2, <2>3 DEF UndoAt, On, Has, Then
  <2> QED
    BY <1>1, <2>1, <2>4 DEF Has, Then
<1>11. CASE NotRestored(w)
  <2>1. PICK i \in job[w].back : /\ late' = late \cup {i}
                                 /\ Has(w, "restore", job[w].todo, job[w].back \ {i}, job[w].ids)
    BY <1>11, LeavingMoves
  <2>2. Only(w) /\ On(w, "undo", "restore") /\ UNCHANGED <<folder, stored, copy, cat>>
    BY <1>11, LeavingMoves
  <2>3. Kept' = Kept
    BY <2>2 DEF Kept
  <2>4. Takes(Kept, job[w].ids)'
    <3>1. Takes(Kept, job[w].ids)
      BY <1>0, <2>2 DEF UndoAt, On
    <3> QED
      BY <2>1, <2>2, <2>3, <3>1 DEF Takes, Missed, Has
  <2>5. UndoAt(w)'
    BY <1>0, <2>1, <2>2, <2>3, <2>4 DEF UndoAt, On, Has, Then
  <2> QED
    BY <1>1, <2>1, <2>2, <2>5 DEF Has, Then
<1>9. CASE MoveStoreOut(w) \/ StopUndo(w)
  BY <1>9, UndoMoves, NothingKnown DEF Idle
<1>10. CASE KeepUpgrade(w)
  <2>1. job[w] = Idle /\ job' = job
    BY <1>10 DEF KeepUpgrade
  <2> QED
    BY <2>1 DEF AllAt, CopyAt, FoldAt, FreeAt, UndoAt, Idle
<1> QED
  BY <1>2, <1>3, <1>4, <1>5, <1>6, <1>7, <1>8, <1>9, <1>10, <1>11 DEF UndoStep

-----------------------------------------------------------------------------
\* Every job still knows what it knew.

LEMMA KnowsKept ==
  ASSUME Typed, JobsFit, Locks, Somewhere, Entries, Next,
         \A w \in Windows : LayoutAt(w) /\ BackupAt(w) /\ AllAt(w)
  PROVE  \A v \in Windows : AllAt(v)'
<1>1. ASSUME NEW v \in Windows, Beside, job'[v] = job[v] PROVE AllAt(v)'
  <2>1. LayoutAt(v) /\ CopyAt(v) /\ FoldAt(v) /\ FreeAt(v) /\ UndoAt(v)
    BY DEF AllAt
  <2> QED
    BY <1>1, <2>1, CopyStands, FoldStands, FreeStands, UndoStands DEF AllAt
<1>2. CASE Beside /\ job' = job
  BY <1>1, <1>2
<1>3. ASSUME NEW w \in Windows,
             \/ BackupStep(w) \/ StartUpgrade(w) \/ UpgradeStep(w) \/ FailUpgrade(w)
             \/ FoldStep(w) \/ FreeStep(w) \/ UndoStep(w) \/ LiveStep(w) \/ Crash(w),
             \A v \in Windows \ {w} : job[v].op \in Alone => Beside /\ job'[v] = job[v]
      PROVE  \A v \in Windows : AllAt(v)'
  <2>1. AllAt(w)'
    <3>1. CASE BackupStep(w)
      BY <3>1, BackupMoves, NothingKnown DEF BackupStep, Goes, Then, Idle
    <3>2. CASE StartUpgrade(w) \/ UpgradeStep(w) \/ FailUpgrade(w)
      BY <3>2, UpgradeKnows DEF AllAt
    <3>3. CASE FoldStep(w) \/ FreeStep(w)
      BY <3>3, FoldKnows, FreeKnows DEF AllAt
    <3>4. CASE UndoStep(w)
      BY <3>4, UndoKnows
    <3>5. CASE StartLiveOp(w) \/ EndLiveOp(w) \/ Crash(w)
      BY <3>5, OtherMoves, NothingKnown DEF Then, Idle
    <3>6. CASE RecoverLiveOp(w)
      <4>1. job[w] = Idle /\ job' = job
        BY <3>6 DEF RecoverLiveOp
      <4> QED
        BY <4>1 DEF AllAt, CopyAt, FoldAt, FreeAt, UndoAt, Idle
    <3> QED
      BY <1>3, <3>1, <3>2, <3>3, <3>4, <3>5, <3>6 DEF LiveStep
  <2>2. ASSUME NEW v \in Windows \ {w}, job[v].op \notin Alone PROVE AllAt(v)'
    <3>1. job'[v] = job[v]
      BY <1>3, StaysOthers DEF Only
    <3>2. job[v].at \notin {"rename", "record", "format"}
      BY <2>2 DEF JobsFit, Fits, Alone, Idle
    <3> QED
      BY <2>2, <3>1, <3>2 DEF AllAt, CopyAt, FoldAt, FreeAt, UndoAt, Alone
  <2> QED
    BY <1>1, <1>3, <2>1, <2>2
<1> QED
  BY <1>2, <1>3, BesideStep

-----------------------------------------------------------------------------
\* No step of another window touches the id of a backup under way.

Spared(i) == i \notin cat' /\ i \notin moved' /\ stored'[i] = "none" /\ folder'[i] = folder[i]

LEMMA BackupSpared ==
  ASSUME Typed, JobsFit, Somewhere, Entries, Next, \A w \in Windows : BackupAt(w) /\ AllAt(w),
         NEW v \in Windows, job[v].op = "backup", job'[v] = job[v]
  PROVE  Spared(job[v].id)
<1> DEFINE b == job[v].id
<1>0. /\ b \in Ids /\ b \notin cat /\ b \notin moved /\ stored[b] = "none"
      /\ \A w \in Windows \ {v} : job[w].op = "backup" => job[w].id # b
  BY DEF BackupAt, Kept
<1>k. b \notin copy.cat
  BY <1>0 DEF Somewhere, Kept
<1> HIDE DEF b
<1>1. ASSUME NEW i \in Ids, EditFolder(i) \/ DamageEntry(i) PROVE Spared(b)
  BY <1>0, <1>1 DEF EditFolder, DamageEntry, Spared, Typed, Places
<1>2. ASSUME NEW w \in Windows, BackupStep(w) PROVE Spared(b)
  <2>1. w # v \/ StartBackup(w)
    <3>1. CASE CopyFolder(v) \/ Catalogue(v) \/ KeepInStore(v)
      BY <3>1, BackupMoves DEF Goes, On, Then, Idle
    <3> QED
      BY <1>2, <3>1 DEF BackupStep
  <2>2. CASE StartBackup(w)
    BY <1>0, <2>2 DEF StartBackup, Spared
  <2>3. CASE w # v
    <3>1. \/ UNCHANGED Data
          \/ job[w].op = "backup" /\ job[w].id \in Ids /\ BackedUp(job[w].id)
      BY <1>2, BackupIsApart
    <3>2. CASE UNCHANGED Data
      BY <1>0, <3>2 DEF Data, Spared
    <3>3. CASE job[w].op = "backup" /\ job[w].id \in Ids /\ BackedUp(job[w].id)
      <4>1. job[w].id # b
        BY <1>0, <2>3, <3>3
      <4> QED
        BY <1>0, <3>3, <4>1 DEF BackedUp, Spared, Typed, Places
    <3> QED
      BY <3>1, <3>2, <3>3
  <2> QED
    BY <2>1, <2>2, <2>3
<1>3. ASSUME NEW w \in Windows, StartUpgrade(w) \/ UpgradeStep(w) \/ FailUpgrade(w) PROVE Spared(b)
  BY <1>0, <1>3 DEF StartUpgrade, UpgradeStep, FailUpgrade, MarkUpgrade, SyncCopy, Settle, RenameCopy,
     WriteRecord, CreateStore, Unmark, Cleanup, RemoveCopy, RemoveStore, Spared
<1>4. ASSUME NEW w \in Windows, FoldStep(w) PROVE Spared(b)
  <2>1. CASE FoldOne(w)
    <3>1. /\ job'[w].id \in job[w].todo /\ On(w, "fold", "fold") /\ Folds(job'[w].id, job'[w].ids)
      BY <2>1, FoldMoves
    <3>2. job'[w].id \in cat
      BY <3>1 DEF AllAt, FoldAt, On
    <3>3. b \notin Fresh
      BY DEF Fresh, Taken, b
    <3>4. stored'[b] = "none"
      BY <1>0, <3>1, <3>2, <3>3 DEF Folds, Typed, Places
    <3> QED
      BY <1>0, <2>1, <3>4 DEF FoldOne, Spared
  <2>2. CASE StartFold(w) \/ SaveFold(w) \/ EndFold(w)
    BY <1>0, <2>2 DEF StartFold, SaveFold, EndFold, Spared
  <2> QED
    BY <1>4, <2>1, <2>2 DEF FoldStep
<1>5. ASSUME NEW w \in Windows, FreeStep(w) PROVE Spared(b)
  <2>1. CASE DeleteFiles(w)
    <3>1. job[w].id \in Kept
      BY <2>1, FreeMoves DEF On, AllAt, FreeAt
    <3>2. job[w].id # b
      BY <1>0, <3>1 DEF Kept
    <3> QED
      BY <1>0, <2>1, <3>2 DEF DeleteFiles, Spared, Typed, Places
  <2>2. CASE StartFree(w) \/ Judge(w) \/ DropCatalogEntry(w) \/ SaveFreed(w) \/ EndFree(w)
    BY <1>0, <2>2 DEF StartFree, Judge, DropCatalogEntry, SaveFreed, EndFree, Spared
  <2> QED
    BY <1>5, <2>1, <2>2 DEF FreeStep
<1>6. ASSUME NEW w \in Windows, UndoStep(w) PROVE Spared(b)
  <2>1. CASE Export(w) \/ Restore(w)
    <3>1. PICK i \in Ids : i # b /\ \E there : PutsBack(w, i, there)
      <4>1. CASE Export(w)
        <5>1. PICK i \in job[w].todo : PutsBack(w, i, stored[i])
          BY <4>1, RestoringMoves
        <5>2. i \in Kept
          BY <4>1, <5>1, RestoringMoves DEF On, AllAt, UndoAt
        <5> QED
          BY <1>0, <5>1, <5>2 DEF Kept
      <4>2. CASE Restore(w)
        <5>1. PICK i \in job[w].back : PutsBack(w, i, copy.folder[i])
          BY <4>2, RestoringMoves
        <5>2. i \in copy.cat
          BY <4>2, <5>1, RestoringMoves DEF On, AllAt, UndoAt
        <5> QED
          BY <1>k, <5>1, <5>2 DEF Typed
      <4> QED
        BY <2>1, <4>1, <4>2
    <3>2. folder'[b] = folder[b]
      BY <1>0, <3>1 DEF PutsBack, Typed, Places
    <3>3. UNCHANGED <<cat, moved, stored>>
      BY <2>1 DEF Export, Restore, MoveAside
    <3> QED
      BY <1>0, <3>2, <3>3 DEF Spared
  <2>2. CASE UniteCatalogs(w)
    <3>1. job[w].ids \subseteq Kept
      BY <2>2, UndoMoves DEF On, AllAt, UndoAt, Takes
    <3>2. b \notin job[w].ids
      BY <1>0, <3>1 DEF Kept
    <3> QED
      BY <1>0, <1>k, <2>2, <3>2 DEF UniteCatalogs, Union, Spared
  <2>3. CASE MoveStoreOut(w)
    BY <1>0, <2>3 DEF MoveStoreOut, Kept, Spared
  <2>4. CASE \/ StartUndo(w) \/ CountEntries(w) \/ MarkUndo(w) \/ ExportsDone(w) \/ StopUndo(w)
             \/ KeepUpgrade(w) \/ NotRestored(w)
    BY <1>0, <2>4 DEF StartUndo, CountEntries, MarkUndo, ExportsDone, StopUndo, KeepUpgrade, NotRestored, Spared
  <2> QED
    BY <1>6, <2>1, <2>2, <2>3, <2>4 DEF UndoStep
<1>7. ASSUME NEW w \in Windows, LiveStep(w) \/ Crash(w) PROVE Spared(b)
  BY <1>0, <1>7 DEF LiveStep, StartLiveOp, EndLiveOp, RecoverLiveOp, Crash, Spared
<1>8. Spared(b)
  BY <1>1, <1>2, <1>3, <1>4, <1>5, <1>6, <1>7 DEF Next
<1> QED
  BY <1>8 DEF b

LEMMA BackupsKept ==
  ASSUME Typed, JobsFit, Somewhere, Entries, Next, \A w \in Windows : BackupAt(w) /\ AllAt(w)
  PROVE  \A v \in Windows : BackupAt(v)'
<1>1. ASSUME NEW v \in Windows, job[v].op = "backup", job'[v] = job[v],
             \A w \in Windows \ {v} : job'[w].op = "backup" => job'[w].id # job[v].id
      PROVE  BackupAt(v)'
  <2>1. Spared(job[v].id)
    BY <1>1, BackupSpared
  <2> QED
    BY <1>1, <2>1 DEF BackupAt, Spared, Kept
<1>2. ASSUME NEW v \in Windows, job'[v].op # "backup" PROVE BackupAt(v)'
  BY <1>2 DEF BackupAt
<1>3. ASSUME NEW w \in Windows, StartBackup(w) PROVE \A v \in Windows : BackupAt(v)'
  <2>1. Only(w) /\ job[w] = Idle /\ job'[w].op = "backup" /\ job'[w].at # "catalog" /\ job'[w].id \in Fresh
    BY <1>3, BackupMoves DEF Then
  <2>2. UNCHANGED <<folder, cat, stored, moved>>
    BY <1>3 DEF StartBackup
  <2>3. BackupAt(w)'
    BY <2>1, <2>2 DEF BackupAt, Only, Fresh, Taken, Kept
  <2>4. ASSUME NEW v \in Windows \ {w} PROVE BackupAt(v)'
    <3>1. job'[v] = job[v] /\ job'[w].id # job[v].id
      BY <2>1 DEF Only, Fresh, Taken
    <3>2. CASE job[v].op = "backup"
      <4>1. \A u \in Windows \ {v} : job'[u].op = "backup" => job'[u].id # job[v].id
        BY <2>1, <3>1, <3>2 DEF Only, BackupAt
      <4> QED
        BY <1>1, <3>1, <3>2, <4>1
    <3> QED
      BY <1>2, <3>1, <3>2
  <2> QED
    BY <2>3, <2>4
<1>4. ASSUME NEW w \in Windows, CopyFolder(w) PROVE \A v \in Windows : BackupAt(v)'
  <2>1. Goes(w, "backup", "copy", "catalog")
    BY <1>4, BackupMoves
  <2>2. folder' = [folder EXCEPT ![job[w].id] = "whole"] /\ UNCHANGED <<cat, stored, moved>>
    BY <1>4 DEF CopyFolder
  <2>3. BackupAt(w)'
    BY <2>1, <2>2 DEF BackupAt, Goes, On, Then, Same, Only, Kept, Typed, Places
  <2>4. ASSUME NEW v \in Windows \ {w} PROVE BackupAt(v)'
    <3>1. job'[v] = job[v]
      BY <2>1 DEF Goes, Only
    <3>2. CASE job[v].op = "backup"
      <4>1. \A u \in Windows \ {v} : job'[u].op = "backup" => job'[u].id # job[v].id
        BY <2>1, <3>1, <3>2 DEF Goes, On, Only, Same, BackupAt
      <4> QED
        BY <1>1, <3>1, <3>2, <4>1
    <3> QED
      BY <1>2, <3>1, <3>2
  <2> QED
    BY <2>3, <2>4
<1>5. CASE /\ \A w \in Windows : ~StartBackup(w) /\ ~CopyFolder(w)
           /\ \A v \in Windows : job'[v].op = "backup" => job'[v] = job[v]
  <2> TAKE v \in Windows
  <2>1. CASE job'[v].op = "backup"
    <3>1. job'[v] = job[v]
      BY <1>5, <2>1
    <3>2. \A w \in Windows \ {v} : job'[w].op = "backup" => job'[w].id # job[v].id
      BY <1>5, <2>1, <3>1 DEF BackupAt
    <3> QED
      BY <1>1, <2>1, <3>1, <3>2
  <2> QED
    BY <1>2, <2>1
<1>6. (\A w \in Windows : ~StartBackup(w) /\ ~CopyFolder(w)) => \A v \in Windows : job'[v].op = "backup" => job'[v] = job[v]
  <2> SUFFICES ASSUME \A w \in Windows : ~StartBackup(w) /\ ~CopyFolder(w)
               PROVE  \A v \in Windows : job'[v].op = "backup" => job'[v] = job[v]
    OBVIOUS
  <2>1. ASSUME NEW w \in Windows,
               \/ Catalogue(w) \/ KeepInStore(w) \/ StartUpgrade(w) \/ UpgradeStep(w) \/ FailUpgrade(w)
               \/ FoldStep(w) \/ FreeStep(w) \/ UndoStep(w) \/ LiveStep(w) \/ Crash(w)
        PROVE  job' = job \/ (Only(w) /\ job'[w].op # "backup")
    <3>1. CASE Catalogue(w) \/ KeepInStore(w)
      BY <3>1, BackupMoves DEF Idle
    <3>2. CASE StartUpgrade(w) \/ UpgradeStep(w) \/ FailUpgrade(w)
      BY <3>2, UpgradeMoves, CleanupMoves DEF UpgradeStep, Goes, Then, Same, On, Idle
    <3>3. CASE FoldStep(w) \/ FreeStep(w)
      BY <3>3, FoldMoves, FreeMoves DEF FoldStep, FreeStep, Goes, Then, Same, On, Idle
    <3>4. CASE Export(w) \/ Restore(w) \/ KeepUpgrade(w)
      BY <3>4, RestoringMoves DEF PutsBack, KeepUpgrade, Has, Then
    <3>5. CASE UndoStep(w) /\ ~(Export(w) \/ Restore(w) \/ KeepUpgrade(w))
      BY <3>5, UndoMoves, LeavingMoves DEF UndoStep, Has, Then, Idle
    <3>6. CASE LiveStep(w) \/ Crash(w)
      BY <3>6, OtherMoves DEF LiveStep, RecoverLiveOp, Then, Idle
    <3> QED
      BY <2>1, <3>1, <3>2, <3>3, <3>4, <3>5, <3>6
  <2>2. ASSUME NEW i \in Ids, EditFolder(i) \/ DamageEntry(i) PROVE job' = job
    BY <2>2 DEF EditFolder, DamageEntry
  <2>3. \/ job' = job
        \/ \E w \in Windows : Only(w) /\ job'[w].op # "backup"
    BY <2>1, <2>2 DEF Next, BackupStep
  <2> QED
    BY <2>3 DEF Only
<1> QED
  BY <1>3, <1>4, <1>5, <1>6

-----------------------------------------------------------------------------
\* Every backup is still somewhere.

\* A step that moves nothing.
LEMMA NothingMoved ==
  ASSUME Somewhere, UNCHANGED <<folder, cat, stored, aside, made, late>>, dir.format => dir'.format,
         UNCHANGED <<copy.cat, copy.folder>>
  PROVE  Somewhere'
<1>1. \A i \in Ids : Between(i) => Between(i)'
  BY DEF Between
<1> QED
  BY <1>1 DEF Somewhere, Kept, Between

\* In the old layout, a step that changes the copy only.
LEMMA OnlyCopyMoved ==
  ASSUME Somewhere, ~dir.format, UNCHANGED <<folder, cat, stored, made, late>>,
         copy'.cat \subseteq cat, \A i \in copy'.cat : Is(copy'.folder[i]) \/ i \in late
  PROVE  Somewhere'
  BY DEF Somewhere, Kept, Between

LEMMA SomewhereByBackup ==
  ASSUME Typed, JobsFit, Somewhere, NEW w \in Windows, BackupAt(w), BackupStep(w)
  PROVE  Somewhere'
<1>1. CASE UNCHANGED Data
  BY <1>1, NothingMoved DEF Data
<1>2. ASSUME NEW i \in Ids \ (cat \cup Kept \cup moved), BackedUp(i) PROVE Somewhere'
  <2>1. i \notin copy.cat
    BY <1>2 DEF Somewhere
  <2>2. \A k \in Ids \ {i} : folder'[k] = folder[k] /\ stored'[k] = stored[k]
    BY <1>2 DEF BackedUp, Typed, Places
  <2>3. Kept \subseteq Kept' /\ late \subseteq late' /\ cat \subseteq cat' /\ cat' \subseteq cat \cup {i}
    BY <1>2 DEF BackedUp, Kept, Typed, Places
  <2>4. made' \subseteq cat' \cup Kept' \cup late'
    BY <1>2, <2>3 DEF BackedUp, Somewhere, Kept, Typed, Places
  <2>5. ASSUME NEW k \in cat' PROVE folder'[k] # "none" \/ stored'[k] # "none" \/ Between(k)' \/ k \in late'
    <3>1. CASE k = i
      BY <1>2, <2>5, <3>1 DEF BackedUp
    <3>2. CASE k # i
      <4>1. k \in cat /\ k \in Ids
        BY <2>3, <2>5, <3>2 DEF Typed
      <4>2. Between(k) => Between(k)'
        BY <1>2 DEF BackedUp, Between
      <4> QED
        BY <2>2, <2>3, <3>2, <4>1, <4>2 DEF Somewhere
    <3> QED
      BY <3>1, <3>2
  <2>6. copy' = copy
    BY <1>2 DEF BackedUp
  <2> QED
    BY <2>3, <2>4, <2>5, <2>6 DEF Somewhere
<1> QED
  BY <1>1, <1>2, BackupIsApart

LEMMA SomewhereByUpgrade ==
  ASSUME Typed, JobsFit, Layout, Somewhere, Entries, NEW w \in Windows, LayoutAt(w),
         StartUpgrade(w) \/ UpgradeStep(w) \/ FailUpgrade(w)
  PROVE  Somewhere'
<1>1. CASE StartUpgrade(w) \/ FailUpgrade(w) \/ MarkUpgrade(w) \/ Settle(w) \/ WriteRecord(w) \/ Unmark(w) \/ Cleanup(w)
  BY <1>1, NothingMoved DEF StartUpgrade, FailUpgrade, MarkUpgrade, Settle, WriteRecord, Unmark, Cleanup, Typed
<1>2. CASE RenameCopy(w)
  BY <1>2, NothingMoved DEF RenameCopy, Typed
<1>3. CASE CreateStore(w)
  <2>1. ~dir.format
    BY <1>3 DEF CreateStore, LayoutAt
  <2>2. stored' = stored
    BY <1>3, <2>1 DEF CreateStore, Layout, Typed, Places
  <2> QED
    BY <1>3, <2>1, <2>2, NothingMoved DEF CreateStore
<1>4. CASE SyncCopy(w) \/ RemoveCopy(w) \/ RemoveStore(w)
  <2>1. ~dir.format
    BY <1>4 DEF SyncCopy, RemoveCopy, RemoveStore, LayoutAt
  <2>2. ASSUME NEW i \in cat PROVE Is(folder[i]) \/ i \in late
    <3>1. i \in Ids /\ folder[i] \in Contents
      BY DEF Typed, Places
    <3>2. folder[i] # "none" \/ i \in late
      BY <2>1, <3>1 DEF Somewhere, Between, Layout
    <3>3. folder[i] # "part" \/ i \in late
      BY <2>1, <3>1 DEF Entries
    <3> QED
      BY <3>1, <3>2, <3>3 DEF Contents, Is
  <2>3. CASE SyncCopy(w)
    BY <2>1, <2>2, <2>3, OnlyCopyMoved DEF SyncCopy
  <2>4. CASE RemoveCopy(w)
    BY <2>1, <2>4, OnlyCopyMoved DEF RemoveCopy, NoCopy
  <2>5. CASE RemoveStore(w)
    BY <2>1, <2>5, NothingMoved DEF RemoveStore
  <2> QED
    BY <1>4, <2>3, <2>4, <2>5
<1> QED
  BY <1>1, <1>2, <1>3, <1>4 DEF UpgradeStep

LEMMA SomewhereByFold ==
  ASSUME Typed, JobsFit, Somewhere, NEW w \in Windows, FoldAt(w), FoldStep(w)
  PROVE  Somewhere'
<1>1. CASE StartFold(w) \/ SaveFold(w) \/ EndFold(w)
  BY <1>1, NothingMoved DEF StartFold, SaveFold, EndFold
<1>2. CASE FoldOne(w)
  <2>1. On(w, "fold", "fold") /\ job'[w].id \in job[w].todo /\ Folds(job'[w].id, job'[w].ids)
    BY <1>2, FoldMoves
  <2>2. folder[job'[w].id] # "none" /\ job'[w].id \in Ids
    BY <2>1 DEF FoldAt, Found, On, Typed
  <2>3. \A k \in Ids : stored[k] # "none" => stored'[k] # "none"
    BY <2>1, <2>2 DEF Folds, Typed, Places
  <2>4. Kept \subseteq Kept'
    BY <2>3 DEF Kept
  <2>5. UNCHANGED <<folder, cat, dir, copy, aside, made>> /\ late \subseteq late'
    BY <1>2, <2>1 DEF FoldOne, Folds
  <2>6. \A k \in Ids : Between(k)' = Between(k)
    BY <2>5 DEF Between
  <2> QED
    BY <2>3, <2>4, <2>5, <2>6 DEF Somewhere, Typed
<1> QED
  BY <1>1, <1>2 DEF FoldStep

LEMMA SomewhereByFree ==
  ASSUME Typed, JobsFit, Somewhere, NEW w \in Windows, FreeAt(w), FreeStep(w)
  PROVE  Somewhere'
<1>1. CASE StartFree(w) \/ Judge(w) \/ SaveFreed(w) \/ EndFree(w)
  BY <1>1, NothingMoved DEF StartFree, Judge, SaveFreed, EndFree
<1>2. CASE DeleteFiles(w) \/ DropCatalogEntry(w)
  <2>1. job[w].id \in Kept
    BY <1>2, FreeMoves DEF Goes, On, FreeAt
  <2>2. /\ UNCHANGED <<stored, dir, copy, aside, made, late>>
        /\ cat \ {job[w].id} \subseteq cat' /\ cat' \subseteq cat
        /\ \A k \in Ids \ {job[w].id} : folder'[k] = folder[k]
    BY <1>2 DEF DeleteFiles, DropCatalogEntry, Typed, Places
  <2>3. Kept' = Kept /\ \A k \in Ids : Between(k)' = Between(k)
    BY <2>2 DEF Kept, Between
  <2> QED
    BY <2>1, <2>2, <2>3 DEF Somewhere, Typed, Kept
<1> QED
  BY <1>1, <1>2 DEF FreeStep

LEMMA SomewhereByUndo ==
  ASSUME Typed, JobsFit, Layout, Somewhere, Entries, NEW w \in Windows, LayoutAt(w), UndoAt(w), UndoStep(w)
  PROVE  Somewhere'
<1>1. CASE StartUndo(w) \/ CountEntries(w) \/ MarkUndo(w) \/ ExportsDone(w) \/ StopUndo(w) \/ KeepUpgrade(w)
  BY <1>1, NothingMoved DEF StartUndo, CountEntries, MarkUndo, ExportsDone, StopUndo, KeepUpgrade, Typed
<1>2. CASE Export(w)
  <2>1. PICK i \in job[w].todo : PutsBack(w, i, stored[i])
    BY <1>2, RestoringMoves
  <2>2. On(w, "undo", "export") /\ UNCHANGED <<cat, dir, stored, copy, made, late>>
    BY <1>2, RestoringMoves DEF Export, MoveAside
  <2>3. i \in Kept
    BY <2>1, <2>2 DEF UndoAt, On
  <2>4. \A k \in Ids \ {i} : folder'[k] = folder[k]
    BY <2>1 DEF PutsBack, Typed, Places
  <2>5. Kept' = Kept /\ \A k \in Ids : Between(k) => Between(k)'
    BY <2>1, <2>2 DEF Kept, Between, PutsBack
  <2> QED
    BY <2>2, <2>3, <2>4, <2>5 DEF Somewhere, Typed, Kept
<1>3. CASE Restore(w)
  <2>1. PICK i \in job[w].back : PutsBack(w, i, copy.folder[i])
    BY <1>3, RestoringMoves
  <2>2. On(w, "undo", "restore") /\ UNCHANGED <<cat, dir, stored, copy, made, late>>
    BY <1>3, RestoringMoves DEF Restore, MoveAside
  <2>3. i \in copy.cat /\ i \in Ids /\ (Is(copy.folder[i]) \/ i \in late) /\ dir.format
    BY <2>1, <2>2 DEF UndoAt, On, Typed, Somewhere, LayoutAt
  <2>4. \A k \in Ids \ {i} : folder'[k] = folder[k]
    BY <2>1 DEF PutsBack, Typed, Places
  <2>5. Kept' = Kept /\ \A k \in Ids : Between(k) => Between(k)'
    BY <2>1, <2>2 DEF Kept, Between, PutsBack
  <2>6. folder'[i] # "none" \/ stored'[i] # "none" \/ Between(i)' \/ i \in late'
    <3>1. CASE folder[i] \in {"none", copy.folder[i]}
      BY <2>1, <2>2, <2>3, <3>1 DEF PutsBack, Typed, Places, Is
    <3>2. CASE folder[i] \notin {"none", copy.folder[i]}
      <4>1. aside' = aside \cup {<<i, folder[i]>>}
        BY <2>1, <3>2 DEF PutsBack
      <4>2. CASE folder[i] = "part"
        BY <2>2, <2>3, <4>2 DEF Entries
      <4>3. CASE folder[i] # "part"
        <5>1. folder[i] = "edited" \/ copy.folder[i] = "edited" \/ i \in late
          BY <2>3, <3>2, <4>3 DEF Is, Typed, Places, Contents
        <5> QED
          BY <2>2, <2>3, <4>1, <5>1 DEF Between
      <4> QED
        BY <4>2, <4>3
    <3> QED
      BY <3>1, <3>2
  <2> QED
    BY <2>2, <2>4, <2>5, <2>6 DEF Somewhere, Typed
<1>4. CASE UniteCatalogs(w)
  <2>1. /\ On(w, "undo", "restore") /\ cat' = cat \cup copy.cat \cup job[w].ids /\ job[w].back = {}
        /\ UNCHANGED <<folder, dir, stored, copy, aside, made, late>>
    BY <1>4, UndoMoves DEF UniteCatalogs, Union
  <2>2. \A i \in copy.cat \cup job[w].ids : Is(folder[i]) \/ i \in late
    BY <2>1 DEF UndoAt, On
  <2>3. Kept' = Kept /\ \A k \in Ids : Between(k)' = Between(k)
    BY <2>1 DEF Kept, Between
  <2> QED
    BY <2>1, <2>2, <2>3 DEF Somewhere, Is, Typed
<1>5. CASE MoveStoreOut(w)
  <2>1. On(w, "undo", "out") /\ copy' = NoCopy /\ UNCHANGED <<folder, cat, made, late>>
    BY <1>5, UndoMoves DEF MoveStoreOut
  <2>2. /\ Takes(Kept, job[w].ids) /\ copy.cat \cup job[w].ids \subseteq cat
        /\ \A i \in copy.cat \cup job[w].ids : Is(folder[i]) \/ i \in late
    BY <2>1 DEF UndoAt, On
  <2>3. \A i \in cat : folder[i] # "none" \/ i \in late
    BY <2>2 DEF Somewhere, Between, Takes, Missed, Kept, Is, Typed
  <2>4. Kept \subseteq cat \cup late
    BY <2>2 DEF Takes, Missed
  <2> QED
    BY <2>1, <2>3, <2>4 DEF Somewhere, NoCopy
<1>6. CASE NotRestored(w)
  <2>1. late \subseteq late' /\ UNCHANGED <<folder, cat, dir, stored, copy, aside, made>>
    BY <1>6, LeavingMoves
  <2>2. Kept' = Kept /\ \A k \in Ids : Between(k)' = Between(k)
    BY <2>1 DEF Kept, Between
  <2> QED
    BY <2>1, <2>2 DEF Somewhere, Typed
<1> QED
  BY <1>1, <1>2, <1>3, <1>4, <1>5, <1>6 DEF UndoStep

LEMMA SomewhereKept ==
  ASSUME Typed, JobsFit, Layout, Somewhere, Entries, Next,
         \A w \in Windows : LayoutAt(w) /\ BackupAt(w) /\ AllAt(w)
  PROVE  Somewhere'
<1>1. ASSUME NEW w \in Windows, BackupStep(w) \/ StartUpgrade(w) \/ UpgradeStep(w) \/ FailUpgrade(w)
      PROVE  Somewhere'
  BY <1>1, SomewhereByBackup, SomewhereByUpgrade
<1>2. ASSUME NEW w \in Windows, FoldStep(w) \/ FreeStep(w) \/ UndoStep(w) PROVE Somewhere'
  BY <1>2, SomewhereByFold, SomewhereByFree, SomewhereByUndo DEF AllAt
<1>3. ASSUME NEW w \in Windows, LiveStep(w) \/ Crash(w) PROVE Somewhere'
  BY <1>3, NothingMoved DEF LiveStep, StartLiveOp, EndLiveOp, RecoverLiveOp, Crash
<1>4. ASSUME NEW i \in Ids, EditFolder(i) PROVE Somewhere'
  <2>1. /\ folder' = [folder EXCEPT ![i] = "edited"]
        /\ UNCHANGED <<cat, dir, stored, copy, aside, made, late>>
    BY <1>4 DEF EditFolder
  <2>2. Kept' = Kept /\ \A k \in Ids : Between(k)' = Between(k)
    BY <2>1 DEF Kept, Between
  <2> QED
    BY <2>1, <2>2 DEF Somewhere, Typed, Places
<1>5. ASSUME NEW i \in Ids, DamageEntry(i) PROVE Somewhere'
  BY <1>5, NothingMoved DEF DamageEntry
<1> QED
  BY <1>1, <1>2, <1>3, <1>4, <1>5 DEF Next

-----------------------------------------------------------------------------
\* Entries are whole, half-deleted folders have one, and a damaged entry was one.

\* A step that changes no folder and no entry.
LEMMA EntriesStay ==
  ASSUME Entries, UNCHANGED <<folder, stored, sound, moved>>, late \subseteq late',
         dir.format => dir'.format, mig'.fold = mig.fold
  PROVE  Entries'
  BY DEF Entries, Kept

LEMMA EntriesByBackup ==
  ASSUME Typed, JobsFit, Entries, NEW w \in Windows, BackupAt(w), BackupStep(w)
  PROVE  Entries'
<1>1. CASE UNCHANGED Data
  BY <1>1, EntriesStay DEF Data
<1>2. ASSUME NEW i \in Ids \ (cat \cup Kept \cup moved), BackedUp(i) PROVE Entries'
  <2>5. late \subseteq late'
    BY <1>2 DEF BackedUp
  <2>1. /\ folder'[i] # "part" /\ (stored'[i] # "part" \/ i \in late)
        /\ stored[i] # "none" => stored'[i] # "none"
    BY <1>2 DEF BackedUp, Typed, Places, Kept, Entries
  <2>2. \A k \in Ids \ {i} : folder'[k] = folder[k] /\ stored'[k] = stored[k]
    BY <1>2 DEF BackedUp, Typed, Places
  <2>3. UNCHANGED <<dir, sound, mig, moved>>
    BY <1>2 DEF BackedUp
  <2>4. \A k \in Ids : k \in Kept => k \in Kept'
    BY <1>2, <2>2 DEF Kept
  <2> QED
    BY <1>2, <2>1, <2>2, <2>3, <2>4, <2>5 DEF Entries, Kept
<1> QED
  BY <1>1, <1>2, BackupIsApart

LEMMA EntriesByUpgrade ==
  ASSUME Typed, JobsFit, Layout, Entries, NEW w \in Windows, LayoutAt(w),
         StartUpgrade(w) \/ UpgradeStep(w) \/ FailUpgrade(w)
  PROVE  Entries'
<1>1. CASE StartUpgrade(w) \/ FailUpgrade(w) \/ MarkUpgrade(w) \/ SyncCopy(w) \/ Settle(w) \/ RenameCopy(w)
           \/ Unmark(w) \/ Cleanup(w) \/ RemoveCopy(w)
  BY <1>1, EntriesStay DEF StartUpgrade, FailUpgrade, MarkUpgrade, SyncCopy, Settle, RenameCopy, Unmark, Cleanup,
     RemoveCopy, Typed
<1>2. CASE WriteRecord(w) \/ CreateStore(w) \/ RemoveStore(w)
  <2>1. ~dir.format
    BY <1>2 DEF WriteRecord, CreateStore, RemoveStore, LayoutAt
  <2>2. \A i \in Ids : stored[i] = "none" /\ (folder[i] # "part" \/ i \in late) /\ mig.fold[i] # "verified"
    BY <2>1 DEF Layout, Entries
  <2>3. \A i \in Ids : stored'[i] = "none"
    BY <1>2, <2>2 DEF WriteRecord, CreateStore, RemoveStore
  <2>4. UNCHANGED <<folder, sound, moved, late>>
    BY <1>2 DEF WriteRecord, CreateStore, RemoveStore
  <2>5. \A i \in Ids : mig'.fold[i] # "verified"
    BY <1>2, <2>2 DEF WriteRecord, CreateStore, RemoveStore, NoRecord
  <2> QED
    BY <2>2, <2>3, <2>4, <2>5 DEF Entries, Kept
<1> QED
  BY <1>1, <1>2 DEF UpgradeStep

LEMMA EntriesByFold ==
  ASSUME Typed, JobsFit, Entries, NEW w \in Windows, FoldAt(w), FoldStep(w)
  PROVE  Entries'
<1>1. CASE StartFold(w) \/ EndFold(w)
  BY <1>1, EntriesStay DEF StartFold, EndFold
<1>2. CASE FoldOne(w)
  <2>1. On(w, "fold", "fold") /\ job'[w].id \in job[w].todo /\ Folds(job'[w].id, job'[w].ids)
    BY <1>2, FoldMoves
  <2>2. Found(job'[w].id) /\ job'[w].id \in Ids
    BY <2>1 DEF FoldAt, On, Typed
  <2>3. \A k \in Ids : /\ stored[k] # "none" => stored'[k] # "none"
                       /\ stored'[k] # "part" \/ k \in late'
                       /\ sound[k] => sound'[k]
    BY <2>1, <2>2 DEF Folds, Found, Is, Typed, Places, Entries
  <2>4. UNCHANGED <<folder, dir, mig, moved>> /\ late \subseteq late'
    BY <1>2, <2>1 DEF FoldOne, Folds
  <2> QED
    BY <2>3, <2>4 DEF Entries, Kept
<1>3. CASE SaveFold(w)
  <2>1. On(w, "fold", "folded")
    BY <1>3, FoldMoves
  <2>2. /\ job[w].id \in Ids
        /\ folder[job[w].id] # "part" \/ job[w].id \in late
        /\ job[w].ids = {} => stored[job[w].id] # "none"
    BY <2>1 DEF FoldAt, Found, Is, On, Typed
  <2>3. /\ mig'.fold[job[w].id] = IF job[w].ids = {} THEN "verified" ELSE "elsewhere"
        /\ \A k \in Ids \ {job[w].id} : mig'.fold[k] = mig.fold[k]
    BY <1>3, <2>2 DEF SaveFold, Typed
  <2>4. UNCHANGED <<folder, stored, sound, moved, dir, late>>
    BY <1>3 DEF SaveFold
  <2> QED
    BY <2>2, <2>3, <2>4 DEF Entries, Kept
<1> QED
  BY <1>1, <1>2, <1>3 DEF FoldStep

LEMMA EntriesByFree ==
  ASSUME Typed, JobsFit, Entries, NEW w \in Windows, LayoutAt(w), FreeAt(w), FreeStep(w)
  PROVE  Entries'
<1>1. CASE StartFree(w) \/ Judge(w) \/ SaveFreed(w) \/ EndFree(w) \/ DropCatalogEntry(w)
  BY <1>1, EntriesStay DEF StartFree, Judge, SaveFreed, EndFree, DropCatalogEntry, Typed
<1>2. CASE DeleteFiles(w)
  <2>1. job[w].id \in Kept /\ mig.fold[job[w].id] = "verified" /\ dir.format
    BY <1>2, FreeMoves DEF On, FreeAt, LayoutAt
  <2>2. UNCHANGED <<stored, sound, moved, dir, mig, late>> /\ \A k \in Ids \ {job[w].id} : folder'[k] = folder[k]
    BY <1>2 DEF DeleteFiles, Typed, Places
  <2> QED
    BY <2>1, <2>2 DEF Entries, Kept
<1> QED
  BY <1>1, <1>2 DEF FreeStep

LEMMA EntriesByUndo ==
  ASSUME Typed, JobsFit, Somewhere, Entries, NEW w \in Windows, LayoutAt(w), UndoAt(w), UndoStep(w)
  PROVE  Entries'
<1>1. CASE StartUndo(w) \/ CountEntries(w) \/ MarkUndo(w) \/ ExportsDone(w) \/ UniteCatalogs(w) \/ StopUndo(w) \/ KeepUpgrade(w)
  BY <1>1, EntriesStay DEF StartUndo, CountEntries, MarkUndo, ExportsDone, UniteCatalogs, StopUndo, KeepUpgrade, Typed
<1>2. CASE Export(w)
  <2>1. PICK i \in job[w].todo : PutsBack(w, i, stored[i])
    BY <1>2, RestoringMoves
  <2>2. i \in Ids /\ (stored[i] # "part" \/ i \in late)
    BY <2>1 DEF JobsFit, Jobs, Entries
  <2>3. UNCHANGED <<stored, sound, moved, dir, mig, late>>
    BY <1>2 DEF Export, MoveAside
  <2>4. (folder'[i] # "part" \/ i \in late) /\ \A k \in Ids \ {i} : folder'[k] = folder[k]
    BY <2>1, <2>2 DEF PutsBack, Typed, Places
  <2> QED
    BY <2>2, <2>3, <2>4 DEF Entries, Kept
<1>3. CASE Restore(w)
  <2>1. PICK i \in job[w].back : PutsBack(w, i, copy.folder[i])
    BY <1>3, RestoringMoves
  <2>2. i \in copy.cat /\ i \in Ids
    BY <1>3, <2>1, RestoringMoves DEF UndoAt, On, Typed
  <2>3. copy.folder[i] # "part" \/ i \in late
    BY <2>2 DEF Somewhere, Is
  <2>4. UNCHANGED <<stored, sound, moved, dir, mig, late>>
    BY <1>3 DEF Restore, MoveAside
  <2>5. (folder'[i] # "part" \/ i \in late) /\ \A k \in Ids \ {i} : folder'[k] = folder[k]
    BY <2>1, <2>2, <2>3 DEF PutsBack, Typed, Places
  <2> QED
    BY <2>2, <2>4, <2>5 DEF Entries, Kept
<1>4. CASE MoveStoreOut(w)
  <2>1. On(w, "undo", "out") /\ mig' = NoRecord /\ moved' = moved \cup Kept /\ UNCHANGED <<folder, sound, late>>
    BY <1>4, UndoMoves DEF MoveStoreOut
  <2>2. /\ Takes(Kept, job[w].ids)
        /\ \A i \in copy.cat \cup job[w].ids : Is(folder[i]) \/ i \in late
    BY <2>1 DEF UndoAt, On
  <2>3. \A i \in Kept : folder[i] # "part" \/ i \in late
    BY <2>2 DEF Takes, Missed, Is
  <2>4. \A i \in Ids : folder[i] # "part" \/ i \in late
    BY <2>3 DEF Entries, Kept
  <2>5. \A i \in Ids : stored'[i] = "none" /\ mig'.fold[i] = "none"
    BY <1>4, <2>1 DEF MoveStoreOut, NoRecord
  <2> QED
    BY <2>1, <2>4, <2>5 DEF Entries, Kept
<1>5. CASE NotRestored(w)
  BY <1>5, EntriesStay DEF NotRestored
<1> QED
  BY <1>1, <1>2, <1>3, <1>4, <1>5 DEF UndoStep

LEMMA EntriesKept ==
  ASSUME Typed, JobsFit, Layout, Somewhere, Entries, Next,
         \A w \in Windows : LayoutAt(w) /\ BackupAt(w) /\ AllAt(w)
  PROVE  Entries'
<1>1. ASSUME NEW w \in Windows, BackupStep(w) \/ StartUpgrade(w) \/ UpgradeStep(w) \/ FailUpgrade(w)
      PROVE  Entries'
  BY <1>1, EntriesByBackup, EntriesByUpgrade
<1>2. ASSUME NEW w \in Windows, FoldStep(w) \/ FreeStep(w) \/ UndoStep(w) PROVE Entries'
  BY <1>2, EntriesByFold, EntriesByFree, EntriesByUndo DEF AllAt
<1>3. ASSUME NEW w \in Windows, LiveStep(w) \/ Crash(w) PROVE Entries'
  BY <1>3, EntriesStay DEF LiveStep, StartLiveOp, EndLiveOp, RecoverLiveOp, Crash
<1>4. ASSUME NEW i \in Ids, EditFolder(i) \/ DamageEntry(i) PROVE Entries'
  BY <1>4 DEF EditFolder, DamageEntry, Entries, Kept, Typed, Places
<1> QED
  BY <1>1, <1>2, <1>3, <1>4 DEF Next

-----------------------------------------------------------------------------
\* The invariant holds at first, and of every step; what it gives.

LEMMA SureParts == Sure <=> /\ Typed /\ JobsFit /\ Locks /\ Layout /\ Somewhere /\ Entries
                            /\ \A w \in Windows : LayoutAt(w) /\ BackupAt(w) /\ AllAt(w)
  BY DEF Sure, AllAt

LEMMA SureInit == Init => Sure
<1> SUFFICES ASSUME Init PROVE Sure
  OBVIOUS
<1>1. JobsFit /\ \A w \in Windows : job[w] = Idle
  BY IdleFits DEF Init, JobsFit
<1>2. Typed
  BY IdsAreNat DEF Init, Typed, Places, Contents, NoStore, NoRecord, NoCopy
<1>3. Locks
  BY <1>1, IdsAreNat DEF Init, Locks, Alone, Idle
<1>4. Layout /\ Somewhere /\ Entries
  BY DEF Init, Layout, Somewhere, Entries, NoStore, NoRecord, NoCopy, Kept
<1>5. ASSUME NEW w \in Windows PROVE LayoutAt(w) /\ BackupAt(w) /\ AllAt(w)
  BY <1>1 DEF LayoutAt, BackupAt, AllAt, CopyAt, FoldAt, FreeAt, UndoAt, Idle
<1> QED
  BY <1>1, <1>2, <1>3, <1>4, <1>5, SureParts

LEMMA SureStep == Sure /\ [Next]_vars => Sure'
<1> SUFFICES ASSUME Sure, [Next]_vars PROVE Sure'
  OBVIOUS
<1>1. /\ Typed /\ JobsFit /\ Locks /\ Layout /\ Somewhere /\ Entries
      /\ \A w \in Windows : LayoutAt(w) /\ BackupAt(w) /\ AllAt(w)
  BY SureParts
<1>2. CASE Next
  <2>1. Typed' /\ JobsFit' /\ Locks'
    BY <1>1, <1>2, TypedKept, FitsKept, LocksKept
  <2>2. Layout' /\ \A w \in Windows : LayoutAt(w)'
    BY <1>1, <1>2, LayoutKept
  <2>3. Somewhere' /\ Entries'
    BY <1>1, <1>2, SomewhereKept, EntriesKept
  <2>4. \A w \in Windows : BackupAt(w)' /\ AllAt(w)'
    BY <1>1, <1>2, BackupsKept, KnowsKept
  <2> QED
    BY <2>1, <2>2, <2>3, <2>4 DEF Sure, AllAt
<1>3. CASE UNCHANGED vars
  <2>1. Typed' /\ JobsFit' /\ Locks'
    BY <1>1, <1>3 DEF vars, Typed, JobsFit, Locks
  <2>2. Layout' /\ \A w \in Windows : LayoutAt(w)'
    BY <1>1, <1>3 DEF vars, Layout, LayoutAt
  <2>3. Somewhere' /\ Entries'
    BY <1>1, <1>3, NothingMoved, EntriesStay DEF vars
  <2>4. ASSUME NEW w \in Windows PROVE BackupAt(w)' /\ AllAt(w)'
    <3>1. Beside /\ job'[w] = job[w]
      BY <1>3 DEF vars, Beside, Data
    <3>2. BackupAt(w)'
      BY <1>1, <1>3 DEF vars, BackupAt, Kept
    <3> QED
      BY <1>1, <3>1, <3>2, CopyStands, FoldStands, FreeStands, UndoStands DEF AllAt
  <2> QED
    BY <2>1, <2>2, <2>3, <2>4 DEF Sure, AllAt
<1> QED
  BY <1>2, <1>3

LEMMA SureAlways == Spec => []Sure
  BY SureInit, SureStep, PTL DEF Spec

LEMMA SureGives == Sure => UndoIsReady
<1> SUFFICES ASSUME Sure PROVE UndoIsReady
  OBVIOUS
<1>1. Typed /\ Layout /\ Somewhere /\ Entries
  BY DEF Sure
<1>2. TypeOK
  BY <1>1 DEF TypeOK, Typed, Places, Layout
<1>3. OpsKeepStore
  BY <1>1 DEF OpsKeepStore, Layout
<1>4. ASSUME NEW i \in made \ (Touched \cup late) PROVE InListing(i)
  <2>1. /\ i \in Ids /\ i \in cat \cup Kept
        /\ folder[i] \in {"none", "whole", "part"} /\ stored[i] \in {"none", "whole"} /\ ~Between(i)
    BY <1>1, <1>4 DEF Typed, Places, Contents, Somewhere, Entries, Touched, Between
  <2>2. CASE stored[i] # "none"
    BY <1>1, <2>1, <2>2 DEF Layout, InListing
  <2>3. CASE stored[i] = "none"
    BY <1>1, <2>1, <2>3 DEF Somewhere, Entries, Kept, InListing
  <2> QED
    BY <2>2, <2>3
<1> QED
  BY <1>2, <1>3, <1>4 DEF UndoIsReady, UndoFindsAll

\* Whatever upgrades, folds, freeings, undos, edits, damage and crashes went before,
\* every backup reported as made is listed, and a live operation has its store.
THEOREM EveryBackupIsListed == Spec => []UndoIsReady
  BY SureAlways, SureGives, PTL

-----------------------------------------------------------------------------
\* What no step does: to a folder of the catalog, and to the copy when store mode comes on.

Lost(i) == folder[i] \in {"whole", "edited"} /\ folder'[i] \in {"none", "part"}
Safe(i) == (stored[i] = folder[i] /\ sound[i]) \/ <<i, folder[i]>> \in aside'

LEMMA LostIsSafe ==
  ASSUME Sure, Next, NEW i \in cat, Lost(i)
  PROVE  Safe(i)
<1>1. /\ Typed /\ JobsFit /\ Locks /\ Layout /\ Somewhere /\ Entries
      /\ \A w \in Windows : LayoutAt(w) /\ BackupAt(w) /\ AllAt(w)
  BY SureParts
<1>0. i \in Ids /\ folder' # folder
  BY <1>1 DEF Lost, Typed
<1>2. ASSUME NEW k \in Ids, folder'[k] \in {"whole", "edited"}, \A x \in Ids \ {k} : folder'[x] = folder[x]
      PROVE  Safe(i)
  BY <1>0, <1>2 DEF Lost
<1>3. ASSUME NEW w \in Windows, BackupStep(w) PROVE Safe(i)
  <2>1. PICK k \in Ids \ (cat \cup Kept \cup moved) : BackedUp(k)
    BY <1>0, <1>1, <1>3, BackupIsApart DEF Data
  <2> QED
    BY <1>0, <1>1, <2>1 DEF BackedUp, Lost, Typed, Places
<1>4. ASSUME NEW w \in Windows,
             StartUpgrade(w) \/ UpgradeStep(w) \/ FailUpgrade(w) \/ FoldStep(w) \/ LiveStep(w) \/ Crash(w)
      PROVE  folder' = folder
  BY <1>4 DEF StartUpgrade, UpgradeStep, FailUpgrade, MarkUpgrade, SyncCopy, Settle, RenameCopy, WriteRecord,
     CreateStore, Unmark, Cleanup, RemoveCopy, RemoveStore, FoldStep, StartFold, FoldOne, SaveFold, EndFold,
     LiveStep, StartLiveOp, EndLiveOp, RecoverLiveOp, Crash
<1>5. ASSUME NEW w \in Windows, FreeStep(w) PROVE Safe(i)
  <2>1. CASE DeleteFiles(w)
    <3>1. On(w, "free", "delete")
      BY <1>1, <2>1, FreeMoves
    <3>4. \A x \in Ids \ {job[w].id} : folder'[x] = folder[x]
      BY <1>1, <2>1 DEF DeleteFiles, Typed, Places
    <3>2. i = job[w].id
      BY <1>0, <3>4 DEF Lost
    <3>3. FreeAt(w)
      BY <1>1 DEF AllAt
    <3> QED
      BY <1>0, <3>1, <3>2, <3>3 DEF FreeAt, On, StoreIsSound, Is, Lost, Safe
  <2>2. CASE StartFree(w) \/ Judge(w) \/ DropCatalogEntry(w) \/ SaveFreed(w) \/ EndFree(w)
    BY <1>0, <2>2 DEF StartFree, Judge, DropCatalogEntry, SaveFreed, EndFree
  <2> QED
    BY <1>5, <2>1, <2>2 DEF FreeStep
<1>6. ASSUME NEW w \in Windows, UndoStep(w) PROVE Safe(i)
  <2>1. ASSUME NEW k \in Ids, NEW there \in Contents, PutsBack(w, k, there) PROVE Safe(i)
    BY <1>0, <1>1, <2>1 DEF PutsBack, Lost, Safe, Typed, Places, Contents
  <2>2. CASE Export(w)
    <3>1. PICK k \in job[w].todo : PutsBack(w, k, stored[k])
      BY <1>1, <2>2, RestoringMoves
    <3>2. k \in Kept
      BY <1>1, <2>2, <3>1, RestoringMoves DEF On, AllAt, UndoAt
    <3>3. stored[k] \in Contents /\ k \in Ids
      BY <1>1, <3>2 DEF Kept, Typed, Places
    <3> QED
      BY <2>1, <3>1, <3>3
  <2>3. CASE Restore(w)
    <3>1. PICK k \in job[w].back : PutsBack(w, k, copy.folder[k])
      BY <1>1, <2>3, RestoringMoves
    <3>2. k \in copy.cat
      BY <1>1, <2>3, <3>1, RestoringMoves DEF On, AllAt, UndoAt
    <3>3. copy.folder[k] \in Contents /\ k \in Ids
      BY <1>1, <3>2 DEF Typed, Places
    <3> QED
      BY <2>1, <3>1, <3>3
  <2>4. CASE ~Export(w) /\ ~Restore(w)
    BY <1>0, <1>6, <2>4 DEF UndoStep, StartUndo, CountEntries, MarkUndo, ExportsDone, UniteCatalogs, MoveStoreOut,
       StopUndo, KeepUpgrade, NotRestored
  <2> QED
    BY <2>2, <2>3, <2>4
<1>7. ASSUME NEW k \in Ids, EditFolder(k) \/ DamageEntry(k) PROVE Safe(i)
  BY <1>0, <1>1, <1>2, <1>7 DEF EditFolder, DamageEntry, Typed, Places
<1> QED
  BY <1>0, <1>3, <1>4, <1>5, <1>6, <1>7 DEF Next

\* Only an upgrade's commit turns store mode on.
LEMMA StoreComesWithCopy ==
  ASSUME Sure, Next, dir'.format, ~dir.format
  PROVE  \/ mig.copy = "none"
         \/ /\ copy.at = "final" /\ mig.copy = "named" /\ copy.cat = cat
            /\ \A i \in cat : folder[i] = copy.folder[i]
<1>1. Typed /\ JobsFit /\ \A w \in Windows : AllAt(w)
  BY SureParts
<1>a. ASSUME NEW w \in Windows, BackupStep(w) \/ FoldStep(w) \/ FreeStep(w) \/ LiveStep(w) \/ Crash(w) PROVE dir' = dir
  BY <1>a DEF BackupStep, StartBackup, CopyFolder, Catalogue, KeepInStore, FoldStep, StartFold, FoldOne, SaveFold,
     EndFold, FreeStep, StartFree, Judge, DeleteFiles, DropCatalogEntry, SaveFreed, EndFree, LiveStep, StartLiveOp,
     EndLiveOp, RecoverLiveOp, Crash
<1>b. ASSUME NEW w \in Windows, StartUpgrade(w) \/ FailUpgrade(w) \/ UpgradeStep(w), ~CreateStore(w)
      PROVE  ~dir'.format
  BY <1>1, <1>b DEF Typed, StartUpgrade, FailUpgrade, UpgradeStep, MarkUpgrade, SyncCopy, Settle, RenameCopy,
     WriteRecord, Unmark, Cleanup, RemoveCopy, RemoveStore, NoStore
<1>c. ASSUME NEW w \in Windows, UndoStep(w) PROVE ~dir'.format
  BY <1>1, <1>c DEF Typed, UndoStep, StartUndo, CountEntries, MarkUndo, MoveAside, Export, ExportsDone, Restore,
     NotRestored, UniteCatalogs, MoveStoreOut, StopUndo, KeepUpgrade, NoStore
<1>d. ASSUME NEW i \in Ids, EditFolder(i) \/ DamageEntry(i) PROVE dir' = dir
  BY <1>d DEF EditFolder, DamageEntry
<1>2. PICK w \in Windows : CreateStore(w)
  BY <1>a, <1>b, <1>c, <1>d DEF Next
<1>3. job[w].at = "format" /\ CopyAt(w)
  BY <1>1, <1>2 DEF CreateStore, AllAt
<1> QED
  BY <1>3 DEF CopyAt, SameAsVault

\* No step deletes or replaces a catalogued folder unless its very content is in the
\* store, intact, or aside; and store mode begins with a copy that is the vault.
THEOREM NothingIsDestroyed == Spec => VaultIsKept
<1> DEFINE Keeps == \A i \in cat : folder[i] \in {"whole", "edited"} /\ folder'[i] \in {"none", "part"} =>
                      \/ stored[i] = folder[i] /\ sound[i]
                      \/ <<i, folder[i]>> \in aside'
           Comes == dir'.format /\ ~dir.format =>
                      \/ mig.copy = "none"
                      \/ /\ copy.at = "final" /\ mig.copy = "named" /\ copy.cat = cat
                         /\ \A i \in cat : folder[i] = copy.folder[i]
<1>1. Sure /\ [Next]_vars => [Keeps]_vars
  BY LostIsSafe DEF Lost, Safe
<1>2. Sure /\ [Next]_vars => [Comes]_vars
  BY StoreComesWithCopy
<1>3. Spec => [][Keeps]_vars
  BY <1>1, SureAlways, PTL DEF Spec
<1>4. Spec => [][Comes]_vars
  BY <1>2, SureAlways, PTL DEF Spec
<1> QED
  BY <1>3, <1>4 DEF VaultIsKept, NothingDestroyed, CopyIsVault
=============================================================================
