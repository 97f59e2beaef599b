---------------------------- MODULE VaultLayout ----------------------------
(***************************************************************************)
(* The two layouts of a vault and the ways between them (core/store):      *)
(* upgrade, its cleanup after a crash, fold, freeing of old folders, undo  *)
(* of the upgrade and keeping it after all, while other windows make       *)
(* backups and live operations and the owner edits folders by hand.        *)
(* A backup's content is one value; what matters is where it is.           *)
(***************************************************************************)
EXTENDS Naturals, FiniteSets

CONSTANTS Windows, Nobody,
          Ids,                        \* ids of backups, given out in order
          MaxRounds,                  \* MAX_ROUNDS of run_upgrade
          MaxCrashes, MaxEdits, MaxDamage, MaxJobs

ASSUME LayoutBounds == /\ Nobody \notin Windows
                       /\ Ids \subseteq Nat
                       /\ {MaxRounds, MaxCrashes, MaxEdits, MaxDamage, MaxJobs} \subseteq Nat

VARIABLES folder,   \* backups/<id> etc.: none, whole, edited (by hand), part (half deleted)
          cat,      \* ids in catalog.json
          dir,      \* store/: is it there, has it FORMAT, which upgrade.json
          stored,   \* the manifests: none, whole, edited
          sound,    \* are the bytes of the entry intact?
          mig,      \* migration.json: does it name the copy, the fold's and the freeing's status
          copy,     \* the copy next to the vault: none, partial or final, and what is in it
          aside,    \* folders moved into .rollback: <<id, content>>
          moved,    \* entries of a store moved out of the vault
          lock,     \* who holds the vault lock, the upgrade lock, the live-op lock
          liveop,   \* a live operation in the journal: none, running, open (interrupted)
          job,      \* what each window is doing
          made,     \* ids whose backup was reported as made
          late,     \* ids an undo left out: committed while it compared folders, or reported
                    \* as not put back, and what a fold made of those (history)
          count     \* how many crashes, edits, damages, jobs

vars == <<folder, cat, dir, stored, sound, mig, copy, aside, moved, lock, liveop, job, made, late,
          count>>

Contents == {"none", "whole", "edited", "part"}
Idle     == [op |-> "none", at |-> "idle", id |-> 0, todo |-> {}, back |-> {}, ids |-> {}, round |-> 0]
NoStore  == [there |-> FALSE, format |-> FALSE, marker |-> "none"]
NoCopy   == [at |-> "none", folder |-> [i \in Ids |-> "none"], cat |-> {}]
NoRecord == [copy |-> "missing", fold |-> [i \in Ids |-> "none"], free |-> [i \in Ids |-> "none"]]
Kept     == {i \in Ids : stored[i] # "none"}
Taken    == {i \in Ids : folder[i] # "none" \/ i \in moved} \cup cat \cup Kept
              \cup {job[w].id : w \in Windows}
Fresh    == Ids \ Taken
NewId(i) == i \in Fresh /\ \A j \in Fresh : i <= j

Mode == IF dir.marker # "none" THEN "upgrading" ELSE IF dir.format THEN "store" ELSE "legacy"

Step(w, at)  == job' = [job EXCEPT ![w].at = at]
Hold(k, w)   == lock[k] = Nobody /\ lock' = [lock EXCEPT ![k] = w]
IsFree(k)    == lock[k] = Nobody
End(w)       == /\ job' = [job EXCEPT ![w] = Idle]
                /\ lock' = [k \in DOMAIN lock |-> IF lock[k] = w THEN Nobody ELSE lock[k]]
Begin(w, j)  == /\ job[w] = Idle /\ count.jobs < MaxJobs
                /\ count' = [count EXCEPT !.jobs = @ + 1]
                /\ job' = [job EXCEPT ![w] = j]

Init == /\ folder = [i \in Ids |-> "none"] /\ cat = {} /\ dir = NoStore
        /\ stored = [i \in Ids |-> "none"] /\ sound = [i \in Ids |-> TRUE]
        /\ mig = NoRecord /\ copy = NoCopy /\ aside = {} /\ moved = {}
        /\ lock = [vault |-> Nobody, upgrade |-> Nobody, live |-> Nobody]
        /\ liveop = "none" /\ job = [w \in Windows |-> Idle]
        /\ made = {} /\ late = {}
        /\ count = [crashes |-> 0, edits |-> 0, damages |-> 0, jobs |-> 0]

-----------------------------------------------------------------------------
(* Backups: a folder and a catalog entry in the old layout, a manifest in  *)
(* the new one; refused while the vault is upgraded.                       *)

\* store_of: which of the two; a store/ without FORMAT is refused.
StartBackup(w) == \E i \in Ids :
  /\ NewId(i)
  /\ Mode # "upgrading" /\ (dir.there => dir.format)
  /\ Begin(w, [Idle EXCEPT !.op = "backup", !.id = i,
                           !.at = IF Mode = "store" THEN "keep" ELSE "copy"])
  /\ UNCHANGED <<folder, cat, dir, stored, sound, mig, copy, aside, moved, lock, liveop, made, late>>

CopyFolder(w) ==
  /\ job[w].op = "backup" /\ job[w].at = "copy"
  /\ folder' = [folder EXCEPT ![job[w].id] = "whole"]
  /\ Step(w, "catalog")
  /\ UNCHANGED <<cat, dir, stored, sound, mig, copy, aside, moved, lock, liveop, made, late, count>>

\* guarded_write: the mode is looked at under the vault lock.
MayCatalogue == Mode # "upgrading"

Catalogue(w) ==
  /\ job[w].at = "catalog" /\ IsFree("vault")
  /\ IF MayCatalogue
     THEN /\ cat' = cat \cup {job[w].id} /\ made' = made \cup {job[w].id}
          /\ UNCHANGED folder
     ELSE /\ folder' = [folder EXCEPT ![job[w].id] = "none"]     \* _remove_partial
          /\ UNCHANGED <<cat, made>>
  /\ End(w)
  /\ UNCHANGED <<dir, stored, sound, mig, copy, aside, moved, liveop, late, count>>

\* VersionStore._commit, the mode looked at again under the vault lock.
KeepInStore(w) ==
  /\ job[w].at = "keep" /\ IsFree("vault")
  /\ IF Mode = "store"
     THEN /\ stored' = [stored EXCEPT ![job[w].id] = "whole"]
          /\ made' = made \cup {job[w].id}
          /\ late' = IF \E v \in Windows : job[v].at = "compare" THEN late \cup {job[w].id} ELSE late
     ELSE UNCHANGED <<stored, made, late>>
  /\ End(w)
  /\ UNCHANGED <<folder, cat, dir, sound, mig, copy, aside, moved, liveop, count>>

-----------------------------------------------------------------------------
(* The upgrade: copy aside, settle, commit with FORMAT last.               *)

\* _assess: an old-layout vault without a store/, a free place for the copy.
MayUpgrade == Mode = "legacy" /\ ~dir.there /\ copy.at = "none"

\* run_upgrade under its lock: the plan still holds, store/ is made.
StartUpgrade(w) ==
  /\ MayUpgrade /\ Hold("upgrade", w)
  /\ Begin(w, [Idle EXCEPT !.op = "upgrade", !.at = "mark", !.ids = cat])
  /\ dir' = [dir EXCEPT !.there = TRUE]
  /\ UNCHANGED <<folder, cat, stored, sound, mig, copy, aside, moved, liveop, made, late>>

\* upgrade.json; a vault that was planned without entries needs no copy.
MarkUpgrade(w) ==
  /\ job[w].at = "mark" /\ IsFree("vault")
  /\ dir' = [dir EXCEPT !.marker = "copying"]
  /\ IF job[w].ids # {} THEN Step(w, "sync") /\ UNCHANGED lock
                        ELSE Step(w, "record") /\ Hold("vault", w)
  /\ UNCHANGED <<folder, cat, stored, sound, mig, copy, aside, moved, liveop, made, late, count>>

\* _Run._sync: what is new or changed is copied and read back, what is gone dropped.
SyncCopy(w) ==
  /\ job[w].at = "sync"
  /\ copy' = [at |-> "partial", folder |-> folder, cat |-> cat]
  /\ Step(w, "settle")
  /\ UNCHANGED <<folder, cat, dir, stored, sound, mig, aside, moved, lock, liveop, made, late, count>>

Settled == copy.folder = folder /\ copy.cat = cat

Settle(w) ==
  /\ job[w].at = "settle"
  /\ IF Settled
     THEN Hold("vault", w) /\ Step(w, "rename")
     ELSE /\ job' = [job EXCEPT ![w].round = @ + 1,
                                ![w].at = IF job[w].round = MaxRounds THEN "remove" ELSE "sync"]
          /\ UNCHANGED lock
  /\ UNCHANGED <<folder, cat, dir, stored, sound, mig, copy, aside, moved, liveop, made, late, count>>

\* _commit_copy: the copy gets its final name, the record names it.
RenameCopy(w) ==
  /\ job[w].at = "rename"
  /\ copy' = [copy EXCEPT !.at = "final"]
  /\ Step(w, "record")
  /\ UNCHANGED <<folder, cat, dir, stored, sound, mig, aside, moved, lock, liveop, made, late, count>>

WriteRecord(w) ==
  /\ job[w].at = "record"
  /\ mig' = [NoRecord EXCEPT !.copy = IF copy.at = "final" THEN "named" ELSE "none"]
  /\ Step(w, "format")
  /\ UNCHANGED <<folder, cat, dir, stored, sound, copy, aside, moved, lock, liveop, made, late, count>>

\* create_store, the commit point.
CreateStore(w) ==
  /\ job[w].at = "format"
  /\ dir' = [dir EXCEPT !.format = TRUE]
  /\ stored' = [i \in Ids |-> "none"]
  /\ Step(w, "unmark")
  /\ UNCHANGED <<folder, cat, sound, mig, copy, aside, moved, lock, liveop, made, late, count>>

Unmark(w) ==
  /\ job[w].at = "unmark"
  /\ dir' = [dir EXCEPT !.marker = "none"]
  /\ End(w)
  /\ UNCHANGED <<folder, cat, stored, sound, mig, copy, aside, moved, liveop, made, late, count>>

\* A cancel, a full drive, a copy that does not match, a rename or a write that
\* fails: the run's finally.  (Once FORMAT is there it removes nothing: a failure
\* then leaves what a crash leaves.)
FailUpgrade(w) ==
  /\ job[w].op = "upgrade"
  /\ job[w].at \in {"mark", "sync", "settle", "rename", "record", "format"}
  /\ Step(w, "remove")
  /\ lock' = [lock EXCEPT !["vault"] = IF @ = w THEN Nobody ELSE @]
  /\ UNCHANGED <<folder, cat, dir, stored, sound, mig, copy, aside, moved, liveop, made, late, count>>

\* Mutant (UpgradeEnds): only an upgrade that had committed is seen to.
FinishOnly(w) ==
  /\ job[w] = Idle /\ dir.marker = "copying" /\ dir.format /\ Hold("upgrade", w)
  /\ job' = [job EXCEPT ![w] = [Idle EXCEPT !.op = "cleanup", !.at = "unmark"]]
  /\ UNCHANGED <<folder, cat, dir, stored, sound, mig, copy, aside, moved, liveop, made, late, count>>

\* cleanup_interrupted_upgrade, when a window opens the vault.
Cleanup(w) ==
  /\ job[w] = Idle /\ dir.marker = "copying" /\ Hold("upgrade", w)
  /\ job' = [job EXCEPT ![w] = [Idle EXCEPT !.op = "cleanup",
                                            !.at = IF dir.format THEN "unmark" ELSE "remove"]]
  /\ UNCHANGED <<folder, cat, dir, stored, sound, mig, copy, aside, moved, liveop, made, late, count>>

\* _remove_unfinished: the copy first, then store/.
RemoveCopy(w) ==
  /\ job[w].at = "remove"
  /\ copy' = NoCopy
  /\ Step(w, "unmake")
  /\ UNCHANGED <<folder, cat, dir, stored, sound, mig, aside, moved, lock, liveop, made, late, count>>

RemoveStore(w) ==
  /\ job[w].at = "unmake"
  /\ dir' = NoStore /\ mig' = NoRecord
  /\ End(w)
  /\ UNCHANGED <<folder, cat, stored, sound, copy, aside, moved, liveop, made, late, count>>

-----------------------------------------------------------------------------
(* The fold: every old folder becomes an entry of the same id.             *)

\* _skip_reason, of the entries the vault keeps itself: the folder is missing.
Skipped == {i \in cat : folder[i] = "none"}
ToFold  == {i \in cat \ Skipped : mig.fold[i] # "verified"}

StartFold(w) ==
  /\ Mode = "store" /\ Hold("upgrade", w) /\ ToFold # {}
  /\ Begin(w, [Idle EXCEPT !.op = "fold", !.at = "fold", !.todo = ToFold])
  /\ UNCHANGED <<folder, cat, dir, stored, sound, mig, copy, aside, moved, liveop, made, late>>

\* _fold_one: a folder checked before the commit; one that changed after an
\* earlier fold goes under an id of its own.
FoldOne(w) == \E i \in job[w].todo :
  /\ job[w].at = "fold" /\ IsFree("vault")
  /\ \/ /\ stored[i] \in {"none", folder[i]}
        /\ stored' = [stored EXCEPT ![i] = folder[i]]
        /\ sound' = [sound EXCEPT ![i] = TRUE]
        /\ job' = [job EXCEPT ![w].at = "folded", ![w].id = i, ![w].ids = {}]
        /\ UNCHANGED late
     \/ /\ stored[i] \notin {"none", folder[i]}
        /\ \E j \in Fresh : /\ NewId(j)
                            /\ stored' = [stored EXCEPT ![j] = folder[i]]
                            /\ job' = [job EXCEPT ![w].at = "folded", ![w].id = i, ![w].ids = {j}]
                            /\ late' = IF i \in late THEN late \cup {j} ELSE late
        /\ UNCHANGED sound
  /\ UNCHANGED <<folder, cat, dir, mig, copy, aside, moved, lock, liveop, made, count>>

SaveFold(w) ==
  /\ job[w].at = "folded" /\ IsFree("vault")
  /\ mig' = [mig EXCEPT !.fold[job[w].id] = IF job[w].ids = {} THEN "verified" ELSE "elsewhere"]
  /\ job' = [job EXCEPT ![w].at = "fold", ![w].todo = @ \ {job[w].id}]
  /\ UNCHANGED <<folder, cat, dir, stored, sound, copy, aside, moved, lock, liveop, made, late, count>>

\* Done, cancelled, or no space for the rest.
EndFold(w) ==
  /\ job[w].op = "fold" /\ job[w].at = "fold"
  /\ End(w)
  /\ UNCHANGED <<folder, cat, dir, stored, sound, mig, copy, aside, moved, liveop, made, late, count>>

-----------------------------------------------------------------------------
(* Freeing: the folded folders are deleted, one by one.                    *)

\* Mutant (VaultIsKept): the store is not checked first.
AnyStore == TRUE

\* The deep check of the store that comes first.
StoreIsSound == \A i \in Kept : sound[i]

StartFree(w) ==
  /\ Mode = "store" /\ Hold("upgrade", w) /\ StoreIsSound
  /\ Begin(w, [Idle EXCEPT !.op = "free", !.at = "judge"])
  /\ UNCHANGED <<folder, cat, dir, stored, sound, mig, copy, aside, moved, liveop, made, late>>

\* _judge: the folder read again and compared with the entry; a folder an earlier
\* run began on may hold fewer files.
Freeable(i) == /\ i \in cat /\ mig.fold[i] = "verified" /\ stored[i] # "none"
               /\ \/ folder[i] = stored[i]
                  \/ mig.free[i] = "freeing" /\ folder[i] \in {"part", "none"}

Judge(w) == \E i \in Ids :
  /\ job[w].at = "judge" /\ Freeable(i) /\ IsFree("vault")
  /\ mig' = [mig EXCEPT !.free[i] = "freeing"]
  /\ job' = [job EXCEPT ![w].at = "delete", ![w].id = i]
  /\ UNCHANGED <<folder, cat, dir, stored, sound, copy, aside, moved, lock, liveop, made, late, count>>

\* _delete_listed, file by file; one that cannot be deleted leaves the rest.
DeleteFiles(w) ==
  /\ job[w].at = "delete"
  /\ \E left \in {"part", "none"} :
       /\ folder[job[w].id] = "none" => left = "none"
       /\ folder' = [folder EXCEPT ![job[w].id] = left]
       /\ Step(w, IF left = "none" THEN "drop" ELSE "judge")
  /\ UNCHANGED <<cat, dir, stored, sound, mig, copy, aside, moved, lock, liveop, made, late, count>>

DropCatalogEntry(w) ==
  /\ job[w].at = "drop" /\ IsFree("vault")
  /\ cat' = cat \ {job[w].id}
  /\ Step(w, "freed")
  /\ UNCHANGED <<folder, dir, stored, sound, mig, copy, aside, moved, lock, liveop, made, late, count>>

SaveFreed(w) ==
  /\ job[w].at = "freed" /\ IsFree("vault")
  /\ mig' = [mig EXCEPT !.free[job[w].id] = "freed"]
  /\ Step(w, "judge")
  /\ UNCHANGED <<folder, cat, dir, stored, sound, copy, aside, moved, lock, liveop, made, late, count>>

EndFree(w) ==
  /\ job[w].at = "judge"
  /\ End(w)
  /\ UNCHANGED <<folder, cat, dir, stored, sound, mig, copy, aside, moved, liveop, made, late, count>>

-----------------------------------------------------------------------------
(* The undo of the upgrade.                                                *)

Exports  == {i \in Kept : i \notin copy.cat}
Restores == {i \in copy.cat : copy.folder[i] \notin {"none", folder[i]}}

\* open_live_ops: none running (the live-op lock) and none interrupted.
NoLiveOps == IsFree("live") /\ liveop = "none"

\* plan_rollback: an upgraded vault, or an undo to finish, whose record is there.
MayUndo == dir.format /\ dir.marker \in {"none", "rolling-back"} /\ mig.copy # "missing"

\* run_rollback: the live-op lock, then the upgrade lock; the plan made again.
StartUndo(w) ==
  /\ MayUndo /\ NoLiveOps /\ IsFree("upgrade")
  /\ lock' = [lock EXCEPT !.live = w, !.upgrade = w]
  /\ Begin(w, [Idle EXCEPT !.op = "undo", !.at = "compare", !.todo = Exports, !.back = Restores])
  /\ UNCHANGED <<folder, cat, dir, stored, sound, mig, copy, aside, moved, liveop, made, late>>

\* The folders are compared by now (minutes); then the entries are counted.
CountEntries(w) ==
  /\ job[w].at = "compare"
  /\ job' = [job EXCEPT ![w].at = "recount", ![w].ids = Kept]
  /\ UNCHANGED <<folder, cat, dir, stored, sound, mig, copy, aside, moved, lock, liveop, made, late,
                 count>>

\* Mutant (UndoIsReady): the entries are not looked at again under the lock.
SomeEntries(w) == TRUE

SameEntries(w) == job[w].ids = Kept

MarkUndo(w) ==
  /\ job[w].at = "recount" /\ IsFree("vault")
  /\ IF SameEntries(w)
     THEN /\ dir' = [dir EXCEPT !.marker = "rolling-back"]
          /\ job' = [job EXCEPT ![w].at = "export", ![w].ids = job[w].todo]
          /\ UNCHANGED lock
     ELSE End(w) /\ UNCHANGED dir
  /\ UNCHANGED <<folder, cat, stored, sound, mig, copy, aside, moved, liveop, made, late, count>>

\* Export and restore alike: a folder that differs goes aside, the verified
\* one is renamed into place.
MoveAside(w, i) ==
  /\ aside' = aside \cup {<<i, folder[i]>>}
  /\ folder' = [folder EXCEPT ![i] = "none"]
  /\ UNCHANGED <<cat, dir, stored, sound, mig, copy, moved, lock, liveop, made, late, count, job>>

Export(w) == \E i \in job[w].todo :
  /\ job[w].at = "export" /\ sound[i]
  /\ \/ folder[i] \notin {"none", stored[i]} /\ MoveAside(w, i)
     \/ /\ folder[i] \in {"none", stored[i]}
        /\ folder' = [folder EXCEPT ![i] = stored[i]]
        /\ job' = [job EXCEPT ![w].todo = @ \ {i}]
        /\ UNCHANGED <<cat, dir, stored, sound, mig, copy, aside, moved, lock, liveop, made, late, count>>

ExportsDone(w) ==
  /\ job[w].at = "export" /\ job[w].todo = {}
  /\ Step(w, "restore")
  /\ UNCHANGED <<folder, cat, dir, stored, sound, mig, copy, aside, moved, lock, liveop, made, late,
                 count>>

Restore(w) == \E i \in job[w].back :
  /\ job[w].at = "restore"
  /\ \/ folder[i] \notin {"none", copy.folder[i]} /\ MoveAside(w, i)
     \/ /\ folder[i] \in {"none", copy.folder[i]}
        /\ folder' = [folder EXCEPT ![i] = copy.folder[i]]
        /\ job' = [job EXCEPT ![w].back = @ \ {i}]
        /\ UNCHANGED <<cat, dir, stored, sound, mig, copy, aside, moved, lock, liveop, made, late, count>>

\* A folder that cannot be put back stays as it is by then, and is reported.
NotRestored(w) == \E i \in job[w].back :
  /\ job[w].at = "restore"
  /\ job' = [job EXCEPT ![w].back = @ \ {i}]
  /\ late' = late \cup {i}
  /\ UNCHANGED <<folder, cat, dir, stored, sound, mig, copy, aside, moved, lock, liveop, made, count>>

\* The catalog, the copy's entries and the exported ones.
Union(w) == cat \cup copy.cat \cup job[w].ids

UniteCatalogs(w) ==
  /\ job[w].at = "restore" /\ job[w].back = {} /\ IsFree("vault")
  /\ cat' = Union(w)
  /\ Step(w, "out")
  /\ UNCHANGED <<folder, dir, stored, sound, mig, copy, aside, moved, lock, liveop, made, late, count>>

\* store/ is renamed out of the vault: the old layout is back.
MoveStoreOut(w) ==
  /\ job[w].at = "out"
  /\ dir' = NoStore /\ mig' = NoRecord /\ copy' = NoCopy
  /\ moved' = moved \cup Kept
  /\ stored' = [i \in Ids |-> "none"]
  /\ End(w)
  /\ UNCHANGED <<folder, cat, sound, aside, liveop, made, late, count>>

\* A cancel, a full drive, a damaged entry: the marker stays.
StopUndo(w) ==
  /\ job[w].op = "undo" /\ job[w].at \in {"export", "restore", "out"}
  /\ End(w)
  /\ UNCHANGED <<folder, cat, dir, stored, sound, mig, copy, aside, moved, liveop, made, late, count>>

KeepUpgrade(w) ==
  /\ job[w] = Idle /\ dir.marker = "rolling-back" /\ IsFree("upgrade")
  /\ dir' = [dir EXCEPT !.marker = "none"]
  /\ UNCHANGED <<folder, cat, stored, sound, mig, copy, aside, moved, lock, liveop, job, made, late,
                 count>>

-----------------------------------------------------------------------------
(* Live operations, the owner, the medium and crashes.                     *)

\* A live operation of the organizer keeps in the store what it replaces.
StartLiveOp(w) ==
  /\ Mode = "store" /\ liveop = "none" /\ Hold("live", w)
  /\ liveop' = "running"
  /\ Begin(w, [Idle EXCEPT !.op = "live", !.at = "live"])
  /\ UNCHANGED <<folder, cat, dir, stored, sound, mig, copy, aside, moved, made, late>>

EndLiveOp(w) ==
  /\ job[w].at = "live"
  /\ liveop' = "none"
  /\ End(w)
  /\ UNCHANGED <<folder, cat, dir, stored, sound, mig, copy, aside, moved, made, late, count>>

RecoverLiveOp(w) ==
  /\ job[w] = Idle /\ liveop = "open" /\ IsFree("live") /\ Mode = "store"
  /\ liveop' = "none"
  /\ UNCHANGED <<folder, cat, dir, stored, sound, mig, copy, aside, moved, lock, job, made, late, count>>

\* Not between a folder's check and what the check was for (its deletion, the
\* commit of the upgrade): nothing could guard that.
EditFolder(i) ==
  /\ i \in cat /\ folder[i] = "whole" /\ count.edits < MaxEdits
  /\ \A w \in Windows : job[w].at \notin {"delete", "rename", "record", "format"}
  /\ folder' = [folder EXCEPT ![i] = "edited"]
  /\ count' = [count EXCEPT !.edits = @ + 1]
  /\ UNCHANGED <<cat, dir, stored, sound, mig, copy, aside, moved, lock, liveop, job, made, late>>

\* Not while folders are freed, after the check of the store.
DamageEntry(i) ==
  /\ i \in Kept /\ sound[i] /\ count.damages < MaxDamage
  /\ \A w \in Windows : job[w].op # "free"
  /\ sound' = [sound EXCEPT ![i] = FALSE]
  /\ count' = [count EXCEPT !.damages = @ + 1]
  /\ UNCHANGED <<folder, cat, dir, stored, mig, copy, aside, moved, lock, liveop, job, made, late>>

Crash(w) ==
  /\ job[w] # Idle /\ count.crashes < MaxCrashes
  /\ End(w)
  /\ liveop' = IF job[w].op = "live" THEN "open" ELSE liveop
  /\ count' = [count EXCEPT !.crashes = @ + 1]
  /\ UNCHANGED <<folder, cat, dir, stored, sound, mig, copy, aside, moved, made, late>>

BackupStep(w)  == StartBackup(w) \/ CopyFolder(w) \/ Catalogue(w) \/ KeepInStore(w)
UpgradeStep(w) == \/ MarkUpgrade(w) \/ SyncCopy(w) \/ Settle(w) \/ RenameCopy(w) \/ WriteRecord(w)
                  \/ CreateStore(w) \/ Unmark(w) \/ Cleanup(w) \/ RemoveCopy(w) \/ RemoveStore(w)
FoldStep(w)    == StartFold(w) \/ FoldOne(w) \/ SaveFold(w) \/ EndFold(w)
FreeStep(w)    == \/ StartFree(w) \/ Judge(w) \/ DeleteFiles(w) \/ DropCatalogEntry(w)
                  \/ SaveFreed(w) \/ EndFree(w)
UndoStep(w)    == \/ StartUndo(w) \/ CountEntries(w) \/ MarkUndo(w) \/ Export(w) \/ ExportsDone(w)
                  \/ Restore(w) \/ NotRestored(w) \/ UniteCatalogs(w) \/ MoveStoreOut(w) \/ StopUndo(w) \/ KeepUpgrade(w)
LiveStep(w)    == StartLiveOp(w) \/ EndLiveOp(w) \/ RecoverLiveOp(w)

Next == \/ \E w \in Windows : \/ BackupStep(w) \/ StartUpgrade(w) \/ UpgradeStep(w) \/ FailUpgrade(w)
                              \/ FoldStep(w) \/ FreeStep(w) \/ UndoStep(w) \/ LiveStep(w) \/ Crash(w)
        \/ \E i \in Ids : EditFolder(i) \/ DamageEntry(i)

\* A window that is open looks for an interrupted upgrade, and an upgrade runs on.
Spec == Init /\ [][Next]_vars /\ \A w \in Windows : WF_vars(UpgradeStep(w))
-----------------------------------------------------------------------------
(* Types: where a backup may be, and what each lock and marker may be.     *)
TypeOK ==
  /\ folder \in [Ids -> Contents] /\ stored \in [Ids -> Contents] /\ copy.folder \in [Ids -> Contents]
  /\ cat \cup made \cup late \cup moved \subseteq Ids
  /\ dir \in [there : BOOLEAN, format : BOOLEAN, marker : {"none", "copying", "rolling-back"}]
  /\ dir.format \/ dir.marker # "none" => dir.there
  /\ lock \in [{"vault", "upgrade", "live"} -> Windows \cup {Nobody}]
  /\ copy.at \in {"none", "partial", "final"} /\ liveop \in {"none", "running", "open"}

Touched == {i \in Ids : \/ folder[i] = "edited" \/ stored[i] = "edited" \/ ~sound[i]
                        \/ copy.folder[i] = "edited" \/ <<i, "edited">> \in aside}

\* The one listing: a store entry, else a catalog entry with its folder.
InListing(i) == IF dir.format /\ stored[i] # "none" THEN stored[i] = "whole"
                ELSE i \in cat /\ folder[i] = "whole"

\* Every backup that was reported as made is in the vault's listing, whole:
\* through upgrades, folds, freeing, undos and crashes in any of their steps
\* ("every backup is still listed", "with everything made since").
UndoFindsAll == \A i \in made \ (Touched \cup late) : InListing(i)

\* A catalogued folder is deleted or replaced only while its very content is in
\* the store, intact, or moved aside (free._judge, rollback._move_aside).
NothingDestroyed ==
  [][\A i \in cat : folder[i] \in {"whole", "edited"} /\ folder'[i] \in {"none", "part"} =>
       \/ stored[i] = folder[i] /\ sound[i]
       \/ <<i, folder[i]>> \in aside']_vars

\* When store mode comes on, the copy aside has every catalogued backup as it is
\* (run_upgrade: the tree is compared under the lock) and the record names it.
CopyIsVault ==
  [][dir'.format /\ ~dir.format =>
       \/ mig.copy = "none"
       \/ /\ copy.at = "final" /\ mig.copy = "named" /\ copy.cat = cat
          /\ \A i \in cat : folder[i] = copy.folder[i]]_vars

\* A live operation that runs, or was interrupted, finds the store it kept things in.
OpsKeepStore == liveop # "none" => dir.format

\* An upgrade comes to its end, by itself or by the next window's cleanup.
UpgradeEnds == dir.marker = "copying" ~> dir.marker # "copying"

\* An Undo of the upgrade is possible from every state that offers it: it finds every
\* backup, and no interrupted operation loses the store it needs.
UndoIsReady == TypeOK /\ UndoFindsAll /\ OpsKeepStore

\* No step of upgrade, free, undo or finish destroys a backup, and store mode begins with
\* a copy that is the vault.
VaultIsKept == NothingDestroyed /\ CopyIsVault
=============================================================================
