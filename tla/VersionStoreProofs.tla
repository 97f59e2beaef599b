-------------------------- MODULE VersionStoreProofs --------------------------
(***************************************************************************)
(* What the version store lists can be restored and stays (EntriesAreHeld),*)
(* and what its windows list is what the manifests say (ListingsAgree),    *)
(* for any windows, sources, ids, contents and numbers of mishaps.         *)
(*                                                                         *)
(* That a listed object is there is not inductive: a power failure undoes  *)
(* renames, and an object another window wrote may be deduplicated against *)
(* before its rename is durable.  What holds is the order: whenever an     *)
(* object's rename can still be undone, that of every manifest which needs *)
(* it can too, and was later (Covered).  And a put that returned is good   *)
(* to rely on until the commit, unless the medium or a quarantine took the *)
(* object since (Held).                                                    *)
(***************************************************************************)
EXTENDS VersionStore, TLAPS

Rename  == ({"object", "moved"} \X Digests) \cup ({"entry"} \X Ids)
SourceIds == {s.id : s \in Source}
JobOps  == {"none", "capture", "folder", "merge", "repair", "look"}
Places  == {"idle", "read", "put", "aside", "write", "sync", "back", "meta", "check", "commit",
            "settle", "synced", "present", "guard"}
JobType == [op : JobOps, at : Places, data : Digests, meta : Digests, want : Nat,
            from : {0} \cup SourceIds]

\* The type invariant, and what it needs of the rest.
Typed ==
  /\ TypeOK
  /\ loose \in Seq(Rename)
  /\ job \in [Windows -> JobType]
  /\ now \in 0..MaxNow /\ dirtime \in 0..now
  /\ live \in states /\ [data |-> 0, meta |-> 0] \in states

\* A digest whose object is there, unless it was damaged or taken since a put verified it.
Held(d) == objects[d] = "good" \/ d \in hurt

\* An undone rename of the entry's object undoes the entry's too.
Covered(i) ==
  entries[i].data \notin hurt =>
    \A k \in DOMAIN loose : loose[k] = <<"object", entries[i].data>> =>
      \E n \in DOMAIN loose : n > k /\ loose[n] = <<"entry", i>>

Written(i) == \E k \in DOMAIN loose : loose[k] = <<"entry", i>>

EntriesSound == \A i \in Listed : Held(entries[i].data) /\ Covered(i)

\* What was given out is listed, and no power failure can take it.
KeptSound == \A k \in kept : k[1] \in Listed /\ entries[k[1]] = k[2] /\ ~Written(k[1])

\* How far a window has come, and what it can rely on by then.
JobSound(w) ==
  LET j == job[w] IN
  /\ j.at = "read" => j.op = "capture"
  /\ j.at \in {"put", "aside", "write", "sync", "back"} => j.op \in {"capture", "folder", "merge", "repair"}
  /\ j.at \in {"meta", "check"} => j.op = "capture"
  /\ j.at \in {"commit", "settle"} => j.op \in {"capture", "folder", "merge"}
  /\ j.op \in {"capture", "folder", "look", "repair"} => j.from = 0
  /\ j.op = "merge" => j.from # 0
  /\ j.op = "folder" => j.want \in Ids /\ [data |-> j.data, meta |-> j.meta] \in states
  /\ j.at \in {"commit", "settle"} /\ j.op = "capture" => [data |-> j.data, meta |-> j.meta] \in states
  /\ j.at \in {"meta", "check", "commit", "settle"} =>
       Held(j.data) \/ (j.op = "merge" /\ \E i \in Listed : entries[i].from = j.from)
  /\ j.at \in {"synced", "present"} => j.want \in Listed
  /\ j.at = "present" => ~Written(j.want)
  /\ j.at = "guard" => j.want \in 0..MaxNow

StoreInv == /\ Typed /\ EntriesSound /\ EntryIsAState /\ MergedOnce /\ KeptSound
            /\ \A w \in Windows : JobSound(w)

\* A window that trusts the time of the folder, or is about to, has indexed every
\* manifest; the times it trusts are older than now, so a new manifest changes them.
Indexed(w) ==
  /\ seen[w] = Untrusted \/ seen[w] < now
  /\ seen[w] = dirtime => Listed \subseteq known[w]
  /\ job[w].at = "guard" => /\ job[w].want <= now
                            /\ job[w].want = dirtime /\ job[w].want # now => Listed \subseteq known[w]

CacheInv == \A w \in Windows : Indexed(w)

-----------------------------------------------------------------------------
\* Types.

LEMMA Bounds == MaxIds \in Nat /\ MaxSaves \in Nat /\ MaxNow \in Nat /\ Nobody \notin Windows
  BY StoreBounds

LEMMA Sources == \A s \in Source : s.id \in Nat \ {0} /\ s.data \in Digests /\ s.meta \in Digests
  BY StoredElsewhere DEF Digests

\* A listed manifest is an entry, one that is not listed names no digest.
LEMMA ListedIsAnEntry ==
  ASSUME Typed
  PROVE  \A i \in Ids : /\ i \in Listed <=> entries[i] \in Entry
                        /\ i \in Listed => entries[i].data \in Digests /\ entries[i].from \in Nat
<1>1. MaxSaves + 1 \notin Digests
  BY Bounds DEF Digests
<1>2. NoEntry \notin Entry
  BY <1>1 DEF NoEntry, Entry
<1>3. entries \in [Ids -> Entry \cup {NoEntry}]
  BY DEF Typed, TypeOK
<1>4. \A s \in Source : s.id \in Nat
  BY Sources
<1> QED
  BY <1>2, <1>3, <1>4 DEF Listed, Entry

\* A window's job alone changes.
OnlyMoves(w) == job' \in [Windows -> JobType] /\ \A p \in Windows \ {w} : job'[p] = job[p]

LEMMA StepMoves ==
  ASSUME job \in [Windows -> JobType], NEW w \in Windows, NEW a \in Places, Step(w, a)
  PROVE  /\ OnlyMoves(w)
         /\ job'[w].at = a
         /\ job'[w].op = job[w].op /\ job'[w].from = job[w].from /\ job'[w].want = job[w].want
         /\ job'[w].data = job[w].data /\ job'[w].meta = job[w].meta
  BY DEF Step, OnlyMoves, JobType

LEMMA IdleJob == Idle \in JobType
<1>1. 0 \in Digests
  BY Bounds DEF Digests
<1> QED
  BY <1>1 DEF Idle, Job, JobType, JobOps, Places

LEMMA EndMoves ==
  ASSUME job \in [Windows -> JobType], NEW w \in Windows, End(w)
  PROVE  OnlyMoves(w) /\ job'[w] = Idle
  BY IdleJob DEF End, OnlyMoves

-----------------------------------------------------------------------------
\* What a step leaves of the manifests, and of what the other windows rely on.

\* What the windows at work rely on stays so.
Grows ==
  /\ states \subseteq states'
  /\ \A d \in Digests : Held(d) => Held(d)'
  /\ \A i \in Listed : i \in Listed' /\ entries'[i] = entries[i] /\ (Written(i)' => Written(i))

LEMMA OthersStay ==
  ASSUME Grows, NEW w \in Windows, job[w] \in JobType, JobSound(w), job'[w] = job[w]
  PROVE  JobSound(w)'
<1> DEFINE j == job[w]
<1>1. j.data \in Digests
  BY DEF JobType
<1>2. Held(j.data) => (Held(j.data))'
  BY <1>1 DEF Grows, Held
<1>3. (\E i \in Listed : entries[i].from = j.from) => \E i \in Listed' : entries'[i].from = j.from
  BY DEF Grows
<1>4. j.want \in Listed => j.want \in Listed' /\ (Written(j.want)' => Written(j.want))
  BY DEF Grows, Written
<1> QED
  BY <1>2, <1>3, <1>4 DEF JobSound, Grows

DiskSound == EntriesSound /\ EntryIsAState /\ MergedOnce /\ KeptSound

\* A step that leaves manifests and objects alone, and at most syncs renames.
SameDisk ==
  /\ UNCHANGED <<objects, entries, hurt, kept>>
  /\ states \subseteq states' /\ loose' \in {loose, <<>>}

LEMMA DiskStays ==
  ASSUME StoreInv, SameDisk
  PROVE  DiskSound' /\ Grows
<1>1. Listed' = Listed
  BY DEF SameDisk, Listed
<1>2. \A i \in Ids : Written(i)' => Written(i)
  BY DEF SameDisk, Written
<1>3. \A d \in Digests : Held(d)' = Held(d)
  BY DEF SameDisk, Held
<1>4. EntriesSound'
  <2> SUFFICES ASSUME NEW i \in Listed PROVE Held(entries[i].data)' /\ Covered(i)'
    BY <1>1 DEF EntriesSound
  <2>1. Held(entries[i].data) /\ Covered(i)
    BY DEF StoreInv, EntriesSound
  <2>2. Held(entries[i].data)'
    BY <2>1 DEF SameDisk, Held
  <2>3. Covered(i)'
    BY <2>1 DEF SameDisk, Covered
  <2> QED
    BY <2>2, <2>3
<1>5. EntryIsAState'
  BY <1>1 DEF StoreInv, EntryIsAState, SameDisk
<1>6. MergedOnce'
  BY <1>1 DEF StoreInv, MergedOnce, SameDisk
<1>7. KeptSound'
  BY <1>1, <1>2 DEF StoreInv, KeptSound, SameDisk, Listed
<1>8. Grows
  BY <1>1, <1>2, <1>3 DEF Grows, SameDisk, Listed
<1> QED
  BY <1>4, <1>5, <1>6, <1>7, <1>8 DEF DiskSound

\* The invariant, part by part: of the windows, only those that moved need a look.
LEMMA Assemble ==
  ASSUME StoreInv, Grows, Typed', DiskSound',
         \A p \in Windows : job'[p] = job[p] \/ JobSound(p)'
  PROVE  StoreInv'
<1>1. ASSUME NEW p \in Windows PROVE JobSound(p)'
  <2>1. job[p] \in JobType /\ JobSound(p)
    BY DEF StoreInv, Typed
  <2> QED
    BY <2>1, OthersStay
<1> QED
  BY <1>1 DEF StoreInv, DiskSound

-----------------------------------------------------------------------------
\* The type invariant in three parts, each with its own variables.
StoreTyped ==
  /\ live \in [data : Digests, meta : Digests]
  /\ objects \in [Digests -> {"none", "good", "bad"}]
  /\ entries \in [Ids -> Entry \cup {NoEntry}]
  /\ hurt \subseteq Digests
  /\ loose \in Seq(Rename)
  /\ live \in states /\ [data |-> 0, meta |-> 0] \in states
LookTyped ==
  /\ known \in [Windows -> SUBSET Ids]
  /\ seen \in [Windows -> 0..Untrusted]
  /\ now \in 0..MaxNow /\ dirtime \in 0..now
LockTyped ==
  /\ lock \in Windows \cup {Nobody}
  /\ \A w \in Windows : lock = w <=> job[w].at \in {"settle", "synced"}

LEMMA TypedParts == Typed <=> StoreTyped /\ LookTyped /\ LockTyped /\ job \in [Windows -> JobType]
  BY DEF Typed, TypeOK, StoreTyped, LookTyped, LockTyped

LEMMA TypedPartsNext ==
  Typed' <=> StoreTyped' /\ LookTyped' /\ LockTyped' /\ job' \in [Windows -> JobType]
  BY DEF Typed, TypeOK, StoreTyped, LookTyped, LockTyped

\* A step of w without the lock, that takes none.
LEMMA LockStays ==
  ASSUME LockTyped, NEW w \in Windows, OnlyMoves(w), lock' = lock,
         job[w].at \notin {"settle", "synced"}, job'[w].at \notin {"settle", "synced"}
  PROVE  LockTyped'
  BY DEF LockTyped, OnlyMoves

LEMMA SyncTyped == ASSUME StoreTyped, SameDisk, UNCHANGED files PROVE StoreTyped'
<1>1. <<>> \in Seq(Rename)
  OBVIOUS
<1> QED
  BY <1>1 DEF StoreTyped, SameDisk, files

\* A window that works on its job alone.
LEMMA QuietStep ==
  ASSUME StoreInv, SameDisk, UNCHANGED <<files, lock>>, LookTyped', NEW w \in Windows, OnlyMoves(w),
         job[w].at \notin {"settle", "synced"}, job'[w].at \notin {"settle", "synced"},
         JobSound(w)'
  PROVE  StoreInv'
<1>1. Typed'
  <2>1. StoreTyped /\ LockTyped
    BY TypedParts DEF StoreInv
  <2>2. StoreTyped' /\ LockTyped'
    BY <2>1, SyncTyped, LockStays
  <2> QED
    BY <2>2, TypedPartsNext DEF OnlyMoves
<1>2. DiskSound' /\ Grows
  BY DiskStays
<1>3. \A p \in Windows : job'[p] = job[p] \/ JobSound(p)'
  BY DEF OnlyMoves
<1> QED
  BY <1>1, <1>2, <1>3, Assemble

LEMMA LookStays == ASSUME LookTyped, UNCHANGED lookup PROVE LookTyped'
  BY DEF LookTyped, lookup

LEMMA InvParts ==
  ASSUME StoreInv, NEW w \in Windows
  PROVE  /\ StoreTyped /\ LookTyped /\ LockTyped
         /\ job \in [Windows -> JobType] /\ job[w] \in JobType /\ JobSound(w)
  BY TypedParts DEF StoreInv

-----------------------------------------------------------------------------
\* Starting.

LEMMA BeginKeeps ==
  ASSUME StoreInv, NEW w \in Windows, NEW j \in JobType, Begin(w, j),
         j.at \notin {"settle", "synced"}, JobSound(w)'
  PROVE  StoreInv'
<1>1. SameDisk /\ UNCHANGED <<files, lock, lookup>>
  BY DEF Begin, SameDisk, files, medium
<1>2. job[w].at = "idle" /\ OnlyMoves(w) /\ job'[w].at \notin {"settle", "synced"}
  BY InvParts DEF Begin, OnlyMoves
<1>3. LookTyped'
  BY <1>1, InvParts, LookStays
<1> QED
  BY <1>1, <1>2, <1>3, QuietStep

LEMMA AddFromLiveKeeps == ASSUME StoreInv, NEW w \in Windows, AddFromLive(w) PROVE StoreInv'
<1> DEFINE j == Job("capture", "read", 0, 0)
<1>1. 0 \in Digests
  BY Bounds DEF Digests
<1>2. j = [op |-> "capture", at |-> "read", data |-> 0, meta |-> 0, want |-> 0, from |-> 0]
  BY DEF Job
<1>3. j \in JobType
  BY <1>1, <1>2 DEF JobType, JobOps, Places
<1>4. job'[w] = j /\ Begin(w, j)
  BY InvParts DEF AddFromLive, Begin
<1>5. JobSound(w)'
  BY <1>2, <1>4 DEF JobSound
<1> HIDE DEF j
<1>6. j.at = "read"
  BY <1>2
<1> QED
  BY <1>3, <1>4, <1>5, <1>6, BeginKeeps

LEMMA AddFromFolderKeeps ==
  ASSUME StoreInv, NEW w \in Windows, AddFromFolder(w) PROVE StoreInv'
<1> PICK i \in CatalogIds : Begin(w, Job("folder", "put", 0, i))
  BY DEF AddFromFolder
<1> DEFINE j == Job("folder", "put", 0, i)
<1>1. 0 \in Digests /\ i \in Nat
  BY Bounds, StoreBounds DEF Digests
<1>2. j = [op |-> "folder", at |-> "put", data |-> 0, meta |-> 0, want |-> i, from |-> 0]
  BY DEF Job
<1>3. j \in JobType
  BY <1>1, <1>2 DEF JobType, JobOps, Places
<1>4. job'[w] = j /\ Begin(w, j) /\ states' = states
  BY InvParts DEF Begin, files
<1>5. [data |-> 0, meta |-> 0] \in states
  BY InvParts DEF StoreTyped
<1>6. JobSound(w)'
  BY <1>2, <1>4, <1>5, StoreBounds DEF JobSound, Ids
<1> HIDE DEF j
<1>7. j.at = "put"
  BY <1>2
<1> QED
  BY <1>3, <1>4, <1>6, <1>7, BeginKeeps

LEMMA MergeStoreKeeps == ASSUME StoreInv, NEW w \in Windows, MergeStore(w) PROVE StoreInv'
<1> DEFINE MergeOf(s) == [op |-> "merge",
                      at |-> IF Came(s) \cap known[w] = {} THEN "put" ELSE "commit",
                      data |-> s.data, meta |-> s.meta, want |-> s.id, from |-> s.id]
<1>1. PICK s \in Source : Begin(w, MergeOf(s))
  BY DEF MergeStore
<1>2. s.id \in Nat \ {0} /\ s.data \in Digests /\ s.meta \in Digests /\ s.id \in SourceIds
  BY Sources DEF SourceIds
<1>3. MergeOf(s) \in JobType
  BY <1>2 DEF JobType, JobOps, Places
<1>4. job'[w] = MergeOf(s) /\ UNCHANGED <<entries, states>>
  BY <1>1, InvParts DEF Begin, files
<1>5. job'[w].at = "commit" => \E i \in Listed' : entries'[i].from = job'[w].from
  BY <1>4 DEF Came, Listed
<1>6. job'[w].from # 0
  BY <1>2, <1>4
<1>7. job'[w].op = "merge" /\ job'[w].at \in {"put", "commit"}
  BY <1>4
<1>8. JobSound(w)'
  BY <1>5, <1>6, <1>7 DEF JobSound
<1> HIDE DEF MergeOf
<1>9. MergeOf(s).at \notin {"settle", "synced"}
  BY <1>4, <1>7
<1> QED
  BY <1>1, <1>3, <1>8, <1>9, BeginKeeps

LEMMA RepairKeeps == ASSUME StoreInv, NEW w \in Windows, Repair(w) PROVE StoreInv'
<1> DEFINE j == Job("repair", IF objects[live.data] = "bad" THEN "aside" ELSE "put", live.data, 0)
<1>1. 0 \in Digests /\ live.data \in Digests
  BY Bounds, InvParts DEF Digests, StoreTyped
<1>2. j = [op |-> "repair", at |-> IF objects[live.data] = "bad" THEN "aside" ELSE "put",
           data |-> live.data, meta |-> 0, want |-> 0, from |-> 0]
  BY DEF Job
<1>3. j \in JobType /\ j.op = "repair" /\ j.from = 0 /\ j.at \in {"aside", "put"}
  BY <1>1, <1>2 DEF JobType, JobOps, Places
<1>4. job'[w] = j /\ Begin(w, j)
  BY InvParts DEF Repair, Begin
<1> HIDE DEF j
<1>5. JobSound(w)'
  BY <1>3, <1>4 DEF JobSound
<1> QED
  BY <1>3, <1>4, <1>5, BeginKeeps

-----------------------------------------------------------------------------
\* Reading, syncing and giving up: a window works on its job alone.

LEMMA QuietLook ==
  ASSUME StoreInv, UNCHANGED <<files, medium, entries, lock, lookup, kept>>,
         NEW w \in Windows, OnlyMoves(w),
         job[w].at \notin {"settle", "synced"}, job'[w].at \notin {"settle", "synced"},
         JobSound(w)'
  PROVE  StoreInv'
<1>1. SameDisk /\ UNCHANGED <<files, lock>>
  BY DEF SameDisk, files, medium
<1>2. LookTyped'
  BY InvParts, LookStays
<1> QED
  BY <1>1, <1>2, QuietStep

LEMMA ReadDataKeeps == ASSUME StoreInv, NEW w \in Windows, ReadData(w) PROVE StoreInv'
<1>1. live.data \in Digests
  BY InvParts DEF StoreTyped
<1> DEFINE mid == [job EXCEPT ![w].data = live.data]
<1>2. /\ mid \in [Windows -> JobType] /\ mid[w].op = job[w].op /\ mid[w].from = job[w].from
      /\ \A p \in Windows \ {w} : mid[p] = job[p]
  BY <1>1, InvParts DEF JobType
<1>3. job' = [mid EXCEPT ![w].at = "put"]
  BY InvParts DEF ReadData, JobType
<1> HIDE DEF mid
<1>4. /\ OnlyMoves(w) /\ job'[w].at = "put"
      /\ job'[w].op = job[w].op /\ job'[w].from = job[w].from
  BY <1>2, <1>3 DEF OnlyMoves, JobType, Places
<1>5. job[w].op = "capture" /\ job[w].from = 0
  BY InvParts DEF ReadData, JobSound
<1>6. JobSound(w)'
  BY <1>4, <1>5 DEF JobSound
<1> QED
  BY <1>4, <1>6, QuietLook DEF ReadData

LEMMA ReadMetaKeeps == ASSUME StoreInv, NEW w \in Windows, ReadMeta(w) PROVE StoreInv'
<1>1. live.meta \in Digests
  BY InvParts DEF StoreTyped
<1> DEFINE mid == [job EXCEPT ![w].meta = live.meta]
<1>2. /\ mid \in [Windows -> JobType] /\ mid[w].op = job[w].op /\ mid[w].from = job[w].from
      /\ mid[w].data = job[w].data
      /\ \A p \in Windows \ {w} : mid[p] = job[p]
  BY <1>1, InvParts DEF JobType
<1>3. job' = [mid EXCEPT ![w].at = "check"]
  BY InvParts DEF ReadMeta, JobType
<1> HIDE DEF mid
<1>4. /\ OnlyMoves(w) /\ job'[w].at = "check" /\ job'[w].data = job[w].data
      /\ job'[w].op = job[w].op /\ job'[w].from = job[w].from
  BY <1>2, <1>3 DEF OnlyMoves, JobType, Places
<1>5. job[w].op = "capture" /\ job[w].from = 0 /\ Held(job[w].data)
  BY InvParts DEF ReadMeta, JobSound
<1>6. Held(job[w].data)'
  BY <1>4, <1>5 DEF ReadMeta, medium, Held
<1>7. JobSound(w)'
  BY <1>4, <1>5, <1>6 DEF JobSound
<1> QED
  BY <1>4, <1>7, QuietLook DEF ReadMeta

LEMMA IdleIsSound == ASSUME NEW w \in Windows, job'[w] = Idle PROVE JobSound(w)'
  BY DEF JobSound, Idle, Job

\* A window that gives up, for whatever reason, leaves no claim.
LEMMA GivingUpKeeps ==
  ASSUME StoreInv, NEW w \in Windows, End(w), job[w].at \notin {"settle", "synced"},
         UNCHANGED <<files, medium, entries, lock, lookup, kept>>
  PROVE  StoreInv'
<1>1. OnlyMoves(w) /\ job'[w] = Idle
  BY InvParts, EndMoves
<1>2. job'[w].at = "idle"
  BY <1>1 DEF Idle, Job
<1> QED
  BY <1>1, <1>2, IdleIsSound, QuietLook

LEMMA RequireConsistentKeeps ==
  ASSUME StoreInv, NEW w \in Windows, RequireConsistent(w) PROVE StoreInv'
<1>1. CASE End(w)
  BY <1>1, GivingUpKeeps DEF RequireConsistent
<1>2. CASE Unchanged(w) /\ Step(w, "commit")
  <2>1. OnlyMoves(w) /\ job'[w].at = "commit" /\ job'[w].op = job[w].op
        /\ job'[w].from = job[w].from /\ job'[w].data = job[w].data /\ job'[w].meta = job[w].meta
        /\ job'[w].want = job[w].want
    BY <1>2, InvParts, StepMoves DEF Places
  <2>2. job[w].at = "check" /\ job[w].op = "capture" /\ job[w].from = 0 /\ Held(job[w].data)
    BY InvParts DEF RequireConsistent, JobSound
  <2>3. [data |-> job[w].data, meta |-> job[w].meta] \in states' /\ Held(job[w].data)'
    BY <1>2, <2>1, <2>2, InvParts DEF RequireConsistent, Unchanged, StoreTyped, files, medium, Held
  <2>4. JobSound(w)'
    BY <2>1, <2>2, <2>3 DEF JobSound
  <2> QED
    BY <2>1, <2>2, <2>4, QuietLook DEF RequireConsistent
<1> QED
  BY <1>1, <1>2 DEF RequireConsistent

LEMMA LockTimeoutKeeps == ASSUME StoreInv, NEW w \in Windows, LockTimeout(w) PROVE StoreInv'
  BY GivingUpKeeps DEF LockTimeout

LEMMA PutSyncKeeps == ASSUME StoreInv, NEW w \in Windows, PutSync(w) PROVE StoreInv'
<1>1. OnlyMoves(w) /\ job'[w].at = "back" /\ job'[w].op = job[w].op
      /\ job'[w].from = job[w].from /\ job'[w].data = job[w].data /\ job'[w].meta = job[w].meta
      /\ job'[w].want = job[w].want
  BY InvParts, StepMoves DEF PutSync, Places
<1>2. job[w].at = "sync" /\ JobSound(w)
  BY InvParts DEF PutSync
<1>3. SameDisk /\ UNCHANGED <<files, lock, lookup>>
  BY DEF PutSync, SameDisk, files
<1>4. JobSound(w)'
  BY <1>1, <1>2, <1>3 DEF JobSound, SameDisk
<1>5. LookTyped'
  BY <1>3, InvParts, LookStays
<1> QED
  BY <1>1, <1>2, <1>3, <1>4, <1>5, QuietStep

-----------------------------------------------------------------------------
\* Looking.

LEMMA ListedAreIds == Listed \subseteq Ids
  BY DEF Listed

LEMMA ListEntriesKeeps == ASSUME StoreInv, NEW w \in Windows, ListEntries(w) PROVE StoreInv'
<1>1. dirtime \in Nat /\ 0 \in Digests
  BY InvParts, Bounds DEF LookTyped, Digests
<1>2. Job("look", "guard", 0, dirtime) \in JobType
  BY <1>1 DEF Job, JobType, JobOps, Places
<1>3. OnlyMoves(w) /\ job'[w] = Job("look", "guard", 0, dirtime)
  BY <1>2, InvParts DEF ListEntries, OnlyMoves
<1>4. /\ job[w].at = "idle" /\ job'[w].at = "guard" /\ job'[w].op = "look" /\ job'[w].from = 0
      /\ job'[w].want = dirtime /\ dirtime \in 0..MaxNow
  BY <1>3, InvParts, Bounds DEF ListEntries, Job, LookTyped
<1>5. SameDisk /\ UNCHANGED <<files, lock>>
  BY DEF ListEntries, SameDisk, files, medium
<1>6. LookTyped'
  BY InvParts, ListedAreIds DEF ListEntries, LookTyped
<1>7. JobSound(w)'
  BY <1>4 DEF JobSound
<1> QED
  BY <1>3, <1>4, <1>5, <1>6, <1>7, QuietStep

LEMMA NoteTimeKeeps == ASSUME StoreInv, NEW w \in Windows, NoteTime(w) PROVE StoreInv'
<1>1. OnlyMoves(w) /\ job'[w] = Idle
  BY InvParts, EndMoves DEF NoteTime
<1>2. job'[w].at = "idle" /\ job[w].at = "guard"
  BY <1>1 DEF Idle, Job, NoteTime
<1>3. SameDisk /\ UNCHANGED <<files, lock>>
  BY DEF NoteTime, SameDisk, files, medium
<1>4. job[w].want \in 0..MaxNow
  BY <1>2, InvParts DEF JobSound
<1>5. LookTyped'
  BY <1>4, InvParts, Bounds DEF NoteTime, LookTyped, Trusted, Untrusted
<1> QED
  BY <1>1, <1>2, <1>3, <1>5, IdleIsSound, QuietStep

-----------------------------------------------------------------------------
\* One object: what a put verified, and what a quarantine takes.

\* The window goes on with an object it found good.
LEMMA StoredMoves ==
  ASSUME StoreInv, NEW w \in Windows, Stored(w), job[w].at \in {"put", "back"},
         objects[job[w].data] = "good", UNCHANGED <<objects, states>>
  PROVE  OnlyMoves(w) /\ job'[w].at \in {"meta", "idle", "commit"} /\ JobSound(w)'
<1>1. /\ job[w].op \in {"capture", "folder", "merge", "repair"}
      /\ JobSound(w)
  BY InvParts DEF JobSound
<1>2. PICK a \in {"meta", "idle", "commit"} :
        /\ Step(w, a)
        /\ a = "meta" => job[w].op = "capture"
        /\ a = "commit" => job[w].op \in {"folder", "merge"}
  BY <1>1 DEF Stored
<1>3. OnlyMoves(w) /\ job'[w].at = a /\ job'[w].op = job[w].op
      /\ job'[w].from = job[w].from /\ job'[w].data = job[w].data /\ job'[w].meta = job[w].meta
      /\ job'[w].want = job[w].want
  BY <1>2, InvParts, StepMoves DEF Places
<1>4. Held(job[w].data)'
  BY <1>3 DEF Held
<1>5. JobSound(w)'
  BY <1>1, <1>2, <1>3, <1>4 DEF JobSound
<1> QED
  BY <1>3, <1>5

\* A put that verified an object: what a lost rename would take with it counts as
\* damaged still, the rest is as good as new.
LEMMA VerifiedKeeps ==
  ASSUME StoreInv, NEW w \in Windows, Stored(w), Verified(w), job[w].at \in {"put", "back"},
         objects[job[w].data] = "good",
         UNCHANGED <<files, objects, aside, loose, entries, lock, lookup, kept>>
  PROVE  StoreInv'
<1> DEFINE d == job[w].data
<1>1. OnlyMoves(w) /\ job'[w].at \in {"meta", "idle", "commit"} /\ JobSound(w)'
  BY StoredMoves DEF files
<1>2. UNCHANGED <<live, states, objects, loose, entries, kept, lock>>
  BY DEF files
<1>3. Listed' = Listed
  BY <1>2 DEF Listed
<1>4. hurt' \subseteq hurt
  BY DEF Verified
<1>5. \A c \in Digests : Held(c) => Held(c)'
  BY <1>2 DEF Held, Verified
<1>6. \A c \in hurt \ hurt' : \A k \in DOMAIN loose : loose[k] # <<"object", c>>
  <2>1. DOMAIN loose = 1..Len(loose)
    BY InvParts DEF StoreTyped
  <2> QED
    BY <2>1 DEF Verified
<1>7. ASSUME NEW i \in Listed PROVE Held(entries[i].data)' /\ Covered(i)'
  <2>1. Held(entries[i].data) /\ Covered(i) /\ entries[i].data \in Digests
    BY ListedIsAnEntry, ListedAreIds DEF StoreInv, EntriesSound
  <2>2. Held(entries[i].data)'
    BY <1>2, <1>5, <2>1 DEF Held
  <2>3. Covered(i)'
    BY <1>2, <1>6, <2>1 DEF Covered
  <2> QED
    BY <2>2, <2>3
<1>8. DiskSound'
  <2>1. EntriesSound'
    BY <1>3, <1>7 DEF EntriesSound
  <2>2. EntryIsAState' /\ MergedOnce'
    BY <1>2, <1>3 DEF StoreInv, EntryIsAState, MergedOnce
  <2>3. KeptSound'
    BY <1>2, <1>3 DEF StoreInv, KeptSound, Written
  <2> QED
    BY <2>1, <2>2, <2>3 DEF DiskSound
<1>9. Grows
  BY <1>2, <1>3, <1>5 DEF Grows, Written
<1>10. Typed'
  <2>1. StoreTyped'
    BY <1>2, <1>4, InvParts DEF StoreTyped
  <2>2. LookTyped' /\ LockTyped'
    BY <1>1, <1>2, InvParts, LookStays, LockStays
  <2> QED
    BY <1>1, <2>1, <2>2, TypedPartsNext DEF OnlyMoves
<1> QED
  BY <1>1, <1>8, <1>9, <1>10, Assemble DEF OnlyMoves

LEMMA PutProbeKeeps == ASSUME StoreInv, NEW w \in Windows, PutProbe(w) PROVE StoreInv'
<1>1. CASE Deduplicates(w)
  BY <1>1, VerifiedKeeps DEF PutProbe, Deduplicates
<1>2. ASSUME NEW a \in {"aside", "write"}, Step(w, a), UNCHANGED hurt PROVE StoreInv'
  <2>1. OnlyMoves(w) /\ job'[w].at = a /\ job'[w].op = job[w].op
        /\ job'[w].from = job[w].from /\ job'[w].data = job[w].data /\ job'[w].meta = job[w].meta
        /\ job'[w].want = job[w].want
    BY <1>2, InvParts, StepMoves DEF Places
  <2>2. job[w].at = "put" /\ JobSound(w)
    BY InvParts DEF PutProbe
  <2>3. UNCHANGED <<files, medium, entries, lock, lookup, kept>>
    BY <1>2 DEF PutProbe, medium
  <2>4. JobSound(w)'
    BY <2>1, <2>2, <2>3 DEF JobSound, files
  <2> QED
    BY <2>1, <2>2, <2>3, <2>4, QuietLook
<1> QED
  BY <1>1, <1>2 DEF PutProbe

\* What a quarantine does to the store, whoever called for it.
Taken(w) ==
  /\ objects' = [objects EXCEPT ![job[w].data] = "none"]
  /\ hurt' = hurt \cup {job[w].data}
  /\ loose' = [k \in DOMAIN loose |-> IF loose[k] = <<"object", job[w].data>>
                                      THEN <<"moved", job[w].data>> ELSE loose[k]]
  /\ UNCHANGED <<files, entries, lock, lookup, kept>>

LEMMA TakenKeeps ==
  ASSUME StoreInv, NEW w \in Windows, Taken(w), OnlyMoves(w), JobSound(w)',
         job[w].at \notin {"settle", "synced"}, job'[w].at \notin {"settle", "synced"}
  PROVE  StoreInv'
<1>1. PICK d \in Digests :
        /\ objects' = [objects EXCEPT ![d] = "none"]
        /\ hurt' = hurt \cup {d}
        /\ loose' = [k \in DOMAIN loose |-> IF loose[k] = <<"object", d>>
                                            THEN <<"moved", d>> ELSE loose[k]]
  BY InvParts DEF Taken, JobType
<1>2. UNCHANGED <<live, states, entries, kept, lock, lookup>>
  BY DEF Taken, files
<1>3. Listed' = Listed
  BY <1>2 DEF Listed
<1>4. \A c \in Digests : Held(c) => Held(c)'
  BY <1>1, InvParts DEF Held, StoreTyped
<1>5. DOMAIN loose' = DOMAIN loose
  BY <1>1
<1>6. \A k \in DOMAIN loose, i \in Ids : loose'[k] = <<"entry", i>> <=> loose[k] = <<"entry", i>>
  BY <1>1
<1>7. \A k \in DOMAIN loose, c \in Digests :
        loose'[k] = <<"object", c>> => loose[k] = <<"object", c>>
  BY <1>1
<1>8. \A i \in Ids : Written(i)' <=> Written(i)
  BY <1>5, <1>6 DEF Written
<1>9. ASSUME NEW i \in Listed PROVE Held(entries[i].data)' /\ Covered(i)'
  <2>1. Held(entries[i].data) /\ Covered(i) /\ entries[i].data \in Digests /\ i \in Ids
    BY ListedIsAnEntry, ListedAreIds DEF StoreInv, EntriesSound
  <2>2. Held(entries[i].data)'
    BY <1>2, <1>4, <2>1 DEF Held
  <2>3. Covered(i)'
    BY <1>1, <1>2, <1>5, <1>6, <1>7, <2>1 DEF Covered
  <2> QED
    BY <2>2, <2>3
<1>10. DiskSound'
  <2>1. EntriesSound'
    BY <1>3, <1>9 DEF EntriesSound
  <2>2. EntryIsAState' /\ MergedOnce'
    BY <1>2, <1>3 DEF StoreInv, EntryIsAState, MergedOnce
  <2>3. KeptSound'
    BY <1>2, <1>3, <1>8, ListedAreIds DEF StoreInv, KeptSound
  <2> QED
    BY <2>1, <2>2, <2>3 DEF DiskSound
<1>11. Grows
  BY <1>2, <1>3, <1>4, <1>8, ListedAreIds DEF Grows
<1>12. Typed'
  <2>1. loose' \in Seq(Rename)
    <3>1. loose \in Seq(Rename)
      BY InvParts DEF StoreTyped
    <3>2. <<"moved", d>> \in Rename
      BY DEF Rename
    <3>3. DOMAIN loose = 1..Len(loose) /\ \A k \in DOMAIN loose : loose[k] \in Rename
      BY <3>1
    <3>4. \A k \in 1..Len(loose) : loose'[k] \in Rename
      BY <1>1, <3>2, <3>3
    <3>5. Len(loose) \in Nat /\ loose' = [k \in 1..Len(loose) |-> loose'[k]]
      BY <1>1, <3>1, <3>3
    <3> QED
      BY <3>4, <3>5
  <2>2. StoreTyped'
    BY <1>1, <1>2, <2>1, InvParts DEF StoreTyped
  <2>3. LookTyped' /\ LockTyped'
    BY <1>2, InvParts, LookStays, LockStays
  <2> QED
    BY <2>2, <2>3, TypedPartsNext DEF OnlyMoves
<1> QED
  BY <1>10, <1>11, <1>12, Assemble DEF OnlyMoves

LEMMA QuarantineOldKeeps == ASSUME StoreInv, NEW w \in Windows, QuarantineOld(w) PROVE StoreInv'
<1>1. Taken(w) /\ Step(w, "write") /\ job[w].at = "aside"
  BY DEF QuarantineOld, Quarantine, Taken
<1>2. OnlyMoves(w) /\ job'[w].at = "write" /\ job'[w].op = job[w].op
      /\ job'[w].from = job[w].from /\ job'[w].data = job[w].data /\ job'[w].meta = job[w].meta
      /\ job'[w].want = job[w].want
  BY <1>1, InvParts, StepMoves DEF Places
<1>3. JobSound(w)'
  BY <1>1, <1>2, InvParts DEF JobSound, Taken, files
<1> QED
  BY <1>1, <1>2, <1>3, TakenKeeps

LEMMA ReadBackKeeps == ASSUME StoreInv, NEW w \in Windows, ReadBack(w) PROVE StoreInv'
<1>1. CASE objects[job[w].data] = "good"
  BY <1>1, VerifiedKeeps DEF ReadBack
<1>2. CASE objects[job[w].data] # "good"
  <2>1. Taken(w) /\ End(w) /\ job[w].at = "back"
    BY <1>2 DEF ReadBack, Quarantine, Taken
  <2>2. OnlyMoves(w) /\ job'[w] = Idle
    BY <2>1, InvParts, EndMoves
  <2>3. job'[w].at = "idle"
    BY <2>2 DEF Idle, Job
  <2> QED
    BY <2>1, <2>2, <2>3, IdleIsSound, TakenKeeps
<1> QED
  BY <1>1, <1>2

\* A rename into place.  Whatever listed the digest while nothing was there counts
\* the object as damaged, so the rename, if lost, takes nothing from it.
LEMMA PutReplaceKeeps == ASSUME StoreInv, NEW w \in Windows, PutReplace(w) PROVE StoreInv'
<1>1. job[w].at = "write" /\ Step(w, "sync")
  BY DEF PutReplace
<1>2. OnlyMoves(w) /\ job'[w].at = "sync" /\ job'[w].op = job[w].op
      /\ job'[w].from = job[w].from /\ job'[w].data = job[w].data /\ job'[w].meta = job[w].meta
      /\ job'[w].want = job[w].want
  BY <1>1, InvParts, StepMoves DEF Places
<1>3. PICK d \in Digests :
        /\ d = job[w].data
        /\ loose' = IF objects[d] = "none" THEN Append(loose, <<"object", d>>) ELSE loose
        /\ \/ objects' = [objects EXCEPT ![d] = "good"] /\ hurt' = hurt
           \/ objects' = [objects EXCEPT ![d] = "bad"] /\ hurt' = hurt \cup {d}
  BY InvParts DEF PutReplace, JobType
<1>4. UNCHANGED <<live, states, entries, kept, lock, lookup, files>>
  BY DEF PutReplace, files
<1>5. Listed' = Listed
  BY <1>4 DEF Listed
<1>6. hurt \subseteq hurt' /\ hurt' \subseteq Digests
  BY <1>3, InvParts DEF StoreTyped
<1>7. \A c \in Digests : Held(c) => Held(c)'
  BY <1>3, InvParts DEF Held, StoreTyped
<1>8. loose \in Seq(Rename) /\ <<"object", d>> \in Rename
  BY InvParts DEF StoreTyped, Rename
<1>9. loose' \in Seq(Rename)
  BY <1>3, <1>8
<1>10. \A k \in DOMAIN loose : k \in DOMAIN loose' /\ loose'[k] = loose[k]
  BY <1>3, <1>8
<1>11. \A k \in DOMAIN loose' : \/ k \in DOMAIN loose
                                \/ objects[d] = "none" /\ loose'[k] = <<"object", d>>
  BY <1>3, <1>8
<1>12. \A i \in Ids : Written(i)' => Written(i)
  BY <1>10, <1>11 DEF Written
<1>13. ASSUME NEW i \in Listed PROVE Held(entries[i].data)' /\ Covered(i)'
  <2>1. Held(entries[i].data) /\ Covered(i) /\ entries[i].data \in Digests /\ i \in Ids
    BY ListedIsAnEntry, ListedAreIds DEF StoreInv, EntriesSound
  <2>2. Held(entries[i].data)'
    BY <1>4, <1>7, <2>1 DEF Held
  <2>3. SUFFICES ASSUME entries[i].data \notin hurt', NEW k \in DOMAIN loose',
                        loose'[k] = <<"object", entries[i].data>>
                 PROVE  \E n \in DOMAIN loose' : n > k /\ loose'[n] = <<"entry", i>>
    BY <1>4, <2>2 DEF Covered
  <2>4. objects[entries[i].data] = "good"
    BY <1>6, <2>1, <2>3 DEF Held
  <2>5. k \in DOMAIN loose
    BY <1>11, <2>3, <2>4
  <2>6. \E n \in DOMAIN loose : n > k /\ loose[n] = <<"entry", i>>
    BY <1>6, <1>10, <2>1, <2>3, <2>5 DEF Covered
  <2> QED
    BY <1>10, <2>6
<1>14. DiskSound'
  <2>1. EntriesSound'
    BY <1>5, <1>13 DEF EntriesSound
  <2>2. EntryIsAState' /\ MergedOnce'
    BY <1>4, <1>5 DEF StoreInv, EntryIsAState, MergedOnce
  <2>3. KeptSound'
    BY <1>4, <1>5, <1>12, ListedAreIds DEF StoreInv, KeptSound
  <2> QED
    BY <2>1, <2>2, <2>3 DEF DiskSound
<1>15. Grows
  BY <1>4, <1>5, <1>7, <1>12, ListedAreIds DEF Grows
<1>16. Typed'
  <2>1. StoreTyped'
    BY <1>3, <1>4, <1>6, <1>9, InvParts DEF StoreTyped
  <2>2. LookTyped' /\ LockTyped'
    BY <1>1, <1>2, <1>4, InvParts, LookStays, LockStays
  <2> QED
    BY <1>2, <2>1, <2>2, TypedPartsNext DEF OnlyMoves
<1>17. JobSound(w)'
  <2>1. JobSound(w) /\ states' = states
    BY <1>4, InvParts
  <2> QED
    BY <1>1, <1>2, <2>1 DEF JobSound
<1> QED
  BY <1>2, <1>14, <1>15, <1>16, <1>17, Assemble DEF OnlyMoves

-----------------------------------------------------------------------------
\* The commit.

LEMMA TakeLockKeeps == ASSUME StoreInv, NEW w \in Windows, TakeLock(w) PROVE StoreInv'
<1>1. job[w].at = "commit" /\ lock = Nobody /\ lock' = w /\ Step(w, "settle")
      /\ UNCHANGED <<files, medium, entries, seen, dirtime, now, kept>>
      /\ known' = [known EXCEPT ![w] = Listed]
  BY DEF TakeLock
<1>2. OnlyMoves(w) /\ job'[w].at = "settle" /\ job'[w].op = job[w].op /\ job'[w].want = job[w].want
      /\ job'[w].from = job[w].from /\ job'[w].data = job[w].data /\ job'[w].meta = job[w].meta
  BY <1>1, InvParts, StepMoves DEF Places
<1>3. SameDisk
  BY <1>1 DEF SameDisk, files, medium
<1>4. DiskSound' /\ Grows
  BY <1>3, DiskStays
<1>5. JobSound(w)'
  <2>1. /\ job[w].op \in {"capture", "folder", "merge"}
        /\ job[w].op \in {"capture", "folder"} => job[w].from = 0 
        /\ job[w].op \in {"capture", "folder"} => [data |-> job[w].data, meta |-> job[w].meta] \in states
        /\ job[w].op = "folder" => job[w].want \in Ids
        /\ job[w].op = "merge" => job[w].from # 0
        /\ Held(job[w].data) \/ (job[w].op = "merge" /\ \E i \in Listed : entries[i].from = job[w].from)
    BY <1>1, InvParts DEF JobSound
  <2>2. Held(job[w].data) => Held(job[w].data)'
    BY <1>1, <1>2 DEF Held, medium
  <2>3. Listed' = Listed /\ entries' = entries /\ states' = states
    BY <1>1 DEF Listed, files
  <2> QED
    BY <1>2, <2>1, <2>2, <2>3 DEF JobSound
<1>6. Typed'
  <2>1. StoreTyped'
    BY <1>1, <1>3, InvParts, SyncTyped
  <2>2. LookTyped'
    BY <1>1, InvParts, ListedAreIds DEF LookTyped
  <2>3. LockTyped'
    BY <1>1, <1>2, InvParts, Bounds DEF LockTyped, OnlyMoves
  <2> QED
    BY <1>2, <2>1, <2>2, <2>3, TypedPartsNext DEF OnlyMoves
<1> QED
  BY <1>2, <1>4, <1>5, <1>6, Assemble DEF OnlyMoves

LEMMA CommitDoneKeeps == ASSUME StoreInv, NEW w \in Windows, CommitDone(w) PROVE StoreInv'
<1>1. job[w].at = "synced" /\ lock' = Nobody /\ Step(w, "present") /\ loose' = <<>>
      /\ UNCHANGED <<files, objects, hurt, entries, seen, dirtime, now, kept>>
      /\ known' = [known EXCEPT ![w] = @ \cup {job[w].want}]
  BY DEF CommitDone
<1>2. OnlyMoves(w) /\ job'[w].at = "present" /\ job'[w].op = job[w].op
      /\ job'[w].from = job[w].from /\ job'[w].data = job[w].data /\ job'[w].meta = job[w].meta
      /\ job'[w].want = job[w].want
  BY <1>1, InvParts, StepMoves DEF Places
<1>3. SameDisk
  BY <1>1 DEF SameDisk, files
<1>4. DiskSound' /\ Grows
  BY <1>3, DiskStays
<1>5. job[w].want \in Listed /\ job[w].want \in Ids
  BY <1>1, InvParts DEF JobSound, Listed
<1>6. JobSound(w)'
  <2>1. /\ job[w].op \in {"capture", "folder", "look", "repair"} => job[w].from = 0
        /\ job[w].op = "merge" => job[w].from # 0
        /\ job[w].op = "folder" => [data |-> job[w].data, meta |-> job[w].meta] \in states
    BY InvParts DEF JobSound
  <2>2. Listed' = Listed /\ states' = states /\ \A i : ~Written(i)'
    BY <1>1 DEF Listed, files, Written
  <2> QED
    BY <1>2, <1>5, <2>1, <2>2 DEF JobSound
<1>7. Typed'
  <2>1. StoreTyped'
    BY <1>1, <1>3, InvParts, SyncTyped
  <2>2. LookTyped'
    BY <1>1, <1>5, InvParts, ListedAreIds DEF LookTyped
  <2>3. LockTyped'
    BY <1>1, <1>2, InvParts, Bounds DEF LockTyped, OnlyMoves
  <2> QED
    BY <1>2, <2>1, <2>2, <2>3, TypedPartsNext DEF OnlyMoves
<1> QED
  BY <1>2, <1>4, <1>6, <1>7, Assemble DEF OnlyMoves

LEMMA CheckPresentKeeps == ASSUME StoreInv, NEW w \in Windows, CheckPresent(w) PROVE StoreInv'
<1>1. job[w].at = "present" /\ End(w) /\ UNCHANGED <<files, medium, entries, lock, lookup>>
      /\ kept' \in {kept, kept \cup {<<job[w].want, entries[job[w].want]>>}}
  BY DEF CheckPresent
<1>2. OnlyMoves(w) /\ job'[w] = Idle
  BY <1>1, InvParts, EndMoves
<1>3. job'[w].at = "idle"
  BY <1>2 DEF Idle, Job
<1>4. PICK i \in Listed : i = job[w].want /\ ~Written(i)
  BY <1>1, InvParts DEF JobSound
<1>5. Listed' = Listed /\ \A j : Written(j)' <=> Written(j)
  BY <1>1 DEF Listed, Written, medium
<1>6. \A d : Held(d)' <=> Held(d)
  BY <1>1 DEF Held, medium
<1>7. DiskSound'
  <2>1. ASSUME NEW j \in Listed PROVE Held(entries[j].data)' /\ Covered(j)'
    <3>1. Held(entries[j].data) /\ Covered(j)
      BY DEF StoreInv, EntriesSound
    <3> QED
      BY <1>1, <3>1 DEF Held, Covered, medium
  <2>2. EntriesSound'
    BY <1>5, <2>1 DEF EntriesSound
  <2>3. EntryIsAState' /\ MergedOnce'
    BY <1>1, <1>5 DEF StoreInv, EntryIsAState, MergedOnce, files
  <2>4. \A k \in kept : k[1] \in Listed /\ entries[k[1]] = k[2] /\ ~Written(k[1])
    BY DEF StoreInv, KeptSound
  <2>5. KeptSound'
    BY <1>1, <1>4, <1>5, <2>4 DEF KeptSound
  <2> QED
    BY <2>2, <2>3, <2>5 DEF DiskSound
<1>8. Grows
  BY <1>1, <1>5, <1>6 DEF Grows, files
<1>9. Typed'
  <2>1. StoreTyped'
    BY <1>1, InvParts DEF StoreTyped, files, medium
  <2>2. LookTyped' /\ LockTyped'
    BY <1>1, <1>2, <1>3, InvParts, LookStays, LockStays
  <2> QED
    BY <1>2, <2>1, <2>2, TypedPartsNext DEF OnlyMoves
<1> QED
  BY <1>2, <1>7, <1>8, <1>9, IdleIsSound, Assemble DEF OnlyMoves

LEMMA ReleaseTyped ==
  ASSUME LockTyped, NEW w \in Windows, job[w].at \in {"settle", "synced"}, lock' = Nobody,
         OnlyMoves(w), job'[w].at \notin {"settle", "synced"}
  PROVE  LockTyped'
  BY Bounds DEF LockTyped, OnlyMoves

\* What the store has of the job already is given out, unless a rename is still loose.
LEMMA FoundKeeps ==
  ASSUME StoreInv, NEW w \in Windows, job[w].at = "settle", End(w), lock' = Nobody,
         kept' \subseteq kept \cup {<<i, entries[i]>> : i \in Listed \ Unsynced},
         UNCHANGED <<files, medium, entries, lookup>>
  PROVE  StoreInv'
<1>1. OnlyMoves(w) /\ job'[w] = Idle
  BY InvParts, EndMoves
<1>2. job'[w].at = "idle"
  BY <1>1 DEF Idle, Job
<1>3. Listed' = Listed /\ \A j : Written(j)' <=> Written(j)
  BY DEF Listed, Written, medium
<1>4. \A j \in Listed \ Unsynced : ~Written(j)
  <2>1. DOMAIN loose = 1..Len(loose)
    BY InvParts DEF StoreTyped
  <2> QED
    BY <2>1 DEF Unsynced, Written, Listed
<1>5. \A d : Held(d)' <=> Held(d)
  BY DEF Held, medium
<1>6. DiskSound'
  <2>1. ASSUME NEW j \in Listed PROVE Held(entries[j].data)' /\ Covered(j)'
    <3>1. Held(entries[j].data) /\ Covered(j)
      BY DEF StoreInv, EntriesSound
    <3> QED
      BY <3>1 DEF Held, Covered, medium
  <2>2. EntriesSound'
    BY <1>3, <2>1 DEF EntriesSound
  <2>3. EntryIsAState' /\ MergedOnce'
    BY <1>3 DEF StoreInv, EntryIsAState, MergedOnce, files
  <2>4. \A k \in kept : k[1] \in Listed /\ entries[k[1]] = k[2] /\ ~Written(k[1])
    BY DEF StoreInv, KeptSound
  <2>5. ASSUME NEW k \in kept' PROVE k[1] \in Listed /\ entries[k[1]] = k[2] /\ ~Written(k[1])
    BY <1>4, <2>4
  <2>6. KeptSound'
    BY <1>3, <2>5 DEF KeptSound
  <2> QED
    BY <2>2, <2>3, <2>6 DEF DiskSound
<1>7. Grows
  BY <1>3, <1>5 DEF Grows, files
<1>8. Typed'
  <2>1. StoreTyped'
    BY InvParts DEF StoreTyped, files, medium
  <2>2. LookTyped' /\ LockTyped'
    BY <1>1, <1>2, InvParts, LookStays, ReleaseTyped
  <2> QED
    BY <1>1, <2>1, <2>2, TypedPartsNext DEF OnlyMoves
<1> QED
  BY <1>1, <1>6, <1>7, <1>8, IdleIsSound, Assemble DEF OnlyMoves

\* A new manifest, at an id that had none.
Writes(w, i) ==
  /\ job[w].at = "settle" /\ Mine(w) = {}
  /\ i \in Ids \ Listed
  /\ entries' = [entries EXCEPT ![i] =
                   [data |-> job[w].data, meta |-> job[w].meta, from |-> job[w].from]]
  /\ loose' = Append(loose, <<"entry", i>>)
  /\ dirtime' = now
  /\ job' = [job EXCEPT ![w].at = "synced", ![w].want = i]
  /\ UNCHANGED <<lock, kept, live, states, objects, hurt, known, seen, now>>

LEMMA WritesMoves ==
  ASSUME job \in [Windows -> JobType], NEW w \in Windows, NEW i \in Ids, Writes(w, i)
  PROVE  OnlyMoves(w) /\ job'[w].at = "synced" /\ job'[w].want = i
         /\ job'[w].op = job[w].op /\ job'[w].from = job[w].from
         /\ job'[w].data = job[w].data /\ job'[w].meta = job[w].meta
<1> DEFINE mid == [job EXCEPT ![w].at = "synced"]
<1>1. /\ mid \in [Windows -> JobType] /\ mid[w].op = job[w].op /\ mid[w].from = job[w].from
      /\ mid[w].data = job[w].data /\ mid[w].meta = job[w].meta /\ mid[w].at = "synced"
      /\ \A p \in Windows \ {w} : mid[p] = job[p]
  BY DEF JobType, Places
<1>2. job' = [mid EXCEPT ![w].want = i]
  BY DEF Writes, JobType
<1>3. i \in Nat
  BY Bounds DEF Ids
<1> HIDE DEF mid
<1> QED
  BY <1>1, <1>2, <1>3 DEF OnlyMoves, JobType

LEMMA WritesKeeps ==
  ASSUME StoreInv, NEW w \in Windows, NEW i \in Ids, Writes(w, i)
  PROVE  StoreInv'
<1> DEFINE E == [data |-> job[w].data, meta |-> job[w].meta, from |-> job[w].from]
<1>1. UNCHANGED <<lock, kept, live, states, objects, hurt, known, seen, now>>
  BY DEF Writes
<1>2. OnlyMoves(w) /\ job'[w].at = "synced" /\ job'[w].want = i
      /\ job'[w].op = job[w].op /\ job'[w].from = job[w].from
      /\ job'[w].data = job[w].data /\ job'[w].meta = job[w].meta
  BY InvParts, WritesMoves
<1>3. E \in Entry
  BY InvParts DEF JobType, Entry, SourceIds
<1>4. /\ entries \in [Ids -> Entry \cup {NoEntry}] /\ entries'[i] = E
      /\ \A n \in Ids \ {i} : entries'[n] = entries[n]
      /\ entries' \in [Ids -> Entry \cup {NoEntry}]
  BY <1>3, InvParts DEF Writes, StoreTyped
<1>5. i \notin Listed
  BY DEF Writes
<1>6. Listed' = Listed \cup {i}
  <2>1. E # NoEntry
    <3>1. MaxSaves + 1 \notin Digests
      BY Bounds DEF Digests
    <3> QED
      BY <1>3, <3>1 DEF NoEntry, Entry
  <2> QED
    BY <1>4, <2>1 DEF Listed
<1>7. /\ loose \in Seq(Rename) /\ <<"entry", i>> \in Rename
      /\ loose' = Append(loose, <<"entry", i>>)
  BY InvParts DEF StoreTyped, Rename, Writes
<1>8. loose' \in Seq(Rename)
  BY <1>7
<1>9. \A k \in DOMAIN loose : k \in DOMAIN loose' /\ loose'[k] = loose[k]
  BY <1>7
<1>10. \A k \in DOMAIN loose' : k \in DOMAIN loose \/ loose'[k] = <<"entry", i>>
  BY <1>7
<1>11. /\ Len(loose) + 1 \in DOMAIN loose' /\ loose'[Len(loose) + 1] = <<"entry", i>>
       /\ \A k \in DOMAIN loose : k \in Nat /\ k < Len(loose) + 1
  BY <1>7
<1>12. \A n \in Ids \ {i} : Written(n)' => Written(n)
  BY <1>9, <1>10 DEF Written
<1>13. \A d : Held(d)' <=> Held(d)
  BY <1>1 DEF Held
<1>14. /\ job[w].op \in {"capture", "folder", "merge"}
       /\ job[w].op \in {"capture", "folder"} => [data |-> job[w].data, meta |-> job[w].meta] \in states
       /\ job[w].op = "merge" => job[w].from # 0
       /\ Held(job[w].data) \/ (job[w].op = "merge" /\ \E n \in Listed : entries[n].from = job[w].from)
  BY InvParts DEF JobSound, Writes
<1>15. job[w].from # 0 => \A n \in Listed : entries[n].from # job[w].from
  BY DEF Writes, Mine
<1>16. ASSUME NEW n \in Listed PROVE Held(entries[n].data)' /\ Covered(n)'
  <2>1. Held(entries[n].data) /\ Covered(n) /\ entries[n].data \in Digests /\ n \in Ids
    BY ListedIsAnEntry, ListedAreIds DEF StoreInv, EntriesSound
  <2>2. entries'[n] = entries[n]
    BY <1>4, <1>5, <2>1
  <2>3. Held(entries[n].data)'
    BY <1>1, <2>1, <2>2 DEF Held
  <2>4. \A k \in DOMAIN loose' : loose'[k] = <<"object", entries[n].data>> => k \in DOMAIN loose
    BY <1>10
  <2>5. Covered(n)'
    BY <1>1, <1>9, <2>1, <2>2, <2>4 DEF Covered
  <2> QED
    BY <2>3, <2>5
<1>17. Held(entries[i].data)' /\ Covered(i)'
  <2>1. Held(job[w].data)
    BY <1>14, <1>15
  <2>2. Held(entries[i].data)'
    BY <1>1, <1>4, <2>1 DEF Held
  <2>3. \A k \in DOMAIN loose' : loose'[k] = <<"object", entries'[i].data>> => k \in DOMAIN loose
    BY <1>10
  <2>4. Covered(i)'
    BY <1>11, <2>3 DEF Covered
  <2> QED
    BY <2>2, <2>4
<1>18. DiskSound'
  <2>1. EntriesSound'
    BY <1>6, <1>16, <1>17 DEF EntriesSound
  <2>2. EntryIsAState'
    <3>1. entries'[i].from # 0 \/ [data |-> entries'[i].data, meta |-> entries'[i].meta] \in states
      BY <1>4, <1>14
    <3>2. ASSUME NEW n \in Listed
          PROVE  entries'[n].from # 0 \/ [data |-> entries'[n].data, meta |-> entries'[n].meta] \in states
      BY <1>4, <1>5, ListedAreIds DEF StoreInv, EntryIsAState
    <3> QED
      BY <1>1, <1>6, <3>1, <3>2 DEF EntryIsAState
  <2>3. MergedOnce'
    <3>1. \A n \in Listed : entries'[n] = entries[n]
      BY <1>4, <1>5, ListedAreIds
    <3>2. entries'[i].from # 0 => \A n \in Listed : entries'[n].from # entries'[i].from
      BY <1>4, <1>15, <3>1
    <3> QED
      BY <1>6, <3>1, <3>2 DEF StoreInv, MergedOnce
  <2>4. KeptSound'
    BY <1>1, <1>4, <1>5, <1>6, <1>12, ListedAreIds DEF StoreInv, KeptSound
  <2> QED
    BY <2>1, <2>2, <2>3, <2>4 DEF DiskSound
<1>19. Grows
  BY <1>1, <1>4, <1>5, <1>6, <1>12, <1>13, ListedAreIds DEF Grows
<1>20. JobSound(w)'
  <2>1. /\ job[w].op \in {"capture", "folder"} => job[w].from = 0
        /\ job[w].op = "folder" => [data |-> job[w].data, meta |-> job[w].meta] \in states
    BY InvParts DEF JobSound
  <2> QED
    BY <1>1, <1>2, <1>6, <1>14, <2>1 DEF JobSound
<1>21. Typed'
  <2>1. StoreTyped'
    BY <1>1, <1>4, <1>8, InvParts DEF StoreTyped
  <2>2. LookTyped'
    BY InvParts, Bounds DEF LookTyped, Writes
  <2>3. LockTyped'
    BY <1>1, <1>2, InvParts DEF LockTyped, OnlyMoves, Writes
  <2> QED
    BY <1>2, <2>1, <2>2, <2>3, TypedPartsNext DEF OnlyMoves
<1> QED
  BY <1>2, <1>18, <1>19, <1>20, <1>21, Assemble DEF OnlyMoves

LEMMA WriteManifestKeeps == ASSUME StoreInv, NEW w \in Windows, WriteManifest(w) PROVE StoreInv'
<1>1. CASE /\ kept' = kept \cup {<<i, entries[i]>> : i \in Mine(w) \ Unsynced}
           /\ lock' = Nobody /\ End(w) /\ UNCHANGED <<entries, loose, dirtime>>
  <2>1. Mine(w) \subseteq Listed
    BY DEF Mine
  <2>2. UNCHANGED <<files, medium, entries, lookup>>
    BY <1>1 DEF WriteManifest, medium, lookup
  <2> QED
    BY <1>1, <2>1, <2>2, FoundKeeps DEF WriteManifest
<1>2. CASE \E i \in NextFree(w) :
             /\ Mine(w) = {}
             /\ entries' = [entries EXCEPT ![i] =
                              [data |-> job[w].data, meta |-> job[w].meta, from |-> job[w].from]]
             /\ loose' = Append(loose, <<"entry", i>>)
             /\ dirtime' = now
             /\ job' = [job EXCEPT ![w].at = "synced", ![w].want = i]
             /\ UNCHANGED <<lock, kept>>
  <2>1. NextFree(w) \subseteq Ids \ Listed
    <3>1. job[w].op = "folder" => job[w].want \in Ids
      BY InvParts DEF JobSound
    <3> QED
      BY <3>1 DEF NextFree, Free
  <2>2. \E i \in Ids : Writes(w, i)
    BY <1>2, <2>1 DEF WriteManifest, Writes, files
  <2> QED
    BY <2>2, WritesKeeps
<1>3. CASE /\ Mine(w) = {} /\ Free(w) = {} /\ End(w) /\ lock' = Nobody
           /\ UNCHANGED <<entries, loose, dirtime, kept>>
  <2>1. UNCHANGED <<files, medium, entries, lookup>>
    BY <1>3 DEF WriteManifest, medium, lookup
  <2> QED
    BY <1>3, <2>1, FoundKeeps DEF WriteManifest
<1> QED
  BY <1>1, <1>2, <1>3 DEF WriteManifest

-----------------------------------------------------------------------------
\* Around it: crashes, the game, the clock, the medium, power failures.

LEMMA CrashKeeps == ASSUME StoreInv, NEW w \in Windows, Crash(w) PROVE StoreInv'
<1>1. job' = [job EXCEPT ![w] = Idle] /\ lock' = (IF lock = w THEN Nobody ELSE lock)
      /\ known' = [known EXCEPT ![w] = {}] /\ seen' = [seen EXCEPT ![w] = Untrusted]
      /\ UNCHANGED <<files, medium, entries, dirtime, now, kept>>
  BY DEF Crash, Gone
<1>2. OnlyMoves(w) /\ job'[w] = Idle
  BY <1>1, InvParts, IdleJob DEF OnlyMoves
<1>3. job'[w].at = "idle"
  BY <1>2 DEF Idle, Job
<1>4. SameDisk
  BY <1>1 DEF SameDisk, files, medium
<1>5. DiskSound' /\ Grows
  BY <1>4, DiskStays
<1>6. Typed'
  <2>1. StoreTyped'
    BY <1>1, <1>4, InvParts, SyncTyped
  <2>2. LookTyped'
    BY <1>1, InvParts, Bounds DEF LookTyped, Untrusted
  <2>3. LockTyped'
    BY <1>1, <1>2, <1>3, InvParts, Bounds DEF LockTyped, OnlyMoves
  <2> QED
    BY <1>2, <2>1, <2>2, <2>3, TypedPartsNext DEF OnlyMoves
<1> QED
  BY <1>2, <1>5, <1>6, IdleIsSound, Assemble DEF OnlyMoves

LEMMA GameWritesKeeps == ASSUME StoreInv, NEW f \in {"data", "meta"}, GameWrites(f) PROVE StoreInv'
<1>1. /\ live' = [live EXCEPT ![f] = @ + 1] /\ live[f] < MaxSaves
      /\ states' = states \cup {live'}
      /\ UNCHANGED <<medium, entries, lock, job, lookup, kept>>
  BY DEF GameWrites
<1>2. SameDisk
  BY <1>1 DEF SameDisk, medium
<1>3. DiskSound' /\ Grows
  BY <1>2, DiskStays
<1>4. StoreTyped /\ LookTyped /\ LockTyped /\ job \in [Windows -> JobType]
  BY TypedParts DEF StoreInv
<1>5. live' \in [data : Digests, meta : Digests]
  <2>1. live \in [data : Digests, meta : Digests]
    BY <1>4 DEF StoreTyped
  <2>2. live[f] \in Digests
    BY <2>1
  <2>3. live[f] + 1 \in Digests
    BY <1>1, <2>2, Bounds DEF Digests
  <2> QED
    BY <1>1, <2>1, <2>3
<1>6. StoreTyped'
  BY <1>1, <1>4, <1>5 DEF StoreTyped, medium
<1>7. LookTyped' /\ LockTyped'
  BY <1>1, <1>4 DEF LookTyped, LockTyped, lookup
<1>8. Typed'
  BY <1>1, <1>4, <1>6, <1>7, TypedPartsNext
<1> QED
  BY <1>1, <1>3, <1>8, Assemble

LEMMA TickKeeps == ASSUME StoreInv, Tick PROVE StoreInv'
<1>1. now < MaxNow /\ now' = now + 1
      /\ UNCHANGED <<files, medium, entries, lock, job, known, seen, dirtime, kept>>
  BY DEF Tick
<1>2. SameDisk /\ UNCHANGED files
  BY <1>1 DEF SameDisk, medium, files
<1>3. DiskSound' /\ Grows
  BY <1>2, DiskStays
<1>4. StoreTyped /\ LookTyped /\ LockTyped /\ job \in [Windows -> JobType]
  BY TypedParts DEF StoreInv
<1>5. StoreTyped' /\ LockTyped'
  BY <1>1, <1>2, <1>4, SyncTyped DEF LockTyped
<1>6. LookTyped'
  BY <1>1, <1>4, Bounds DEF LookTyped
<1>7. Typed'
  BY <1>1, <1>4, <1>5, <1>6, TypedPartsNext
<1> QED
  BY <1>1, <1>3, <1>7, Assemble

LEMMA DamageKeeps == ASSUME StoreInv, NEW d \in Digests, Damage(d) PROVE StoreInv'
<1>1. PICK s \in {"none", "bad"} : objects' = [objects EXCEPT ![d] = s]
  BY DEF Damage
<1>2. /\ hurt' = hurt \cup {d}
      /\ UNCHANGED <<files, live, states, loose, entries, lock, job, lookup, kept>>
  BY DEF Damage, files
<1>3. Listed' = Listed
  BY <1>2 DEF Listed
<1>4. StoreTyped /\ LookTyped /\ LockTyped /\ job \in [Windows -> JobType]
  BY TypedParts DEF StoreInv
<1>5. \A c \in Digests : Held(c) => Held(c)'
  BY <1>1, <1>2, <1>4 DEF Held, StoreTyped
<1>6. ASSUME NEW i \in Listed PROVE Held(entries[i].data)' /\ Covered(i)'
  <2>1. Held(entries[i].data) /\ Covered(i) /\ entries[i].data \in Digests
    BY ListedIsAnEntry, ListedAreIds DEF StoreInv, EntriesSound
  <2>2. Held(entries[i].data)'
    BY <1>2, <1>5, <2>1 DEF Held
  <2>3. Covered(i)'
    BY <1>2, <2>1 DEF Covered
  <2> QED
    BY <2>2, <2>3
<1>7. DiskSound'
  <2>1. EntriesSound'
    BY <1>3, <1>6 DEF EntriesSound
  <2>2. EntryIsAState' /\ MergedOnce'
    BY <1>2, <1>3 DEF StoreInv, EntryIsAState, MergedOnce
  <2>3. KeptSound'
    BY <1>2, <1>3 DEF StoreInv, KeptSound, Written
  <2> QED
    BY <2>1, <2>2, <2>3 DEF DiskSound
<1>8. Grows
  BY <1>2, <1>3, <1>5 DEF Grows, Written
<1>9. Typed'
  <2>1. StoreTyped'
    BY <1>1, <1>2, <1>4 DEF StoreTyped
  <2>2. LookTyped' /\ LockTyped'
    BY <1>2, <1>4 DEF LookTyped, LockTyped, lookup
  <2> QED
    BY <1>2, <1>4, <2>1, <2>2, TypedPartsNext
<1> QED
  BY <1>2, <1>7, <1>8, <1>9, Assemble

\* The newest renames are undone, and a manifest always goes before the object it needs.
LEMMA PowerLossKeeps == ASSUME StoreInv, PowerLoss PROVE StoreInv'
<1>1. /\ loose' = <<>> /\ job' = [p \in Windows |-> Idle]
      /\ known' = [p \in Windows |-> {}] /\ seen' = [p \in Windows |-> Untrusted]
      /\ lock' = Nobody
      /\ UNCHANGED <<live, states, hurt, dirtime, now, kept>>
  BY DEF PowerLoss, files
<1> DEFINE Lost(n) == {loose[k] : k \in n + 1..Len(loose)}
<1>2. PICK n \in 0..Len(loose) :
        /\ objects' = [d \in Digests |-> IF <<"object", d>> \in Lost(n) THEN "none" ELSE objects[d]]
        /\ entries' = [i \in Ids |-> IF <<"entry", i>> \in Lost(n) THEN NoEntry ELSE entries[i]]
  BY DEF PowerLoss
<1>3. StoreTyped /\ LookTyped /\ LockTyped
  BY TypedParts DEF StoreInv
<1>4. DOMAIN loose = 1..Len(loose) /\ Len(loose) \in Nat
  BY <1>3 DEF StoreTyped
<1>5. \A i \in Ids : entries'[i] = entries[i] \/ entries'[i] = NoEntry
  BY <1>2
<1>6. Listed' \subseteq Listed /\ \A i \in Listed' : entries'[i] = entries[i]
  BY <1>5 DEF Listed
<1>7. ASSUME NEW i \in Listed' PROVE Held(entries[i].data)'
  <2>1. i \in Ids /\ i \in Listed /\ entries'[i] = entries[i]
    BY <1>6, ListedAreIds
  <2>2. Held(entries[i].data) /\ Covered(i) /\ entries[i].data \in Digests
    BY <2>1, ListedIsAnEntry DEF StoreInv, EntriesSound
  <2>3. CASE entries[i].data \in hurt
    BY <1>1, <2>1, <2>3 DEF Held
  <2>4. CASE entries[i].data \notin hurt
    <3>1. objects[entries[i].data] = "good"
      BY <2>2, <2>4 DEF Held
    <3>2. <<"entry", i>> \notin Lost(n)
      <4>1. entries'[i] # NoEntry
        BY DEF Listed
      <4> QED
        BY <1>2, <2>1, <4>1
    <3>3. ASSUME <<"object", entries[i].data>> \in Lost(n) PROVE FALSE
      <4>1. PICK k \in n + 1..Len(loose) : loose[k] = <<"object", entries[i].data>>
        BY <3>3
      <4>2. k \in DOMAIN loose
        BY <1>4, <4>1
      <4>3. PICK m \in DOMAIN loose : m > k /\ loose[m] = <<"entry", i>>
        BY <2>2, <2>4, <4>1, <4>2 DEF Covered
      <4>4. m \in n + 1..Len(loose)
        BY <1>4, <4>1, <4>3
      <4> QED
        BY <3>2, <4>3, <4>4
    <3>4. objects'[entries[i].data] = "good"
      BY <1>2, <2>2, <3>1, <3>3
    <3> QED
      BY <2>1, <3>4 DEF Held
  <2> QED
    BY <2>3, <2>4
<1>8. ASSUME NEW k \in kept PROVE k[1] \in Listed' /\ entries'[k[1]] = k[2]
  <2>1. k[1] \in Listed /\ entries[k[1]] = k[2] /\ ~Written(k[1])
    BY DEF StoreInv, KeptSound
  <2>2. <<"entry", k[1]>> \notin Lost(n)
    BY <1>4, <2>1 DEF Written
  <2>3. entries'[k[1]] = entries[k[1]]
    BY <1>2, <2>1, <2>2, ListedAreIds
  <2> QED
    BY <2>1, <2>3 DEF Listed
<1>9. \A i : Covered(i)' /\ ~Written(i)'
  BY <1>1 DEF Covered, Written
<1>10. DiskSound'
  <2>1. EntriesSound'
    BY <1>7, <1>9 DEF EntriesSound
  <2>2. EntryIsAState'
    BY <1>1, <1>6 DEF StoreInv, EntryIsAState
  <2>3. MergedOnce'
    BY <1>6 DEF StoreInv, MergedOnce
  <2>4. KeptSound'
    BY <1>1, <1>8, <1>9 DEF KeptSound
  <2> QED
    BY <2>1, <2>2, <2>3, <2>4 DEF DiskSound
<1>11. Typed'
  <2>1. StoreTyped'
    <3>1. entries' \in [Ids -> Entry \cup {NoEntry}]
      BY <1>2, <1>3 DEF StoreTyped
    <3>2. objects' \in [Digests -> {"none", "good", "bad"}]
      BY <1>2, <1>3 DEF StoreTyped
    <3>3. <<>> \in Seq(Rename)
      OBVIOUS
    <3> QED
      BY <1>1, <1>3, <3>1, <3>2, <3>3 DEF StoreTyped
  <2>2. LookTyped'
    BY <1>1, <1>3, Bounds DEF LookTyped, Untrusted
  <2>3. LockTyped'
    BY <1>1, Bounds DEF LockTyped, Idle, Job
  <2> QED
    BY <1>1, <2>1, <2>2, <2>3, IdleJob, TypedPartsNext
<1>12. \A p \in Windows : JobSound(p)'
  BY <1>1, IdleIsSound
<1> QED
  BY <1>10, <1>11, <1>12 DEF StoreInv, DiskSound

-----------------------------------------------------------------------------
\* The store's invariant holds.

LEMMA StoreInvInit == Init => StoreInv
<1> SUFFICES ASSUME Init PROVE StoreInv
  OBVIOUS
<1>1. 0 \in Digests /\ 0 \in 0..MaxNow
  BY Bounds DEF Digests
<1>2. Listed = {}
  BY DEF Init, Listed
<1>3. StoreTyped
  <2>1. live = [data |-> 0, meta |-> 0] /\ states = {live}
    BY DEF Init
  <2>2. live \in [data : Digests, meta : Digests] /\ live \in states /\ [data |-> 0, meta |-> 0] \in states
    BY <1>1, <2>1
  <2>3. <<>> \in Seq(Rename)
    OBVIOUS
  <2> QED
    BY <2>2, <2>3 DEF Init, StoreTyped
<1>4. LookTyped
  BY <1>1, Bounds DEF Init, LookTyped, Untrusted
<1>5. LockTyped
  BY Bounds DEF Init, LockTyped, Idle, Job
<1>6. job \in [Windows -> JobType]
  BY IdleJob DEF Init
<1>7. \A w \in Windows : JobSound(w)
  BY DEF Init, JobSound, Idle, Job
<1>8. EntriesSound /\ EntryIsAState /\ MergedOnce
  BY <1>2 DEF EntriesSound, EntryIsAState, MergedOnce
<1>9. KeptSound
  BY DEF Init, KeptSound
<1> QED
  BY <1>3, <1>4, <1>5, <1>6, <1>7, <1>8, <1>9, TypedParts DEF StoreInv

LEMMA WorksKeeps == ASSUME StoreInv, NEW w \in Windows, Works(w) PROVE StoreInv'
<1>1. CASE AddFromLive(w) \/ AddFromFolder(w) \/ MergeStore(w) \/ Repair(w)
  BY <1>1, AddFromLiveKeeps, AddFromFolderKeeps, MergeStoreKeeps, RepairKeeps
<1>2. CASE ReadData(w) \/ PutProbe(w) \/ QuarantineOld(w) \/ PutReplace(w) \/ PutSync(w) \/ ReadBack(w)
  BY <1>2, ReadDataKeeps, PutProbeKeeps, QuarantineOldKeeps, PutReplaceKeeps, PutSyncKeeps, ReadBackKeeps
<1>3. CASE ReadMeta(w) \/ RequireConsistent(w) \/ TakeLock(w) \/ LockTimeout(w)
  BY <1>3, ReadMetaKeeps, RequireConsistentKeeps, TakeLockKeeps, LockTimeoutKeeps
<1>4. CASE WriteManifest(w) \/ CommitDone(w) \/ CheckPresent(w)
  BY <1>4, WriteManifestKeeps, CommitDoneKeeps, CheckPresentKeeps
<1>5. CASE ListEntries(w) \/ NoteTime(w)
  BY <1>5, ListEntriesKeeps, NoteTimeKeeps
<1> QED
  BY <1>1, <1>2, <1>3, <1>4, <1>5 DEF Works

LEMMA StutterKeeps == ASSUME StoreInv, UNCHANGED vars PROVE StoreInv'
<1>1. SameDisk /\ UNCHANGED <<files, live, states, lock, job, lookup>>
  BY DEF vars, SameDisk, files, lookup
<1>2. DiskSound' /\ Grows
  BY <1>1, DiskStays
<1>3. StoreTyped /\ LookTyped /\ LockTyped /\ job \in [Windows -> JobType]
  BY TypedParts DEF StoreInv
<1>4. StoreTyped' /\ LookTyped' /\ LockTyped'
  BY <1>1, <1>3, SyncTyped, LookStays DEF LockTyped
<1>5. Typed'
  BY <1>1, <1>3, <1>4, TypedPartsNext
<1> QED
  BY <1>1, <1>2, <1>5, Assemble

LEMMA StoreInvStep == StoreInv /\ [Next]_vars => StoreInv'
<1> SUFFICES ASSUME StoreInv, [Next]_vars PROVE StoreInv'
  OBVIOUS
<1>1. CASE \E w \in Windows : Works(w) \/ Crash(w)
  BY <1>1, WorksKeeps, CrashKeeps
<1>2. CASE \E f \in {"data", "meta"} : GameWrites(f)
  BY <1>2, GameWritesKeeps
<1>3. CASE \E d \in Digests : Damage(d)
  BY <1>3, DamageKeeps
<1>4. CASE Tick \/ PowerLoss
  BY <1>4, TickKeeps, PowerLossKeeps
<1>5. CASE UNCHANGED vars
  BY <1>5, StutterKeeps
<1> QED
  BY <1>1, <1>2, <1>3, <1>4, <1>5 DEF Next

LEMMA StoreInvAlways == Spec => []StoreInv
  BY StoreInvInit, StoreInvStep, PTL DEF Spec

LEMMA StoreInvGives == StoreInv => EntriesAreHeld /\ MergedOnce
<1> SUFFICES ASSUME StoreInv PROVE EntriesAreHeld /\ MergedOnce
  OBVIOUS
<1>1. TypeOK
  BY DEF StoreInv, Typed
<1>2. ListedIsHeld
  BY DEF StoreInv, EntriesSound, Held, ListedIsHeld
<1>3. KeptStays
  BY DEF StoreInv, KeptSound, KeptStays
<1> QED
  BY <1>1, <1>2, <1>3 DEF StoreInv, EntriesAreHeld

\* Whatever the game, other windows, crashes, power failures and a failing medium do
\* while the windows capture, merge and repair: a listed manifest's object is there and
\* good unless the medium or a quarantine hurt it since a put verified it; an entry of the
\* live folder is one state the folder was in; what was given to a caller stays listed as
\* it was (_add, require_consistent, _commit, _free_id).
THEOREM ListedCanBeRestored == Spec => []EntriesAreHeld
  BY StoreInvAlways, StoreInvGives, PTL

\* Two windows that import the same source, or one that does it again after a crash,
\* list each of its entries once (add_merged looks again under the vault lock).
THEOREM NothingIsMergedTwice == Spec => []MergedOnce
  BY StoreInvAlways, StoreInvGives, PTL

-----------------------------------------------------------------------------
\* The cached listings.  A window may be about to trust a time only while the clock
\* stands: with GuardWaits the tick between its listing and its look at the clock makes
\* a time look old that was fresh, and the invariant fails.

\* A step that writes no manifest, moves no time and starts no look.
LooksElsewhere ==
  /\ UNCHANGED <<entries, seen, dirtime, now>>
  /\ \A p \in Windows : Listed \subseteq known[p] => Listed \subseteq known'[p]
  /\ \A p \in Windows : job'[p] = job[p] \/ job'[p].at # "guard"

LEMMA ElsewhereKeeps == ASSUME CacheInv, LooksElsewhere PROVE CacheInv'
<1>1. Listed' = Listed
  BY DEF LooksElsewhere, Listed
<1> SUFFICES ASSUME NEW p \in Windows PROVE Indexed(p)'
  BY DEF CacheInv
<1>2. Indexed(p)
  BY DEF CacheInv
<1> QED
  BY <1>1, <1>2 DEF Indexed, LooksElsewhere

\* The same for a window that works on its job.
LEMMA BusyKeeps ==
  ASSUME StoreInv, CacheInv, NEW w \in Windows, OnlyMoves(w), job'[w].at # "guard",
         UNCHANGED <<entries, lookup>>
  PROVE  CacheInv'
<1>1. LooksElsewhere
  BY DEF LooksElsewhere, OnlyMoves, lookup
<1> QED
  BY <1>1, ElsewhereKeeps

LEMMA StepBusy ==
  ASSUME StoreInv, CacheInv, NEW w \in Windows, NEW a \in Places \ {"guard"}, Step(w, a),
         UNCHANGED <<entries, lookup>>
  PROVE  CacheInv'
  BY InvParts, StepMoves, BusyKeeps

LEMMA EndBusy ==
  ASSUME StoreInv, CacheInv, NEW w \in Windows, End(w), UNCHANGED <<entries, lookup>>
  PROVE  CacheInv'
<1>1. OnlyMoves(w) /\ job'[w] = Idle
  BY InvParts, EndMoves
<1>2. job'[w].at # "guard"
  BY <1>1 DEF Idle, Job
<1> QED
  BY <1>1, <1>2, BusyKeeps

LEMMA BeginBusy ==
  ASSUME StoreInv, CacheInv, NEW w \in Windows,
         AddFromLive(w) \/ AddFromFolder(w) \/ MergeStore(w) \/ Repair(w)
  PROVE  CacheInv'
<1>1. PICK j : Begin(w, j) /\ j.at # "guard"
  <2> DEFINE Starts == \E j : Begin(w, j) /\ j.at # "guard"
  <2>1. CASE AddFromLive(w)
    BY <2>1 DEF AddFromLive, Job
  <2>2. CASE AddFromFolder(w)
    BY <2>2 DEF AddFromFolder, Job
  <2>3. CASE Repair(w)
    <3>1. ASSUME NEW a \in {"aside", "put"} PROVE Job("repair", a, live.data, 0).at # "guard"
      BY DEF Job
    <3> QED
      BY <2>3, <3>1 DEF Repair
  <2>4. CASE MergeStore(w)
    <3> DEFINE J(s, a) == [op |-> "merge", at |-> a, data |-> s.data, meta |-> s.meta,
                           want |-> s.id, from |-> s.id]
    <3>1. PICK s \in Source : Begin(w, J(s, IF Came(s) \cap known[w] = {} THEN "put" ELSE "commit"))
      BY <2>4 DEF MergeStore
    <3>2. PICK a \in {"put", "commit"} : Begin(w, J(s, a))
      BY <3>1
    <3>3. J(s, a).at # "guard"
      OBVIOUS
    <3> QED
      BY <3>2, <3>3
  <2> QED
    BY <2>1, <2>2, <2>3, <2>4
<1>2. \A p \in Windows : job'[p] = job[p] \/ job'[p].at # "guard"
  BY <1>1, InvParts DEF Begin
<1>3. LooksElsewhere
  BY <1>1, <1>2 DEF Begin, LooksElsewhere, lookup
<1> QED
  BY <1>3, ElsewhereKeeps

LEMMA ReadDataBusy == ASSUME StoreInv, CacheInv, NEW w \in Windows, ReadData(w) PROVE CacheInv'
<1>1. \A p \in Windows : job'[p] = job[p] \/ job'[p].at # "guard"
  BY InvParts DEF ReadData, JobType
<1> QED
  BY <1>1, ElsewhereKeeps DEF ReadData, LooksElsewhere, lookup

LEMMA ReadMetaBusy == ASSUME StoreInv, CacheInv, NEW w \in Windows, ReadMeta(w) PROVE CacheInv'
<1>1. \A p \in Windows : job'[p] = job[p] \/ job'[p].at # "guard"
  BY InvParts DEF ReadMeta, JobType
<1> QED
  BY <1>1, ElsewhereKeeps DEF ReadMeta, LooksElsewhere, lookup

LEMMA PutBusy ==
  ASSUME StoreInv, CacheInv, NEW w \in Windows,
         PutProbe(w) \/ QuarantineOld(w) \/ PutReplace(w) \/ PutSync(w) \/ ReadBack(w)
  PROVE  CacheInv'
<1>1. UNCHANGED <<entries, lookup>>
  BY DEF PutProbe, QuarantineOld, PutReplace, PutSync, ReadBack, Quarantine
<1>2. End(w) \/ \E a \in Places \ {"guard"} : Step(w, a)
  BY DEF PutProbe, Deduplicates, Stored, QuarantineOld, PutReplace, PutSync, ReadBack,
         Quarantine, Places
<1> QED
  BY <1>1, <1>2, StepBusy, EndBusy

LEMMA CommitBusy ==
  ASSUME StoreInv, CacheInv, NEW w \in Windows,
         RequireConsistent(w) \/ LockTimeout(w) \/ CheckPresent(w)
  PROVE  CacheInv'
<1>1. UNCHANGED <<entries, lookup>>
  BY DEF RequireConsistent, LockTimeout, CheckPresent
<1>2. End(w) \/ \E a \in Places \ {"guard"} : Step(w, a)
  BY DEF RequireConsistent, LockTimeout, CheckPresent, Places
<1> QED
  BY <1>1, <1>2, StepBusy, EndBusy

LEMMA LockBusy ==
  ASSUME StoreInv, CacheInv, NEW w \in Windows, TakeLock(w) \/ CommitDone(w) PROVE CacheInv'
<1>1. PICK a \in {"settle", "present"} : Step(w, a)
  BY DEF TakeLock, CommitDone
<1>2. OnlyMoves(w) /\ job'[w].at = a
  BY <1>1, InvParts, StepMoves DEF Places
<1>3. \A p \in Windows : Listed \subseteq known[p] => Listed \subseteq known'[p]
  BY InvParts DEF TakeLock, CommitDone, LookTyped
<1>4. LooksElsewhere
  BY <1>2, <1>3 DEF TakeLock, CommitDone, LooksElsewhere, OnlyMoves
<1> QED
  BY <1>4, ElsewhereKeeps

\* A manifest is written at a time that nobody trusts yet.
LEMMA WriteBusy == ASSUME StoreInv, CacheInv, NEW w \in Windows, WriteManifest(w) PROVE CacheInv'
<1>1. CASE End(w) /\ UNCHANGED <<entries, dirtime>>
  BY <1>1, EndBusy DEF WriteManifest, lookup
<1>2. ASSUME NEW i \in Ids, job' = [job EXCEPT ![w].at = "synced", ![w].want = i], dirtime' = now
      PROVE  CacheInv'
  <2>1. \A p \in Windows : job'[p] = job[p] \/ job'[p].at # "guard"
    BY <1>2, InvParts DEF JobType
  <2>2. UNCHANGED <<known, seen, now>>
    BY DEF WriteManifest
  <2> SUFFICES ASSUME NEW p \in Windows PROVE Indexed(p)'
    BY DEF CacheInv
  <2>3. Indexed(p) /\ now \in 0..MaxNow /\ seen[p] \in 0..Untrusted
    BY InvParts DEF CacheInv, LookTyped
  <2>4. seen[p] # now /\ now \in Nat
    BY <2>3, Bounds DEF Indexed, Untrusted
  <2> QED
    BY <1>2, <2>1, <2>2, <2>3, <2>4, Bounds DEF Indexed
<1>3. NextFree(w) \subseteq Ids
  <2>1. job[w].at = "settle" /\ job[w].op = "folder" => job[w].want \in Ids
    BY InvParts DEF JobSound
  <2>2. job[w].at = "settle"
    BY DEF WriteManifest
  <2> QED
    BY <2>1, <2>2 DEF NextFree, Free
<1> QED
  BY <1>1, <1>2, <1>3 DEF WriteManifest

LEMMA ListEntriesBusy == ASSUME StoreInv, CacheInv, NEW w \in Windows, ListEntries(w) PROVE CacheInv'
<1>1. /\ job' = [job EXCEPT ![w] = Job("look", "guard", 0, dirtime)]
      /\ known' = [known EXCEPT ![w] = @ \cup Listed]
      /\ UNCHANGED <<entries, seen, dirtime, now>>
  BY DEF ListEntries
<1>2. Listed' = Listed
  BY <1>1 DEF Listed
<1>3. dirtime <= now /\ job \in [Windows -> JobType] /\ known \in [Windows -> SUBSET Ids]
  BY InvParts DEF LookTyped
<1>4. Job("look", "guard", 0, dirtime).want = dirtime
  BY DEF Job
<1> SUFFICES ASSUME NEW p \in Windows PROVE Indexed(p)'
  BY DEF CacheInv
<1>5. Indexed(p)
  BY DEF CacheInv
<1>6. CASE p = w
  BY <1>1, <1>2, <1>3, <1>4, <1>5, <1>6 DEF Indexed
<1>7. CASE p # w
  BY <1>1, <1>2, <1>3, <1>5, <1>7 DEF Indexed
<1> QED
  BY <1>6, <1>7

LEMMA NoteTimeBusy == ASSUME StoreInv, CacheInv, NEW w \in Windows, NoteTime(w) PROVE CacheInv'
<1>1. /\ seen' = [seen EXCEPT ![w] = Trusted(w)] /\ job[w].at = "guard"
      /\ UNCHANGED <<entries, known, dirtime, now>>
  BY DEF NoteTime
<1>2. OnlyMoves(w) /\ job'[w] = Idle
  BY InvParts, EndMoves DEF NoteTime
<1>3. job'[w].at # "guard" /\ Listed' = Listed
  BY <1>1, <1>2 DEF Idle, Job, Listed
<1>4. /\ dirtime \in Nat /\ dirtime <= now /\ now \in 0..MaxNow /\ seen \in [Windows -> 0..Untrusted]
      /\ job[w].want \in Nat
  BY InvParts, Bounds DEF LookTyped, JobType
<1> SUFFICES ASSUME NEW p \in Windows PROVE Indexed(p)'
  BY DEF CacheInv
<1>5. Indexed(p)
  BY DEF CacheInv
<1>6. CASE p = w
  <2>1. seen'[w] = Trusted(w)
    BY <1>1, <1>4
  <2>2. seen'[w] = Untrusted \/ (seen'[w] = job[w].want /\ job[w].want < now)
    BY <1>1, <1>4, <1>5, <1>6, <2>1 DEF Indexed, Trusted
  <2>3. Untrusted # dirtime
    BY <1>4, Bounds DEF Untrusted
  <2> QED
    BY <1>1, <1>3, <1>4, <1>5, <1>6, <2>2, <2>3 DEF Indexed
<1>7. CASE p # w
  BY <1>1, <1>2, <1>3, <1>4, <1>5, <1>7 DEF Indexed, OnlyMoves
<1> QED
  BY <1>6, <1>7

\* A window that is new knows nothing and trusts no time.
LEMMA CrashBusy == ASSUME StoreInv, CacheInv, NEW w \in Windows, Crash(w) PROVE CacheInv'
<1>1. /\ job' = [job EXCEPT ![w] = Idle]
      /\ known' = [known EXCEPT ![w] = {}] /\ seen' = [seen EXCEPT ![w] = Untrusted]
      /\ UNCHANGED <<entries, dirtime, now>>
  BY DEF Crash, Gone
<1>2. Idle.at # "guard" /\ Listed' = Listed
  BY <1>1 DEF Idle, Job, Listed
<1>3. /\ job \in [Windows -> JobType] /\ seen \in [Windows -> 0..Untrusted]
      /\ known \in [Windows -> SUBSET Ids] /\ Untrusted # dirtime
  BY InvParts, Bounds DEF LookTyped, Untrusted
<1> SUFFICES ASSUME NEW p \in Windows PROVE Indexed(p)'
  BY DEF CacheInv
<1>4. Indexed(p)
  BY DEF CacheInv
<1>5. CASE p = w
  BY <1>1, <1>2, <1>3, <1>5 DEF Indexed
<1>6. CASE p # w
  BY <1>1, <1>2, <1>3, <1>4, <1>6 DEF Indexed
<1> QED
  BY <1>5, <1>6

LEMMA PowerLossBusy == ASSUME StoreInv, CacheInv, PowerLoss PROVE CacheInv'
<1>1. /\ job' = [p \in Windows |-> Idle] /\ seen' = [p \in Windows |-> Untrusted]
      /\ dirtime' = dirtime
  BY DEF PowerLoss
<1>2. Idle.at # "guard"
  BY DEF Idle, Job
<1>3. Untrusted # dirtime
  <2>1. LookTyped
    BY TypedParts DEF StoreInv
  <2> QED
    BY <2>1, Bounds DEF LookTyped, Untrusted
<1> QED
  BY <1>1, <1>2, <1>3 DEF CacheInv, Indexed

LEMMA TickBusy == ASSUME StoreInv, CacheInv, Tick, ~GuardWaits PROVE CacheInv'
<1>1. /\ now' = now + 1 /\ UNCHANGED <<entries, job, known, seen, dirtime>>
      /\ \A w \in Windows : job[w].at # "guard"
  BY DEF Tick
<1>2. Listed' = Listed
  BY <1>1 DEF Listed
<1>3. now \in Nat /\ seen \in [Windows -> 0..Untrusted] /\ Untrusted \in Nat
  <2>1. LookTyped
    BY TypedParts DEF StoreInv
  <2> QED
    BY <2>1, Bounds DEF LookTyped, Untrusted
<1> SUFFICES ASSUME NEW p \in Windows PROVE Indexed(p)'
  BY DEF CacheInv
<1>4. Indexed(p)
  BY DEF CacheInv
<1> QED
  BY <1>1, <1>2, <1>3, <1>4 DEF Indexed

LEMMA CacheInvStep == ~GuardWaits /\ StoreInv /\ CacheInv /\ [Next]_vars => CacheInv'
<1> SUFFICES ASSUME ~GuardWaits, StoreInv, CacheInv, [Next]_vars PROVE CacheInv'
  OBVIOUS
<1>1. ASSUME NEW w \in Windows, Works(w) PROVE CacheInv'
  <2>1. CASE AddFromLive(w) \/ AddFromFolder(w) \/ MergeStore(w) \/ Repair(w)
    BY <2>1, BeginBusy
  <2>2. CASE ReadData(w) \/ ReadMeta(w)
    BY <2>2, ReadDataBusy, ReadMetaBusy
  <2>3. CASE PutProbe(w) \/ QuarantineOld(w) \/ PutReplace(w) \/ PutSync(w) \/ ReadBack(w)
    BY <2>3, PutBusy
  <2>4. CASE RequireConsistent(w) \/ LockTimeout(w) \/ CheckPresent(w)
    BY <2>4, CommitBusy
  <2>5. CASE TakeLock(w) \/ CommitDone(w) \/ WriteManifest(w)
    BY <2>5, LockBusy, WriteBusy
  <2>6. CASE ListEntries(w) \/ NoteTime(w)
    BY <2>6, ListEntriesBusy, NoteTimeBusy
  <2> QED
    BY <1>1, <2>1, <2>2, <2>3, <2>4, <2>5, <2>6 DEF Works
<1>2. CASE \E w \in Windows : Crash(w)
  BY <1>2, CrashBusy
<1>3. CASE \E f \in {"data", "meta"} : GameWrites(f)
  BY <1>3, ElsewhereKeeps DEF GameWrites, LooksElsewhere, lookup
<1>4. CASE \E d \in Digests : Damage(d)
  BY <1>4, ElsewhereKeeps DEF Damage, LooksElsewhere, lookup
<1>5. CASE Tick \/ PowerLoss
  BY <1>5, TickBusy, PowerLossBusy
<1>6. CASE UNCHANGED vars
  BY <1>6, ElsewhereKeeps DEF vars, LooksElsewhere
<1> QED
  BY <1>1, <1>2, <1>3, <1>4, <1>5, <1>6 DEF Next

LEMMA CacheInvInit == Init => CacheInv
<1> SUFFICES ASSUME Init, NEW w \in Windows PROVE Indexed(w)
  BY DEF CacheInv
<1>1. seen[w] = Untrusted /\ Untrusted # dirtime
  BY Bounds DEF Init, Untrusted
<1>2. job[w].at # "guard"
  BY DEF Init, Idle, Job
<1> QED
  BY <1>1, <1>2 DEF Indexed

LEMMA CacheInvGives == StoreInv /\ CacheInv => ListingsAgree
<1> SUFFICES ASSUME StoreInv, CacheInv PROVE ListingsAgree
  OBVIOUS
<1>1. CacheIsTrue
  BY DEF CacheInv, Indexed, CacheIsTrue
<1> QED
  BY <1>1 DEF StoreInv, ListingsAgree

\* Where a look does not wait for the index guard across a tick of the clock: a window
\* that skips the next listing has indexed every manifest, and a merge is listed once
\* (_refresh, add_merged).
THEOREM WhatIsListedIsThere == ASSUME ~GuardWaits PROVE Spec => []ListingsAgree
<1>1. StoreInv /\ CacheInv /\ [Next]_vars => CacheInv'
  BY CacheInvStep
<1>2. Spec => []CacheInv
  BY <1>1, CacheInvInit, StoreInvAlways, PTL DEF Spec
<1> QED
  BY <1>2, StoreInvAlways, CacheInvGives, PTL
=============================================================================
