---------------------------- MODULE VersionStore ----------------------------
(***************************************************************************)
(* The version store (core/store): captures of a folder the game may write *)
(* to, merges of another store and repairs, by several windows at once.    *)
(* An object is put (dedupe or write, sync, read back) before and outside  *)
(* the vault lock; only the manifest is committed under it.  A save is a   *)
(* data file, kept as an object, and a meta, kept inline.  Contents are    *)
(* numbers: equal numbers, equal bytes, one digest.                        *)
(***************************************************************************)
EXTENDS Naturals, FiniteSets, Sequences

CONSTANTS Windows,      \* handles of the store: windows, threads, the CLI
          Nobody,       \* what holds a free vault lock
          Source,       \* entries of another vault's store to merge: [id, data, meta]
          CatalogIds,   \* ids the vault's catalog has
          MaxIds, MaxSaves, MaxHurt, MaxMishaps, MaxJobs, MaxNow,
          GuardWaits    \* may a look at the folder wait 2 s for the index guard?

ASSUME StoreBounds == /\ Nobody \notin Windows
                      /\ {MaxIds, MaxSaves, MaxHurt, MaxMishaps, MaxJobs, MaxNow} \subseteq Nat
                      /\ CatalogIds \subseteq 1..MaxIds
                      /\ GuardWaits \in BOOLEAN
ASSUME StoredElsewhere == Source \subseteq [id : Nat \ {0}, data : 0..MaxSaves, meta : 0..MaxSaves]

VARIABLES live,     \* the account folder: the version of each file
          states,   \* the states the folder was in so far
          objects,  \* what store/objects has under each digest
          aside,    \* what was renamed into quarantine: a digest, and how it was
          loose,    \* renames no fsync made durable yet, oldest first
          entries,  \* the manifests, by id
          lock,     \* who holds the vault lock
          job,      \* what each window is doing
          known,    \* the manifests each window has indexed
          seen,     \* the time of entries/ at its last listing, if that can be trusted
          dirtime, now,   \* the time of entries/, the clock, in ticks of the file system
          hurt,     \* digests the medium damaged, or a quarantine took, since a put verified them
          kept,     \* entries returned to a caller
          lost      \* counts: damages, mishaps of every kind, jobs begun

vars == <<live, states, objects, aside, loose, entries, lock, job, known, seen, dirtime,
          now, hurt, kept, lost>>
files == <<live, states>>
medium == <<objects, aside, loose, hurt>>
lookup == <<known, seen, dirtime, now>>

Ids      == 1..MaxIds
Digests  == 0..MaxSaves
NoEntry  == [data |-> MaxSaves + 1, meta |-> 0, from |-> 0]
Untrusted == MaxNow + 1
Listed   == {i \in Ids : entries[i] # NoEntry}
Job(op, at, data, want) ==
  [op |-> op, at |-> at, data |-> data, meta |-> 0, want |-> want, from |-> 0]
Idle     == Job("none", "idle", 0, 0)

Mishap(medium_) == /\ lost.all < MaxMishaps
                   /\ medium_ => lost.hurt < MaxHurt
                   /\ lost' = [lost EXCEPT !.all = @ + 1, !.hurt = @ + IF medium_ THEN 1 ELSE 0]

Step(w, at) == job' = [job EXCEPT ![w].at = at]
End(w)      == job' = [job EXCEPT ![w] = Idle]

Init == /\ live = [data |-> 0, meta |-> 0]
        /\ states = {live}
        /\ objects = [d \in Digests |-> "none"]
        /\ aside = {} /\ loose = <<>> /\ hurt = {} /\ kept = {}
        /\ entries = [i \in Ids |-> NoEntry]
        /\ lock = Nobody
        /\ job = [w \in Windows |-> Idle]
        /\ known = [w \in Windows |-> {}]
        /\ seen = [w \in Windows |-> Untrusted]
        /\ dirtime = 0 /\ now = 0
        /\ lost = [hurt |-> 0, all |-> 0, jobs |-> 0]

-----------------------------------------------------------------------------
(* Starting: a capture of the live folder (backup, snapshot, extract,      *)
(* preserve), a folder kept under a given id (fold, copy-in), a merge of   *)
(* one entry, a repair of one digest.                                      *)

Begin(w, j) == /\ job[w].at = "idle"
               /\ job' = [job EXCEPT ![w] = j]
               /\ lost.jobs < MaxJobs /\ lost' = [lost EXCEPT !.jobs = @ + 1]
               /\ UNCHANGED <<files, medium, entries, lock, lookup, kept>>

AddFromLive(w) == Begin(w, Job("capture", "read", 0, 0))

AddFromFolder(w) == \E i \in CatalogIds : Begin(w, Job("folder", "put", 0, i))

\* merge_store, one entry: what is here already goes straight to the commit.
Came(s)       == {i \in Listed : entries[i].from = s.id}
MergeStore(w) == \E s \in Source :
  Begin(w, [op |-> "merge", at |-> IF Came(s) \cap known[w] = {} THEN "put" ELSE "commit",
            data |-> s.data, meta |-> s.meta, want |-> s.id, from |-> s.id])

\* fsck --repair: a digest that is missing or bad, with a good copy elsewhere
\* (here: the live folder).  The corrupt one is quarantined first.
Repair(w) == \E i \in Listed :
  /\ live.data = entries[i].data
  /\ objects[live.data] # "good"
  /\ Begin(w, Job("repair", IF objects[live.data] = "bad" THEN "aside" ELSE "put", live.data, 0))

-----------------------------------------------------------------------------
(* One object: ObjectStore.put and quarantine.                             *)

\* read_stable: a file that does not change while it is read.
ReadData(w) ==
  /\ job[w].at = "read"
  /\ job' = [job EXCEPT ![w].data = live.data, ![w].at = "put"]
  /\ UNCHANGED <<files, medium, entries, lock, lookup, kept, lost>>

\* A copy whose rename no sync covers yet makes good nothing the medium lost.
Verified(w) == hurt' = IF \E k \in 1..Len(loose) : loose[k] = <<"object", job[w].data>>
                       THEN hurt ELSE hurt \ {job[w].data}
Stored(w)   == Step(w, IF job[w].op = "capture" THEN "meta"
                       ELSE IF job[w].op = "repair" THEN "idle" ELSE "commit")

\* put: an existing object is re-hashed; a match deduplicates.
Deduplicates(w) == /\ objects[job[w].data] = "good"
                   /\ Stored(w) /\ Verified(w)

PutProbe(w) ==
  /\ job[w].at = "put"
  /\ \/ Deduplicates(w)
     \/ objects[job[w].data] = "bad"  /\ Step(w, "aside") /\ UNCHANGED hurt
     \/ objects[job[w].data] = "none" /\ Step(w, "write") /\ UNCHANGED hurt
  /\ UNCHANGED <<files, objects, aside, loose, entries, lock, lookup, kept, lost>>

\* quarantine: the object that is there by now is renamed aside.  FileNotFound
\* is passed over: another process moved it first.
Quarantine(w, next) ==
  LET d == job[w].data IN
  /\ objects' = [objects EXCEPT ![d] = "none"]
  /\ aside' = IF objects[d] = "none" THEN aside ELSE aside \cup {<<d, objects[d]>>}
  /\ hurt' = hurt \cup {d}
  /\ loose' = [k \in DOMAIN loose |-> IF loose[k] = <<"object", d>> THEN <<"moved", d>> ELSE loose[k]]
  /\ next
  /\ UNCHANGED <<files, entries, lock, lookup, kept, lost>>

QuarantineOld(w) == job[w].at = "aside" /\ Quarantine(w, Step(w, "write"))

\* put: temp file, fsync, rename into place; the medium may lose the bytes.  A
\* rename onto a file leaves that file, should it be lost.
PutReplace(w) ==
  /\ job[w].at = "write"
  /\ Step(w, "sync")
  /\ loose' = IF objects[job[w].data] = "none" THEN Append(loose, <<"object", job[w].data>>)
               ELSE loose
  /\ \/ objects' = [objects EXCEPT ![job[w].data] = "good"] /\ UNCHANGED <<hurt, lost>>
     \/ /\ Mishap(TRUE)
        /\ objects' = [objects EXCEPT ![job[w].data] = "bad"]
        /\ hurt' = hurt \cup {job[w].data}
  /\ UNCHANGED <<files, aside, entries, lock, lookup, kept>>

\* fsync of a folder; a journal of the file system takes every older rename along.
PutSync(w) == /\ job[w].at = "sync"
              /\ loose' = <<>>
              /\ Step(w, "back")
              /\ UNCHANGED <<files, objects, aside, hurt, entries, lock, lookup, kept, lost>>

\* put, the read-back: a mismatch is quarantined and the put fails.
ReadBack(w) ==
  /\ job[w].at = "back"
  /\ IF objects[job[w].data] = "good"
     THEN /\ Stored(w) /\ Verified(w)
          /\ UNCHANGED <<files, objects, aside, loose, entries, lock, lookup, kept, lost>>
     ELSE Quarantine(w, End(w))

-----------------------------------------------------------------------------
(* A capture's second file, and the check that both are one state.         *)

ReadMeta(w) ==
  /\ job[w].at = "meta"
  /\ job' = [job EXCEPT ![w].meta = live.meta, ![w].at = "check"]
  /\ UNCHANGED <<files, medium, entries, lock, lookup, kept, lost>>

\* Mutant (EntriesAreHeld): the folder is not looked at again.
AnyState(w) == TRUE

\* require_consistent: every file read is still what was read.
Unchanged(w) == live = [data |-> job[w].data, meta |-> job[w].meta]

\* A capture refuses when the folder changed (SourceChanged), or when a
\* preserve's slot no longer holds the version expected of it.
RequireConsistent(w) ==
  /\ job[w].at = "check"
  /\ IF Unchanged(w) THEN Step(w, "commit") ELSE End(w)
  /\ UNCHANGED <<files, medium, entries, lock, lookup, kept, lost>>

-----------------------------------------------------------------------------
(* The commit, under the vault lock.                                       *)

TakeLock(w) == /\ job[w].at = "commit" /\ lock = Nobody
               /\ lock' = w
               /\ Step(w, "settle")
               /\ known' = [known EXCEPT ![w] = Listed]     \* _refresh(force=True)
               /\ UNCHANGED <<files, medium, entries, seen, dirtime, now, kept, lost>>

LockTimeout(w) == /\ job[w].at = "commit" /\ lock # Nobody
                  /\ End(w)
                  /\ UNCHANGED <<files, medium, entries, lock, lookup, kept, lost>>

SameFiles(i, w) == entries[i].data = job[w].data /\ entries[i].meta = job[w].meta

\* What the store has of this already: an entry of that id with these files
\* (a fold that runs again), or one that came from that source entry.
Mine(w) == {i \in Listed : \/ i = job[w].want /\ SameFiles(i, w)
                           \/ job[w].from # 0 /\ entries[i].from = job[w].from}

\* _free_id: an id of neither catalog nor store, except a fold's own.
Free(w) == (Ids \ (Listed \cup CatalogIds))
             \cup (IF job[w].op = "folder" THEN {job[w].want} \ Listed ELSE {})

\* The one it gets: the id it wants, or the least.
NextFree(w) == {i \in Free(w) : \/ i = job[w].want
                                \/ job[w].want \notin Free(w) /\ \A j \in Free(w) : i <= j}

\* Manifests a crash left before the sync of their folder.
Unsynced == {i \in Ids : \E k \in 1..Len(loose) : loose[k] = <<"entry", i>>}

\* _write_manifest's rename, the commit point; or nothing, when it is here.
WriteManifest(w) ==
  /\ job[w].at = "settle"
  /\ \/ /\ Mine(w) # {}
        /\ kept' = kept \cup {<<i, entries[i]>> : i \in Mine(w) \ Unsynced}
        /\ lock' = Nobody /\ End(w)
        /\ UNCHANGED <<entries, loose, dirtime>>
     \/ \E i \in NextFree(w) :
        /\ Mine(w) = {}
        /\ entries' = [entries EXCEPT ![i] =
                         [data |-> job[w].data, meta |-> job[w].meta, from |-> job[w].from]]
        /\ loose' = Append(loose, <<"entry", i>>)
        /\ dirtime' = now
        /\ job' = [job EXCEPT ![w].at = "synced", ![w].want = i]
        /\ UNCHANGED <<lock, kept>>
     \/ Mine(w) = {} /\ Free(w) = {} /\ End(w) /\ lock' = Nobody     \* the bound
        /\ UNCHANGED <<entries, loose, dirtime, kept>>
  /\ UNCHANGED <<files, objects, aside, hurt, known, seen, now, lost>>

\* The folder is synced, the entry indexed, the lock freed.
CommitDone(w) ==
  /\ job[w].at = "synced"
  /\ loose' = <<>>
  /\ known' = [known EXCEPT ![w] = @ \cup {job[w].want}]
  /\ lock' = Nobody
  /\ Step(w, "present")
  /\ UNCHANGED <<files, objects, aside, hurt, entries, seen, dirtime, now, kept, lost>>

\* _check_present; a preserve reads every file again.  A missing object is an
\* error although the entry is listed.
CheckPresent(w) ==
  /\ job[w].at = "present"
  /\ kept' = IF objects[job[w].data] = "none" THEN kept
             ELSE kept \cup {<<job[w].want, entries[job[w].want]>>}
  /\ End(w)
  /\ UNCHANGED <<files, medium, entries, lock, lookup, lost>>

-----------------------------------------------------------------------------
(* Looking: _refresh skips the listing while entries/ has the time of the  *)
(* last one.                                                               *)

ListEntries(w) ==
  /\ job[w].at = "idle" /\ seen[w] # dirtime
  /\ known' = [known EXCEPT ![w] = @ \cup Listed]
  /\ job' = [job EXCEPT ![w] = Job("look", "guard", 0, dirtime)]
  /\ lost.jobs < MaxJobs /\ lost' = [lost EXCEPT !.jobs = @ + 1]
  /\ UNCHANGED <<files, medium, entries, lock, seen, dirtime, now, kept>>

\* Mutant (ListingsAgree): a time of this very tick is trusted too.
TrustsAll(w) == job[w].want

\* A time this fresh may not move for a manifest of the same tick.
Trusted(w) == IF job[w].want = now THEN Untrusted ELSE job[w].want

NoteTime(w) == /\ job[w].at = "guard"
               /\ seen' = [seen EXCEPT ![w] = Trusted(w)]
               /\ End(w)
               /\ UNCHANGED <<files, medium, entries, lock, known, dirtime, now, kept, lost>>

-----------------------------------------------------------------------------
(* Around it: the game, the clock, the medium, crashes and power failures. *)

GameWrites(f) ==
  /\ live[f] < MaxSaves
  /\ live' = [live EXCEPT ![f] = @ + 1]
  /\ states' = states \cup {live'}
  /\ UNCHANGED <<medium, entries, lock, job, lookup, kept, lost>>

Tick == /\ now < MaxNow
        /\ GuardWaits \/ \A w \in Windows : job[w].at # "guard"
        /\ now' = now + 1
        /\ UNCHANGED <<files, medium, entries, lock, job, known, seen, dirtime, kept, lost>>

Damage(d) ==
  /\ objects[d] = "good" /\ Mishap(TRUE)
  /\ \E now_ \in {"none", "bad"} : objects' = [objects EXCEPT ![d] = now_]
  /\ hurt' = hurt \cup {d}
  /\ UNCHANGED <<files, aside, loose, entries, lock, job, lookup, kept>>

Gone(w) == /\ job' = [job EXCEPT ![w] = Idle]
           /\ known' = [known EXCEPT ![w] = {}]
           /\ seen' = [seen EXCEPT ![w] = Untrusted]

Crash(w) ==
  /\ job[w].at # "idle" /\ Mishap(FALSE)
  /\ Gone(w)
  /\ lock' = IF lock = w THEN Nobody ELSE lock
  /\ UNCHANGED <<files, medium, entries, dirtime, now, kept>>

\* The newest renames may be gone; an older one never without the newer.
PowerLoss ==
  /\ Mishap(FALSE)
  /\ \E n \in 0..Len(loose) :
       LET gone == {loose[k] : k \in n + 1..Len(loose)} IN
       /\ objects' = [d \in Digests |-> IF <<"object", d>> \in gone THEN "none" ELSE objects[d]]
       /\ entries' = [i \in Ids |-> IF <<"entry", i>> \in gone THEN NoEntry ELSE entries[i]]
  /\ loose' = <<>>
  /\ job' = [w \in Windows |-> Idle]
  /\ known' = [w \in Windows |-> {}]
  /\ seen' = [w \in Windows |-> Untrusted]
  /\ lock' = Nobody
  /\ UNCHANGED <<files, aside, hurt, dirtime, now, kept>>

Works(w) == \/ AddFromLive(w) \/ AddFromFolder(w) \/ MergeStore(w) \/ Repair(w)
            \/ ReadData(w) \/ PutProbe(w) \/ QuarantineOld(w) \/ PutReplace(w) \/ PutSync(w)
            \/ ReadBack(w) \/ ReadMeta(w) \/ RequireConsistent(w)
            \/ TakeLock(w) \/ LockTimeout(w) \/ WriteManifest(w) \/ CommitDone(w)
            \/ CheckPresent(w) \/ ListEntries(w) \/ NoteTime(w)

Next == \/ \E w \in Windows : Works(w) \/ Crash(w)
        \/ \E f \in {"data", "meta"} : GameWrites(f)
        \/ \E d \in Digests : Damage(d)
        \/ Tick \/ PowerLoss

Spec == Init /\ [][Next]_vars
-----------------------------------------------------------------------------
(* Types: the store's folders hold what they may, and a window at work has *)
(* a content the folder had.                                               *)
Entry == [data : Digests, meta : Digests, from : {0} \cup {s.id : s \in Source}]
TypeOK ==
  /\ live \in [data : Digests, meta : Digests]
  /\ objects \in [Digests -> {"none", "good", "bad"}]
  /\ entries \in [Ids -> Entry \cup {NoEntry}]
  /\ lock \in Windows \cup {Nobody}
  /\ known \in [Windows -> SUBSET Ids]
  /\ seen \in [Windows -> 0..Untrusted]
  /\ hurt \subseteq Digests
  /\ \A w \in Windows : lock = w <=> job[w].at \in {"settle", "synced"}

\* An object that a listed manifest names is there and good, unless the medium
\* damaged it, or a quarantine took it, after the last put that verified it:
\* crashes, power failures and other windows never leave an entry without its
\* bytes (_add: objects first, the manifest last).
ListedIsHeld == \A i \in Listed : \/ objects[entries[i].data] = "good"
                                  \/ entries[i].data \in hurt

\* An entry of the live folder is one state the folder was in, although the
\* game writes its two files while they are read (CapturePlan.require_consistent).
EntryIsAState == \A i \in Listed :
  \/ entries[i].from # 0
  \/ [data |-> entries[i].data, meta |-> entries[i].meta] \in states

\* What a caller was given stays listed, unchanged, whatever the other windows
\* commit and through any crash or power failure (_commit, _free_id).  One that
\* was found there may be another process's, renamed and not yet synced: that
\* one is kept only against crashes, and is left out.
KeptStays == \A k \in kept : entries[k[1]] = k[2]

\* Importing the same source again, from two windows at once too, adds nothing
\* (add_merged looks again under the lock).
MergedOnce == \A i, j \in Listed : entries[i].from = entries[j].from /\ entries[i].from # 0 => i = j

\* A window that would skip the next listing has indexed every manifest.
CacheIsTrue == \A w \in Windows : seen[w] = dirtime /\ job[w].at = "idle" => Listed \subseteq known[w]

\* What is listed can be restored: its objects are there, it was a state of the folder,
\* and what is kept elsewhere stays (capture, commit, free).
EntriesAreHeld == TypeOK /\ ListedIsHeld /\ EntryIsAState /\ KeptStays

\* What a window lists is what the manifests say: a merge adds an entry once, and the
\* cached index is not older than the folder it trusts.
ListingsAgree == MergedOnce /\ CacheIsTrue
=============================================================================
