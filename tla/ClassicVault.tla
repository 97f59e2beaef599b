---------------------------- MODULE ClassicVault ----------------------------
(***************************************************************************)
(* The vault of folders (core/catalog.py, core/operations.py): backups,    *)
(* snapshots, extracts, imports of a folder and of a whole vault, made by  *)
(* several windows at once while the game writes the folder that is        *)
(* copied. Every window keeps the catalog in memory and reads it again     *)
(* when the file has moved. A file is the version that was written last    *)
(* (0: no such file); Torn is a file read while it was written.            *)
(***************************************************************************)
EXTENDS Naturals, Sequences, FiniteSets

CONSTANTS Windows,
          Slots, Played,              \* save slots; those that exist at the start
          SourceIds,                  \* entries of another vault
          Batches,                    \* orders in which folders are backed up together
          Torn, NoFile,
          MaxTime,                    \* seconds that may pass
          Counts                      \* how often each thing may happen

Files == {"data", "meta"} \X Slots

ASSUME VaultBounds ==
  /\ Played \subseteq Slots
  /\ \A q \in Batches : q # <<>> /\ q \in Seq({"live", "still", "empty"})
  /\ MaxTime \in Nat /\ IsFiniteSet(SourceIds)
  /\ \A c \in Counts : \A k \in DOMAIN c : c[k] \in Nat
  /\ Torn \notin Nat /\ NoFile \notin Files

VARIABLES live,       \* the files of the live folder
          due,        \* what the game still has to do of a save or an erase
          past,       \* every state the live folder was in
          drafts,     \* the newest version of a file; no two saves write the same
          now,        \* the second on the clock
          folders,    \* vault folders: id -> the files in it
          catalog,    \* catalog.json: id -> entry
          stamp,      \* what stat tells of catalog.json
          memory,     \* each window's copy of the catalog
          seen,       \* the stamp that copy was read at (0: never)
          oplog,      \* oplog.jsonl, line by line
          acked,      \* lines reported as written
          op,         \* what each window is doing
          told,       \* what finished operations reported
          left,       \* folders a crash or a failed removal left
          doubtful,   \* entries whose folder was taken over by an import or an interrupt
          count

vars == <<live, due, past, drafts, now, folders, catalog, stamp, memory, seen, oplog, acked, op, told, left,
          doubtful, count>>
disk == <<folders, catalog, stamp, memory, seen>>
game == <<live, due, past, drafts, now>>

NoFiles == [f \in Files |-> 0]
Whole   == [f \in Files |-> IF f[2] \in Played THEN 1 ELSE 0]
Idle    == [what |-> "none", at |-> "idle", queue |-> <<>>, asked |-> <<>>, done |-> <<>>,
            src |-> "none", id |-> <<>>, look |-> 0, listed |-> {}, todo |-> {}, cur |-> NoFile,
            before |-> 0, stats |-> NoFiles, moved |-> {}, check |-> {}]
Put(f, x, y) == [z \in DOMAIN f \cup {x} |-> IF z = x THEN y ELSE f[z]]
Drop(f, x)   == [z \in DOMAIN f \ {x} |-> f[z]]
May(c)       == count[c] > 0
Spend(c)     == May(c) /\ count' = [count EXCEPT ![c] = @ - 1]
Step(w, at)  == op' = [op EXCEPT ![w].at = at]

\* What a folder holds: the live one, one nobody writes, one without saves, one of another vault.
Content(src) == IF src = "live" THEN live ELSE IF src = "empty" THEN NoFiles ELSE Whole
Present(src) == {f \in Files : Content(src)[f] # 0}
Pairs(src)   == {f \in Present(src) : \A k \in {"data", "meta"} : <<k, f[2]>> \in Present(src)}
IsVault(o)   == o.what \in {"vault", "inplaceVault"}

-----------------------------------------------------------------------------
(* The game: a save writes the data, then the meta; an erase removes them.  *)

Write(f, v) == /\ live' = [live EXCEPT ![f] = v]
               /\ past' = past \cup {live'}

GameSaves(s) ==
  /\ due = <<>> /\ Spend("saves")
  /\ drafts' = drafts + 1
  /\ Write(<<"data", s>>, drafts')
  /\ due' = <<"meta", s>>
  /\ UNCHANGED <<now, folders, catalog, stamp, memory, seen, oplog, acked, op, told, left, doubtful>>

GameErases(s) ==
  /\ due = <<>> /\ live[<<"data", s>>] # 0 /\ Spend("erases")
  /\ Write(<<"data", s>>, 0)
  /\ due' = <<"gone", s>>
  /\ UNCHANGED <<drafts, now, folders, catalog, stamp, memory, seen, oplog, acked, op, told, left, doubtful>>

GameFinishes ==
  /\ due # <<>>
  /\ Write(<<"meta", due[2]>>, IF due[1] = "meta" THEN live[<<"data", due[2]>>] ELSE 0)
  /\ due' = <<>>
  /\ UNCHANGED <<drafts, now, disk, oplog, acked, op, told, left, doubtful, count>>

Tick == /\ now < MaxTime /\ now' = now + 1
        /\ UNCHANGED <<live, due, past, drafts, disk, oplog, acked, op, told, left, doubtful, count>>

-----------------------------------------------------------------------------
(* Beginning an operation.                                                  *)

Begin(w, what, queue) ==
  /\ op[w] = Idle /\ Spend(what)
  /\ op' = [op EXCEPT ![w] = [Idle EXCEPT !.what = what, !.queue = queue, !.asked = queue,
              !.at = IF what = "vault" \/ what = "inplaceVault" THEN "look" ELSE "list"]]
  /\ UNCHANGED <<game, disk, oplog, acked, told, left, doubtful>>

Start(w) ==
  \/ \E what \in {"backup", "extract"} : Begin(w, what, <<"live">>)
  \/ \E q \in Batches : Begin(w, "batch", q)
  \/ Begin(w, "inplace", <<"still">>)
  \/ \E what \in {"vault", "inplaceVault"} : Begin(w, what, <<>>)

\* The operation ends: what it reports is remembered.
Finish(w, done) ==
  /\ told' = told \cup {[what |-> op[w].what, asked |-> op[w].asked, done |-> done]}
  /\ op' = [op EXCEPT ![w] = Idle]

\* One item is over (made, skipped or failed): a batch goes on to the next folder.
ItemOver(w, outcome) ==
  LET o    == op[w]
      done == Append(o.done, outcome)
  IN IF o.what = "batch" /\ Len(o.queue) > 1
     THEN /\ op' = [op EXCEPT ![w] = [Idle EXCEPT !.what = "batch", !.at = "list",
                                        !.queue = Tail(o.queue), !.asked = o.asked, !.done = done]]
          /\ UNCHANGED told
     ELSE Finish(w, done)

\* The files to copy are listed; a folder without saves is skipped or refused.
List(w) ==
  LET o     == op[w]
      src   == Head(o.queue)
      files == IF o.what = "extract" THEN Pairs(src) ELSE Present(src)
  IN /\ o.at = "list"
     /\ IF files = {} THEN ItemOver(w, [res |-> "skipped", id |-> <<>>])
        ELSE /\ op' = [op EXCEPT ![w].src = src, ![w].listed = files, ![w].at = "look"]
             /\ UNCHANGED told
     /\ UNCHANGED <<game, disk, oplog, acked, left, doubtful, count>>

-----------------------------------------------------------------------------
(* The catalog in memory.                                                   *)

\* The stamp is taken before the file is read, so a write in between is noticed.
Look(w) ==
  /\ op[w].at = "look"
  /\ op' = [op EXCEPT ![w].look = stamp,
                      ![w].at = IF seen[w] = stamp THEN "name" ELSE "read"]
  /\ UNCHANGED <<game, disk, oplog, acked, told, left, doubtful, count>>

StampOf(w) == op[w].look

Read(w) ==
  /\ op[w].at = "read"
  /\ memory' = [memory EXCEPT ![w] = catalog]
  /\ Step(w, "reread")
  /\ UNCHANGED <<game, folders, catalog, stamp, seen, oplog, acked, told, left, doubtful, count>>

NoteRead(w) ==
  /\ op[w].at = "reread"
  /\ seen' = [seen EXCEPT ![w] = StampOf(w)]
  /\ Step(w, "name")
  /\ UNCHANGED <<game, folders, catalog, stamp, memory, oplog, acked, told, left, doubtful, count>>

\* A fresh id: the first of this second that neither the catalog nor the folder knows.
KindOf(what) == CASE what \in {"backup", "batch"} -> "full" [] what = "extract" -> "extract"
                  [] OTHER -> "inplace"
Named(w, id) == /\ id \notin DOMAIN memory[w]
                /\ op[w].what = "inplace" \/ id \notin DOMAIN folders
NewIds(w) ==
  LET id(n)   == <<KindOf(op[w].what), now, n>>
      nth     == 1..(Cardinality(DOMAIN memory[w] \cup DOMAIN folders) + 1)
      first   == {n \in nth : Named(w, id(n)) /\ \A m \in 1..(n - 1) : ~Named(w, id(m))}
  IN {id(n) : n \in first}

Name(w) ==
  LET o == op[w]
  IN /\ o.at = "name"
     /\ IF IsVault(o)
        THEN \* import_vault: the entries this vault has not are taken, one after another
             \E q \in [1..Cardinality(SourceIds \ DOMAIN memory[w]) ->
                         SourceIds \ DOMAIN memory[w]] :
               /\ \A i, j \in DOMAIN q : i < j => q[i][3] < q[j][3]
               /\ op' = [op EXCEPT ![w].queue = q, ![w].asked = q,
                                   ![w].at = IF q = <<>> THEN "log" ELSE "place"]
        ELSE \E id \in NewIds(w) :
               op' = [op EXCEPT ![w].id = id,
                                ![w].at = IF o.what = "inplace" THEN "commit" ELSE "mkdir"]
     /\ UNCHANGED <<game, disk, oplog, acked, told, left, doubtful, count>>

-----------------------------------------------------------------------------
(* Copying into a new folder.                                               *)

\* Where something fails, the folder goes only if this operation made it.
HasMade(w) == /\ op[w].what # "inplace"
              /\ op[w].at \in IF IsVault(op[w]) THEN {"copy", "stat"} ELSE {"copy", "stat", "commit"}

Fails(w) ==
  /\ IF HasMade(w)
     THEN \/ folders' = Drop(folders, op[w].id) /\ left' = left
          \/ folders' = folders /\ left' = left \cup {op[w].id}     \* it cannot be removed
     ELSE /\ folders' = folders
          /\ left' = IF IsVault(op[w]) /\ op[w].at = "commit" THEN left \cup {op[w].id} ELSE left
  /\ ItemOver(w, [res |-> "failed", id |-> <<>>])

Failure(w) == Fails(w) /\ UNCHANGED <<game, catalog, stamp, memory, seen, oplog, acked, doubtful>>

\* A backup copies the tree as it is now; the other kinds the files they listed.
Mkdir(w) ==
  LET o    == op[w]
      todo == IF o.what = "extract" THEN o.listed ELSE Present(o.src)
  IN /\ o.at = "mkdir"
     /\ IF o.id \in DOMAIN folders THEN Failure(w) /\ UNCHANGED count
        ELSE /\ folders' = Put(folders, o.id, NoFiles)
             /\ op' = [op EXCEPT ![w].todo = todo,
                                 ![w].check = IF todo = {} THEN o.listed ELSE {},
                                 ![w].at = IF todo = {} THEN "stat" ELSE "copy"]
             /\ UNCHANGED <<game, catalog, stamp, memory, seen, oplog, acked, told, left, doubtful, count>>

\* _relocate_entry: a folder that is already there is not copied again.
Place(w) ==
  LET o  == op[w]
      id == Head(o.queue)
  IN /\ o.at = "place"
     /\ IF o.what = "inplaceVault" \/ id \in DOMAIN folders
        THEN /\ op' = [op EXCEPT ![w].id = id, ![w].src = "still", ![w].listed = Present("still"),
                                 ![w].at = "commit"]
             /\ doubtful' = IF o.what = "vault" THEN doubtful \cup {id} ELSE doubtful
             /\ UNCHANGED folders
        ELSE /\ folders' = Put(folders, id, NoFiles)
             /\ op' = [op EXCEPT ![w].id = id, ![w].src = "still", ![w].listed = Present("still"),
                                 ![w].todo = Present("still"), ![w].at = "copy"]
             /\ UNCHANGED doubtful
     /\ UNCHANGED <<game, catalog, stamp, memory, seen, oplog, acked, told, left, count>>

CopyBegins(w, f) ==
  /\ op[w].at = "copy" /\ op[w].cur = NoFile /\ f \in op[w].todo
  /\ IF f \notin Present(op[w].src) THEN Failure(w) /\ UNCHANGED count
     ELSE /\ op' = [op EXCEPT ![w].cur = f, ![w].before = Content(op[w].src)[f]]
          /\ UNCHANGED <<game, disk, oplog, acked, told, left, doubtful, count>>

\* The source is looked at before and after it is read; its stat is kept.
CopyEnds(w) ==
  LET o     == op[w]
      after == Content(o.src)[o.cur]
      rest  == o.todo \ {o.cur}
  IN /\ o.at = "copy" /\ o.cur # NoFile
     /\ IF after = 0 THEN Failure(w)
        ELSE /\ folders' = [folders EXCEPT ![o.id][o.cur] = IF after = o.before THEN after ELSE Torn]
             /\ op' = [op EXCEPT ![w] =
                         [o EXCEPT !.cur = NoFile, !.before = 0, !.todo = rest,
                                   !.stats = [o.stats EXCEPT ![o.cur] = after],
                                   !.moved = IF after = o.before THEN o.moved ELSE o.moved \cup {o.cur},
                                   !.check = IF rest = {} THEN o.listed ELSE {},
                                   !.at = IF rest = {} THEN "stat" ELSE "copy"]]
             /\ UNCHANGED <<game, catalog, stamp, memory, seen, oplog, acked, told, left, doubtful>>
     /\ UNCHANGED count

\* Every source is looked at again when the last file was copied.
Mutant_SourceMoved(o, f) == f \in o.moved        \* Mutant (VaultIsSound): only its own copying counts
SourceMoved(o, f) == f \in o.moved \/ Content(o.src)[f] # o.stats[f]

StatAgain(w, f) ==
  LET o     == op[w]
      moved == IF SourceMoved(o, f) THEN o.moved \cup {f} ELSE o.moved
      rest  == o.check \ {f}
  IN /\ o.at = "stat" /\ f \in o.check
     /\ IF f \notin Present(o.src) \/ (rest = {} /\ moved \cap o.listed # {}) THEN Failure(w)
        ELSE /\ op' = [op EXCEPT ![w].check = rest, ![w].moved = moved,
                                 ![w].at = IF rest = {} THEN "commit" ELSE "stat"]
             /\ UNCHANGED <<game, disk, oplog, acked, told, left, doubtful>>
     /\ UNCHANGED count

-----------------------------------------------------------------------------
(* The catalog and the op log.                                              *)

Mutant_Reloaded(w) == memory[w]      \* Mutant (KeepsOthers): the change is made to what is in memory
Reloaded(w) == catalog

Entry(w) == [managed |-> op[w].what \notin {"inplace", "inplaceVault"}, files |-> op[w].listed]

\* What is next: an import goes on with the next entry.
Made(w) ==
  LET o    == op[w]
      done == Append(o.done, [res |-> "made", id |-> o.id])
  IN IF IsVault(o) /\ Len(o.queue) > 1
     THEN op' = [op EXCEPT ![w] = [Idle EXCEPT !.what = o.what, !.at = "place", !.asked = o.asked,
                                     !.queue = Tail(o.queue), !.done = done]]
     ELSE op' = [op EXCEPT ![w].at = "log", ![w].done = IF IsVault(o) THEN done ELSE @]

\* _change, under the locks: read again, change, save; memory is what was saved.
Commit(w) ==
  /\ op[w].at = "commit"
  /\ catalog' = Put(Reloaded(w), op[w].id, Entry(w))
  /\ stamp' = stamp + 1
  /\ memory' = [memory EXCEPT ![w] = catalog']
  /\ seen' = [seen EXCEPT ![w] = stamp']
  /\ left' = left \ {op[w].id}
  /\ Made(w)
  /\ UNCHANGED <<game, folders, oplog, acked, told, doubtful, count>>

Restored(w) == catalog

\* The lock is busy, or the catalog was read again and the save failed.
CommitFails(w) ==
  /\ op[w].at = "commit" /\ Spend("faults")
  /\ \/ UNCHANGED <<memory, seen>>
     \/ /\ memory' = [memory EXCEPT ![w] = Restored(w)]
        /\ seen' = [seen EXCEPT ![w] = stamp]
  /\ Fails(w)
  /\ UNCHANGED <<game, catalog, stamp, oplog, acked, doubtful>>

\* An interrupt after the file was replaced: the entry is in the catalog, the folder goes.
Interrupt(w) ==
  /\ op[w].at = "commit" /\ Spend("interrupts")
  /\ catalog' = Put(Reloaded(w), op[w].id, Entry(w))
  /\ stamp' = stamp + 1
  /\ memory' = [memory EXCEPT ![w] = catalog] /\ seen' = [seen EXCEPT ![w] = stamp]
  /\ doubtful' = doubtful \cup {op[w].id}
  /\ Fails(w)
  /\ UNCHANGED <<game, oplog, acked>>

\* A disk error, a full drive or a busy file before that.
Error(w) ==
  /\ op[w].at \in {"look", "read", "mkdir", "copy", "stat"}
  /\ Spend("faults") /\ Failure(w)

\* A line torn by a crash is never extended: the record starts on a fresh line.
WithLine(log) == Append(log, "whole")
\* Damaged lines are skipped when the log is read.
Readable(log) == {i \in DOMAIN log : log[i] = "whole"}

Log(w) ==
  /\ op[w].at = "log"
  /\ oplog' = WithLine(oplog)
  /\ acked' = acked + 1
  /\ IF IsVault(op[w]) THEN Finish(w, op[w].done)
     ELSE ItemOver(w, [res |-> "made", id |-> op[w].id])
  /\ UNCHANGED <<game, disk, left, doubtful, count>>

\* The op log is not the operation: it is done, with a warning.
LogFails(w) ==
  /\ op[w].at = "log" /\ Spend("faults")
  /\ oplog' \in {oplog, Append(oplog, "torn")}
  /\ IF IsVault(op[w]) THEN Finish(w, op[w].done)
     ELSE ItemOver(w, [res |-> "made", id |-> op[w].id])
  /\ UNCHANGED <<game, disk, acked, left, doubtful>>

Crash(w) ==
  /\ op[w] # Idle /\ Spend("crashes")
  /\ op' = [op EXCEPT ![w] = Idle]
  /\ memory' = [memory EXCEPT ![w] = <<>>] /\ seen' = [seen EXCEPT ![w] = 0]
  /\ left' = IF HasMade(w) \/ (IsVault(op[w]) /\ op[w].at = "commit") THEN left \cup {op[w].id} ELSE left
  /\ oplog' \in IF op[w].at = "log" THEN {oplog, Append(oplog, "torn")} ELSE {oplog}
  /\ UNCHANGED <<game, folders, catalog, stamp, acked, told, doubtful>>

-----------------------------------------------------------------------------
Init ==
  /\ live = Whole /\ due = <<>> /\ past = {live} /\ drafts = 1 /\ now = 0
  /\ folders = <<>> /\ catalog = <<>> /\ stamp = 1
  /\ memory = [w \in Windows |-> <<>>] /\ seen = [w \in Windows |-> 0]
  /\ oplog = <<>> /\ acked = 0
  /\ op = [w \in Windows |-> Idle] /\ told = {}
  /\ left = {} /\ doubtful = {}
  /\ count \in Counts

Next ==
  \/ \E s \in Slots : GameSaves(s) \/ GameErases(s)
  \/ GameFinishes
  \/ Tick
  \/ \E w \in Windows :
       \/ Start(w) \/ List(w) \/ Look(w) \/ Read(w) \/ NoteRead(w) \/ Name(w)
       \/ Mkdir(w) \/ Place(w)
       \/ \E f \in Files : CopyBegins(w, f) \/ StatAgain(w, f)
       \/ CopyEnds(w) \/ Commit(w) \/ CommitFails(w) \/ Interrupt(w) \/ Error(w)
       \/ Log(w) \/ LogFails(w) \/ Crash(w)

Spec == Init /\ [][Next]_vars

-----------------------------------------------------------------------------
Ids == ({"full", "extract", "inplace"} \X Nat \X Nat) \cup SourceIds

\* Types: the folders, the catalog and every memory of it are about ids.
TypeOK ==
  /\ DOMAIN folders \subseteq Ids /\ DOMAIN catalog \subseteq Ids
  /\ \A i \in DOMAIN folders : folders[i] \in [Files -> Nat \cup {Torn}]
  /\ \A w \in Windows : DOMAIN memory[w] \subseteq Ids /\ seen[w] <= stamp
  /\ now \in 0..MaxTime /\ acked <= Len(oplog)
  /\ doubtful \subseteq Ids /\ left \subseteq Ids

\* What an entry promises (_verify_copy, _new_managed_entry): its folder is there and the files it
\* was made for are those of one moment of the folder they come from.
IsWhole(i) ==
  /\ i \in DOMAIN folders
  /\ \E was \in past \cup {Whole} : \A f \in catalog[i].files : folders[i][f] = was[f]

\* Every entry with a folder of its own is whole, whatever the game, another window, an error or
\* a crash did while it was made.  Left out (doubtful): an entry whose commit was
\* interrupted, and a half-copied folder a crashed import left, which the next import lists.
EntriesAreWhole == \A i \in DOMAIN catalog \ doubtful : catalog[i].managed => IsWhole(i)

\* An operation only adds to the catalog: what another window put there stays, as it was
\* (Vault._change). An entry in place has no folder that would make its id its own, two
\* imports of one vault at once bring the same ids, and an interrupted commit took the
\* folder away that its entry's id would be known by (doubtful).
KeepsOthers == [][\A i \in DOMAIN catalog :
                    /\ i \in DOMAIN catalog'
                    /\ (catalog[i].managed /\ i \notin SourceIds \cup doubtful)
                         => catalog'[i] = catalog[i]]_vars

\* A window that takes its memory for current has the catalog in it (Vault.entries, _reload).
SeenIsCurrent == \A w \in Windows : seen[w] = stamp => memory[w] = catalog

\* A folder without an entry is being filled, or a crash or a failing removal left it.
NoOrphans == \A i \in DOMAIN folders :
               \/ i \in DOMAIN catalog \cup left
               \/ \E w \in Windows : op[w].id = i /\ op[w].at \in {"copy", "stat", "commit"}

\* Every record the log acknowledged is read again, torn lines notwithstanding (read_oplog).
RecordedIsRead == Cardinality(Readable(oplog)) >= acked

\* What was reported: one outcome for every folder asked for, and what was made is listed
\* (back_up_folders, import_vault).
ToldIsTrue == \A t \in told :
  /\ t.what = "batch" => Len(t.done) = Len(t.asked)
  /\ \A i \in DOMAIN t.done : t.done[i].res = "made" => t.done[i].id \in DOMAIN catalog

\* The classic vault is what its owner was told: whole entries, no folder without an
\* entry, records that can be read, and the outcome of each item.
VaultIsSound == TypeOK /\ EntriesAreWhole /\ SeenIsCurrent /\ NoOrphans /\ RecordedIsRead /\ ToldIsTrue
=============================================================================
