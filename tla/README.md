# nms-save-vault: a verification project

nms-save-vault keeps the saves of *No Man's Sky*: it copies them into a vault,
indexes them, and moves saves between the game's slots while the game, a cloud
client, a second window or a power cut may get in the way. This directory
holds TLA+ modules translated from `src/nms_save_vault`, the TLC runs that
check them on small instances, and TLAPS proofs. `PROJECT.json` maps each
definition to the lines it stands for, and lists the components, the hazards
and the theorems.

## 1. The system

| Part | Its state | Its operations | What makes it hard |
| --- | --- | --- | --- |
| Live operations (`core/liveops`) | the live slots, `ops.jsonl`, markers, `rollback-kept` | plan, execute, rollback, recovery (forward, back, leave), verify, undo, panic | a move is many renames; the game writes at any moment; crash between any two steps; journal appends that fail; plans that are old when they are run |
| Operations journal (`opjournal.py`) | `ops.jsonl`, markers in the app's state folder | append, read, live-op lock | torn last line, failed fsync, a cached tail |
| Locks (`safety.py`) | lock files, a record of each per process | take, wait, release | timeouts, interrupts, re-entrancy, shares that cannot lock |
| Xbox writer (`core/msstore.py`) | containers, blobs, `containers.index`, the game's second copies | stage, replace the index, mirror, roll back, repair | one index for all saves, written by the Xbox app too |
| Version store (`core/store`) | objects by hash, manifests, the legacy folders and their journal of migration | put, capture, merge, repair; upgrade, fold, free, roll back | the switch of layouts survives a crash; objects shared by versions |
| Organizer (`core/organizer`) | `journal.jsonl`, notes, lineage | refresh, record an operation, bootstrap, notes, corrections | torn lines, scans of a folder that changes, two windows |
| Content index (`core/index`) | cache of extracted facts, pool of worker processes | request, pause, cancel, rebuild, compare, close | results that arrive after they were cancelled; a worker that hangs |
| Classic vault (`core/operations.py`, `catalog.py`) | backup folders, catalog, operation log | backup, extract, import, take in place | two windows with their own copy of the catalog |
| Window (`gui.py`, `ui`) | one window, one background worker, dialogs | jobs and their results | results of a job whose view, or whose vault, is gone |
| Updates (`updates.py`) | the installation, a work folder | check, fetch, the updater's script | a program that replaces itself |
| Command line (`cli*.py`) | none of its own | the same operations, in a process each | consent and exit codes |
| Formats (`lz4_block.py`, `meta.py`, `savejson.py`, ...) | none | encode, decode | byte widths |

Interaction: every front end builds an `OpContext` and calls `execute` or
`resolve_recovery`; these take the live-op lock of the vault, and inside it the
store lock for every journal append and every manifest commit. `execute` calls
the version store to preserve and snapshot, a slot writer to write, the
organizer to record the lineage, and the operation log for the audit line.
The scanner and the index only read.

What makes each part correct:

- *Live operations*: an owner's save is never lost; a move is whole in all its
  slots or not there; an interrupted one can always be finished or put back, and
  blocks its account until then; journal, lineage, marker and audit line agree.
- *Slots over time*: nothing that was played is written over unasked; an undo
  steps back in turn; a step back puts back what its snapshot recorded; a verdict
  follows from a session that really was one or from what the cloud holds.
- *Operations journal*: what an append acknowledged is read from then on, in
  order, by every process; a torn line harms no other.
- *Locks*: one holder; no count or lock leaks; asking again is caught.
- *Xbox writer*: an index never names files that are gone; nothing is lost; a
  save that says Synced is what the cloud has. (One window where the first of
  these fails is in section 5.)
- *Version store*: a listed version has all its objects; a change of layout that
  is interrupted goes on or back, with no version lost.
- *Organizer*: what it shows was so; no word of a note is lost; the lineage is a
  forest in which every version is drawn.
- *Content index*: no request is forgotten or run twice; an answer is made of
  current facts; everything ends.
- *Classic vault*: every entry is whole; no window drops another's entry.
- *Window, dialogs, updates, command line*: nothing is cut by a close; what is
  applied was shown; an installation that starts is left; what changes was asked for,
  and exit code 0 with "done" means it is: 1 may leave a part of it done.

## 2. Plan and where it stands

Modelled and checked, in the order they were built: live operations with their
recovery, the atomic move they implement, the lock and the journal file, the
version store, the two layouts of a vault, the organizer, the content index,
the classic vault, slots over time (undo, panic, verify), the Xbox writer and
its repair, updates, dialogs, the window, the command line.

Proved for every value of the constants: everything the runs check about live
operations except liveness, the refinement of `AtomicMove` included; exclusion
of the lock, the journal file, the version store, the layouts of a vault, the vault of
folders, the content index, slots over time, updates, the window and the dialogs but
for their liveness (section 6).

Left: the inductive invariants of the organizer, the Xbox writer and the command line.

## 3. Modules

| Module | Models |
| --- | --- |
| `LiveState` | constants, the state of the live operations and the few formulae every part uses |
| `SteamWriter` | `steamwrite.py`: stage, the comparison and the renames of a swap, rollback (keep, restore, compare), sweep |
| `Execute` | `execute.py`: gates, `preparing`, preserve, snapshot, plan, `writing`, marker, second game check, apply, validate, record; rollback's report; keep a copy |
| `Recovery` | `recovery.py`: the listing with its automatic cases, the offered choices, forward, back, leave, stale markers |
| `LiveOps` | the three together with the game, a sync and crashes; the properties |
| `AtomicMove` | what the owner is promised: all target files change at once, or none |
| `FileLock` | `safety.exclusive_lock`: threads of several processes at one lock file |
| `JournalFile` | a file of lines as writers and readers tell it apart: complete lines, the tail after the last newline, what is durable |
| `OpJournal` | `opjournal.py`: append, `_write_line`, `_refresh`, `read_ops`, on a `JournalFile` |
| `SlotMoves` | planner, `undo.py`, `panic.py`, `verify.py` on whole slots: windows that plan, run and undo while the game plays and the cloud brings old copies back |
| `XboxWriter`, `XboxRepair` | `msstore.py`: a pair write, its recovery, the Xbox app beside it; the repair of a damaged index |
| `VersionStore` | `store/objects.py`, `versionstore.py`, `capture.py`, `merge.py`: objects, manifests, captures, merges, repairs, each window's index |
| `VaultLayout` | `store/upgrade.py`, `rollback.py`, `free.py`, `migrate.py`: both layouts and every way between them |
| `JournalReplay`, `Lineage`, `Organizer` | what is read out of the organizer's journal; the graph of versions and its rows; the windows that write it |
| `IndexPool`, `ContentIndex` | dispatcher, workers and watchdog of the pool; the service around it: callers, writer thread, cache, rebuild, close |
| `ClassicVault` | `operations.py`, `catalog.py`: the vault of folders and windows that write it |
| `SelfUpdate` | `updates.py` and its handlers: check, fetch, launch, the script, power cuts |
| `MoveDialog` | the dialogs that plan and apply: load, replan, late answers, apply, outcome |
| `Desktop` | the window, its worker, the classic operations inside the event loop, closing, switching vaults |
| `CommandLine` | each command as a process: look, show, ask, look again, write, exit code |
| `MC*` | the values of the constants in the runs |
| `LiveOpsProofs`, `FileLockProofs`, `DiskProofs`, `VersionStoreProofs`, `VaultLayoutProofs`, `ApplicationProofs`, `ContentIndexProofs`, `SlotMovesProofs` | theorems (`DiskProofs`: of `OpJournal` and `SelfUpdate`, what a stop leaves on the disk; `ApplicationProofs`: of `ClassicVault`, `MoveDialog` and `Desktop`) |

### State and its counterpart

*Live operations.* `live` is the account folder, slot by slot and file by file.
A content is a token `[by, n]`: who wrote it (`owner` before the model starts,
operation `n`, the `n`th write of the game, `nobody` when the file is absent).
Two contents are equal exactly when sha256, size and mtime are:
`steamwrite.FileState` compares these. `temps` are staged files beside the live
ones, `vault` what the version store holds for each file, `kept` the folder
`rollback-kept`, `status` and `rec` the last event and the plan of each
operation in `ops.jsonl`, `settled` what a `failed` event noted of the files,
`oplog` and `lineage` the audit line and the organizer's record, `marker` the
open-op markers. `run` is the memory of the one process that holds the live-op
lock: its step, plan and loop positions. `offered` and `told` are what the
owner sees. `gone` and `late` are history variables: contents replaced with no
copy anywhere, and for each write of the game the moment it fell in.

One action is one effect that a crash can separate from the next: an append, a
rename, a copy. Each has the branch of its failure, with the code's own way out
(abandon, roll back, return with a warning, end with the op open). Rename is one
action per file, so the game and a crash can come between any two of them.

*The lock.* Each thread has a program counter over the blocks of
`exclusive_lock`: join or make the record of the lock file (under the registry
guard), wait for the record's thread lock, note it, become owner, open the
file, poll the OS lock, run the body, leave. `records`, `owner`, `users` and
`locked` are the fields of the shared `_LockRecord`s, `os` the lock of the
operating system. Timeouts may come at any wait, an interrupt at the steps of
`InterruptAt`, a crash takes all threads of a process. A process outside
`Lockers` works on a share that cannot lock.

*The journal file.* `file` is `ops.jsonl`: its complete lines, how many are
durable, the text after the last newline, its inode and whether its directory
entry is durable. A write goes out in pieces: a part of the text, the rest, the
newline. `cache` is the `_Tail` of each process: how far it has read, the lines
it has read (a damaged one gives no event), each op's last event as folded and
the ops still to fold. `call` is an append in progress, one at a time under the
store lock; readers take no lock. An append is given up by a failing call, a
crash, or a power failure, which keeps the durable lines, any number of the
others and a torn piece of the next. `Restore` puts an older copy in its place
while nobody appends. `EntryWithFile` says whether fsync of a new file makes
its directory entry durable too (ext4 and others do; POSIX does not promise it).

*Slots over time.* `slot` is the pair of saves of each slot with what has been
played, `mtime` the fingerprint a plan compares, `vault` the pairs that can be
read back, `ops` the operations with their snapshots, `plan` what each window
shows, `looked` the file `game-seen.json` and `time` its clock, `cloud` what was
uploaded last. `before` and `lasted` are history: the folder before each move that
was not taken back, and which placed pair stood at the end of a session or was the
cloud's copy. That a run is all or nothing is `LiveOps`' subject: here it is one
step. A refresh (`Look`) chooses what it gets to know: which slots the store's
records say are up (`told`), which cannot be read (`blind`), for which the append
fails (`mute`), and whether a month has gone by (`old`); any other probe of the game
only notes the session (`Probes`).

*Xbox.* `index` is `containers.index`, `blobs` and `conts` the files of the
containers, `xgs` the game's second copies, `cloud` what was uploaded last;
`op` is the journal's record, `run` the process at work. `Races` says whether the
app may save between the look at a container number and the write of that container.

*Version store.* `objects` is `store/objects` by digest, `entries` the
manifests, `loose` the renames no fsync has made durable, `job` what each
window is at, `known` and `seen` its index of the manifests and the time of the
folder it trusts. `hurt`, `kept`, `states` are history: digests the medium has
damaged since they were verified, entries given to a caller, states of the
live folder.

*Vault layout.* Where each backup is - `folder`, `cat`, `stored`, `copy`,
`aside`, `moved` - and the two migration files `dir` and `mig`.

*Organizer.* `journal` and `tail` are the file, `notes` and `lineage` the two
documents, `win` what each window does and last read. `held`, `acked`, `said`,
`joined` and `fate` are history: what slots held, operations reported as
recorded, words reported as saved.

*Index.* `pending`, `held`, `running`, `procs` are the pool's queue, its job in
hand and the workers; `db`, `lru`, `known`, `views`, `answers` the copies of a
version's facts at the writer, the cache, the service and its readers.

*Application.* `ClassicVault`: the folders, `catalog.json` with its stamp, each
window's copy of it, the operation log. `SelfUpdate`: the installation's three
pieces (launcher, runtime, runtime set aside), the work folder and the scripts.
`MoveDialog`: the dialog's fields with the generation of its answers, the
worker's jobs and undelivered answers. `Desktop`: what was changed, what each
view shows, the worker's queue, the frames of nested event loops, the close.
`CommandLine`: the saves, the journal of moves, the layout, and what each
terminal has read, asked and done.

### What is abstracted

- Bytes, metas, mtimes and names are tokens; a plan that leaves a file equal to
  the old one is an input (`SameSets`). Read-back errors are a fault of
  `Validate`.
- In `LiveOps` an append to `ops.jsonl` is atomic: a torn last line counts as not
  written; a failed append may leave its line or not. `OpJournal` models the
  pieces, and the case where a torn line comes back later.
- `LiveOps` takes the live-op lock as given; `FileLock` shows that it excludes.
  That lock is held for the whole of `execute` and of a recovery, so one `run` at
  a time; two machines on one vault are not modelled.
- The game probe answers yes or no in `LiveOps`; "unknown, confirmed by the owner"
  is the answer no. `CommandLine` has the third answer.
- Preserve of several targets is one step (nothing reads between them). The
  first two looks of a rollback at a file are one.
- Forward re-derives either the exact bytes of the record or fails (`source`).
- A rename after which `os.utime` fails stops the write with the new file in its place
  (`Execute!Rename`); its wrong time is not told apart, as rollback and recovery know
  the op's own files by their sha256. `Finalize` cannot fail in `Execute`: `sweep` finds
  no temporary file, because `Validate` refuses an op that left one (`execute.py`
  l. 563); the finalize of an Xbox write, which deletes files, fails in `XboxWriter`.
- `SlotMoves`: planning is one step although `planner.py:664` reads the slot
  before its fingerprint; the replanning of the classic undo is one step with
  its run; a running game blocks plans; the undo of an undone swap is not taken
  as a swap.
- `SlotMoves`: D1's observation of a slot is what the journal says at the next
  refresh; the game does not play while an operation runs, as the gates demand. On
  Steam and Xbox alike `Uploaded` is: the store's records say so and its copy is this
  one. The five minutes that the code waits after an Xbox session are left out: a look
  may come at any time after them.
- `XboxWriter`: three race windows of the code. Between the comparison of the index
  and its replacement, and between the look of a repair and its write, the app does
  not write. Between the look at a container number (`msstore.py` l. 1153) and the
  write of that container (l. 1166) it does not either in the run `XboxWriter`
  (`Overtakes`, `Races = FALSE`), and with `Races = TRUE` it does; what happens then is
  in section 5. The game plays only between runs, as the gates demand. A plan has the
  two records of one slot; `execute.py` l. 408 puts both slots of a swap on one
  account into one plan, which is not modelled: the steps are the same, over four
  records.
- `VaultLayout`: a step of an upgrade may fail where it may stop (`FailUpgrade`); a
  folder that an undo cannot put back stays and is reported (`NotRestored`). Edits by
  hand stay out between a check of a folder and what the check was for, damage out of
  a freeing after its check of the store. That the removal of an unfinished copy fails
  (`_remove_unfinished`) is not modelled: the next window removes it again.
- `ClassicVault`: a folder that an import took over, or that an interrupt left
  between catalog and removal, is `doubtful` and no claim is made of its files;
  the interrupt takes the folder away, so the entry's id may be taken again and
  `KeepsOthers` leaves it out too. No two saves of the game write the same
  (`drafts`): mtime and size, which the code compares, tell versions apart.
- `Organizer`: journals begin as one of `Beginnings`; the skipped lines of an old
  operation log, rows split and combined again, and the `edit` edges that a
  migration backfills are left out, and the canonical name of a line that was split
  off a combined one. A version is a constant with its playthrough, play time, save
  time and the clock that time is of (`SavedAt`, `ClockOf`).
- `IndexPool`: the order of two keys of one tier, the reading of the clock and
  superseded heap entries are left out: of the best tier any key is taken. What the
  dispatcher does after an unexpected error of its own (`_fail_held`, `pool.py`
  l. 683: the job in hand is reported failed) and the idle callback are not modelled.
- Time is a choice or a counter; a timeout may come whenever a wait is on.

## 4. Runs

| Run | Instance | Shows |
| --- | --- | --- |
| `LiveOpsTwo` | one slot, two ops, failing appends included | what was written over is in the vault; nothing is lost outside the race windows; a closed op is whole and stays closed; one open move per account; marker, lineage and journal agree; what the owner is told is so |
| `LiveOpsSwap` | two slots, full or empty, one op | write-ahead; nothing lost; a closed op is whole in both slots; refinement of `AtomicMove` |
| `LiveLock` | one slot, one op, fairness; or two threads of a process on a share that cannot lock and one of each of two others at one lock, fairness | an open op is closed at last; exclusion within a process always, between processes where the file system locks; the owner is the holder; the count of users is exact; somebody enters, or all have given up |
| `OpJournalSafe` | two processes, two ops, four events, two breaks, one older copy put back | acknowledged events stay records, in order; every read gives what the file has |
| `StoreSafe` | two windows, three ids, two contents, three jobs, one mishap | a listed entry has its bytes, was one state of the folder and stays; a merge adds an entry once; no index misses a manifest |
| `VaultLayout` | two windows, two ids, six jobs; one crash, one edit by hand, one damage | every backup stays listed; what is deleted is held elsewhere; an undo finds all it needs; an upgrade ends |
| `Organizer` | seven beginnings, six versions of two playthroughs and two clocks, one slot, two windows | what is journaled was so; notes keep their words; the lineage is a forest and each version is drawn; a refresh catches up |
| `LineageLoop` | two slots of versions of one line, two edits by hand; a violation | the journal's own edges close a loop (section 5) |
| `Index` | two versions and their deep detail, thirteen groups of events | no request lost or run twice; budget kept; answers of current facts; every request ends |
| `SlotMoves` | two slots, two windows, eleven scopes | undo in turn; a move or its undo writes over nothing played unasked; a step back lands where its snapshot was; a confirmation lasted a session or is the cloud's copy; each op settles |
| `XboxWriter` | one slot of two saves and the account data, six folders, eight scopes | no record of files that are gone; nothing lost; Synced is what the cloud has; every write and repair ends sound |
| `Application` | the classic vault, an update, a dialog, the window, the command line, one at a time | every entry whole and none dropped; an installation that starts; what is applied was shown; nothing cut by a close; consent and exit codes |

A run checks few definitions with several named parts each: `BytesKept` is
`NothingLost` and `ClosedIsWhole`; `RecordsAgree` is `OneOpenMove`,
`MarkerCovers`, `LineageAgrees` and `WriteAhead`; `OutcomesHold` is `EndIsFinal`
and `TellsTheTruth`; `ReadersAgree` is the types, `AckedInOrder` and
`ReadsTheFile`; `EntriesAreHeld` is the types, `ListedIsHeld`, `EntryIsAState`
and `KeptStays`; `ListingsAgree` is `MergedOnce` and `CacheIsTrue`. In the other
modules the parts stand above the definition, each with its comment.

### Bounds, and why they are enough

*Live operations.* One outside write, one crash and one failing step of any kind
(`MaxOutside`, `MaxCrashes`, `MaxFaults`) in each run. One outside write makes a
slot match neither image; one crash leaves each intermediate state of an
operation to recovery, which then itself runs with the failing step; two
operations let a new one meet the leftovers of the old one. Two slots let a
failure fall between the targets, and a save and its meta let it fall between
files. The proofs of section 6 hold without these bounds. `LiveOpsSwap` leaves
out failing journal appends (`"io"`): an append that raises may have left its
line in the file; then the code acts on one outcome and the journal holds the
other, and the move is not atomic. `LiveOpsTwo` has these failures, and
`RecordsAgree` and `BytesKept` hold in it.

*Lock and journal file.* Two breaks (crash, interrupt or failing step): one hits
the holder, one a waiter; for the journal the first leaves a torn line or an
unsynced directory, the second hits the append that repairs it. Two threads of
one process are the least that share a record, with a second record at hand for
a newcomer. Four events let two ops alternate. `InterruptAt` leaves out
`"granted"`, after which a waiter does wait for ever (section 5).

*Version store.* Two contents are enough to tell a good object from another's; three
ids are one of the catalog and two free ones, for two commits that race. One
mishap of each kind; the inductive invariant was also checked with two
(8.3 million states). Two ticks separate a time that is fresh from one that is not.

*Vault layout, organizer, index, slots, Xbox, application.* These have too many
kinds of events to let each happen at any time. A behaviour starts by choosing a
scope (`Counts`, `Beginnings`, `Days`, `Lives`): how often each kind may happen in
it. Each scope joins kinds that meet in the code (a crash and a repair, a late
answer and a close), and together the scopes fire every action. What needs three
kinds of events of different scopes is not covered. For the vault layout and for
slots over time the proofs cover it (section 6).

The eleven scopes of `SlotMoves`: a session with play after a move and its undo
(`Races`) or with a deletion (`Erased`), the cloud bringing back what a move replaced
(`Back`), two moves and step backs (`Steps`), one of them failing (`Failed`), moves,
undos and step backs mixed (`Mixed`), an undo undone (`Undone`), a plan that two moves
overtake (`Over`), two sessions (`Long`), an upload without a session (`Synced`), and an
upload, a session and a refresh that cannot read or journal (`Away`).

`Organizer` has one slot: with two, the journal's own edges can close a loop
(`LineageLoop`), and what is drawn of such a graph is not defined. So `GraphIsForest`,
`EveryVersionShown` and `LanesApart` are shown of what one slot records and two windows
correct. Notes, operations and refreshes do not look across slots.

`LiveLock`, `VaultLayout`, `SlotMoves`, `Index`, `Organizer` and `XboxWriter` check
liveness and use no symmetry; `StoreSafe`, `OpJournalSafe` and `Application` are
symmetric in windows or processes and check none. In `LiveLock` and `Application` a
behaviour begins with the choice of the part that runs; the parts share no state, so the
others rest and nothing is lost by that.

### Race windows

`NothingLost` does not say that no save is ever lost. A save that the game
writes between the swap's comparison and its last rename, or between the
rollback's copy and its last restore, is overwritten: the code accepts these
windows and keeps them short, and looks for the game's process before. The property
says that every other outside write survives, in place or in the vault.

### Fairness

- `LiveOps`: a started run goes on (weak fairness of `RunGoesOn`: the process is
  scheduled until it crashes or ends); the owner opens the recovery list again
  and again and answers it (strong, since a run in progress disables both for a
  while). The premise of `OpenIsClosed` is that the game stays closed from some
  time on: `_resolve` refuses as long as it runs.
- `FileLock`: each thread is scheduled (weak, per thread), and the body of the
  lock ends: the callers hold it for one operation.
- `VaultLayout`: an upgrade that was begun is worked on (`UpgradeStep`).
- `Organizer`: the game ends and writes what it began; a bootstrap goes on (weak);
  a refresh and a recording come again and again (strong: another window's
  transaction disables them).
- `ContentIndex`: threads are scheduled (weak); results are collected, dead workers
  reaped and hung ones found, although other threads hold the pool's lock from
  time to time (strong).
- `SlotMoves`: some refresh that can read the slots and append comes a month after the
  move (weak fairness of `Look(TRUE, {}, {}, {})`: the owner keeps opening the app, and
  each start and each refresh calls `update_verification`).
- `XboxWriter`: as for `LiveOps`: work and listing weak, the owner's answer strong.

## 5. Where code and documents disagree

### One that a run shows

*A loop that no owner drew* (`LineageLoop`, violates `OnlyOwnersClose`). D1 l. 744
says that only an owner's correction can close a cycle; `LineageGraph.build`
(`lineage.py` l. 126) therefore looks for one only there. An edge of the journal is
drawn when the earlier version has no more play and, if their times are of one clock, no
later save time (`journal.py` l. 388). Two versions of the same play and save time - one
was changed outside the game - can be observed in either order, and so can two whose
times are of two clocks; within a slot the journal gives each version one first
observation, but two slots may see them in opposite orders. Then each is the other's
recorded parent. The same inputs given to the program: `history._lanes` (l. 162) looks
up a row that no root reaches and raises `KeyError`; with both rows folded, `project`
(l. 100) climbs for ever.

### One that a constant shows

*A container that is gone.* `apply_pair` checks that nobody has made the container number
it planned (`msstore.py` l. 1153) and then writes the blobs and the container (l. 1166).
If the Xbox app saves in between, it takes the same number, as both go on from the index;
our write replaces its container, the index is found changed, and `_remove_new` takes the
container for ours, since its bytes are ours. The app's index then names a container that
is not there. The docstring (l. 1143) says that the new blobs are removed and nothing
references them. The run `XboxWriter` leaves this window out, and `RecordsResolve` holds
in it; with `Races = TRUE` and `Counts <- Racing` in `XboxWriter.cfg` TLC finds the
behaviour above in a few seconds.

### Others

Found while the modules were written. They are not runs: the models
have the code's behaviour, and the properties leave the case out or state what
the code does.

| The code | The document or the expectation |
| --- | --- |
| a crash after `recovered` leaves that status for good, `OPEN` does not have it | D5 l. 834: followed by `done` or `rolled_back` |
| forward takes the slot's content of the moment as its pre-image | D5 l. 1273 (I13) |
| one line per op: a put-back op that failed first stays `failed` in the audit trail | D5 l. 993, 1044 |
| `back` from an older list is applied to an op that is `validated` by now: only `forward` is checked against the status | `recovery.py` l. 203 |
| an interrupt between the return of `acquire` and the note of it leaves the thread lock taken | `safety.py` l. 248: "the count and the lock never leak" |
| a line that lacks only its newline is skipped by readers, and becomes an event when any later append ends it | `opjournal.py` l. 143, `test_liveops_opjournal.py` l. 97 |
| if the first append stops between making the file and syncing the directory, no later one syncs it | `opjournal.py` l. 115, D5 l. 814 |
| `cmd_import` returns 0 after a failed entry (`cli.py` l. 417) | `README.md` l. 564 |
| a game that starts between plan and write ends a command with exit code 1 | `README.md`: 2 |
| `_empty_steps`' keep a copy changes the vault without `vault_changed()` | `gui.py` l. 770 |

Read in the code and left out of, or granted by, the models:

- Live operations: an interrupted rollback is classified "other" at the next
  start; `delete_save`, `restored_index`, `mark_modified` and `mirror_xgs` have
  no callers in the program.
- Version store: a listing that waits for the index guard while the clock ticks
  can trust a time that was fresh when it was read (`GuardWaits`).
- Window: `_finish_poll` (`gui.py` l. 1283) asks only `worker.working`, so a copy
  begun by the late answer of `on_undo_slot` is cut by a close; a scan of the old
  vault that ends after a switch marks the new one as checked for recovery;
  `on_install_update` destroys the window without `_running_work`; the recovery
  dialog rescans only the Organizer; a classic operation that fails midway does
  not refresh.
- Dialogs: `PanicDialog` sets its plan to none while Apply stays enabled; a load
  that fails after an account was picked leaves the old rows selectable.
- Updates: `clean_temp` of another instance removes the work folder of a script
  that waits; a version that cannot be read is not compared; two failing
  commands in a row lose the launcher.
- Command line: `store fold`, `copy-in` and `free-old-folders` go on after an item that
  fails and exit with 1 when the others are done; `--yes --force` with an unknown game state ends in an error; the
  listing commands write; restore and promote confirm every warning unasked;
  `recover --op` without a choice carries out the recommended one; an upgrade whose fold
  waits for space exits with 0.

## 6. Proofs

All theorems hold for every value of the constants, under the assumptions named in
the modules: sets of names, numbers that are numbers, values that differ. Three
need more and say so: `MovesAtOnce` (`CleanAppends`), `AckedStays`
(`EntryWithFile`) and `WhatIsListedIsThere` (`~GuardWaits`).

### Live operations

`LiveOpsProofs`, for any slots, files, swap orders, target lists and bounds
(`BoundsAreNat`, `PlansAreLists`).

- `TypeCorrect`, `AlwaysCanGoBack`: `TypeOK` and `CanGoBack`. Typing
  is not inductive: a step at target `run.at` needs that target to exist.
  `Shape` adds that a run that is not resting works on an op of the journal with
  that op's targets, and that an op has targets exactly from its first event on.
  `Vouched` says of every plan, in memory or in the journal, that the vault
  holds its old contents, and that an op's bytes are only where its record has a
  target. It needs the comparison with the snapshot in `Prepare`: the plan is
  made from a later look at the slot than the snapshot.
- `PhaseHolds`, `EndsAreFinal`: `Phase` ties each step of a run to
  its mode and to the last event of its op (`ModeAt`, `StatusAt`, ...). That an
  end is final follows: no step that appends is reachable with a closed op.
- `CarefulHolds`, `NothingIsLost`: a rename destroys what is in the
  file at that moment, so `NothingLost` needs what the run knows of it. `Careful`:
  the file is as it was compared or a late write of the game; what it was
  compared with is the old content, which the vault holds, or the new one; in a
  rollback, what is not the op's own was set aside first.
- `StoryHolds`, `AllBytesKept`, `AllRecordsAgree`, `AllOutcomesHold`:
  what the runs check. `Story` has a part for each document: one op is active at
  a time (`OneActive`); whose bytes the folder may hold (`Known`); plans
  inherit only from ops that are over and are no older than the clock of the
  game's writes (`Plans`, `Inherited`, `Dated`); a done op is not undone by a
  later one's old contents (`Wholes`, `Behind`, `Ahead`); staged files, markers,
  audit and lineage (`Staged`, `Marked`, `Traced`); and for the run at hand the
  same step by step (`PlannedAt`, `VerifiedAt`, `WrittenAt`, `StagedAt`,
  `MarkedAt`, `TracedAt`). `ClosedIsWhole` needs all of it: that a rollback left
  no byte behind depends on how far the run had come, and that a done op stays
  whole depends on the game never writing the same content twice.
- `CourseHolds`, `MovesAtOnce`: `Spec => MovesAreAtomic`, the
  refinement of `AtomicMove`. The owner sees, of a file that holds bytes of an
  undecided op, what the op had found there; so a rename is a stutter and the
  append that decides the op is the move of all its files. `Course` says why
  that append finds them so: each file of an op in hand is old, new or the
  game's (`AllFit`), what a plan starts from is what the slots hold
  (`IntendFits`, `Unplanned`), a verified op has no old file left
  (`NothingOld`) and is never taken back (`Decided`). Then one lemma per kind
  of step: `BeginsPromise`, `IntendsPromise`, `DecidesMove`, `DecidesNothing`,
  `LeavesPromise`, `PutsPromise`, `OutsidePromise`. It assumes that a failing
  append leaves no line (`CleanAppends`: `"io"` is not in `Faults`), as the run
  does: an append whose fsync fails after the line was written leaves a verified
  op that its run takes for unrecorded, and an older offer can still put it back.

### Lock

`FileLockProofs!LockExcludes`, `HolderIsNamed`, `CountIsExact`, for any
processes, threads, crashes, timeouts and interrupts. The inductive invariant
joins five parts: threads of a process at the file use one record
(`SameRecord`), `users` counts them (`Counted`), a record's lock has one holder
(`OneHolder`), who is owner knows it (`OwnerKnown`), and the OS lock is with a
thread in the body (`OsHolder`). Exclusion alone is not inductive: it breaks if
a record is dropped while somebody still waits for it, which is what the count
prevents.

### Journal file

- `DiskProofs!AckedStays`: `Spec => []AckedIsReadable` where a new file's
  fsync covers its directory entry. Being a record is not inductive, a power
  failure may cut lines: the invariant says that acknowledged events are among
  the durable lines of a listed file, and, for each step of an append, what the
  file has of its event by then.
- `DiskProofs!ReadersSeeTheFile`: `Spec => ReadersAgree`, with or without
  that assumption. A number is one more than the events counted under the lock, so
  the invariant (`ReadInv`) says that an acknowledged event's number is at most
  its place among its op's events in the file (`LinesKnown`), that no record is
  there twice and a torn line is of no record (`LinesOnce`, `TailFresh`), that
  numbers rise (`InOrder`), what an append under way has counted (`Above`,
  `Progress`), and that what a process has cached of the file's inode is its
  beginning (`Follows`). Sealing another's torn line, or a cut after the last
  durable line, moves no acknowledged event down.

### Version store

`VersionStoreProofs`, for any windows, source entries, ids, contents, mishaps and jobs.

- `ListedCanBeRestored`: `Spec => []EntriesAreHeld`. That a listed object is there is not
  inductive: a power failure undoes the newest renames, and an object may be
  deduplicated against before its rename is durable. What holds is an order:
  whenever the rename of an entry's object can still be undone, the entry's can
  too, and came later (`Covered`); and a put that returned can be relied on until
  the commit, unless the medium or a quarantine took the object since (`Held`,
  in `JobSound`). What was given out has no rename that can be undone
  (`KeptSound`). One lemma per action; steps that write no manifest share
  `DiskStays`, and windows that do not move share `OthersStay`.
- `NothingIsMergedTwice`: `Spec => []MergedOnce`, from the same invariant.
- `WhatIsListedIsThere`: `~GuardWaits` and `Spec` give `[]ListingsAgree`. The
  invariant (`Indexed`): a trusted time is older than now, so the next manifest
  changes it, and a window about to trust a time has indexed what was there at it.
  Without `~GuardWaits` the clock may tick between the listing and the look at
  the clock, and it fails: see section 5.

### Vault layout

`VaultLayoutProofs`, for any windows, ids and bounds (assumption: `LayoutBounds`
only - ids are numbers, nobody is no window).

- `EveryBackupIsListed`: `Spec => []UndoIsReady`. That every backup is listed is not
  inductive: a folder is deleted because the store has the backup, an entry is
  dropped because the folder is back, and a step later the listing rests on the
  other one. The invariant (`Sure`) says where a backup is at any time
  (`Somewhere`: in its folder, in the store, or between the two moves of an undo,
  which only an edited one outlasts), that no entry is half written and none is
  named verified without being there (`Entries`), and, for the job at hand, what
  it has found out and relies on: where `store/` and its marker are (`LayoutAt`),
  that the copy is the vault from the comparison until the record names it
  (`CopyAt`), that ids of backups under way are their own (`BackupAt`), which folders
  a fold still has to fold (`FoldAt`), why a folder that is being deleted may be
  (`FreeAt`), and what an undo took on, what came too late for it and what is back
  already (`UndoAt`).
- `NothingIsDestroyed`: `Spec => VaultIsKept`, from the same invariant:
  `LostIsSafe` looks at each step that takes a folder away, `StoreComesWithCopy`
  at the one that writes `FORMAT`.

The proof separates the job that moves from the others. One lemma per kind of
job gives its moves (`BackupMoves` ... `RestoringMoves`); the locks say that of
upgrade, cleanup, fold, free and undo one is at work (`Locks`, `Exclusive`); what
the other windows can do to the vault meanwhile is one formula (`Beside`: a backup
adds an entry, the owner edits a folder, the medium damages an entry), and what each job knows survives it (`CopyStands`,
`FoldStands`, `FreeStands`, `UndoStands`).

### Vault of folders

`ApplicationProofs`, for any windows, slots, source entries, batches and bounds
(assumption: `VaultBounds` only).

- `ListedIsWhole`: `Spec => []VaultIsSound`. That a managed entry's folder holds the
  files of one moment is not inductive: it rests on what the copy saw before the
  entry was. The invariant (`Sure`) says that a new folder is only its maker's to
  write, remove or list (`Owned`: its id is in no other window's hands, and a managed
  entry that has it already is one an interrupt left); that what a copy looks at
  at its end is enough (`CopyStands`, `Filled`: no version of a file is written twice,
  see `Written`, so a file that still has the stat it was copied with has it
  since, and the moment is the end of the last copy); that every folder is listed,
  left or in work (`Accounted`); that a memory is the catalog where its stamp is the
  file's, and already while that stamp is about to be noted (`SeenAt`); and that what
  a job counts as made is listed (`Said`).
- `OthersAreKept`: `Spec => KeepsOthers`, from the same invariant: `_change` reads the
  catalog again, so the entry it replaces can only have the job's own id, and `Owned`
  says whose that is (`EntriesStay`).

A window's step is one of seven kinds: it moves on (`Unstirred`), makes a folder
(`Makes`), takes one over (`TakesOver`), copies a file (`Copies`), gives up
(`GivesUp`), writes the catalog (`Enters`), or is interrupted after it did (`IsCut`).
One lemma says that each action is of one of them, and each part of the invariant is
proved by kind, for the window that steps and for the others.

### Content index

`ContentIndexProofs`, for any versions, sizes, budgets, workers and numbers of events
(assumptions: `PoolBounds`, `IndexBounds`). The inductive invariant (`IndexIsSound`:
`Spec => []Sound`) has a half for the pool and one for the cache; the operations put
for the writer (`Grows`) are all that one half needs of the other's steps.

- `NoWorkIsLost`: `Spec => []WorkIsKept`. That what runs fits is not inductive: the
  dispatcher decides under one lock, hands over under another, and cancels, rebuilds
  and other callers fall in between. `StepFits` says what it has in hand at each step
  and where that is still listed; `TokensFit` that no worker or late result answers for
  another's job; `Once` that a key is in one place; `Large` that a job over half the
  budget is marked to run alone, wherever it is; `Bounded` counts workers and memory.
  `NothingForgotten` and `QuietIsFinished` then follow step by step from where each
  action moves a key (`WorkStays`, `RetryGives`, `ReportGives`, `SubmitGives`). A load
  is a fold over a set, whose laws (`LoadOfNone`, `LoadOfEach`, `LoadOfFewer`) are
  proved here from a smallest counterexample, for the library has none that can be
  cited.
- `AnswersAreTrue`: `Spec => []AnswersAreCurrent`. A result is stored in four steps
  and a clear in four others, with readers between them. `CopiesAt` says for each
  which copies are the row by then; `ReadAt` that a reader whose generation is still
  the current one has got what the row holds; `AnswersAt` that comparisons rest on the
  views shown; `StartsOnce` that the garbage collection and the warming are the first
  operations, and nothing is answered before.

### Slots over time

`SlotMovesProofs`, for any slots, windows, saves and numbers of events (assumptions:
`MoveBounds`, `SaveBounds` - slots are numbers, what is there at the start was not
written by the game since). The inductive invariant is `Sure`.

- `UndoGoesBack`: `Spec => []UndoIsSound`. That the newest snapshot is the folder
  before the last move nobody took back is not inductive: a step back exposes the one
  below. `Stacked` says that all the snapshots that can still be gone to are, in their
  order, the folders `before` holds; a failed run adds none, a run adds the newest, a
  step back takes the newest away. A confirmation without a new save has one of two
  reasons. After a session: of an operation nothing was observed of (`Watched`: nobody
  has written the slot since), once a session that began after it is over, the pair was
  there at a session's end or is not in the slot now (`Waited`). After an upload: whenever
  the cloud's copy is a placed pair that was noted, as it went up or as it was placed
  over itself (`Clouded`); the code does not ask whether it went up before the move or
  after it, and nor does the property.
- `RunsAreSafe`: `Spec => MovesAreSafe`, from the same invariant. `Planned` says of each
  plan shown, for each slot whose files still have the time it noted, what `Fresh` lets
  the run rely on: more play than the version has was asked about, what an undo goes over
  is what the move wrote or its progress, and of a swap each side gets what the other
  has. Every step that writes a slot moves its time (`Times`), so what it says of a slot
  stays true or is not said any more (`PlanStays`); only a run is such that something is
  taken (`RanExecutes`). A restore and a step back ask nothing about play, in the code
  (`undo.py` l. 42 sends each whole-folder undo to `plan_panic_restore`) as in the model:
  `AskedFirst` is about places and undos of single moves, and of a step back the theorem
  says instead that it leaves each slot as it was before the last move not taken back
  (`StepsBack`, from `Stacked`) and, like all the others, empties none.

### Updates

`DiskProofs!UpdatesAreSafe`: `UpdateSpec => []UpdateIsSafe`, for any versions,
releases, numbers of retries, faults, scripts and program starts (assumptions: a
version's text gives a sequence of numbers, a release has such a version, bounds are
numbers). That what is on the disk can be started is not inductive: between two
commands of the script there is no launcher, or no runtime. `Fits` says for each of
its fourteen positions what the folder and WORK hold then, `Recoverable` that this is so
of every script as long as nobody took WORK away, the machine stopped once at most and
one command failed at most, and `OneScript` that then one script is at work and none
while another update is being prepared. `Ascends` follows the versions: what is
offered, chosen, unpacked, set aside and installed is newer than what was there first.
That rests on `NewerIsLater` and `LaterOfLater`: the comparison of padded lists of numbers
is the lexicographic one and transitive. The proof corrected the model: the window can be
closed under a download (it keeps the event loop turning), a check that is under way
answers during an install, and the program that is started again has forgotten both; and
it gave `NeverOlder` the condition that WORK belongs to one script: a second download
unpacks its tree, unverified, where a script that waits would take it.

### Window

`ApplicationProofs!NothingIsEverCut` and `ChangesAreShown`, for any sequence of presses,
switches and answers (no assumption). The inductive invariant (`DesktopInv`) has two halves.

- `WindowHolds`: what was promised when the close was asked for. While the window
  waits for the worker no classic operation runs unless it began late, which is noted.
- `TabsKept`: what a tab owes is on its way. Of the listing: the newest generation is
  queued, at work, answered or shown, and none of that generation is older than what
  is owed (`ListingKept`). Of the scan: there is one at most and the view knows it
  (`OneScan`); if no further one is asked for (`ScansSettled`), then the one that has not begun yet
  will see what is owed, the one that has read saw it, and what is shown holds it
  (`Modelled`); an organizer that is not to be opened anew is of the vault that is
  open (`Opened`); the look for interrupted moves is at that vault (`Checked`).

The handlers call each other, so the lemmas are about what each call does to any
window, worker and answers (`RefreshKeeps`, `RescanKeeps`, `OwesKeeps`, ...), and the
actions put them together. It corrected the model in one place: `vault_changed` tells of
a new layout only when it is called with `mode_changed`.

### Dialogs

`ApplicationProofs!DialogsAreHonest`: `DialogSpec => []DialogIsHonest`, for any versions,
accounts, slots, readings, plans, picks and changes from outside (assumption:
`DialogBounds`, the kinds are the four of the code, slots are finitely many positive numbers
and no account is `None`). The inductive invariant (`DialogInv`) says of any dialog
`d`, jobs `J` and answers `A` (`DialogKept`):

- `Drawn`: what is on the screen is what the fields say (`Aligned`: a slot that is chosen
  is the row marked and the slot named as going out, under the version and the account
  drawn), and an armed button has a plan that is not blocked with its boxes ticked.
- `AllOurs`: a job was asked for by this dialog, at its generation or an earlier one; of
  the present generation, a plan is for the picks of now and a running dialog has only
  its execution. An execution is always of the present generation, which is why no
  answer to it is ever dropped as late.
- `Once`: of a generation there is one job or one answer. With it a dialog that takes an
  answer waits for nothing else, so what it asks next is its only request.
- `Waited`, which is `NeverStuck`, and `AllTold`: a write that ended was told, or its answer
  waits. There is one such answer at most, because all executions are of one generation.

What a press records is `AppliedIsShown` by `Drawn`: it is the one step that uses it, and
the handlers that draw (`Rendered`, `Loading`, `Choosing`, `PickedUp`, `PlanFailed`) keep it,
each a lemma about any dialog.

### What stays with TLC

Liveness (`OpenIsClosed`, `SomeoneEnters`, `UpgradeEnds`, `CatchesUp`,
`RequestsEnd`, `EachSettles`, `EachCloses`): fairness and ENABLED are out of the
prover's reach. Every property of the organizer, the Xbox
writer and the command line, for want of their inductive invariants. What a recursive
definition computes over a journal or a tree (`JournalReplay`, `Lineage`).

## 7. What is not modelled

`PROJECT.json` lists the components with their status. Left out altogether:

- *Formats* (LZ4, metas, JSON, name tables), extraction and search, drawing:
  pure functions with tests of their own; nothing interleaves in them.
- *Fault injection*: a test hook; its points are the failures of the models.
- *Folders and platform*: their answers (game running, folder found) are inputs.

Left out of components that are partly modelled: previews and wording; space
estimates and progress; trash and renaming of entries; migration of the
organizer's documents and backfilled edges; the classic copy of a whole Xbox
folder; parsing and printing of the command line. Two machines that work on one
vault through a sync tool at the same time are outside of what the locks can
see, and of the models; one older copy of the journal put back is in `OpJournal`.
