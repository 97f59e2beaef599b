------------------------------ MODULE OpJournal ------------------------------
(***************************************************************************)
(* The operations journal as a file (core/liveops/opjournal.py): appends   *)
(* under the store lock, readers without it and their cache of the file's  *)
(* tail; crashes of a process, failing writes and fsyncs, power failures,  *)
(* and a sync tool that puts back an older copy of the file.               *)
(***************************************************************************)
EXTENDS JournalFile, FiniteSets

CONSTANTS
  Procs,          \* processes with the vault open
  Ops,            \* operations
  EntryWithFile,  \* TRUE: fsync of a new file makes its directory entry durable
  MaxBreaks,      \* bound: crashes, failing steps, power failures
  MaxRestores,    \* bound: older copies put back
  None

ASSUME BoundsAreNat == MaxBreaks \in Nat /\ MaxRestores \in Nat
ASSUME EntriesAreNumbered == Entries \subseteq Nat \ {0}
ASSUME LinesDiffer == Damaged \notin Entries
ASSUME EntryIsBoolean == EntryWithFile \in BOOLEAN

VARIABLES
  file,
  call,      \* process -> its append in progress
  cache,     \* process -> _tails: what it has read of the file
  events,    \* entry -> the event it is, once an append was started
  result,    \* entry -> what its append came to (history)
  breaks, restores

vars == <<file, call, cache, events, result, breaks, restores>>

NoEvent == [op |-> None, seq |-> 0]
Idle    == [step |-> "idle", entry |-> 0, created |-> FALSE]

Unread  == [ino |-> 0, offset |-> 0, seen |-> <<>>, last |-> [o \in Ops |-> {}], dirty |-> {}]

Init ==
  /\ file = NoFile(1)
  /\ call = [p \in Procs |-> Idle]
  /\ cache = [p \in Procs |-> Unread]
  /\ events = [e \in Entries |-> NoEvent]
  /\ result = [e \in Entries |-> "none"]
  /\ breaks = 0 /\ restores = 0

Break == breaks < MaxBreaks /\ breaks' = breaks + 1

-----------------------------------------------------------------------------
\* Reading

\* Of the lines seen those that are events of o; a damaged one is no event.
EventsOf(seen, o) == {i \in DOMAIN seen : IsEntry(seen[i]) /\ events[seen[i]].op = o}

\* _refresh: starts over when the file was replaced or cut, reads to the last
\* newline, and notes the ops that have new events.
Base(c) == IF c.ino # file.ino \/ Len(file.lines) < c.offset
           THEN [Unread EXCEPT !.ino = file.ino] ELSE c

Touched(new) == {events[new[i]].op : i \in {j \in DOMAIN new : IsEntry(new[j])}}

Refreshed(c) ==
  IF ~file.present THEN Unread
  ELSE LET b   == Base(c)
           new == SubSeq(file.lines, b.offset + 1, Len(file.lines))
       IN [b EXCEPT !.offset = Len(file.lines),
                    !.seen = @ \o new,
                    !.dirty = @ \cup Touched(new)]

\* The last event of an op among those seen, its status; {} when there is none.
LastOf(seen, o) ==
  LET mine == EventsOf(seen, o) IN {seen[i] : i \in {k \in mine : \A j \in mine : j <= k}}

\* read_ops: only the ops that have new events are folded again.
Folded(c) == [c EXCEPT !.last = [o \in Ops |-> IF o \in c.dirty THEN LastOf(c.seen, o) ELSE @[o]],
                       !.dirty = {}]

ReadOps(p) ==
  /\ call[p].step = "idle"
  /\ cache' = [cache EXCEPT ![p] = Folded(Refreshed(@))]
  /\ UNCHANGED <<file, call, events, result, breaks, restores>>

-----------------------------------------------------------------------------
\* Appending: one transaction under the store lock.

Writing == {p \in Procs : call[p].step # "idle"}

\* Mutant (ReadersAgree): the number comes from what was read last.
ViewAsRead(p) == cache[p]

\* What the append knows of the journal, read up to now under the lock.
View(p) == Refreshed(cache[p])

\* The event gets the next number of its op: the tail holds every append so far.
Begin(p, e, o) ==
  /\ Writing = {} /\ result[e] = "none" /\ \A d \in Entries : d < e => result[d] # "none"
  /\ LET c == View(p) IN
     /\ cache' = [cache EXCEPT ![p] = c]
     /\ events' = [events EXCEPT ![e] = [op |-> o, seq |-> 1 + Cardinality(EventsOf(c.seen, o))]]
  /\ call' = [call EXCEPT ![p] = [step |-> "open", entry |-> e, created |-> ~file.present]]
  /\ result' = [result EXCEPT ![e] = "called"]
  /\ UNCHANGED <<file, breaks, restores>>

\* Mutant (AckedIsReadable): nobody looks whether the last line has its newline.
SealsNever == FALSE

SealsFirst == IsTorn(file)

\* The file is opened; a line torn by an earlier crash is sealed off first.
Open(p) ==
  /\ call[p].step = "open"
  /\ file' = [file EXCEPT !.present = TRUE]
  /\ call' = [call EXCEPT ![p].step = IF SealsFirst THEN "seal" ELSE "write"]
  /\ UNCHANGED <<cache, events, result, breaks, restores>>

Seal(p) ==
  /\ call[p].step = "seal"
  /\ file' = AddNewline(file)
  /\ call' = [call EXCEPT ![p].step = "write"]
  /\ UNCHANGED <<cache, events, result, breaks, restores>>

Write(p) ==
  /\ call[p].step = "write"
  /\ file' = AddPiece(file, call[p].entry)
  /\ call' = [call EXCEPT ![p].step = IF IsTorn(file') THEN "write" ELSE "sync"]
  /\ UNCHANGED <<cache, events, result, breaks, restores>>

Ends(p, what) ==
  /\ call' = [call EXCEPT ![p] = Idle]
  /\ result' = [result EXCEPT ![call[p].entry] = what]

SyncedLines == Len(file.lines)

\* fsync; the directory is synced too when this append made the file.
Sync(p) ==
  /\ call[p].step = "sync"
  /\ file' = [file EXCEPT !.synced = SyncedLines, !.listed = @ \/ EntryWithFile]
  /\ IF call[p].created
     THEN call' = [call EXCEPT ![p].step = "syncdir"] /\ UNCHANGED result
     ELSE Ends(p, "ok")
  /\ UNCHANGED <<cache, events, breaks, restores>>

SyncDir(p) ==
  /\ call[p].step = "syncdir"
  /\ file' = [file EXCEPT !.listed = TRUE]
  /\ Ends(p, "ok")
  /\ UNCHANGED <<cache, events, breaks, restores>>

\* A write or an fsync fails: append raises, the file stays as it is.
Fail(p) ==
  /\ call[p].step # "idle" /\ Break
  /\ Ends(p, "failed")
  /\ UNCHANGED <<file, cache, events, restores>>

-----------------------------------------------------------------------------
\* Outside

Stopped(P) == /\ call' = [p \in Procs |-> IF p \in P THEN Idle ELSE call[p]]
              /\ cache' = [p \in Procs |-> IF p \in P THEN Unread ELSE cache[p]]
              /\ result' = [e \in Entries |->
                   IF \E p \in P \cap Writing : call[p].entry = e THEN "failed" ELSE result[e]]

Crash(p) ==
  /\ Break /\ Stopped({p})
  /\ UNCHANGED <<file, events, restores>>

PowerLoss ==
  /\ Break /\ Stopped(Procs)
  /\ \E f \in AfterPowerLoss(file) : file' = [f EXCEPT !.synced = Len(f.lines)]
  /\ UNCHANGED <<events, restores>>

\* An older copy comes back under another inode, while no append is going on.
Restore(n) ==
  /\ Writing = {} /\ file.present /\ restores < MaxRestores
  /\ restores' = restores + 1
  /\ file' = [file EXCEPT !.ino = @ + 1, !.lines = SubSeq(@, 1, n), !.synced = n,
                          !.tail = Nothing, !.listed = TRUE]
  /\ result' = [e \in Entries |->
       IF \E i \in (n + 1)..Len(file.lines) : file.lines[i] = e THEN "taken away" ELSE result[e]]
  /\ UNCHANGED <<call, cache, events, breaks>>

App(p) == \/ ReadOps(p) \/ (\E e \in Entries, o \in Ops : Begin(p, e, o))
          \/ Open(p) \/ Seal(p) \/ Write(p) \/ Sync(p) \/ SyncDir(p)

Next == \/ \E p \in Procs : App(p) \/ Fail(p) \/ Crash(p)
        \/ PowerLoss
        \/ \E n \in 0..(Len(file.lines) - 1) : Restore(n)

Spec == Init /\ [][Next]_vars

-----------------------------------------------------------------------------
\* Properties

\* Every variable holds a value the code can give it (opjournal.py _Tail).
TypeOK ==
  /\ file \in File
  /\ call \in [Procs -> [step : {"idle", "open", "seal", "write", "sync", "syncdir"},
                          entry : Entries \cup {0}, created : BOOLEAN]]
  /\ cache \in [Procs -> [ino : Nat, offset : Nat, seen : Seq(Line),
                           last : [Ops -> SUBSET Entries], dirty : SUBSET Ops]]
  /\ events \in [Entries -> [op : Ops \cup {None}, seq : Nat]]
  /\ result \in [Entries -> {"none", "called", "ok", "failed", "taken away"}]
  /\ breaks \in 0..MaxBreaks /\ restores \in 0..MaxRestores

IsIn(e, f) == \E i \in DOMAIN f.lines : f.lines[i] = e

\* read_ops gives each op the last event the file has of it, whatever this
\* process read before and whatever was appended, torn, sealed off, lost or
\* put back since (opjournal.py _refresh, read_ops).
ReadsTheFile ==
  [][\A p \in Procs : ReadOps(p) =>
       \A o \in Ops : cache'[p].last[o] =
          IF file.present THEN LastOf(file.lines, o) ELSE {}]_vars

\* An append that returned is a record of the file from then on, through every
\* crash, failed append and power loss; only a restored copy takes it away.
AckedIsReadable ==
  \A e \in Entries : result[e] = "ok" => file.present /\ IsIn(e, file)

\* The acknowledged events of an op are numbered upwards in file order, whoever
\* appended them (opjournal.py:88: under the lock the tail holds every append).
AckedInOrder ==
  \A i, j \in DOMAIN file.lines :
    LET d == file.lines[i]  e == file.lines[j] IN
    i < j /\ {d, e} \subseteq Entries =>
      (result[d] = "ok" /\ result[e] = "ok" /\ events[d].op = events[e].op
         => events[d].seq < events[e].seq)

\* Each process reads the events in the order of the file, whole, whatever it has cached
\* (OpJournal.refresh and events).
ReadersAgree == [](TypeOK /\ AckedInOrder) /\ ReadsTheFile
=============================================================================
