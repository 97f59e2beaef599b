------------------------------ MODULE FileLock ------------------------------
(***************************************************************************)
(* exclusive_lock of core/safety.py on one lock file: the threads of a     *)
(* process first take the thread lock of the process's record of that      *)
(* file, then its holder polls the OS lock.  The store lock, the live-op   *)
(* lock and the upgrade lock are all taken this way.                       *)
(*                                                                         *)
(* A record is a heap object: the registry of a process and the local      *)
(* variable of each thread refer to it, and a record nobody refers to any  *)
(* more may be reused for a new one.                                       *)
(***************************************************************************)
EXTENDS Naturals, FiniteSets

CONSTANTS
  Processes, Threads,
  ProcessOf,     \* the process of each thread
  Records,       \* the record objects (bound: how many exist at once)
  Lockers,       \* the processes whose file system can lock
  InterruptAt,   \* the steps at which an interrupt may reach a thread
  MaxBreaks,     \* bound: crashes, interrupts and failing steps
  None

ASSUME ThreadsAreFinite == IsFiniteSet(Threads)
ASSUME ThreadsHaveProcesses == ProcessOf \in [Threads -> Processes] /\ Lockers \subseteq Processes
ASSUME NoneIsNone == None \notin Threads \cup Records
ASSUME InterruptsWait == InterruptAt \subseteq {"wait", "granted", "own", "open", "poll"}
ASSUME BreaksAreNat == MaxBreaks \in Nat

Steps == {"out", "wait", "granted", "own", "open", "poll", "body", "nested", "leave"}

VARIABLES
  registry,   \* process -> its record of the file in _lock_records, or None
  locked,     \* record -> its thread lock is taken
  ownerOf,    \* record -> the thread it names as holder, or None
  users,      \* record -> its count of holder and waiters
  pc,         \* thread -> where it is in exclusive_lock
  recordOf,   \* thread -> its local variable `record`
  acquired,   \* thread -> its local variable `acquired`
  os,         \* the thread whose descriptor has the OS lock, or None
  breaks

sharedRecords == <<registry, locked, ownerOf, users>>
lockVars      == <<sharedRecords, pc, recordOf, acquired, os, breaks>>

LockInit ==
  /\ registry = [p \in Processes |-> None]
  /\ locked = [r \in Records |-> FALSE]
  /\ ownerOf = [r \in Records |-> None]
  /\ users = [r \in Records |-> 0]
  /\ pc = [t \in Threads |-> "out"]
  /\ recordOf = [t \in Threads |-> None]
  /\ acquired = [t \in Threads |-> FALSE]
  /\ os = None
  /\ breaks = 0

Mine(t) == registry[ProcessOf[t]]
LockGoto(t, step) == pc' = [pc EXCEPT ![t] = step]
Break == breaks < MaxBreaks /\ breaks' = breaks + 1

Referred(r) == (\E p \in Processes : registry[p] = r) \/ (\E t \in Threads : recordOf[t] = r)

\* setdefault: the process's record, or a new one.
New(t) == Mine(t) = None
Candidate(t, r) == IF New(t) THEN ~Referred(r) ELSE r = Mine(t)

\* Asking again on the thread that holds the lock raises.
Reentry(t, r) == ~New(t) /\ ownerOf[r] = t

Joined(t, r) == IF New(t) THEN 1 ELSE users[r] + 1

\* The lock is asked for, outside or again inside the body; asked for again
\* unnoticed ("nested") the thread would wait for itself.
Enter(t, r) ==
  /\ pc[t] \in {"out", "body"} /\ Candidate(t, r) /\ ~Reentry(t, r)
  /\ registry' = [registry EXCEPT ![ProcessOf[t]] = r]
  /\ locked' = [locked EXCEPT ![r] = @ /\ ~New(t)]
  /\ ownerOf' = [ownerOf EXCEPT ![r] = IF New(t) THEN None ELSE @]
  /\ users' = [users EXCEPT ![r] = Joined(t, r)]
  /\ recordOf' = [recordOf EXCEPT ![t] = r]
  /\ LockGoto(t, IF pc[t] = "out" THEN "wait" ELSE "nested")
  /\ UNCHANGED <<acquired, os, breaks>>

\* thread_lock.acquire returns; the next step stores its result.
Grant(t) ==
  /\ pc[t] = "wait" /\ ~locked[recordOf[t]]
  /\ locked' = [locked EXCEPT ![recordOf[t]] = TRUE]
  /\ LockGoto(t, "granted")
  /\ UNCHANGED <<registry, ownerOf, users, recordOf, acquired, os, breaks>>

WaitTimeout(t) ==
  /\ pc[t] = "wait" /\ locked[recordOf[t]]
  /\ LockGoto(t, "leave")
  /\ UNCHANGED <<sharedRecords, recordOf, acquired, os, breaks>>

Note(t) ==
  /\ pc[t] = "granted"
  /\ acquired' = [acquired EXCEPT ![t] = TRUE]
  /\ LockGoto(t, "own")
  /\ UNCHANGED <<sharedRecords, recordOf, os, breaks>>

Own(t) ==
  /\ pc[t] = "own"
  /\ ownerOf' = [ownerOf EXCEPT ![recordOf[t]] = t]
  /\ LockGoto(t, "open")
  /\ UNCHANGED <<registry, locked, users, recordOf, acquired, os, breaks>>

\* The folder is made and the file opened, or either fails.
OpenFile(t) ==
  /\ pc[t] = "open"
  /\ \/ LockGoto(t, "poll") /\ UNCHANGED breaks
     \/ Break /\ LockGoto(t, "leave")
  /\ UNCHANGED <<sharedRecords, recordOf, acquired, os>>

\* A file system that cannot lock lets the body run all the same.
TryOsLock(t) == \/ ProcessOf[t] \in Lockers /\ os = None /\ os' = t
                \/ ProcessOf[t] \notin Lockers /\ UNCHANGED os

Poll(t) ==
  /\ pc[t] = "poll"
  /\ TryOsLock(t)
  /\ LockGoto(t, "body")
  /\ UNCHANGED <<sharedRecords, recordOf, acquired, breaks>>

\* The last attempt found it busy and the time is over; or it failed.
PollFails(t) ==
  /\ pc[t] = "poll"
  /\ \/ ProcessOf[t] \in Lockers /\ os # None /\ UNCHANGED breaks
     \/ Break
  /\ LockGoto(t, "leave")
  /\ UNCHANGED <<sharedRecords, recordOf, acquired, os>>

\* The body ends; closing the descriptor frees the OS lock whatever the
\* explicit unlock did.
Exit(t) ==
  /\ pc[t] = "body"
  /\ os' = IF os = t THEN None ELSE os
  /\ LockGoto(t, "leave")
  /\ UNCHANGED <<sharedRecords, recordOf, acquired, breaks>>

\* Mutant (MutualExclusion): a record is forgotten while others wait for it.
DropAlways(n) == TRUE

DropUnused(n) == n = 0

\* Mutant (CountNeverLeaks): who gave up waiting is still counted.
CountedOut(t) == IF acquired[t] THEN users[recordOf[t]] - 1 ELSE users[recordOf[t]]

UsersLeft(t) == users[recordOf[t]] - 1

\* Mutant (SomeoneEnters): only a thread that is named as owner releases.
HoldsNamed(t) == acquired[t] /\ ownerOf[recordOf[t]] = t

HoldsLock(t) == acquired[t]

\* Mutant (OwnerIsHolder): the record still names the one who left.
StillNamed(r) == ownerOf

Unnamed(r) == [ownerOf EXCEPT ![r] = None]

\* The last block, under _registry_guard.
LeaveLock(t) ==
  LET r == recordOf[t] IN
  /\ pc[t] = "leave"
  /\ IF HoldsLock(t)
     THEN /\ ownerOf' = Unnamed(r)
          /\ locked' = [locked EXCEPT ![r] = FALSE]
     ELSE UNCHANGED <<ownerOf, locked>>
  /\ users' = [users EXCEPT ![r] = UsersLeft(t)]
  /\ registry' = IF DropUnused(UsersLeft(t)) /\ Mine(t) = r
                 THEN [registry EXCEPT ![ProcessOf[t]] = None] ELSE registry
  /\ recordOf' = [recordOf EXCEPT ![t] = None]
  /\ acquired' = [acquired EXCEPT ![t] = FALSE]
  /\ LockGoto(t, "out")
  /\ UNCHANGED <<os, breaks>>

Interrupt(t) ==
  /\ pc[t] \in InterruptAt /\ Break
  /\ LockGoto(t, "leave")
  /\ UNCHANGED <<sharedRecords, recordOf, acquired, os>>

Of(p) == {t \in Threads : ProcessOf[t] = p}

\* The process dies: its memory is gone, the OS frees its lock.
LockCrash(p) ==
  /\ Break
  /\ registry' = [registry EXCEPT ![p] = None]
  /\ pc' = [t \in Threads |-> IF t \in Of(p) THEN "out" ELSE pc[t]]
  /\ recordOf' = [t \in Threads |-> IF t \in Of(p) THEN None ELSE recordOf[t]]
  /\ acquired' = [t \in Threads |-> acquired[t] /\ t \notin Of(p)]
  /\ os' = IF os \in Of(p) THEN None ELSE os
  /\ UNCHANGED <<locked, ownerOf, users>>

LockStep(t) == Grant(t) \/ Note(t) \/ Own(t) \/ OpenFile(t) \/ Poll(t) \/ Exit(t) \/ LeaveLock(t)

LockNext ==
  \/ \E t \in Threads : \/ \E r \in Records : Enter(t, r)
                        \/ LockStep(t) \/ WaitTimeout(t) \/ PollFails(t) \/ Interrupt(t)
  \/ \E p \in Processes : LockCrash(p)

LockSpec == LockInit /\ [][LockNext]_lockVars

\* A thread in exclusive_lock goes on, unless it waits for another.
LockFairness == \A t \in Threads : WF_lockVars(LockStep(t))

-----------------------------------------------------------------------------
\* Every variable has its type.
LockTypeOK ==
  /\ registry \in [Processes -> Records \cup {None}]
  /\ locked \in [Records -> BOOLEAN]
  /\ ownerOf \in [Records -> Threads \cup {None}]
  /\ users \in [Records -> Nat]
  /\ pc \in [Threads -> Steps]
  /\ recordOf \in [Threads -> Records \cup {None}]
  /\ acquired \in [Threads -> BOOLEAN]
  /\ os \in Threads \cup {None}
  /\ breaks \in 0..MaxBreaks

Inside(t) == pc[t] = "body"

\* Two threads are never both in the body: in one process whatever the file
\* system can do, in two processes when it can lock for both.
MutualExclusion ==
  \A t, u \in Threads :
    /\ t # u /\ Inside(t) /\ Inside(u)
    => ProcessOf[t] # ProcessOf[u] /\ {ProcessOf[t], ProcessOf[u]} \cap (Processes \ Lockers) # {}

\* The holder the record names is the thread that would wait for itself, and
\* no other: neither a deadlock nor a refusal to a thread that is outside.
OwnerIsHolder ==
  /\ \A t \in Threads : Inside(t) => Mine(t) # None /\ ownerOf[Mine(t)] = t
  /\ \A p \in Processes, t \in Threads :
       registry[p] # None /\ ownerOf[registry[p]] = t => recordOf[t] = registry[p]
  /\ \A t \in Threads : pc[t] # "nested"

\* A process that no thread uses the lock in has forgotten its record, and the
\* record of a process counts exactly the threads that use it.
CountNeverLeaks ==
  \A p \in Processes :
    LET using == {t \in Of(p) : recordOf[t] # None} IN
    IF registry[p] = None THEN using = {}
    ELSE users[registry[p]] = Cardinality(using) /\ using # {}

\* Whoever waits, somebody comes in, or all give up.
SomeoneEnters ==
  (\E t \in Threads : pc[t] \in {"wait", "poll"})
    ~> \/ \E t \in Threads : Inside(t)
       \/ \A t \in Threads : pc[t] = "out"

=============================================================================
