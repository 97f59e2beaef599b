--------------------------- MODULE FileLockProofs ---------------------------
(***************************************************************************)
(* exclusive_lock excludes, for any number of processes, threads, crashes  *)
(* and interrupts.  The OS lock does it between processes; within one      *)
(* process it is the thread lock of the record, and that only works        *)
(* because all threads of a process use the same record: no record is      *)
(* dropped while its count, which is exact, says that somebody uses it.    *)
(***************************************************************************)
EXTENDS FileLock, FiniteSetTheorems, TLAPS

Users(p) == {t \in Threads : ProcessOf[t] = p /\ pc[t] # "out"}

\* The thread has the thread lock of its record.
Holding(t) == acquired[t] \/ pc[t] = "granted"

\* A thread in exclusive_lock refers to its process's record, no other.
SameRecord ==
  /\ \A t \in Threads : IF pc[t] = "out" THEN recordOf[t] = None
                        ELSE recordOf[t] \in Records /\ recordOf[t] = registry[ProcessOf[t]]
  /\ \A p, q \in Processes : registry[p] # None /\ registry[p] = registry[q] => p = q

Counted == \A p \in Processes : registry[p] # None => /\ users[registry[p]] = Cardinality(Users(p))
                                                      /\ Users(p) # {}

OneHolder ==
  /\ \A t \in Threads :
       /\ acquired[t] => pc[t] \in {"own", "open", "poll", "body", "leave"}
       /\ pc[t] \in {"own", "open", "poll", "body"} => acquired[t]
       /\ Holding(t) => locked[recordOf[t]]
  /\ \A t, u \in Threads : Holding(t) /\ Holding(u) /\ ProcessOf[t] = ProcessOf[u] => t = u

OwnerKnown ==
  /\ \A t \in Threads : pc[t] \in {"open", "poll", "body"} => ownerOf[recordOf[t]] = t
  /\ \A p \in Processes, t \in Threads :
       registry[p] # None /\ ownerOf[registry[p]] = t => acquired[t] /\ recordOf[t] = registry[p]
  /\ \A t \in Threads : pc[t] # "nested"

OsHolder == \A t \in Threads : os = t <=> pc[t] = "body" /\ ProcessOf[t] \in Lockers

Inv == LockTypeOK /\ SameRecord /\ Counted /\ OneHolder /\ OwnerKnown /\ OsHolder

USE ThreadsHaveProcesses, NoneIsNone

-----------------------------------------------------------------------------
LEMMA UsersAreFinite == \A p : IsFiniteSet(Users(p)) /\ Cardinality(Users(p)) \in Nat
<1>. TAKE p
<1>1. Users(p) \subseteq Threads
  BY DEF Users
<1>. QED  BY <1>1, ThreadsAreFinite, FS_Subset, FS_CardinalityType

\* A thread that comes in or goes out changes its own process's users by one.
LEMMA OneMoreUser ==
  ASSUME NEW t \in Threads, pc \in [Threads -> Steps], pc[t] = "out",
         NEW step \in Steps \ {"out"}, LockGoto(t, step)
  PROVE  /\ \A p \in Processes \ {ProcessOf[t]} : Users(p)' = Users(p)
         /\ Cardinality(Users(ProcessOf[t])') = Cardinality(Users(ProcessOf[t])) + 1
<1>1. \A p \in Processes \ {ProcessOf[t]} : Users(p)' = Users(p)
  BY DEF Users, LockGoto
<1>2. t \notin Users(ProcessOf[t]) /\ Users(ProcessOf[t])' = Users(ProcessOf[t]) \cup {t}
  BY DEF Users, LockGoto
<1>. QED  BY <1>1, <1>2, UsersAreFinite, FS_AddElement

LEMMA OneUserLess ==
  ASSUME NEW t \in Threads, pc \in [Threads -> Steps], pc[t] # "out", LockGoto(t, "out")
  PROVE  /\ \A p \in Processes \ {ProcessOf[t]} : Users(p)' = Users(p)
         /\ Cardinality(Users(ProcessOf[t])') = Cardinality(Users(ProcessOf[t])) - 1
         /\ Cardinality(Users(ProcessOf[t])) = 1 =>
              \A u \in Threads : ProcessOf[u] = ProcessOf[t] => u = t \/ pc[u] = "out"
<1>1. \A p \in Processes \ {ProcessOf[t]} : Users(p)' = Users(p)
  BY DEF Users, LockGoto
<1>2. t \in Users(ProcessOf[t]) /\ Users(ProcessOf[t])' = Users(ProcessOf[t]) \ {t}
  BY DEF Users, LockGoto
<1>3. Cardinality(Users(ProcessOf[t])') = Cardinality(Users(ProcessOf[t])) - 1
  <2>. DEFINE S == Users(ProcessOf[t])
  <2>1. IsFiniteSet(S) /\ Cardinality(S) \in Nat /\ t \in S
    BY <1>2, UsersAreFinite
  <2>2. Cardinality(S \ {t}) = Cardinality(S) - 1
    <3>. HIDE DEF S
    <3>. QED  BY <2>1, FS_RemoveElement
  <2>. QED  BY <1>2, <2>2
<1>4. ASSUME Cardinality(Users(ProcessOf[t])) = 1
      PROVE  Users(ProcessOf[t])' = {}
  <2>1. IsFiniteSet(Users(ProcessOf[t])') /\ Cardinality(Users(ProcessOf[t])') = 0
    BY <1>2, <1>3, <1>4, UsersAreFinite, FS_RemoveElement
  <2>. QED  BY <2>1, FS_EmptySet
<1>5. (Users(ProcessOf[t])' = {}) =>
        \A u \in Threads : ProcessOf[u] = ProcessOf[t] => u = t \/ pc[u] = "out"
  BY DEF Users, LockGoto
<1>. QED  BY <1>1, <1>3, <1>4, <1>5

LEMMA SameUsers ==
  ASSUME pc \in [Threads -> Steps], NEW t \in Threads, pc[t] # "out",
         NEW step \in Steps \ {"out"}, LockGoto(t, step)
  PROVE  \A p : Users(p)' = Users(p)
BY DEF Users, LockGoto

LEMMA InitInv == LockInit => Inv
<1>. SUFFICES ASSUME LockInit PROVE Inv
  OBVIOUS
<1>1. LockTypeOK
  BY BreaksAreNat DEF LockInit, LockTypeOK, Steps
<1>. QED  BY <1>1 DEF LockInit, Inv, SameRecord, Counted, OneHolder, Holding, OwnerKnown, OsHolder

\* A thread moves on, and keeps its record and what it knows of the lock.
LEMMA MovesOn ==
  ASSUME Inv, NEW t \in Threads, NEW step \in Steps \ {"out", "granted", "nested", "body"},
         LockGoto(t, step), UNCHANGED <<sharedRecords, recordOf, acquired>>,
         \/ pc[t] \in {"wait", "granted", "own", "open", "poll", "body"} /\ step = "leave"
         \/ pc[t] = "open" /\ step = "poll",
         os' = IF os = t THEN None ELSE os,
         breaks' \in 0..MaxBreaks
  PROVE  Inv'
<1>1. pc[t] # "out" /\ pc \in [Threads -> Steps] /\ pc' = [pc EXCEPT ![t] = step]
  BY DEF Inv, LockTypeOK, LockGoto
<1>2. LockTypeOK'
  BY <1>1 DEF Inv, LockTypeOK, sharedRecords
<1>3. SameRecord'
  BY <1>1 DEF Inv, SameRecord, sharedRecords
<1>4. Counted'
  BY <1>1, SameUsers DEF Inv, Counted, sharedRecords
<1>5. OneHolder'
  BY <1>1 DEF Inv, LockTypeOK, OneHolder, Holding, sharedRecords
<1>6. OwnerKnown'
  BY <1>1 DEF Inv, LockTypeOK, OwnerKnown, OneHolder, sharedRecords
<1>7. OsHolder'
  BY <1>1 DEF Inv, OsHolder
<1>. QED  BY <1>2, <1>3, <1>4, <1>5, <1>6, <1>7 DEF Inv

LEMMA EnterKeeps == ASSUME Inv, NEW t \in Threads, NEW r \in Records, Enter(t, r) PROVE Inv'
<1>. DEFINE p == ProcessOf[t]
<1>1. /\ pc \in [Threads -> Steps] /\ recordOf \in [Threads -> Records \cup {None}]
      /\ registry \in [Processes -> Records \cup {None}] /\ p \in Processes
  BY DEF Inv, LockTypeOK
<1>2. pc[t] = "out" /\ pc' = [pc EXCEPT ![t] = "wait"]
  <2>1. CASE pc[t] = "body"
    <3>1. recordOf[t] = registry[p] /\ recordOf[t] # None /\ ownerOf[recordOf[t]] = t
      BY <1>1, <2>1 DEF Inv, SameRecord, OwnerKnown
    <3>. QED  BY <3>1 DEF Enter, Candidate, Reentry, New, Mine
  <2>. QED  BY <2>1 DEF Enter, LockGoto
<1>3. /\ registry' = [registry EXCEPT ![p] = r] /\ recordOf' = [recordOf EXCEPT ![t] = r]
      /\ UNCHANGED <<acquired, os, breaks>>
  BY DEF Enter
<1>4. CASE New(t)
  <2>1. /\ registry[p] = None
        /\ \A q \in Processes : registry[q] # r
        /\ \A u \in Threads : recordOf[u] # r
    BY <1>4 DEF Enter, Candidate, Referred, New, Mine
  <2>2. /\ locked' = [locked EXCEPT ![r] = FALSE]
        /\ ownerOf' = [ownerOf EXCEPT ![r] = None]
        /\ users' = [users EXCEPT ![r] = 1]
    BY <1>4 DEF Enter, Joined, Inv, LockTypeOK
  <2>3. \A u \in Threads : ProcessOf[u] = p => pc[u] = "out"
    BY <1>1, <2>1 DEF Inv, SameRecord
  <2>4. LockTypeOK'
    BY <1>1, <1>2, <1>3, <2>2 DEF Inv, LockTypeOK, Steps
  <2>5. SameRecord'
    BY <1>1, <1>2, <1>3, <2>1, <2>3 DEF Inv, SameRecord
  <2>6. Counted'
    <3>1. Users(p)' = {t}
      BY <1>1, <1>2, <2>3 DEF Users
    <3>2. Cardinality({t}) = 1
      BY FS_Singleton
    <3>3. \A q \in Processes \ {p} : Users(q)' = Users(q) /\ registry'[q] = registry[q]
      BY <1>1, <1>2, <1>3 DEF Users
    <3>4. \A q \in Processes \ {p} : registry[q] # None => users'[registry[q]] = users[registry[q]]
      BY <1>1, <2>1, <2>2 DEF Inv, LockTypeOK
    <3>5. registry'[p] = r /\ users'[r] = 1
      BY <1>1, <1>3, <2>2 DEF Inv, LockTypeOK
    <3>. HIDE DEF p
    <3>. QED  BY <3>1, <3>2, <3>3, <3>4, <3>5 DEF Inv, Counted
  <2>7. OneHolder'
    BY <1>1, <1>2, <1>3, <2>1, <2>2 DEF Inv, LockTypeOK, OneHolder, Holding, SameRecord
  <2>8. OwnerKnown'
    BY <1>1, <1>2, <1>3, <2>1, <2>2, <2>3 DEF Inv, LockTypeOK, OwnerKnown, SameRecord
  <2>9. OsHolder'
    BY <1>1, <1>2, <1>3 DEF Inv, OsHolder
  <2>. QED  BY <2>4, <2>5, <2>6, <2>7, <2>8, <2>9 DEF Inv
<1>5. CASE ~New(t)
  <2>1. r = registry[p] /\ UNCHANGED registry
    BY <1>1, <1>3, <1>5 DEF Enter, Candidate, New, Mine
  <2>2. /\ UNCHANGED <<locked, ownerOf>> /\ users' = [users EXCEPT ![r] = @ + 1] /\ ownerOf[r] # t
    BY <1>5 DEF Enter, Joined, Reentry, Inv, LockTypeOK
  <2>3. LockTypeOK'
    BY <1>1, <1>2, <1>3, <2>1, <2>2 DEF Inv, LockTypeOK, Steps
  <2>4. SameRecord'
    BY <1>1, <1>2, <1>3, <2>1 DEF Inv, SameRecord
  <2>5. Counted'
    <3>1. /\ \A q \in Processes \ {p} : Users(q)' = Users(q)
          /\ Cardinality(Users(p)') = Cardinality(Users(p)) + 1
      BY <1>1, <1>2, OneMoreUser DEF LockGoto, Steps
    <3>2. \A q \in Processes \ {p} : registry[q] # r
      BY <1>1, <2>1 DEF Inv, SameRecord
    <3>3. users'[r] = users[r] + 1
          /\ \A q \in Processes \ {p} : registry[q] # None => users'[registry[q]] = users[registry[q]]
      BY <1>1, <2>2, <3>2 DEF Inv, LockTypeOK
    <3>4. t \in Users(p)'
      BY <1>1, <1>2 DEF Users
    <3>. QED  BY <2>1, <3>1, <3>3, <3>4 DEF Inv, Counted
  <2>6. OneHolder'
    BY <1>1, <1>2, <1>3, <2>2 DEF Inv, LockTypeOK, OneHolder, Holding
  <2>7. OwnerKnown'
    BY <1>1, <1>2, <1>3, <2>1, <2>2 DEF Inv, LockTypeOK, OwnerKnown, OneHolder
  <2>8. OsHolder'
    BY <1>1, <1>2, <1>3 DEF Inv, OsHolder
  <2>. QED  BY <2>3, <2>4, <2>5, <2>6, <2>7, <2>8 DEF Inv
<1>. QED  BY <1>4, <1>5

LEMMA GrantKeeps == ASSUME Inv, NEW t \in Threads, Grant(t) PROVE Inv'
<1>1. /\ pc[t] = "wait" /\ pc' = [pc EXCEPT ![t] = "granted"] /\ pc \in [Threads -> Steps]
      /\ recordOf[t] \in Records /\ recordOf[t] = registry[ProcessOf[t]] /\ ~locked[recordOf[t]]
      /\ locked' = [locked EXCEPT ![recordOf[t]] = TRUE]
      /\ UNCHANGED <<registry, ownerOf, users, recordOf, acquired, os, breaks>>
  BY DEF Inv, LockTypeOK, SameRecord, Grant, LockGoto
<1>2. LockTypeOK' /\ SameRecord' /\ OsHolder'
  BY <1>1 DEF Inv, LockTypeOK, SameRecord, OsHolder, Steps
<1>3. Counted'
  BY <1>1, SameUsers DEF Inv, Counted, LockGoto, Steps
<1>4. \A u \in Threads : ProcessOf[u] = ProcessOf[t] => ~Holding(u)
  BY <1>1 DEF Inv, OneHolder, SameRecord, Holding
<1>5. OneHolder'
  BY <1>1, <1>4 DEF Inv, LockTypeOK, OneHolder, Holding
<1>6. OwnerKnown'
  BY <1>1 DEF Inv, LockTypeOK, OwnerKnown
<1>. QED  BY <1>2, <1>3, <1>5, <1>6 DEF Inv

LEMMA NoteKeeps == ASSUME Inv, NEW t \in Threads, Note(t) PROVE Inv'
<1>1. /\ pc[t] = "granted" /\ pc' = [pc EXCEPT ![t] = "own"] /\ pc \in [Threads -> Steps]
      /\ acquired \in [Threads -> BOOLEAN] /\ acquired' = [acquired EXCEPT ![t] = TRUE]
      /\ UNCHANGED <<registry, locked, ownerOf, users, recordOf, os, breaks>>
  BY DEF Inv, LockTypeOK, Note, LockGoto, sharedRecords
<1>2. LockTypeOK' /\ SameRecord' /\ OsHolder'
  BY <1>1 DEF Inv, LockTypeOK, SameRecord, OsHolder, Steps
<1>3. Counted'
  BY <1>1, SameUsers DEF Inv, Counted, LockGoto, Steps
<1>4. OneHolder'
  BY <1>1 DEF Inv, LockTypeOK, OneHolder, Holding
<1>5. OwnerKnown'
  BY <1>1 DEF Inv, LockTypeOK, OwnerKnown
<1>. QED  BY <1>2, <1>3, <1>4, <1>5 DEF Inv

LEMMA OwnKeeps == ASSUME Inv, NEW t \in Threads, Own(t) PROVE Inv'
<1>1. /\ pc[t] = "own" /\ pc' = [pc EXCEPT ![t] = "open"] /\ pc \in [Threads -> Steps]
      /\ recordOf[t] \in Records /\ recordOf[t] = registry[ProcessOf[t]] /\ acquired[t]
      /\ ownerOf' = [ownerOf EXCEPT ![recordOf[t]] = t] /\ ownerOf \in [Records -> Threads \cup {None}]
      /\ UNCHANGED <<registry, locked, users, recordOf, acquired, os, breaks>>
  BY DEF Inv, LockTypeOK, SameRecord, OneHolder, Own, LockGoto
<1>2. LockTypeOK' /\ SameRecord' /\ OsHolder'
  BY <1>1 DEF Inv, LockTypeOK, SameRecord, OsHolder, Steps
<1>3. Counted'
  BY <1>1, SameUsers DEF Inv, Counted, LockGoto, Steps
<1>4. OneHolder'
  BY <1>1 DEF Inv, LockTypeOK, OneHolder, Holding
<1>5. \A u \in Threads \ {t} : pc[u] \in {"open", "poll", "body"} => recordOf[u] # recordOf[t]
  BY <1>1 DEF Inv, OneHolder, SameRecord, Holding
<1>6. OwnerKnown'
  BY <1>1, <1>5 DEF Inv, LockTypeOK, OwnerKnown
<1>. QED  BY <1>2, <1>3, <1>4, <1>6 DEF Inv

LEMMA PollKeeps == ASSUME Inv, NEW t \in Threads, Poll(t) PROVE Inv'
<1>1. /\ pc[t] = "poll" /\ pc' = [pc EXCEPT ![t] = "body"] /\ pc \in [Threads -> Steps]
      /\ UNCHANGED <<registry, locked, ownerOf, users, recordOf, acquired, breaks>>
  BY DEF Inv, LockTypeOK, Poll, LockGoto, sharedRecords
<1>2. LockTypeOK' /\ SameRecord' /\ OsHolder'
  BY <1>1 DEF Inv, LockTypeOK, SameRecord, OsHolder, Steps, Poll, TryOsLock
<1>3. Counted'
  BY <1>1, SameUsers DEF Inv, Counted, LockGoto, Steps
<1>4. OneHolder' /\ OwnerKnown'
  BY <1>1 DEF Inv, LockTypeOK, OneHolder, Holding, OwnerKnown
<1>. QED  BY <1>2, <1>3, <1>4 DEF Inv

LEMMA LeaveKeeps == ASSUME Inv, NEW t \in Threads, LeaveLock(t) PROVE Inv'
<1>. DEFINE p == ProcessOf[t]
            r == recordOf[t]
<1>1. /\ pc[t] = "leave" /\ pc' = [pc EXCEPT ![t] = "out"] /\ pc \in [Threads -> Steps]
      /\ p \in Processes /\ r \in Records /\ r = registry[p] /\ r # None
      /\ recordOf' = [recordOf EXCEPT ![t] = None] /\ acquired' = [acquired EXCEPT ![t] = FALSE]
      /\ users' = [users EXCEPT ![r] = @ - 1] /\ UNCHANGED <<os, breaks>>
      /\ ownerOf \in [Records -> Threads \cup {None}] /\ locked \in [Records -> BOOLEAN]
      /\ registry \in [Processes -> Records \cup {None}]
  BY DEF Inv, LockTypeOK, SameRecord, LeaveLock, UsersLeft, LockGoto
<1>2. registry' = IF users[r] - 1 = 0 THEN [registry EXCEPT ![p] = None] ELSE registry
  BY <1>1 DEF LeaveLock, UsersLeft, DropUnused, Mine
<1>3. IF acquired[t] THEN ownerOf' = [ownerOf EXCEPT ![r] = None] /\ locked' = [locked EXCEPT ![r] = FALSE]
      ELSE UNCHANGED <<ownerOf, locked>>
  BY DEF LeaveLock, HoldsLock, Unnamed
<1>4. users[r] = Cardinality(Users(p)) /\ t \in Users(p)
  BY <1>1 DEF Inv, Counted, Users
<1>5. /\ \A q \in Processes \ {p} : Users(q)' = Users(q)
      /\ Cardinality(Users(p)') = Cardinality(Users(p)) - 1
      /\ users[r] = 1 => \A u \in Threads : ProcessOf[u] = p => u = t \/ pc[u] = "out"
  BY <1>1, <1>4, OneUserLess DEF LockGoto
<1>6. users[r] \in Nat /\ users[r] # 0
  <2>1. Cardinality(Users(p)) # 0
    BY <1>4, UsersAreFinite, FS_EmptySet
  <2>. QED  BY <1>4, <2>1, UsersAreFinite
<1>7. \A q \in Processes \ {p} : registry'[q] = registry[q] /\ registry[q] # r
  BY <1>1, <1>2 DEF Inv, SameRecord
<1>8. \A u \in Threads \ {t} :
        ProcessOf[u] # p \/ pc[u] = "out" => recordOf[u] # r
  BY <1>1 DEF Inv, SameRecord
<1>. HIDE DEF p, r
<1>9. LockTypeOK'
  <2>1. users' \in [Records -> Nat]
    BY <1>1, <1>6 DEF Inv, LockTypeOK
  <2>2. ownerOf' \in [Records -> Threads \cup {None}] /\ locked' \in [Records -> BOOLEAN]
    BY <1>1, <1>3
  <2>3. registry' \in [Processes -> Records \cup {None}]
    BY <1>1, <1>2
  <2>. QED  BY <1>1, <2>1, <2>2, <2>3 DEF Inv, LockTypeOK, Steps
<1>10. SameRecord'
  <2>1. \A u \in Threads : IF pc'[u] = "out" THEN recordOf'[u] = None
                           ELSE recordOf'[u] \in Records /\ recordOf'[u] = registry'[ProcessOf[u]]
    <3>1. CASE users[r] = 1
      <4>1. \A u \in Threads \ {t} : ProcessOf[u] = p => pc[u] = "out"
        BY <1>5, <3>1
      <4>. QED  BY <1>1, <1>7, <4>1 DEF Inv, SameRecord, LockTypeOK
    <3>2. CASE users[r] # 1
      <4>1. UNCHANGED registry
        BY <1>2, <1>6, <3>2
      <4>. QED  BY <1>1, <4>1 DEF Inv, SameRecord, LockTypeOK
    <3>. QED  BY <3>1, <3>2
  <2>2. \A q, s \in Processes : registry'[q] # None /\ registry'[q] = registry'[s] => q = s
    BY <1>1, <1>2 DEF Inv, SameRecord
  <2>. QED  BY <2>1, <2>2 DEF SameRecord
<1>11. Counted'
  <2>1. users'[r] = users[r] - 1
    BY <1>1 DEF Inv, LockTypeOK
  <2>2. \A q \in Processes \ {p} : registry[q] # None => users'[registry[q]] = users[registry[q]]
    BY <1>1, <1>7 DEF Inv, LockTypeOK
  <2>3. registry'[p] # None => registry'[p] = r /\ Users(p)' # {}
    <3>1. ASSUME Users(p)' = {} PROVE users[r] - 1 = 0
      BY <1>4, <1>5, <3>1, FS_EmptySet
    <3>. QED  BY <1>1, <1>2, <3>1
  <2>. QED  BY <1>4, <1>5, <1>7, <2>1, <2>2, <2>3 DEF Inv, Counted
<1>12. OneHolder'
  <2>1. \A u \in Threads \ {t} : Holding(u)' => Holding(u)
    BY <1>1 DEF Inv, LockTypeOK, Holding
  <2>2. ~Holding(t)'
    BY <1>1 DEF Inv, LockTypeOK, Holding
  <2>3. \A u \in Threads \ {t} : Holding(u) => locked'[recordOf[u]]
    <3>1. CASE acquired[t]
      <4>1. \A u \in Threads \ {t} : Holding(u) => ProcessOf[u] # p
        BY <3>1 DEF Inv, OneHolder, Holding, p
      <4>2. \A u \in Threads \ {t} : Holding(u) => recordOf[u] \in Records /\ recordOf[u] # r
        BY <1>8, <4>1 DEF Inv, OneHolder, Holding, SameRecord
      <4>. QED  BY <1>1, <1>3, <3>1, <4>2 DEF Inv, OneHolder
    <3>2. CASE ~acquired[t]
      BY <1>3, <3>2 DEF Inv, OneHolder
    <3>. QED  BY <3>1, <3>2
  <2>4. \A u \in Threads : /\ acquired'[u] => pc'[u] \in {"own", "open", "poll", "body", "leave"}
                           /\ pc'[u] \in {"own", "open", "poll", "body"} => acquired'[u]
    BY <1>1 DEF Inv, LockTypeOK, OneHolder
  <2>5. \A u \in Threads \ {t} : recordOf'[u] = recordOf[u]
    BY <1>1 DEF Inv, LockTypeOK
  <2>. QED  BY <2>1, <2>2, <2>3, <2>4, <2>5 DEF Inv, OneHolder
<1>13. OwnerKnown'
  <2>1. ASSUME NEW u \in Threads, pc'[u] \in {"open", "poll", "body"}
        PROVE  ownerOf'[recordOf'[u]] = u
    <3>1. u # t /\ pc[u] = pc'[u] /\ recordOf'[u] = recordOf[u] /\ acquired[u]
      BY <1>1, <2>1 DEF Inv, LockTypeOK, OneHolder
    <3>2. ownerOf[recordOf[u]] = u /\ recordOf[u] \in Records
      BY <2>1, <3>1 DEF Inv, OwnerKnown, SameRecord
    <3>3. acquired[t] => recordOf[u] # r
      BY <1>8, <3>1 DEF Inv, OneHolder, Holding, p
    <3>. QED  BY <1>1, <1>3, <3>1, <3>2, <3>3
  <2>2. ASSUME NEW q \in Processes, NEW u \in Threads, registry'[q] # None, ownerOf'[registry'[q]] = u
        PROVE  acquired'[u] /\ recordOf'[u] = registry'[q]
    <3>1. registry'[q] = registry[q] /\ registry[q] \in Records
      BY <1>1, <1>2, <2>2
    <3>2. ownerOf[registry[q]] = u
      BY <1>1, <1>3, <2>2, <3>1
    <3>3. acquired[u] /\ recordOf[u] = registry[q]
      BY <2>2, <3>1, <3>2 DEF Inv, OwnerKnown
    <3>4. u # t
      BY <1>1, <1>3, <2>2, <3>1, <3>3 DEF r
    <3>. QED  BY <1>1, <3>1, <3>3, <3>4 DEF Inv, LockTypeOK
  <2>3. \A u \in Threads : pc'[u] # "nested"
    BY <1>1 DEF Inv, OwnerKnown
  <2>. QED  BY <2>1, <2>2, <2>3 DEF OwnerKnown
<1>14. OsHolder'
  BY <1>1 DEF Inv, OsHolder
<1>. QED  BY <1>9, <1>10, <1>11, <1>12, <1>13, <1>14 DEF Inv

LEMMA CrashKeeps == ASSUME Inv, NEW p \in Processes, LockCrash(p) PROVE Inv'
<1>1. /\ pc' = [t \in Threads |-> IF ProcessOf[t] = p THEN "out" ELSE pc[t]]
      /\ recordOf' = [t \in Threads |-> IF ProcessOf[t] = p THEN None ELSE recordOf[t]]
      /\ acquired' = [t \in Threads |-> acquired[t] /\ ProcessOf[t] # p]
      /\ registry' = [registry EXCEPT ![p] = None]
      /\ os' = IF os \in Of(p) THEN None ELSE os
      /\ UNCHANGED <<locked, ownerOf, users>>
      /\ breaks' \in 0..MaxBreaks
  BY BreaksAreNat DEF LockCrash, Break, Of, Inv, LockTypeOK
<1>2. LockTypeOK' /\ SameRecord' /\ OsHolder'
  BY <1>1 DEF Inv, LockTypeOK, SameRecord, OsHolder, Steps, Of
<1>3. Counted'
  <2>1. \A q \in Processes \ {p} : Users(q)' = Users(q)
    BY <1>1 DEF Users
  <2>. QED  BY <1>1, <2>1 DEF Inv, LockTypeOK, Counted
<1>4. OneHolder'
  BY <1>1 DEF Inv, OneHolder, Holding
<1>5. OwnerKnown'
  <2>1. ASSUME NEW q \in Processes, NEW u \in Threads, registry'[q] # None, ownerOf'[registry'[q]] = u
        PROVE  acquired'[u] /\ recordOf'[u] = registry'[q]
    <3>1. q # p /\ registry'[q] = registry[q]
      BY <1>1, <2>1 DEF Inv, LockTypeOK
    <3>2. acquired[u] /\ recordOf[u] = registry[q]
      BY <1>1, <2>1, <3>1 DEF Inv, OwnerKnown
    <3>3. ProcessOf[u] # p
      BY <2>1, <3>1, <3>2 DEF Inv, SameRecord, LockTypeOK
    <3>. QED  BY <1>1, <3>1, <3>2, <3>3
  <2>2. \A u \in Threads : pc'[u] \in {"open", "poll", "body"} => ownerOf'[recordOf'[u]] = u
    BY <1>1 DEF Inv, OwnerKnown
  <2>3. \A u \in Threads : pc'[u] # "nested"
    BY <1>1 DEF Inv, OwnerKnown
  <2>. QED  BY <2>1, <2>2, <2>3 DEF OwnerKnown
<1>. QED  BY <1>2, <1>3, <1>4, <1>5 DEF Inv

LEMMA NextKeeps == Inv /\ [LockNext]_lockVars => Inv'
<1>. SUFFICES ASSUME Inv, [LockNext]_lockVars PROVE Inv'
  OBVIOUS
<1>. USE DEF Steps
<1>1. ASSUME NEW t \in Threads, NEW r \in Records, Enter(t, r) PROVE Inv'
  BY <1>1, EnterKeeps
<1>2. ASSUME NEW t \in Threads, LockStep(t) PROVE Inv'
  <2>1. CASE OpenFile(t)
    <3>1. os # t
      BY <2>1 DEF OpenFile, Inv, OsHolder
    <3>2. breaks' \in 0..MaxBreaks
      BY <2>1, BreaksAreNat DEF OpenFile, Break, Inv, LockTypeOK
    <3>. QED  BY <2>1, <3>1, <3>2, MovesOn DEF OpenFile
  <2>2. CASE Exit(t)
    BY <2>2, MovesOn DEF Exit, Inv, LockTypeOK
  <2>. QED  BY <1>2, <2>1, <2>2, GrantKeeps, NoteKeeps, OwnKeeps, PollKeeps, LeaveKeeps DEF LockStep
<1>3. ASSUME NEW t \in Threads, WaitTimeout(t) \/ PollFails(t) \/ Interrupt(t) PROVE Inv'
  <2>1. pc[t] \in {"wait", "granted", "own", "open", "poll"} /\ LockGoto(t, "leave")
        /\ UNCHANGED <<sharedRecords, recordOf, acquired, os>>
    BY <1>3, InterruptsWait DEF WaitTimeout, PollFails, Interrupt
  <2>2. os # t
    BY <2>1 DEF Inv, OsHolder
  <2>3. breaks' \in 0..MaxBreaks
    BY <1>3, BreaksAreNat DEF WaitTimeout, PollFails, Interrupt, Break, Inv, LockTypeOK
  <2>. QED  BY <2>1, <2>2, <2>3, MovesOn
<1>4. ASSUME NEW p \in Processes, LockCrash(p) PROVE Inv'
  BY <1>4, CrashKeeps
<1>5. CASE UNCHANGED lockVars
  BY <1>5 DEF lockVars, sharedRecords, Inv, LockTypeOK, SameRecord, Counted, Users, OneHolder, Holding, OwnerKnown, OsHolder
<1>. QED  BY <1>1, <1>2, <1>3, <1>4, <1>5 DEF LockNext

-----------------------------------------------------------------------------
THEOREM InvHolds == LockSpec => []Inv
BY InitInv, NextKeeps, PTL DEF LockSpec

\* Two threads are never both in the body of exclusive_lock on one file.
THEOREM LockExcludes == LockSpec => []MutualExclusion
<1>1. Inv => MutualExclusion
  <2>. SUFFICES ASSUME Inv, NEW t \in Threads, NEW u \in Threads, t # u, Inside(t), Inside(u)
                PROVE  /\ ProcessOf[t] # ProcessOf[u]
                       /\ {ProcessOf[t], ProcessOf[u]} \cap (Processes \ Lockers) # {}
    BY DEF MutualExclusion
  <2>1. ProcessOf[t] # ProcessOf[u]
    BY DEF Inv, OneHolder, Holding, Inside
  <2>2. ~(ProcessOf[t] \in Lockers /\ ProcessOf[u] \in Lockers)
    BY DEF Inv, OsHolder, Inside
  <2>. QED  BY <2>1, <2>2
<1>. QED  BY <1>1, InvHolds, PTL

\* The holder that a record names is the one in the body, and only a thread
\* that has the thread lock is named: asking again is always caught, and never
\* mistaken.
THEOREM HolderIsNamed == LockSpec => []OwnerIsHolder
<1>1. Inv => OwnerIsHolder
  BY DEF Inv, LockTypeOK, SameRecord, OwnerKnown, OwnerIsHolder, Inside, Mine
<1>. QED  BY <1>1, InvHolds, PTL

\* A record counts its users exactly, and goes with the last of them.
THEOREM CountIsExact == LockSpec => []CountNeverLeaks
<1>1. ASSUME Inv PROVE CountNeverLeaks
  <2>1. \A p \in Processes : {t \in Of(p) : recordOf[t] # None} = Users(p)
    BY <1>1 DEF Inv, SameRecord, Of, Users
  <2>2. \A p \in Processes : registry[p] = None => Users(p) = {}
    BY <1>1 DEF Inv, SameRecord, Users
  <2>3. \A p \in Processes : registry[p] # None => /\ users[registry[p]] = Cardinality(Users(p))
                                                  /\ Users(p) # {}
    BY <1>1 DEF Inv, Counted
  <2>. QED  BY <2>1, <2>2, <2>3 DEF CountNeverLeaks
<1>. QED  BY <1>1, InvHolds, PTL
=============================================================================
