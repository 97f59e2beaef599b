--------------------------- MODULE ApplicationProofs ---------------------------
(* Proofs about what the owner works with: the vault of the classic panes   *)
(* (ClassicVault), the window with its worker (Desktop), and the dialogs    *)
(* that plan a change of the live saves and run it (MoveDialog).  Each part *)
(* is about the steps of its own module.                                    *)
EXTENDS ClassicVault, MoveDialog, Desktop, TLAPS, SequenceTheorems, FiniteSetTheorems

-----------------------------------------------------------------------------
(* The vault of folders (VaultIsSound, KeepsOthers): what is listed is      *)
(* whole, and no window takes another's entry from the catalog.             *)
(*                                                                         *)
(* Neither is inductive. A folder is only its maker's to write (Owned): its *)
(* id is in no other window's hands, and a managed entry that has it        *)
(* already lost its folder to an interrupt.  What a copy checks at its end  *)
(* is enough (CopyStands): no version of a file is written twice, so a file *)
(* that has its stat still is what it was when the last copy ended, and the *)
(* folder is the live one at that moment.  A window's memory is the catalog *)
(* where the stamp it was read at still is the file's (SeenAt).             *)

-----------------------------------------------------------------------------
\* Types, and what the parts of a job are.

Srcs    == {"live", "still", "empty"}
EntryKinds   == {"backup", "extract", "batch", "inplace", "vault", "inplaceVault"}
Ats     == {"idle", "list", "look", "read", "reread", "name", "mkdir", "place", "copy", "stat", "commit", "log"}
Lists   == Seq(Srcs \cup SourceIds)
Results == [res : {"made", "skipped", "failed"}, id : Ids \cup {<<>>}]
Entries == [managed : BOOLEAN, files : SUBSET Files]
Jobs    == [what : EntryKinds \cup {"none"}, at : Ats, queue : Lists,
            asked : Lists, done : Seq(Results), src : Srcs \cup {"none"},
            id : Ids \cup {<<>>}, look : Nat, listed : SUBSET Files, todo : SUBSET Files,
            cur : Files \cup {NoFile}, before : Nat, stats : [Files -> Nat], moved : SUBSET Files,
            check : SUBSET Files]

CopiedIds == {"full", "extract"} \X Nat \X Nat
PlaceIds  == {"inplace"} \X Nat \X Nat

Typed ==
  /\ live \in [Files -> Nat] /\ past \subseteq [Files -> Nat] /\ drafts \in Nat /\ now \in 0..MaxTime
  /\ due = <<>> \/ due \in {"meta", "gone"} \X Slots
  /\ DOMAIN folders \subseteq Ids /\ folders \in [DOMAIN folders -> [Files -> Nat \cup {Torn}]]
  /\ DOMAIN catalog \subseteq Ids /\ catalog \in [DOMAIN catalog -> Entries]
  /\ DOMAIN memory = Windows /\ \A w \in Windows : DOMAIN memory[w] \subseteq Ids
  /\ stamp \in Nat \ {0} /\ seen \in [Windows -> Nat]
  /\ oplog \in Seq({"whole", "torn"}) /\ acked \in Nat
  /\ left \subseteq Ids /\ doubtful \subseteq Ids
  /\ op \in [Windows -> Jobs]

\* What a job is at, and the name it has given its entry.
IdFits(o) ==
  /\ o.what \in {"backup", "batch", "extract"} => o.id \in CopiedIds
  /\ o.what = "inplace" => o.id \in PlaceIds
  /\ IsVault(o) => o.id \in SourceIds

FitsItem(o) ==
  /\ o.what \in EntryKinds /\ ~IsVault(o)
  /\ o.at \in {"list", "look", "read", "reread", "name", "commit", "log"}
                \cup IF o.what = "inplace" THEN {} ELSE {"mkdir", "copy", "stat"}
  /\ o.queue \in Seq(Srcs) /\ o.queue # <<>>
  /\ o.what = "batch" => Len(o.done) + Len(o.queue) = Len(o.asked)
  /\ o.at # "list" => o.src \in Srcs
  /\ o.at \in {"mkdir", "copy", "stat", "commit", "log"} => IdFits(o)

FitsVault(o) ==
  /\ IsVault(o)
  /\ o.at \in {"look", "read", "reread", "name", "place", "commit", "log"}
                \cup IF o.what = "vault" THEN {"copy", "stat"} ELSE {}
  /\ o.queue \in Seq(SourceIds)
  /\ o.at \in {"place", "copy", "stat", "commit"} => o.queue # <<>>
  /\ o.at \in {"copy", "stat", "commit"} => IdFits(o) /\ o.src = "still"

Fits(o) == o = Idle \/ FitsItem(o) \/ FitsVault(o)

\* The game's versions: newer than everything that was there before.
Written ==
  /\ live \in past /\ drafts # 0
  /\ \A f \in Files : live[f] <= drafts
  /\ due # <<>> /\ due[1] = "meta" =>
       live[<<"data", due[2]>>] = drafts /\ live[<<"meta", due[2]>>] < drafts

\* A new folder is its maker's alone.
Holds(w) ==
  /\ op[w].what \notin {"inplace", "inplaceVault"} /\ op[w].at \in {"copy", "stat", "commit"}
  /\ ~(op[w].what = "vault" /\ op[w].at = "commit" /\ op[w].id \in doubtful)

Owned(w) ==
  Holds(w) =>
    /\ op[w].id \in DOMAIN folders
    /\ \A v \in Windows \ {w} : Holds(v) => op[v].id # op[w].id
    /\ op[w].id \in DOMAIN catalog /\ catalog[op[w].id].managed => op[w].id \in doubtful

\* The states a folder may be a copy of; and what a job has copied of one of them.
Moments == past \cup {Whole}
Fresh(f, o) == o.src = "live" =>
                 /\ o.stats[f] <= drafts
                 /\ due # <<>> /\ due = <<"meta", f[2]>> /\ f[1] = "meta" => o.stats[f] < drafts
CopyStands(o, dir) ==
  /\ o.at \in {"list", "look", "read", "reread", "name", "mkdir", "place"} =>
       o.stats = NoFiles /\ o.cur = NoFile
  /\ o.at \in {"copy", "stat"} =>
       /\ \A f \in Files \ o.moved : dir[f] = o.stats[f]
       /\ \A f \in Files : Fresh(f, o)
       /\ o.at = "copy" => o.cur \in o.todo \cup {NoFile}
  /\ o.at = "stat" =>
       \E was \in Moments : \A f \in o.listed \ o.moved :
         /\ f \notin o.check => was[f] = o.stats[f]
         /\ f \in o.check /\ f \in Present(o.src) /\ Content(o.src)[f] = o.stats[f] => was[f] = o.stats[f]

Filled(w) ==
  LET o == op[w] IN
  /\ CopyStands(o, folders[o.id])
  /\ o.at = "commit" /\ Holds(w) =>
       \E was \in Moments : \A f \in o.listed : folders[o.id][f] = was[f]

Listed ==
  /\ \A i \in DOMAIN catalog : catalog[i].managed => i \in CopiedIds \cup SourceIds
  /\ EntriesAreWhole

\* A folder that is not in the catalog is in somebody's hands, or was left.
Keeps(w)  == HasMade(w) \/ (IsVault(op[w]) /\ op[w].at = "commit")
Accounted == \A i \in DOMAIN folders :
               i \in DOMAIN catalog \cup left \/ \E w \in Windows : op[w].id = i /\ Keeps(w)

\* The catalog as a window last read it.
SeenAt(w) ==
  /\ seen[w] <= stamp /\ op[w].look <= stamp
  /\ seen[w] = stamp => memory[w] = catalog
  /\ op[w].at = "reread" /\ op[w].look = stamp => memory[w] = catalog

\* What a window has done, and will report, is in the catalog.
IsListed(done) == \A i \in DOMAIN done : done[i].res = "made" => done[i].id \in DOMAIN catalog
Said(w) == /\ IsListed(op[w].done)
           /\ op[w].at = "log" /\ ~IsVault(op[w]) => op[w].id \in DOMAIN catalog

\* The log has every record it acknowledged.
Recorded == Cardinality(Readable(oplog)) >= acked

\* The inductive invariant.
Sure == /\ Typed /\ Written /\ Listed /\ Accounted /\ ToldIsTrue /\ Recorded
        /\ \A w \in Windows : Fits(op[w]) /\ Owned(w) /\ Filled(w) /\ SeenAt(w) /\ Said(w)

-----------------------------------------------------------------------------
\* What the proofs need of the constants, and the small operators.

LEMMA Constants == /\ MaxTime \in Nat /\ IsFiniteSet(SourceIds) /\ Torn \notin Nat /\ NoFile \notin Files
                   /\ \A q \in Batches : q # <<>> /\ q \in Seq(Srcs)
  BY VaultBounds DEF VaultBounds, Srcs

LEMMA NotFiles == NoFiles \in [Files -> Nat] /\ Whole \in [Files -> Nat] /\ \A f \in Files : NoFiles[f] = 0
  BY DEF NoFiles, Whole

LEMMA IdleFits == Idle \in Jobs /\ Fits(Idle)
<1>1. Idle \in Jobs
  BY NotFiles DEF Idle, Jobs, Lists, Results, Ats
<1> QED
  BY <1>1 DEF Fits

LEMMA PutGives ==
  ASSUME NEW f, NEW x, NEW y
  PROVE  /\ DOMAIN Put(f, x, y) = DOMAIN f \cup {x} /\ Put(f, x, y)[x] = y
         /\ \A z \in DOMAIN f \ {x} : Put(f, x, y)[z] = f[z]
  BY DEF Put

LEMMA PutTyped ==
  ASSUME NEW f, NEW x, NEW S, NEW y \in S, f \in [DOMAIN f -> S]
  PROVE  Put(f, x, y) \in [DOMAIN Put(f, x, y) -> S]
  BY DEF Put

LEMMA DropGives ==
  ASSUME NEW f, NEW x
  PROVE  /\ DOMAIN Drop(f, x) = DOMAIN f \ {x}
         /\ \A z \in DOMAIN f \ {x} : Drop(f, x)[z] = f[z]
  BY DEF Drop

LEMMA DropTyped ==
  ASSUME NEW f, NEW x, NEW S, f \in [DOMAIN f -> S]
  PROVE  Drop(f, x) \in [DOMAIN Drop(f, x) -> S]
  BY DEF Drop

-----------------------------------------------------------------------------
\* A window's step moves its own job only, to where a job may be.

Only(w)  == op' \in [Windows -> Jobs] /\ \A v \in Windows \ {w} : op'[v] = op[v]
Shifts(w) == Only(w) /\ Fits(op'[w])

LEMMA MovesTo ==
  ASSUME op \in [Windows -> Jobs], NEW w \in Windows, NEW j \in Jobs, Fits(j), op' = [op EXCEPT ![w] = j]
  PROVE  Shifts(w)
  BY DEF Shifts, Only

LEMMA TailGives ==
  ASSUME NEW S, NEW s \in Seq(S), s # <<>>
  PROVE  /\ Tail(s) \in Seq(S) /\ Head(s) \in S /\ Len(s) \in Nat \ {0} /\ Len(Tail(s)) = Len(s) - 1
         /\ Len(s) > 1 => Tail(s) # <<>>
<1>1. Len(s) \in Nat \ {0} /\ Head(s) \in S
  OBVIOUS
<1>2. Tail(s) \in Seq(S) /\ Len(Tail(s)) = Len(s) - 1
  OBVIOUS
<1>3. Len(s) > 1 => Tail(s) # <<>>
  BY <1>1, <1>2
<1> QED
  BY <1>1, <1>2, <1>3

\* The end of an item: the next folder of a batch, or the end of the operation.
LEMMA ItemOverMoves ==
  ASSUME op \in [Windows -> Jobs], NEW w \in Windows, Fits(op[w]), op[w] # Idle, NEW r \in Results, ItemOver(w, r)
  PROVE  Shifts(w)
<1> DEFINE o == op[w]
<1>0. o \in Jobs
  OBVIOUS
<1>1. CASE o.what = "batch" /\ Len(o.queue) > 1
  <2> DEFINE j == [Idle EXCEPT !.what = "batch", !.at = "list", !.queue = Tail(o.queue),
                               !.asked = o.asked, !.done = Append(o.done, r)]
  <2>1. op' = [op EXCEPT ![w] = j]
    BY <1>1 DEF ItemOver
  <2>2. o.queue \in Seq(Srcs) /\ o.done \in Seq(Results) /\ o.asked \in Lists /\ Len(o.done) + Len(o.queue) = Len(o.asked)
    <3>1. ~IsVault(o) /\ o # Idle
      BY <1>1 DEF IsVault, Idle
    <3>2. FitsItem(o)
      BY <3>1 DEF Fits, FitsVault
    <3> QED
      BY <1>0, <1>1, <3>2 DEF FitsItem, Jobs
  <2>3. Tail(o.queue) \in Seq(Srcs) /\ Tail(o.queue) # <<>> /\ Len(Tail(o.queue)) = Len(o.queue) - 1
    BY <1>1, <2>2, TailGives
  <2>4. Append(o.done, r) \in Seq(Results) /\ Len(Append(o.done, r)) = Len(o.done) + 1
    BY <2>2
  <2>5. Tail(o.queue) \in Lists
    BY <2>3 DEF Lists
  <2>6. j \in Jobs
    <3> HIDE DEF o
    <3>1. Idle \in Jobs
      BY IdleFits
    <3> QED
      BY <3>1, <2>2, <2>4, <2>5 DEF Jobs, EntryKinds, Ats, Idle
  <2>7. j.what = "batch" /\ j.at = "list" /\ j.queue = Tail(o.queue) /\ j.done = Append(o.done, r) /\ j.asked = o.asked
    BY DEF Idle
  <2>8. Len(j.done) + Len(j.queue) = Len(j.asked)
    <3> HIDE DEF j, o
    <3>1. Len(o.done) \in Nat /\ Len(o.queue) \in Nat
      BY <2>2
    <3>2. Len(j.done) = Len(o.done) + 1 /\ Len(j.queue) = Len(o.queue) - 1 /\ Len(j.asked) = Len(o.asked)
      BY <2>3, <2>4, <2>7
    <3>3. Len(o.done) + Len(o.queue) = Len(o.asked)
      BY <2>2
    <3>4. \A d, q \in Nat : (d + 1) + (q - 1) = d + q
      OBVIOUS
    <3>5. (Len(o.done) + 1) + (Len(o.queue) - 1) = Len(o.done) + Len(o.queue)
      BY <3>1, <3>4
    <3> QED
      BY <3>2, <3>3, <3>5, Zenon
  <2>9. Fits(j)
    <3> HIDE DEF j
    <3> QED
      BY <2>7, <2>8, <2>3 DEF Fits, FitsItem, IsVault, EntryKinds
  <2> QED
    BY <2>1, <2>6, <2>9, MovesTo
<1>2. CASE ~(o.what = "batch" /\ Len(o.queue) > 1)
  <2>1. op' = [op EXCEPT ![w] = Idle]
    BY <1>2 DEF ItemOver, Finish
  <2> QED
    BY <2>1, IdleFits, MovesTo
<1> QED
  BY <1>1, <1>2

LEMMA FailsMoves ==
  ASSUME op \in [Windows -> Jobs], NEW w \in Windows, Fits(op[w]), op[w] # Idle, Fails(w)
  PROVE  Shifts(w)
<1>1. [res |-> "failed", id |-> <<>>] \in Results
  BY DEF Results
<1> QED
  BY <1>1, ItemOverMoves DEF Fails

\* What is known of a job that names its entry: the parts of Fits.
LEMMA FitsGives ==
  ASSUME NEW o \in Jobs, Fits(o)
  PROVE  /\ o.at # "idle" <=> o # Idle
         /\ IsVault(o) <=> o.what \in {"vault", "inplaceVault"}
         /\ o.at \in {"mkdir", "copy", "stat"} => IdFits(o) /\ o.src \in Srcs
         /\ o.at = "commit" => IdFits(o) /\ o.src \in Srcs /\ o.queue # <<>>
         /\ o.at = "log" /\ ~IsVault(o) => IdFits(o) /\ o.queue # <<>>
         /\ o.at \in {"mkdir", "copy", "stat"} => o.what # "inplace" /\ o.what # "inplaceVault"
         /\ o.at \in {"list", "mkdir"} => ~IsVault(o)
         /\ o.at \in {"copy", "stat", "commit"} /\ IsVault(o) => o.src = "still"
<1>1. CASE o = Idle
  BY <1>1 DEF Idle, IsVault
<1>2. CASE FitsItem(o)
  BY <1>2 DEF FitsItem, Idle, IsVault, EntryKinds
<1>3. CASE FitsVault(o)
  BY <1>3 DEF FitsVault, Idle, IsVault, Srcs
<1> QED
  BY <1>1, <1>2, <1>3 DEF Fits

LEMMA FitsAs ==
  ASSUME NEW o \in Jobs, Fits(o), o # Idle
  PROVE  IF IsVault(o) THEN FitsVault(o) ELSE FitsItem(o)
  BY DEF Fits, FitsItem, FitsVault

LEMMA IdsOf ==
  ASSUME NEW o \in Jobs, IdFits(o), o.what \in EntryKinds
  PROVE  o.id \in Ids
  BY DEF IdFits, Ids, CopiedIds, PlaceIds, IsVault, EntryKinds

LEMMA StartMoves ==
  ASSUME op \in [Windows -> Jobs], NEW w \in Windows, Start(w)
  PROVE  Shifts(w)
<1>1. ASSUME NEW what \in EntryKinds, NEW q \in Lists, Begin(w, what, q),
             IF what \in {"vault", "inplaceVault"} THEN q = <<>> ELSE q \in Seq(Srcs) /\ q # <<>>
      PROVE  Shifts(w)
  <2> DEFINE j == [Idle EXCEPT !.what = what, !.queue = q, !.asked = q,
                               !.at = IF what = "vault" \/ what = "inplaceVault" THEN "look" ELSE "list"]
  <2>1. op' = [op EXCEPT ![w] = j]
    BY <1>1 DEF Begin
  <2>2. j \in Jobs
    <3>1. Idle \in Jobs /\ (IF what = "vault" \/ what = "inplaceVault" THEN "look" ELSE "list") \in Ats
      BY IdleFits DEF Ats
    <3> QED
      BY <3>1 DEF Jobs
  <2>3. j.what = what /\ j.queue = q /\ j.asked = q /\ j.done = <<>>
        /\ j.at = IF what = "vault" \/ what = "inplaceVault" THEN "look" ELSE "list"
    BY DEF Idle
  <2>4. Fits(j)
    <3> HIDE DEF j
    <3>1. CASE what \in {"vault", "inplaceVault"}
      <4>1. q \in Seq(SourceIds)
        BY <1>1, <3>1
      <4> QED
        BY <2>3, <3>1, <4>1 DEF Fits, FitsVault, IsVault
    <3>2. CASE what \notin {"vault", "inplaceVault"}
      <4>1. Len(q) \in Nat /\ Len(j.done) = 0
        BY <1>1, <3>2, <2>3
      <4>2. Len(j.done) + Len(j.queue) = Len(j.asked)
        BY <4>1, <2>3
      <4> QED
        BY <1>1, <2>3, <3>2, <4>2 DEF Fits, FitsItem, IsVault
    <3> QED
      BY <3>1, <3>2
  <2> QED
    BY <2>1, <2>2, <2>4, MovesTo
<1>2. \A q \in Batches : q \in Lists /\ q \in Seq(Srcs) /\ q # <<>>
  BY Constants DEF Lists
<1>3. <<>> \in Lists
  BY DEF Lists
<1>4. \A x \in Srcs : <<x>> \in Lists /\ <<x>> \in Seq(Srcs) /\ <<x>> # <<>>
  BY DEF Lists
<1>5. "live" \in Srcs /\ "still" \in Srcs
  BY DEF Srcs
<1>6. CASE \E what \in {"backup", "extract"} : Begin(w, what, <<"live">>)
  BY <1>1, <1>4, <1>5, <1>6 DEF EntryKinds
<1>7. CASE \E q \in Batches : Begin(w, "batch", q)
  BY <1>1, <1>2, <1>7 DEF EntryKinds
<1>8. CASE Begin(w, "inplace", <<"still">>)
  BY <1>1, <1>4, <1>5, <1>8 DEF EntryKinds
<1>9. CASE \E what \in {"vault", "inplaceVault"} : Begin(w, what, <<>>)
  BY <1>1, <1>3, <1>9 DEF EntryKinds
<1> QED
  BY <1>6, <1>7, <1>8, <1>9 DEF Start

LEMMA ListMoves ==
  ASSUME op \in [Windows -> Jobs], NEW w \in Windows, Fits(op[w]), List(w)
  PROVE  Shifts(w)
<1> DEFINE o == op[w]  src == Head(o.queue)
           files == IF o.what = "extract" THEN Pairs(src) ELSE Present(src)
<1>1. o \in Jobs /\ o.at = "list"
  BY DEF List
<1>2. ~IsVault(o) /\ o.what \in EntryKinds /\ o.queue \in Seq(Srcs) /\ o.queue # <<>> /\ src \in Srcs
  <2>1. o # Idle /\ ~IsVault(o)
    BY <1>1, FitsGives
  <2>2. FitsItem(o)
    BY <1>1, <2>1, FitsAs
  <2> QED
    BY <2>1, <2>2, TailGives DEF FitsItem
<1>3. CASE files = {}
  <2>1. [res |-> "skipped", id |-> <<>>] \in Results
    BY DEF Results
  <2>2. ItemOver(w, [res |-> "skipped", id |-> <<>>])
    BY <1>3 DEF List
  <2>3. o # Idle
    BY <1>1 DEF Idle
  <2> QED
    BY <2>1, <2>2, <2>3, ItemOverMoves
<1>4. CASE files # {}
  <2>1. op' = [op EXCEPT ![w].src = src, ![w].listed = files, ![w].at = "look"]
    BY <1>4 DEF List
  <2>2. files \subseteq Files
    BY DEF Pairs, Present
  <2> HIDE DEF files, src
  <2>3. op' \in [Windows -> Jobs]
    <3> DEFINE j == [o EXCEPT !.src = src, !.listed = files, !.at = "look"]
    <3>1. j \in Jobs
      <4> HIDE DEF o
      <4> QED
        BY <1>1, <1>2, <2>2 DEF Jobs, Ats
    <3>2. op' = [op EXCEPT ![w] = j]
      BY <2>1
    <3> HIDE DEF j
    <3> QED
      BY <3>1, <3>2
  <2>4. /\ op'[w].what = o.what /\ op'[w].at = "look" /\ op'[w].queue = o.queue
        /\ op'[w].src = src /\ op'[w].done = o.done /\ op'[w].asked = o.asked
    BY <1>1, <2>1 DEF Jobs
  <2>5. o.what = "batch" => Len(o.done) + Len(o.queue) = Len(o.asked)
    <3>1. o # Idle
      BY <1>1 DEF Idle
    <3> QED
      BY <1>2, <3>1 DEF Fits, FitsItem, FitsVault
  <2>6. Fits(op'[w])
    BY <1>2, <2>4, <2>5 DEF Fits, FitsItem, IsVault
  <2> QED
    BY <2>1, <2>3, <2>6 DEF Shifts, Only
<1> QED
  BY <1>3, <1>4

\* A step that changes where a job is, and little else.
SameAll(o, j) == j.what = o.what /\ j.queue = o.queue /\ j.src = o.src /\ j.done = o.done /\ j.asked = o.asked

LEMMA GoesOn ==
  ASSUME NEW o \in Jobs, Fits(o), o # Idle, o.at # "list", NEW j \in Jobs, SameAll(o, j),
         j.at \in {"look", "read", "reread", "name", "copy", "stat", "commit", "log"},
         j.at \in {"copy", "stat"} => j.what \notin {"inplace", "inplaceVault"},
         j.at \in {"copy", "stat", "commit"} /\ IsVault(j) => j.src = "still" /\ j.queue # <<>>,
         j.at \in {"copy", "stat", "commit"} \/ (j.at = "log" /\ ~IsVault(j)) => IdFits(j)
  PROVE  Fits(j)
<1>1. CASE FitsItem(o)
  <2>1. FitsItem(j)
    BY <1>1 DEF SameAll, FitsItem, IsVault
  <2> QED
    BY <2>1 DEF Fits
<1>2. CASE FitsVault(o)
  <2>1. j.what = "vault" \/ j.at \notin {"copy", "stat"}
    BY <1>2 DEF FitsVault, IsVault, SameAll
  <2>2. FitsVault(j)
    BY <1>2, <2>1 DEF SameAll, FitsVault, IsVault
  <2> QED
    BY <2>2 DEF Fits
<1> QED
  BY <1>1, <1>2 DEF Fits

LEMMA LookMoves ==
  ASSUME op \in [Windows -> Jobs], stamp \in Nat, NEW w \in Windows, Fits(op[w]), Look(w)
  PROVE  Shifts(w)
<1> DEFINE o == op[w]  to == IF seen[w] = stamp THEN "name" ELSE "read"
<1>1. o \in Jobs /\ o.at = "look" /\ op' = [op EXCEPT ![w].look = stamp, ![w].at = to]
  BY DEF Look
<1>2. to \in {"name", "read"}
  OBVIOUS
<1> HIDE DEF to
<1>3. op' \in [Windows -> Jobs]
  <2> DEFINE j == [o EXCEPT !.look = stamp, !.at = to]
  <2>1. j \in Jobs
    <3> HIDE DEF o
    <3> QED
      BY <1>1, <1>2 DEF Jobs, Ats
  <2>2. op' = [op EXCEPT ![w] = j]
    BY <1>1
  <2> HIDE DEF j
  <2> QED
    BY <2>1, <2>2
<1>4. SameAll(o, op'[w]) /\ op'[w].at = to
  BY <1>1 DEF Jobs, SameAll
<1>5. o # Idle
  BY <1>1 DEF Idle
<1>6. Fits(op'[w])
  BY <1>1, <1>2, <1>3, <1>4, <1>5, GoesOn
<1> QED
  BY <1>1, <1>3, <1>6 DEF Shifts, Only

LEMMA ReadMoves ==
  ASSUME op \in [Windows -> Jobs], NEW w \in Windows, Fits(op[w]), Read(w) \/ NoteRead(w)
  PROVE  Shifts(w)
<1> DEFINE o == op[w]
<1>1. PICK to \in {"reread", "name"} : op' = [op EXCEPT ![w].at = to]
  BY DEF Read, NoteRead, Step
<1>2. o \in Jobs /\ o.at \in {"read", "reread"}
  BY DEF Read, NoteRead
<1>3. op' \in [Windows -> Jobs]
  BY <1>1, <1>2 DEF Jobs, Ats
<1>4. SameAll(o, op'[w]) /\ op'[w].at = to
  BY <1>1, <1>2 DEF Jobs, SameAll
<1>5. o # Idle
  BY <1>2 DEF Idle
<1>6. Fits(op'[w])
  BY <1>2, <1>3, <1>4, <1>5, GoesOn
<1> QED
  BY <1>1, <1>3, <1>6 DEF Shifts, Only

LEMMA CopyMoves ==
  ASSUME op \in [Windows -> Jobs], live \in [Files -> Nat], NEW w \in Windows, Fits(op[w]), NEW f \in Files,
         CopyBegins(w, f) \/ CopyEnds(w) \/ StatAgain(w, f)
  PROVE  Shifts(w)
<1> DEFINE o == op[w]
<1>1. o \in Jobs /\ o.at \in {"copy", "stat"}
  BY DEF CopyBegins, CopyEnds, StatAgain
<1>2. o # Idle
  BY <1>1 DEF Idle
<1>3. CASE Failure(w)
  BY <1>2, <1>3, FailsMoves DEF Failure
<1>4. CASE ~Failure(w)
  <2>1. \A g \in Files : Content(o.src)[g] \in Nat
    BY NotFiles DEF Content
  <2>2. /\ op' \in [Windows -> Jobs] /\ SameAll(o, op'[w]) /\ op'[w].id = o.id
        /\ op'[w].at \in {"copy", "stat", "commit"} /\ \A v \in Windows \ {w} : op'[v] = op[v]
    <3>1. CASE CopyBegins(w, f)
      <4>1. op' = [op EXCEPT ![w].cur = f, ![w].before = Content(op[w].src)[f]]
        BY <1>4, <3>1 DEF CopyBegins
      <4>2. o.at = "copy"
        BY <3>1 DEF CopyBegins
      <4> QED
        BY <1>1, <2>1, <4>1, <4>2 DEF Jobs, SameAll
    <3>2. CASE CopyEnds(w)
      <4> DEFINE after == Content(o.src)[o.cur]  rest == o.todo \ {o.cur}
      <4>1. op' = [op EXCEPT ![w] =
                     [o EXCEPT !.cur = NoFile, !.before = 0, !.todo = rest, !.stats = [o.stats EXCEPT ![o.cur] = after],
                               !.moved = IF after = o.before THEN o.moved ELSE o.moved \cup {o.cur},
                               !.check = IF rest = {} THEN o.listed ELSE {},
                               !.at = IF rest = {} THEN "stat" ELSE "copy"]]
        BY <1>4, <3>2 DEF CopyEnds
      <4>2. o.cur \in Files
        BY <1>1, <3>2 DEF CopyEnds, Jobs
      <4>3. after \in Nat
        BY <2>1, <4>2
      <4> HIDE DEF after, rest
      <4>4. rest \subseteq Files
        BY <1>1 DEF rest, Jobs
      <4> DEFINE stats == [o.stats EXCEPT ![o.cur] = after]
                 moved == IF after = o.before THEN o.moved ELSE o.moved \cup {o.cur}
                 check == IF rest = {} THEN o.listed ELSE {}
                 at    == IF rest = {} THEN "stat" ELSE "copy"
                 j     == [o EXCEPT !.cur = NoFile, !.before = 0, !.todo = rest, !.stats = stats,
                                    !.moved = moved, !.check = check, !.at = at]
      <4>5. op' = [op EXCEPT ![w] = j]
        BY <4>1
      <4>6. /\ stats \in [Files -> Nat] /\ moved \subseteq Files /\ check \subseteq Files
            /\ at \in {"copy", "stat"}
        BY <1>1, <4>2, <4>3 DEF Jobs
      <4> HIDE DEF stats, moved, check, at
      <4>7. j \in Jobs
        BY <1>1, <4>4, <4>6 DEF Jobs, Ats
      <4>8. SameAll(o, j) /\ j.id = o.id /\ j.at = at
        BY <1>1 DEF Jobs, SameAll
      <4> QED
        BY <4>5, <4>6, <4>7, <4>8
    <3>3. CASE StatAgain(w, f)
      <4> DEFINE moved == IF SourceMoved(o, f) THEN o.moved \cup {f} ELSE o.moved
                 rest  == o.check \ {f}
      <4>1. op' = [op EXCEPT ![w].check = rest, ![w].moved = moved,
                                 ![w].at = IF rest = {} THEN "commit" ELSE "stat"]
        BY <1>4, <3>3 DEF StatAgain
      <4>2. rest \subseteq Files /\ moved \subseteq Files
        BY <1>1 DEF Jobs
      <4> HIDE DEF moved, rest
      <4> QED
        BY <1>1, <4>1, <4>2 DEF Jobs, SameAll, Ats
    <3> QED
      BY <3>1, <3>2, <3>3
  <2>3. IdFits(op'[w]) /\ (IsVault(op'[w]) => op'[w].src = "still" /\ op'[w].queue # <<>>)
    <3>1. IdFits(o) /\ (IsVault(o) => o.src = "still")
      BY <1>1, FitsGives
    <3>2. IsVault(o) => o.queue # <<>>
      BY <1>1, <1>2, FitsAs DEF FitsVault
    <3> QED
      BY <2>2, <3>1, <3>2 DEF SameAll, IdFits, IsVault
  <2>4. op'[w].what \notin {"inplace", "inplaceVault"}
    BY <1>1, <2>2, FitsGives DEF SameAll
  <2>5. Fits(op'[w])
    BY <1>1, <1>2, <2>2, <2>3, <2>4, GoesOn
  <2> QED
    BY <2>2, <2>5 DEF Shifts, Only
<1> QED
  BY <1>3, <1>4

LEMMA NewIdsFit ==
  ASSUME NEW w \in Windows, now \in Nat, op[w].what \in {"backup", "batch", "extract", "inplace"}, NEW id \in NewIds(w)
  PROVE  id \in IF op[w].what = "inplace" THEN PlaceIds ELSE CopiedIds
<1> DEFINE K == Cardinality(DOMAIN memory[w] \cup DOMAIN folders) + 1
<1>0. PICK n \in 1..K : id = <<KindOf(op[w].what), now, n>>
  BY DEF NewIds
<1> HIDE DEF K
<1>1. n \in Nat
  BY <1>0
<1> QED
  BY <1>0, <1>1 DEF KindOf, PlaceIds, CopiedIds

LEMMA NameMoves ==
  ASSUME op \in [Windows -> Jobs], now \in Nat, NEW w \in Windows, Fits(op[w]), Name(w)
  PROVE  Shifts(w)
<1> DEFINE o == op[w]
<1>0. o.at = "name"
  BY DEF Name
<1>1. o \in Jobs /\ o.at = "name" /\ o # Idle
  BY <1>0 DEF Idle
<1>2. CASE IsVault(o)
  <2> DEFINE n == Cardinality(SourceIds \ DOMAIN memory[w])
  <2>1. n \in Nat
    BY Constants, FS_Subset, FS_CardinalityType
  <2>2. PICK q \in [1..n -> SourceIds \ DOMAIN memory[w]] :
          op' = [op EXCEPT ![w].queue = q, ![w].asked = q, ![w].at = IF q = <<>> THEN "log" ELSE "place"]
    BY <1>2 DEF Name
  <2> HIDE DEF n
  <2>3. q \in Seq(SourceIds) /\ q \in Lists
    BY <2>1, <2>2 DEF Lists
  <2> DEFINE at == IF q = <<>> THEN "log" ELSE "place"
  <2>4. op' = [op EXCEPT ![w].queue = q, ![w].asked = q, ![w].at = at] /\ at \in {"log", "place"}
    BY <2>2
  <2>5. at = "place" => q # <<>>
    OBVIOUS
  <2> HIDE DEF at
  <2>6. op' \in [Windows -> Jobs]
    <3> DEFINE j == [o EXCEPT !.queue = q, !.asked = q, !.at = at]
    <3>1. j \in Jobs
      <4> HIDE DEF o
      <4> QED
        BY <1>1, <2>3, <2>4 DEF Jobs, Ats
    <3>2. op' = [op EXCEPT ![w] = j]
      BY <2>4
    <3> HIDE DEF j
    <3> QED
      BY <3>1, <3>2
  <2>7. op'[w].what = o.what /\ op'[w].queue = q /\ op'[w].at = at /\ \A v \in Windows \ {w} : op'[v] = op[v]
    BY <1>1, <2>4 DEF Jobs
  <2>8. FitsVault(op'[w])
    BY <1>2, <2>3, <2>4, <2>5, <2>7 DEF FitsVault, IsVault
  <2> QED
    BY <2>6, <2>7, <2>8 DEF Shifts, Only, Fits
<1>3. CASE ~IsVault(o)
  <2> DEFINE at == IF o.what = "inplace" THEN "commit" ELSE "mkdir"
  <2>1. PICK id \in NewIds(w) : op' = [op EXCEPT ![w].id = id, ![w].at = at]
    BY <1>3 DEF Name
  <2>2. FitsItem(o)
    BY <1>1, <1>3, FitsAs
  <2>3. o.what \in {"backup", "batch", "extract", "inplace"}
    BY <2>2 DEF FitsItem, EntryKinds, IsVault
  <2>4. id \in IF o.what = "inplace" THEN PlaceIds ELSE CopiedIds
    BY <2>3, NewIdsFit
  <2>5. id \in Ids
    BY <2>4 DEF Ids, PlaceIds, CopiedIds
  <2>6. at \in {"commit", "mkdir"} /\ (at = "mkdir" => o.what # "inplace")
    OBVIOUS
  <2> HIDE DEF at
  <2>7. op' \in [Windows -> Jobs]
    BY <1>1, <2>1, <2>5, <2>6 DEF Jobs, Ats
  <2>8. SameAll(o, op'[w]) /\ op'[w].id = id /\ op'[w].at = at /\ \A v \in Windows \ {w} : op'[v] = op[v]
    BY <1>1, <2>1 DEF Jobs, SameAll
  <2>9. FitsItem(op'[w])
    <3>1. IdFits(op'[w])
      BY <1>3, <2>4, <2>8 DEF IdFits, SameAll, IsVault
    <3> QED
      BY <1>1, <2>2, <2>6, <2>8, <3>1 DEF FitsItem, SameAll, IsVault
  <2> QED
    BY <2>7, <2>8, <2>9 DEF Shifts, Only, Fits
<1> QED
  BY <1>2, <1>3

LEMMA MkdirMoves ==
  ASSUME op \in [Windows -> Jobs], NEW w \in Windows, Fits(op[w]), Mkdir(w)
  PROVE  Shifts(w)
<1> DEFINE o == op[w]
<1>0. o.at = "mkdir"
  BY DEF Mkdir
<1>1. o \in Jobs /\ o.at = "mkdir" /\ o # Idle
  BY <1>0 DEF Idle
<1>2. CASE Failure(w)
  BY <1>1, <1>2, FailsMoves DEF Failure
<1>3. CASE ~Failure(w)
  <2> DEFINE todo  == IF o.what = "extract" THEN o.listed ELSE Present(o.src)
             check == IF todo = {} THEN o.listed ELSE {}
             at    == IF todo = {} THEN "stat" ELSE "copy"
  <2>1. op' = [op EXCEPT ![w].todo = todo, ![w].check = check, ![w].at = at]
    BY <1>3 DEF Mkdir
  <2>2. todo \subseteq Files /\ check \subseteq Files /\ at \in {"stat", "copy"}
    BY <1>1 DEF Jobs, Present
  <2> HIDE DEF todo, check, at
  <2>3. op' \in [Windows -> Jobs]
    <3> DEFINE j == [o EXCEPT !.todo = todo, !.check = check, !.at = at]
    <3>1. j \in Jobs
      <4> HIDE DEF o
      <4> QED
        BY <1>1, <2>2 DEF Jobs, Ats
    <3>2. op' = [op EXCEPT ![w] = j]
      BY <2>1
    <3> HIDE DEF j
    <3> QED
      BY <3>1, <3>2
  <2>4. SameAll(o, op'[w]) /\ op'[w].id = o.id /\ op'[w].at = at /\ \A v \in Windows \ {w} : op'[v] = op[v]
    BY <1>1, <2>1 DEF Jobs, SameAll
  <2>5. o.what \notin {"inplace", "inplaceVault"} /\ ~IsVault(o) /\ IdFits(o)
    BY <1>1, FitsGives
  <2>6. IdFits(op'[w]) /\ ~IsVault(op'[w]) /\ op'[w].what \notin {"inplace", "inplaceVault"}
    BY <2>4, <2>5 DEF IdFits, SameAll, IsVault
  <2>7. Fits(op'[w])
    BY <1>1, <2>2, <2>3, <2>4, <2>6, GoesOn
  <2> QED
    BY <2>3, <2>4, <2>7 DEF Shifts, Only
<1> QED
  BY <1>2, <1>3

LEMMA PlaceMoves ==
  ASSUME op \in [Windows -> Jobs], NEW w \in Windows, Fits(op[w]), Place(w)
  PROVE  Shifts(w)
<1> DEFINE o == op[w]  id == Head(o.queue)
<1>1. o \in Jobs /\ o.at = "place" /\ o # Idle
  BY DEF Place, Idle
<1>2. FitsVault(o)
  BY <1>1 DEF Fits, FitsItem
<1>3. o.queue \in Seq(SourceIds) /\ o.queue # <<>> /\ id \in SourceIds
  BY <1>1, <1>2, TailGives DEF FitsVault
<1>4. id \in Ids
  BY <1>3 DEF Ids
<1>5. Present("still") \subseteq Files
  BY DEF Present
<1> HIDE DEF id
<1>6. CASE o.what = "inplaceVault" \/ id \in DOMAIN folders
  <2>1. op' = [op EXCEPT ![w].id = id, ![w].src = "still", ![w].listed = Present("still"), ![w].at = "commit"]
    BY <1>6 DEF Place, id
  <2>2. op' \in [Windows -> Jobs]
    <3> DEFINE j == [o EXCEPT !.id = id, !.src = "still", !.listed = Present("still"), !.at = "commit"]
    <3>1. j \in Jobs
      <4> HIDE DEF o
      <4> QED
        BY <1>1, <1>4, <1>5 DEF Jobs, Ats, Srcs
    <3>2. op' = [op EXCEPT ![w] = j]
      BY <2>1
    <3> HIDE DEF j
    <3> QED
      BY <3>1, <3>2
  <2>3. /\ op'[w].what = o.what /\ op'[w].queue = o.queue /\ op'[w].id = id /\ op'[w].src = "still"
        /\ op'[w].at = "commit" /\ \A v \in Windows \ {w} : op'[v] = op[v]
    BY <1>1, <2>1 DEF Jobs
  <2>4. FitsVault(op'[w])
    BY <1>2, <1>3, <2>3 DEF FitsVault, IsVault, IdFits
  <2> QED
    BY <2>2, <2>3, <2>4 DEF Shifts, Only, Fits
<1>7. CASE ~(o.what = "inplaceVault" \/ id \in DOMAIN folders)
  <2>1. op' = [op EXCEPT ![w].id = id, ![w].src = "still", ![w].listed = Present("still"),
                         ![w].todo = Present("still"), ![w].at = "copy"]
    BY <1>7 DEF Place, id
  <2>2. op' \in [Windows -> Jobs]
    <3> DEFINE j == [o EXCEPT !.id = id, !.src = "still", !.listed = Present("still"), !.todo = Present("still"), !.at = "copy"]
    <3>1. j \in Jobs
      <4> HIDE DEF o
      <4> QED
        BY <1>1, <1>4, <1>5 DEF Jobs, Ats, Srcs
    <3>2. op' = [op EXCEPT ![w] = j]
      BY <2>1
    <3> HIDE DEF j
    <3> QED
      BY <3>1, <3>2
  <2>3. /\ op'[w].what = o.what /\ op'[w].queue = o.queue /\ op'[w].id = id /\ op'[w].src = "still"
        /\ op'[w].at = "copy" /\ \A v \in Windows \ {w} : op'[v] = op[v]
    BY <1>1, <2>1 DEF Jobs
  <2>4. o.what = "vault"
    BY <1>2, <1>7 DEF FitsVault, IsVault
  <2>5. FitsVault(op'[w])
    BY <1>3, <2>3, <2>4 DEF FitsVault, IsVault, IdFits
  <2> QED
    BY <2>2, <2>3, <2>5 DEF Shifts, Only, Fits
<1> QED
  BY <1>6, <1>7

\* The commit: an import goes on, the others write the log.
LEMMA MadeMoves ==
  ASSUME op \in [Windows -> Jobs], NEW w \in Windows, Fits(op[w]), op[w].at = "commit", Made(w)
  PROVE  Shifts(w)
<1> DEFINE o == op[w]  done == Append(o.done, [res |-> "made", id |-> o.id])
<1>1. o \in Jobs /\ o # Idle
  BY DEF Idle
<1>2. o.id \in Ids
  BY <1>1, FitsGives, FitsAs, IdsOf DEF FitsItem, FitsVault, IsVault, EntryKinds
<1>3. done \in Seq(Results)
  <2>1. [res |-> "made", id |-> o.id] \in Results
    BY <1>2 DEF Results
  <2> QED
    BY <1>1, <2>1 DEF Jobs
<1>4. CASE IsVault(o) /\ Len(o.queue) > 1
  <2> DEFINE j == [Idle EXCEPT !.what = o.what, !.at = "place", !.asked = o.asked, !.queue = Tail(o.queue), !.done = done]
  <2>1. op' = [op EXCEPT ![w] = j]
    BY <1>4 DEF Made
  <2>2. FitsVault(o)
    BY <1>1, <1>4, FitsAs
  <2>3. Tail(o.queue) \in Seq(SourceIds) /\ Tail(o.queue) # <<>> /\ Tail(o.queue) \in Lists
    <3>1. o.queue \in Seq(SourceIds) /\ o.queue # <<>>
      BY <2>2 DEF FitsVault
    <3>2. Tail(o.queue) \in Seq(SourceIds) /\ Tail(o.queue) # <<>>
      BY <1>4, <3>1, TailGives
    <3> QED
      BY <3>2 DEF Lists
  <2>4. o.what \in EntryKinds /\ o.asked \in Lists
    BY <1>1, <1>4 DEF IsVault, EntryKinds, Jobs
  <2> HIDE DEF done
  <2>5. j \in Jobs
    <3>1. Idle \in Jobs
      BY IdleFits
    <3> HIDE DEF o
    <3> QED
      BY <3>1, <1>3, <2>3, <2>4 DEF Jobs, Ats, Idle
  <2>6. j.what = o.what /\ j.at = "place" /\ j.queue = Tail(o.queue)
    BY DEF Idle
  <2>7. FitsVault(j)
    <3> HIDE DEF j
    <3> QED
      BY <1>4, <2>3, <2>6 DEF FitsVault, IsVault
  <2> QED
    BY <2>1, <2>5, <2>7, MovesTo DEF Fits
<1>5. CASE ~(IsVault(o) /\ Len(o.queue) > 1)
  <2> DEFINE d == IF IsVault(o) THEN done ELSE o.done
  <2>1. op' = [op EXCEPT ![w].at = "log", ![w].done = d]
    BY <1>5 DEF Made
  <2>2. d \in Seq(Results)
    BY <1>1, <1>3 DEF Jobs
  <2>3. IsVault(o) \/ d = o.done
    OBVIOUS
  <2> HIDE DEF d, done
  <2>4. op' \in [Windows -> Jobs]
    <3> DEFINE j == [o EXCEPT !.at = "log", !.done = d]
    <3>1. j \in Jobs
      <4> HIDE DEF o
      <4> QED
        BY <1>1, <2>2 DEF Jobs, Ats
    <3>2. op' = [op EXCEPT ![w] = j]
      BY <2>1
    <3> HIDE DEF j
    <3> QED
      BY <3>1, <3>2
  <2>5. /\ op'[w].what = o.what /\ op'[w].queue = o.queue /\ op'[w].src = o.src /\ op'[w].id = o.id
        /\ op'[w].asked = o.asked /\ op'[w].done = d /\ op'[w].at = "log" /\ \A v \in Windows \ {w} : op'[v] = op[v]
    BY <1>1, <2>1 DEF Jobs
  <2>6. CASE IsVault(o)
    <3>1. FitsVault(op'[w])
      BY <1>1, <2>5, <2>6, FitsAs DEF FitsVault, IsVault
    <3> QED
      BY <2>4, <2>5, <3>1 DEF Shifts, Only, Fits
  <2>7. CASE ~IsVault(o)
    <3>1. FitsItem(o)
      BY <1>1, <2>7, FitsAs
    <3>2. IdFits(op'[w])
      BY <2>5, <3>1 DEF FitsItem, IdFits, IsVault
    <3>3. FitsItem(op'[w])
      BY <2>3, <2>5, <2>7, <3>1, <3>2 DEF FitsItem, IsVault
    <3> QED
      BY <2>4, <2>5, <3>3 DEF Shifts, Only, Fits
  <2> QED
    BY <2>6, <2>7
<1> QED
  BY <1>4, <1>5

LEMMA LogMoves ==
  ASSUME op \in [Windows -> Jobs], NEW w \in Windows, Fits(op[w]), Log(w) \/ LogFails(w)
  PROVE  Shifts(w)
<1> DEFINE o == op[w]
<1>1. o \in Jobs /\ o.at = "log" /\ o # Idle
  BY DEF Log, LogFails, Idle
<1>2. CASE IsVault(o)
  <2>1. op' = [op EXCEPT ![w] = Idle]
    BY <1>2 DEF Log, LogFails, Finish
  <2> QED
    BY <2>1, IdleFits, MovesTo
<1>3. CASE ~IsVault(o)
  <2>1. ItemOver(w, [res |-> "made", id |-> o.id])
    BY <1>3 DEF Log, LogFails
  <2>2. [res |-> "made", id |-> o.id] \in Results
    BY <1>1 DEF Jobs, Results
  <2> QED
    BY <1>1, <2>1, <2>2, ItemOverMoves
<1> QED
  BY <1>2, <1>3

\* The steps of a window.
WindowStep(w) ==
  \/ Start(w) \/ List(w) \/ Look(w) \/ Read(w) \/ NoteRead(w) \/ Name(w) \/ Mkdir(w) \/ Place(w)
  \/ \E f \in Files : CopyBegins(w, f) \/ StatAgain(w, f)
  \/ CopyEnds(w) \/ Commit(w) \/ CommitFails(w) \/ Interrupt(w) \/ Error(w)
  \/ Log(w) \/ LogFails(w) \/ Crash(w)

LEMMA WindowMoves ==
  ASSUME op \in [Windows -> Jobs], live \in [Files -> Nat], stamp \in Nat, now \in Nat, NEW w \in Windows, Fits(op[w]),
         WindowStep(w)
  PROVE  Shifts(w)
<1>1. CASE Start(w) \/ List(w) \/ Look(w) \/ Read(w) \/ NoteRead(w) \/ Name(w) \/ Mkdir(w) \/ Place(w)
  BY <1>1, StartMoves, ListMoves, LookMoves, ReadMoves, NameMoves, MkdirMoves, PlaceMoves
<1>2. CASE \E f \in Files : CopyBegins(w, f) \/ StatAgain(w, f)
  BY <1>2, CopyMoves
<1>3. CASE CopyEnds(w)
  <2>1. op[w].cur \in Files
    BY <1>3 DEF CopyEnds, Jobs
  <2> QED
    BY <1>3, <2>1, CopyMoves
<1>4. CASE Commit(w)
  BY <1>4, MadeMoves DEF Commit
<1>5. CASE CommitFails(w) \/ Interrupt(w) \/ Error(w)
  <2>1. op[w] # Idle /\ Fails(w)
    BY <1>5 DEF CommitFails, Interrupt, Error, Failure, Idle
  <2> QED
    BY <2>1, FailsMoves
<1>6. CASE Log(w) \/ LogFails(w)
  BY <1>6, LogMoves
<1>7. CASE Crash(w)
  <2>1. op' = [op EXCEPT ![w] = Idle]
    BY <1>7 DEF Crash
  <2> QED
    BY <2>1, IdleFits, MovesTo
<1> QED
  BY <1>1, <1>2, <1>3, <1>4, <1>5, <1>6, <1>7 DEF WindowStep

-----------------------------------------------------------------------------
\* What a window's step does to the folders and the catalog.

Filling == {"copy", "stat", "commit"}

\* Nothing, or no more than the job's own folder.
Unstirred(w) ==
  /\ UNCHANGED <<folders, catalog, left, doubtful>>
  /\ Holds(w)' => Holds(w) /\ op'[w].id = op[w].id
  /\ Keeps(w) => Keeps(w)' /\ op'[w].id = op[w].id

Makes(w) ==
  LET id == op'[w].id IN
  /\ id \in Ids \ DOMAIN folders /\ folders' = Put(folders, id, NoFiles)
  /\ UNCHANGED <<catalog, left, doubtful>>
  /\ op'[w].at \in {"copy", "stat"} /\ Keeps(w)' /\ ~Keeps(w)
  /\ op[w].at \in {"mkdir", "place"}

TakesOver(w) ==
  /\ UNCHANGED <<folders, catalog, left>>
  /\ doubtful' = doubtful \cup {op'[w].id} /\ op'[w].id \in Ids
  /\ ~Holds(w)' /\ ~Keeps(w)

Copies(w) ==
  /\ op[w].at = "copy" /\ op'[w].at \in {"copy", "stat"} /\ op'[w].id = op[w].id /\ op'[w].what = op[w].what
  /\ \E x \in Nat \cup {Torn} : folders' = [folders EXCEPT ![op[w].id][op[w].cur] = x]
  /\ UNCHANGED <<catalog, left, doubtful>>
  /\ Holds(w)' /\ Holds(w) /\ Keeps(w)'

\* The job ends; a folder that stays is one that is known to be left.
Leaves(w) ==
  /\ \/ folders' = folders
     \/ folders' = Drop(folders, op[w].id) /\ HasMade(w)
  /\ left \subseteq left'
  /\ left' = left \/ (op[w].id \in Ids /\ left' \subseteq left \cup {op[w].id})
  /\ Keeps(w) => op[w].id \in left' \/ op[w].id \notin DOMAIN folders'
  /\ op'[w].at \notin Filling

GivesUp(w) == Leaves(w) /\ UNCHANGED <<catalog, doubtful>>

Enters(w) ==
  /\ op[w].at = "commit" /\ op'[w].at \notin Filling /\ op[w].id \in Ids
  /\ catalog' = Put(catalog, op[w].id, Entry(w)) /\ left' = left \ {op[w].id}
  /\ UNCHANGED <<folders, doubtful>>

IsCut(w) ==
  /\ op[w].at = "commit" /\ op[w].id \in Ids
  /\ catalog' = Put(catalog, op[w].id, Entry(w)) /\ doubtful' = doubtful \cup {op[w].id}
  /\ Leaves(w)

LEMMA EndsOutside ==
  ASSUME op \in [Windows -> Jobs], NEW w \in Windows, NEW r, ItemOver(w, r) \/ Finish(w, r)
  PROVE  op'[w].at \notin Filling
<1>1. CASE op' = [op EXCEPT ![w] = Idle]
  BY <1>1 DEF Idle, Filling
<1>2. CASE op' # [op EXCEPT ![w] = Idle]
  <2> DEFINE j == [Idle EXCEPT !.what = "batch", !.at = "list", !.queue = Tail(op[w].queue), !.asked = op[w].asked,
                               !.done = Append(op[w].done, r)]
  <2>1. op' = [op EXCEPT ![w] = j]
    BY <1>2 DEF ItemOver, Finish
  <2>2. j.at = "list"
    BY DEF Idle
  <2> QED
    BY <2>1, <2>2 DEF Filling
<1> QED
  BY <1>1, <1>2

LEMMA FailsLeaves ==
  ASSUME op \in [Windows -> Jobs], NEW w \in Windows, Fits(op[w]), op[w] # Idle, Fails(w)
  PROVE  Leaves(w)
<1> DEFINE o == op[w]
<1>1. op'[w].at \notin Filling
  <2>1. ItemOver(w, [res |-> "failed", id |-> <<>>])
    BY DEF Fails
  <2> QED
    BY <2>1, EndsOutside
<1>2. o \in Jobs /\ (HasMade(w) \/ (IsVault(o) /\ o.at = "commit") => o.id \in Ids)
  <2>1. o \in Jobs
    OBVIOUS
  <2>2. o.at \in {"copy", "stat", "commit"} => IdFits(o) /\ o.what \in EntryKinds
    BY <2>1, FitsGives, FitsAs DEF FitsItem, FitsVault, IsVault, EntryKinds
  <2>3. o.at \in {"copy", "stat", "commit"} => o.id \in Ids
    BY <2>1, <2>2, IdsOf
  <2> QED
    BY <2>1, <2>3 DEF HasMade
<1>3. CASE HasMade(w)
  <2>1. \/ folders' = Drop(folders, o.id) /\ left' = left
        \/ folders' = folders /\ left' = left \cup {o.id}
    BY <1>3 DEF Fails
  <2>2. CASE folders' = folders /\ left' = left \cup {o.id}
    BY <1>1, <1>2, <1>3, <2>2 DEF Leaves
  <2>3. CASE folders' = Drop(folders, o.id) /\ left' = left
    <3>1. o.id \notin DOMAIN folders'
      <4>1. DOMAIN Drop(folders, o.id) = DOMAIN folders \ {o.id}
        BY DropGives
      <4>2. o.id \notin DOMAIN Drop(folders, o.id)
        BY <4>1
      <4> QED
        BY <2>3, <4>2
    <3> QED
      BY <1>1, <1>2, <1>3, <2>3, <3>1 DEF Leaves
  <2> QED
    BY <2>1, <2>2, <2>3
<1>4. CASE ~HasMade(w)
  BY <1>1, <1>2, <1>4 DEF Fails, Leaves, Keeps
<1> QED
  BY <1>3, <1>4

LEMMA StepKinds ==
  ASSUME op \in [Windows -> Jobs], live \in [Files -> Nat], now \in Nat, stamp \in Nat,
         NEW w \in Windows, Fits(op[w]), WindowStep(w), op[w].at = "copy" => op[w].id \in DOMAIN folders
  PROVE  Unstirred(w) \/ Makes(w) \/ TakesOver(w) \/ Copies(w) \/ GivesUp(w) \/ Enters(w) \/ IsCut(w)
<1> DEFINE o == op[w]
<1>0. o \in Jobs /\ Shifts(w)
  BY WindowMoves
<1>1. CASE Failure(w) /\ o # Idle
  BY <1>0, <1>1, FailsLeaves DEF Failure, GivesUp
<1>2. CASE Start(w)
  <2>1. o.at = "idle" /\ UNCHANGED <<folders, catalog, left, doubtful>>
    <3>1. \E what, q : Begin(w, what, q)
      BY <1>2 DEF Start
    <3> QED
      BY <3>1 DEF Begin, Idle, disk
  <2>2. op'[w].at \in {"look", "list"}
    <3>1. PICK what, q : Begin(w, what, q)
      BY <1>2 DEF Start
    <3> DEFINE j == [Idle EXCEPT !.what = what, !.queue = q, !.asked = q,
                                 !.at = IF what = "vault" \/ what = "inplaceVault" THEN "look" ELSE "list"]
    <3>2. op' = [op EXCEPT ![w] = j]
      BY <3>1 DEF Begin
    <3>3. j.at \in {"look", "list"}
      BY DEF Idle
    <3> QED
      BY <3>2, <3>3
  <2> QED
    BY <2>1, <2>2 DEF Unstirred, Holds, Keeps, HasMade
<1>3. CASE List(w)
  <2>1. o.at = "list" /\ UNCHANGED <<folders, catalog, left, doubtful>>
    BY <1>3 DEF List, disk
  <2>2. op'[w].at \notin Filling
    <3>1. CASE \E r : ItemOver(w, r)
      BY <3>1, EndsOutside
    <3>2. CASE ~\E r : ItemOver(w, r)
      <4> DEFINE src == Head(o.queue)  files == IF o.what = "extract" THEN Pairs(src) ELSE Present(src)
      <4>1. op' = [op EXCEPT ![w].src = src, ![w].listed = files, ![w].at = "look"]
        BY <1>3, <3>2 DEF List
      <4> HIDE DEF src, files
      <4>2. op'[w].at = "look"
        BY <1>0, <4>1 DEF Jobs
      <4> QED
        BY <4>2 DEF Filling
    <3> QED
      BY <3>1, <3>2
  <2> QED
    BY <2>1, <2>2 DEF Unstirred, Holds, Keeps, HasMade, Filling
<1>4. CASE Look(w) \/ Read(w) \/ NoteRead(w)
  <2>1. o.at \in {"look", "read", "reread"} /\ UNCHANGED <<folders, catalog, left, doubtful>>
    BY <1>4 DEF Look, Read, NoteRead, disk
  <2>2. op'[w].at \in {"name", "read", "reread"}
    <3>1. CASE Look(w)
      BY <1>0, <3>1 DEF Look, Jobs
    <3>2. CASE Read(w) \/ NoteRead(w)
      BY <1>0, <3>2 DEF Read, NoteRead, Step, Jobs
    <3> QED
      BY <1>4, <3>1, <3>2
  <2> QED
    BY <2>1, <2>2 DEF Unstirred, Holds, Keeps, HasMade
<1>5. CASE Name(w)
  <2>1. o.at = "name" /\ UNCHANGED <<folders, catalog, left, doubtful>>
    BY <1>5 DEF Name, disk
  <2>2. op'[w].at \in {"log", "place", "mkdir"} \/ (op'[w].at = "commit" /\ op'[w].what = "inplace")
    <3>1. CASE IsVault(o)
      <4>1. \E q : op' = [op EXCEPT ![w].queue = q, ![w].asked = q, ![w].at = IF q = <<>> THEN "log" ELSE "place"]
        BY <1>5, <3>1 DEF Name
      <4> QED
        BY <4>1
    <3>2. CASE ~IsVault(o)
      <4>1. \E id : op' = [op EXCEPT ![w].id = id, ![w].at = IF o.what = "inplace" THEN "commit" ELSE "mkdir"]
        BY <1>5, <3>2 DEF Name
      <4> QED
        BY <1>0, <4>1 DEF Jobs
    <3> QED
      BY <3>1, <3>2
  <2> QED
    BY <2>1, <2>2 DEF Unstirred, Holds, Keeps, HasMade
<1>6. CASE Mkdir(w) /\ ~Failure(w)
  <2>1. /\ o.at = "mkdir" /\ o.id \notin DOMAIN folders /\ folders' = Put(folders, o.id, NoFiles)
        /\ UNCHANGED <<catalog, left, doubtful>>
    BY <1>6 DEF Mkdir
  <2>2. op'[w].at \in {"copy", "stat"} /\ op'[w].id = o.id /\ op'[w].what = o.what
    <3> DEFINE todo  == IF o.what = "extract" THEN o.listed ELSE Present(o.src)
               check == IF todo = {} THEN o.listed ELSE {}
               at    == IF todo = {} THEN "stat" ELSE "copy"
    <3>1. op' = [op EXCEPT ![w].todo = todo, ![w].check = check, ![w].at = at]
      BY <1>6 DEF Mkdir
    <3>2. at \in {"stat", "copy"}
      OBVIOUS
    <3> HIDE DEF todo, check, at
    <3> QED
      BY <1>0, <3>1, <3>2 DEF Jobs
  <2>3. o.what # "inplace" /\ o.id \in Ids /\ o # Idle
    BY <1>0, <2>1, FitsGives, FitsAs, IdsOf DEF FitsItem, Idle
  <2> QED
    BY <2>1, <2>2, <2>3 DEF Makes, Keeps, HasMade, IsVault
<1>7. CASE Place(w)
  <2> DEFINE id == Head(o.queue)
  <2>1. o.at = "place" /\ o # Idle
    BY <1>7 DEF Place, Idle
  <2>2. FitsVault(o) /\ o.queue # <<>>
    BY <1>0, <2>1 DEF Fits, FitsItem, FitsVault
  <2>3. id \in Ids
    BY <2>2, TailGives DEF FitsVault, Ids
  <2> HIDE DEF id
  <2>4. CASE o.what = "inplaceVault" \/ id \in DOMAIN folders
    <3>1. op'[w].id = id /\ op'[w].at = "commit" /\ op'[w].what = o.what
      <4>1. op' = [op EXCEPT ![w].id = id, ![w].src = "still", ![w].listed = Present("still"), ![w].at = "commit"]
        BY <1>7, <2>4 DEF Place, id
      <4> QED
        BY <1>0, <4>1 DEF Jobs
    <3>2. /\ UNCHANGED <<folders, catalog, left>>
          /\ doubtful' = IF o.what = "vault" THEN doubtful \cup {id} ELSE doubtful
      BY <1>7, <2>4 DEF Place, id
    <3>3. CASE o.what = "vault"
      BY <2>1, <2>3, <3>1, <3>2, <3>3 DEF TakesOver, Holds, Keeps, HasMade
    <3>4. CASE o.what # "vault"
      <4>1. o.what = "inplaceVault"
        BY <2>2, <3>4 DEF FitsVault, IsVault
      <4> QED
        BY <2>1, <3>1, <3>2, <4>1 DEF Unstirred, Holds, Keeps, HasMade
    <3> QED
      BY <3>3, <3>4
  <2>5. CASE ~(o.what = "inplaceVault" \/ id \in DOMAIN folders)
    <3>1. op'[w].id = id /\ op'[w].at = "copy" /\ op'[w].what = o.what
      <4>1. op' = [op EXCEPT ![w].id = id, ![w].src = "still", ![w].listed = Present("still"),
                         ![w].todo = Present("still"), ![w].at = "copy"]
        BY <1>7, <2>5 DEF Place, id
      <4> QED
        BY <1>0, <4>1 DEF Jobs
    <3>2. folders' = Put(folders, id, NoFiles) /\ UNCHANGED <<catalog, left, doubtful>>
      BY <1>7, <2>5 DEF Place, id
    <3> QED
      BY <2>1, <2>2, <2>3, <2>5, <3>1, <3>2 DEF Makes, Keeps, HasMade, FitsVault, IsVault
  <2> QED
    BY <2>4, <2>5
<1>8. CASE ~Failure(w) /\ \E f \in Files : CopyBegins(w, f) \/ StatAgain(w, f)
  <2>1. PICK f \in Files : CopyBegins(w, f) \/ StatAgain(w, f)
    BY <1>8
  <2>2. o.at \in {"copy", "stat"} /\ UNCHANGED <<folders, catalog, left, doubtful>>
    BY <1>8, <2>1 DEF CopyBegins, StatAgain, disk
  <2>3. op'[w].at \in Filling /\ op'[w].id = o.id /\ op'[w].what = o.what
    <3>1. CASE CopyBegins(w, f)
      <4>1. op' = [op EXCEPT ![w].cur = f, ![w].before = Content(op[w].src)[f]] /\ o.at = "copy"
        BY <1>8, <3>1 DEF CopyBegins
      <4> QED
        BY <1>0, <4>1 DEF Jobs, Filling
    <3>2. CASE StatAgain(w, f)
      <4> DEFINE moved == IF SourceMoved(o, f) THEN o.moved \cup {f} ELSE o.moved
                 rest  == o.check \ {f}
                 at    == IF rest = {} THEN "commit" ELSE "stat"
      <4>1. op' = [op EXCEPT ![w].check = rest, ![w].moved = moved, ![w].at = at] /\ o.at = "stat"
        BY <1>8, <3>2 DEF StatAgain
      <4>2. at \in {"commit", "stat"}
        OBVIOUS
      <4> HIDE DEF moved, rest, at
      <4> QED
        BY <1>0, <4>1, <4>2 DEF Jobs, Filling
    <3> QED
      BY <2>1, <3>1, <3>2
  <2>4. o.what \notin {"inplace", "inplaceVault"}
    BY <1>0, <2>2, FitsGives
  <2>5. Holds(w) /\ Keeps(w)'
    BY <2>2, <2>3, <2>4 DEF Holds, Keeps, HasMade, IsVault, Filling
  <2> QED
    BY <2>2, <2>3, <2>5 DEF Unstirred
<1>9. CASE CopyEnds(w) /\ ~Failure(w)
  <2>1. o.at = "copy" /\ UNCHANGED <<catalog, left, doubtful>>
    BY <1>9 DEF CopyEnds
  <2>2. \E x \in Nat \cup {Torn} : folders' = [folders EXCEPT ![o.id][o.cur] = x]
    <3>1. o.cur \in Files
      BY <1>0, <1>9 DEF CopyEnds, Jobs
    <3>2. Content(o.src)[o.cur] \in Nat
      BY <3>1, NotFiles DEF Content
    <3>3. folders' = [folders EXCEPT ![o.id][o.cur] = IF Content(o.src)[o.cur] = o.before THEN Content(o.src)[o.cur] ELSE Torn]
      BY <1>9 DEF CopyEnds
    <3> QED
      BY <3>2, <3>3
  <2>3. op'[w].at \in {"copy", "stat"} /\ op'[w].id = o.id /\ op'[w].what = o.what
    <3> DEFINE after == Content(o.src)[o.cur]
               rest  == o.todo \ {o.cur}
               stats == [o.stats EXCEPT ![o.cur] = after]
               moved == IF after = o.before THEN o.moved ELSE o.moved \cup {o.cur}
               check == IF rest = {} THEN o.listed ELSE {}
               at    == IF rest = {} THEN "stat" ELSE "copy"
               j     == [o EXCEPT !.cur = NoFile, !.before = 0, !.todo = rest, !.stats = stats,
                                  !.moved = moved, !.check = check, !.at = at]
    <3>1. op' = [op EXCEPT ![w] = j]
      BY <1>9 DEF CopyEnds
    <3>2. at \in {"copy", "stat"}
      OBVIOUS
    <3> HIDE DEF after, rest, stats, moved, check, at
    <3>3. j.at = at /\ j.id = o.id /\ j.what = o.what
      BY <1>0 DEF Jobs
    <3> HIDE DEF j
    <3> QED
      BY <3>1, <3>2, <3>3
  <2>4. o.what \notin {"inplace", "inplaceVault"}
    BY <1>0, <2>1, FitsGives
  <2> QED
    BY <2>1, <2>2, <2>3, <2>4 DEF Copies, Holds, Keeps, HasMade
<1>10. CASE Commit(w)
  <2>1. o.at = "commit" /\ o # Idle
    BY <1>10 DEF Commit, Idle
  <2>2. o.id \in Ids
    BY <1>0, <2>1, FitsGives, FitsAs, IdsOf DEF FitsItem, FitsVault, IsVault, EntryKinds
  <2>3. op'[w].at \notin Filling
    <3> DEFINE done == Append(o.done, [res |-> "made", id |-> o.id])
               j == [Idle EXCEPT !.what = o.what, !.at = "place", !.asked = o.asked, !.queue = Tail(o.queue), !.done = done]
               d == IF IsVault(o) THEN done ELSE o.done
    <3>1. op' = [op EXCEPT ![w] = j] \/ op' = [op EXCEPT ![w].at = "log", ![w].done = d]
      BY <1>10 DEF Commit, Made
    <3> HIDE DEF done, d
    <3>2. j.at = "place"
      BY DEF Idle
    <3> HIDE DEF j
    <3> QED
      BY <1>0, <3>1, <3>2 DEF Filling, Jobs
  <2> QED
    BY <1>10, <2>1, <2>2, <2>3 DEF Commit, Enters, Reloaded
<1>11. CASE CommitFails(w)
  <2>1. o # Idle
    BY <1>11 DEF CommitFails, Idle
  <2> QED
    BY <1>11, <2>1, FailsLeaves DEF CommitFails, GivesUp
<1>12. CASE Interrupt(w)
  <2>1. o.at = "commit" /\ o # Idle
    BY <1>12 DEF Interrupt, Idle
  <2>2. o.id \in Ids
    BY <1>0, <2>1, FitsGives, FitsAs, IdsOf DEF FitsItem, FitsVault, IsVault, EntryKinds
  <2> QED
    BY <1>12, <2>1, <2>2, FailsLeaves DEF Interrupt, IsCut, Reloaded
<1>13. CASE Error(w)
  BY <1>0, <1>13, FailsLeaves DEF Error, Failure, GivesUp, Idle
<1>14. CASE Log(w) \/ LogFails(w)
  <2>1. o.at = "log" /\ UNCHANGED <<folders, catalog, left, doubtful>>
    BY <1>14 DEF Log, LogFails, disk
  <2>2. op'[w].at \notin Filling
    BY <1>14, EndsOutside DEF Log, LogFails
  <2> QED
    BY <2>1, <2>2 DEF Unstirred, Holds, Keeps, HasMade, Filling
<1>15. CASE Crash(w)
  <2>1. o # Idle /\ op'[w] = Idle /\ UNCHANGED <<folders, catalog, doubtful>>
    BY <1>15 DEF Crash
  <2>2. left' = IF Keeps(w) THEN left \cup {o.id} ELSE left
    BY <1>15 DEF Crash, Keeps
  <2>3. Keeps(w) => o.id \in Ids
    <3>1. Keeps(w) => o.at \in {"copy", "stat", "commit"}
      BY DEF Keeps, HasMade
    <3>2. o.at \in {"copy", "stat", "commit"} => IdFits(o) /\ o.what \in EntryKinds
      BY <1>0, <2>1, FitsGives, FitsAs DEF FitsItem, FitsVault, IsVault, EntryKinds
    <3> QED
      BY <1>0, <3>1, <3>2, IdsOf
  <2>4. op'[w].at \notin Filling
    BY <2>1 DEF Idle, Filling
  <2> QED
    BY <2>1, <2>2, <2>3, <2>4 DEF GivesUp, Leaves
<1>16. CASE o # Idle
  BY <1>1, <1>2, <1>3, <1>4, <1>5, <1>6, <1>7, <1>8, <1>9, <1>10, <1>11, <1>12, <1>13, <1>14, <1>15, <1>16 DEF WindowStep
<1>17. CASE o = Idle
  <2>1. Start(w)
    BY <1>17 DEF WindowStep, List, Look, Read, NoteRead, Name, Mkdir, Place, CopyBegins, StatAgain, CopyEnds, Commit,
                 CommitFails, Interrupt, Error, Log, LogFails, Crash, Idle
  <2> QED
    BY <1>2, <2>1
<1> QED
  BY <1>16, <1>17

-----------------------------------------------------------------------------
\* Each kind of step keeps a folder with its maker, entries whole and folders accounted for.

LEMMA Makers ==
  ASSUME NEW w \in Windows, op[w] \in Jobs, Fits(op[w])
  PROVE  /\ HasMade(w) => Holds(w)
         /\ op[w].at \in {"copy", "stat"} => Holds(w)
         /\ op[w].at = "commit" /\ Entry(w).managed => Holds(w) \/ op[w].id \in doubtful
         /\ op[w].at = "commit" /\ Entry(w).managed => op[w].id \in CopiedIds \cup SourceIds
         /\ op[w].at = "commit" /\ op[w].what = "vault" => op[w].id \in SourceIds
         /\ op[w].at = "commit" /\ op[w].what # "vault" /\ Entry(w).managed => Holds(w)
         /\ op[w].at = "commit" /\ op[w].what = "inplaceVault" => op[w].id \in SourceIds
         /\ op[w].at = "commit" /\ op[w].what = "inplace" => op[w].id \in PlaceIds
<1> DEFINE o == op[w]
<1>1. o.at \in {"copy", "stat"} => o.what \notin {"inplace", "inplaceVault"}
  BY FitsGives
<1>2. o.at \in {"copy", "stat", "commit"} => IdFits(o) /\ o.what \in EntryKinds
  BY FitsGives, FitsAs DEF FitsItem, FitsVault, IsVault, EntryKinds
<1>3. o.at \in {"copy", "stat"} => Holds(w)
  BY <1>1 DEF Holds
<1>4. HasMade(w) => Holds(w)
  <2>1. HasMade(w) => o.at \in {"copy", "stat"} \/ (o.at = "commit" /\ ~IsVault(o) /\ o.what # "inplace")
    BY DEF HasMade
  <2> QED
    BY <1>3, <2>1 DEF Holds, IsVault
<1>5. Entry(w).managed <=> o.what \notin {"inplace", "inplaceVault"}
  BY DEF Entry
<1>6. o.at = "commit" /\ Entry(w).managed => Holds(w) \/ (o.what = "vault" /\ o.id \in doubtful)
  BY <1>5 DEF Holds
<1>7. o.at = "commit" /\ Entry(w).managed => o.id \in CopiedIds \cup SourceIds
  BY <1>2, <1>5 DEF IdFits, IsVault, EntryKinds
<1>8. /\ o.at = "commit" /\ o.what \in {"vault", "inplaceVault"} => o.id \in SourceIds
      /\ o.at = "commit" /\ o.what = "inplace" => o.id \in PlaceIds
  BY <1>2 DEF IdFits, IsVault
<1> QED
  BY <1>3, <1>4, <1>6, <1>7, <1>8

\* A step of one window, seen from the others.
OwnStep(w) ==
  /\ WindowStep(w) /\ Shifts(w)
  /\ Unstirred(w) \/ Makes(w) \/ TakesOver(w) \/ Copies(w) \/ GivesUp(w) \/ Enters(w) \/ IsCut(w)

LEMMA OthersHold ==
  ASSUME Sure, NEW w \in Windows, OwnStep(w), NEW v \in Windows \ {w}
  PROVE  /\ op'[v] = op[v] /\ doubtful \subseteq doubtful'
         /\ Holds(v)' => Holds(v) /\ (Keeps(v) => Keeps(v)')
         /\ Keeps(v) => Keeps(v)'
<1>1. op'[v] = op[v]
  BY DEF OwnStep, Shifts, Only
<1>2. doubtful \subseteq doubtful'
  BY DEF OwnStep, Unstirred, Makes, TakesOver, Copies, GivesUp, Enters, IsCut
<1> QED
  BY <1>1, <1>2 DEF Holds, Keeps, HasMade, IsVault

LEMMA HoldersFolder ==
  ASSUME Sure, NEW w \in Windows, OwnStep(w), NEW v \in Windows \ {w}, Holds(v)
  PROVE  op[v].id \in DOMAIN folders' /\ folders'[op[v].id] = folders[op[v].id]
<1>1. op[v].id \in DOMAIN folders /\ (Holds(w) => op[w].id # op[v].id)
  BY DEF Sure, Owned
<1>2. CASE Unstirred(w) \/ TakesOver(w) \/ Enters(w) \/ folders' = folders
  BY <1>1, <1>2 DEF Unstirred, TakesOver, Enters
<1>3. CASE Makes(w)
  <2>1. PICK id : id \notin DOMAIN folders /\ folders' = Put(folders, id, NoFiles)
    BY <1>3 DEF Makes
  <2>2. /\ DOMAIN Put(folders, id, NoFiles) = DOMAIN folders \cup {id}
        /\ \A z \in DOMAIN folders \ {id} : Put(folders, id, NoFiles)[z] = folders[z]
    BY DEF Put
  <2> QED
    BY <1>1, <2>1, <2>2
<1>4. CASE Copies(w)
  BY <1>1, <1>4 DEF Copies
<1>5. CASE folders' = Drop(folders, op[w].id) /\ HasMade(w)
  <2>1. Holds(w)
    BY <1>5, Makers DEF Sure, Typed
  <2>2. /\ DOMAIN Drop(folders, op[w].id) = DOMAIN folders \ {op[w].id}
        /\ \A z \in DOMAIN folders \ {op[w].id} : Drop(folders, op[w].id)[z] = folders[z]
    BY DropGives
  <2> QED
    BY <1>1, <1>5, <2>1, <2>2
<1> QED
  BY <1>2, <1>3, <1>4, <1>5 DEF OwnStep, GivesUp, IsCut, Leaves

LEMMA OwnedKept ==
  ASSUME Sure, NEW w \in Windows, OwnStep(w), NEW v \in Windows
  PROVE  Owned(v)'
<1>0. \A x \in Windows : Owned(x) /\ Fits(op[x]) /\ op[x] \in Jobs
  BY DEF Sure, Typed
<1>1. \A x \in Windows \ {w} : op'[x] = op[x] /\ doubtful \subseteq doubtful' /\ (Holds(x)' => Holds(x))
  BY OthersHold
<1>2. \A x \in Windows \ {w} : Holds(x) => op[x].id \in DOMAIN folders'
  BY HoldersFolder
<1>3. ASSUME \A x \in Windows : Holds(x)' => Holds(x) /\ op'[x].id = op[x].id,
             Holds(w)' => op[w].id \in DOMAIN folders',
             \A x \in Windows : Holds(x)' /\ op[x].id \in DOMAIN catalog' /\ catalog'[op[x].id].managed
                                  => op[x].id \in doubtful'
      PROVE  Owned(v)'
  BY <1>0, <1>1, <1>2, <1>3 DEF Owned
<1>4. CASE Unstirred(w)
  <2>1. Holds(w)' => Holds(w) /\ op'[w].id = op[w].id
    BY <1>4 DEF Unstirred
  <2> QED
    BY <1>0, <1>1, <1>3, <1>4, <2>1 DEF Unstirred, Owned
<1>5. CASE Makes(w)
  <2> DEFINE id == op'[w].id
  <2>1. id \notin DOMAIN folders /\ DOMAIN folders' = DOMAIN folders \cup {id} /\ catalog' = catalog /\ doubtful' = doubtful
    <3>1. DOMAIN Put(folders, id, NoFiles) = DOMAIN folders \cup {id}
      BY DEF Put
    <3> QED
      BY <1>5, <3>1 DEF Makes
  <2>2. id \in DOMAIN catalog /\ catalog[id].managed => id \in doubtful
    BY <2>1 DEF Sure, Listed, EntriesAreWhole, IsWhole
  <2>3. \A x \in Windows \ {w} : Holds(x)' => op'[x].id # id /\ op'[x].id = op[x].id
    BY <1>0, <1>1, <2>1 DEF Owned
  <2>4. CASE v = w
    BY <2>1, <2>2, <2>3, <2>4 DEF Owned
  <2>5. CASE v # w
    <3>1. Holds(v)' => Holds(v) /\ op'[v].id = op[v].id
      BY <1>1, <2>5
    <3> QED
      BY <1>0, <1>1, <2>1, <2>3, <2>5, <3>1 DEF Owned
  <2> QED
    BY <2>4, <2>5
<1>6. CASE TakesOver(w)
  BY <1>0, <1>1, <1>3, <1>6 DEF TakesOver, Owned
<1>7. CASE Copies(w)
  BY <1>0, <1>1, <1>3, <1>7 DEF Copies, Owned
<1>8. CASE GivesUp(w)
  <2>1. ~Holds(w)'
    BY <1>8 DEF GivesUp, Leaves, Holds, Filling
  <2> QED
    BY <1>0, <1>1, <1>3, <1>8, <2>1 DEF GivesUp, Owned
<1>9. CASE Enters(w) \/ IsCut(w)
  <2> DEFINE id == op[w].id
  <2>1. ~Holds(w)'
    BY <1>9 DEF Enters, IsCut, Leaves, Holds, Filling
  <2>2. catalog' = Put(catalog, id, Entry(w)) /\ op[w].at = "commit"
    BY <1>9 DEF Enters, IsCut
  <2>7. /\ DOMAIN Put(catalog, id, Entry(w)) = DOMAIN catalog \cup {id} /\ Put(catalog, id, Entry(w))[id] = Entry(w)
        /\ \A z \in DOMAIN catalog \ {id} : Put(catalog, id, Entry(w))[z] = catalog[z]
    BY DEF Put
  <2>3. ASSUME NEW x \in Windows, Holds(x)', op[x].id \in DOMAIN catalog', catalog'[op[x].id].managed
        PROVE  op[x].id \in doubtful'
    <3>1. x # w /\ Holds(x) /\ op'[x] = op[x] /\ doubtful \subseteq doubtful'
      BY <1>1, <2>1, <2>3
    <3>2. CASE op[x].id = id
      <4>1. Entry(w).managed
        BY <2>2, <2>3, <3>2, <2>7
      <4>2. ~Holds(w)
        BY <1>0, <3>1, <3>2 DEF Owned
      <4> QED
        BY <1>0, <2>2, <3>1, <3>2, <4>1, <4>2, Makers
    <3>3. CASE op[x].id # id
      <4>1. op[x].id \in DOMAIN catalog /\ catalog[op[x].id].managed
        BY <2>2, <2>3, <3>3, <2>7
      <4> QED
        BY <1>0, <3>1, <4>1 DEF Owned
    <3> QED
      BY <3>2, <3>3
  <2> QED
    BY <1>1, <1>3, <2>1, <2>3
<1> QED
  BY <1>4, <1>5, <1>6, <1>7, <1>8, <1>9 DEF OwnStep

\* A change of the catalog puts one entry in and leaves the others as they are.
LEMMA Changed ==
  ASSUME NEW w \in Windows, Enters(w) \/ IsCut(w)
  PROVE  /\ op[w].at = "commit" /\ op[w].id \in Ids
         /\ DOMAIN catalog' = DOMAIN catalog \cup {op[w].id} /\ catalog'[op[w].id] = Entry(w)
         /\ \A i \in DOMAIN catalog \ {op[w].id} : catalog'[i] = catalog[i]
<1>1. catalog' = Put(catalog, op[w].id, Entry(w)) /\ op[w].at = "commit" /\ op[w].id \in Ids
  BY DEF Enters, IsCut
<1> QED
  BY <1>1 DEF Put

LEMMA ChangesCatalog ==
  ASSUME NEW w \in Windows, OwnStep(w)
  PROVE  catalog' = catalog \/ Enters(w) \/ IsCut(w)
  BY DEF OwnStep, Unstirred, Makes, TakesOver, Copies, GivesUp

LEMMA CatalogGrows ==
  ASSUME NEW w \in Windows, OwnStep(w)
  PROVE  DOMAIN catalog \subseteq DOMAIN catalog'
<1>1. CASE catalog' = catalog
  BY <1>1
<1>2. CASE Enters(w) \/ IsCut(w)
  BY <1>2, Changed
<1> QED
  BY <1>1, <1>2, ChangesCatalog

\* A folder with a whole entry is touched by no step.
LEMMA WholeStays ==
  ASSUME Sure, NEW w \in Windows, OwnStep(w),
         NEW i \in DOMAIN catalog, catalog[i].managed, i \notin doubtful
  PROVE  i \in DOMAIN folders' /\ folders'[i] = folders[i]
<1>1. i \in DOMAIN folders
  BY DEF Sure, Listed, EntriesAreWhole, IsWhole
<1>2. Holds(w) => op[w].id # i
  BY DEF Sure, Owned
<1>3. CASE folders' = folders
  BY <1>1, <1>3
<1>4. CASE Makes(w)
  <2>1. PICK id : id \notin DOMAIN folders /\ folders' = Put(folders, id, NoFiles)
    BY <1>4 DEF Makes
  <2> QED
    BY <1>1, <2>1 DEF Put
<1>5. CASE Copies(w)
  BY <1>1, <1>2, <1>5 DEF Copies
<1>6. CASE folders' = Drop(folders, op[w].id) /\ HasMade(w)
  <2>1. Holds(w)
    BY <1>6, Makers DEF Sure, Typed
  <2> QED
    BY <1>1, <1>2, <1>6, <2>1 DEF Drop
<1> QED
  BY <1>3, <1>4, <1>5, <1>6 DEF OwnStep, Unstirred, TakesOver, GivesUp, Enters, IsCut, Leaves

LEMMA ListedKept ==
  ASSUME Sure, NEW w \in Windows, OwnStep(w), past' = past
  PROVE  Listed'
<1>0. op[w] \in Jobs /\ Fits(op[w]) /\ Owned(w) /\ Filled(w)
  BY DEF Sure, Typed
<1>1. doubtful \subseteq doubtful'
  BY DEF OwnStep, Unstirred, Makes, TakesOver, Copies, GivesUp, Enters, IsCut
<1>2. ASSUME NEW i \in DOMAIN catalog', catalog'[i].managed
      PROVE  i \in CopiedIds \cup SourceIds /\ (i \notin doubtful' => IsWhole(i)')
  <2>1. CASE i \in DOMAIN catalog /\ catalog'[i] = catalog[i]
    <3>1. i \in CopiedIds \cup SourceIds /\ (i \notin doubtful => IsWhole(i))
      BY <1>2, <2>1 DEF Sure, Listed, EntriesAreWhole
    <3>2. i \notin doubtful => i \in DOMAIN folders' /\ folders'[i] = folders[i]
      BY <1>2, <2>1, WholeStays
    <3> QED
      BY <1>1, <2>1, <3>1, <3>2 DEF IsWhole
  <2>2. CASE ~(i \in DOMAIN catalog /\ catalog'[i] = catalog[i])
    <3>1. Enters(w) \/ IsCut(w)
      BY <2>2, ChangesCatalog
    <3>2. i = op[w].id /\ catalog'[i] = Entry(w) /\ op[w].at = "commit"
      BY <2>2, <3>1, Changed
    <3>3. i \in CopiedIds \cup SourceIds /\ (Holds(w) \/ i \in doubtful)
      BY <1>0, <1>2, <3>2, Makers
    <3>4. CASE i \in doubtful'
      BY <3>3, <3>4
    <3>5. CASE i \notin doubtful'
      <4>1. Holds(w) /\ folders' = folders
        BY <1>1, <3>1, <3>2, <3>3, <3>5 DEF Enters, IsCut
      <4>2. i \in DOMAIN folders /\ \E was \in Moments : \A f \in op[w].listed : folders[i][f] = was[f]
        BY <1>0, <3>2, <4>1 DEF Owned, Filled
      <4>3. catalog'[i].files = op[w].listed
        BY <3>2 DEF Entry
      <4> QED
        BY <3>3, <4>1, <4>2, <4>3 DEF IsWhole, Moments
    <3> QED
      BY <3>4, <3>5
  <2> QED
    BY <2>1, <2>2
<1> QED
  BY <1>2 DEF Listed, EntriesAreWhole

LEMMA AccountedKept ==
  ASSUME Sure, NEW w \in Windows, OwnStep(w)
  PROVE  Accounted'
<1>1. \A v \in Windows \ {w} : op'[v] = op[v] /\ (Keeps(v) => Keeps(v)')
  BY OthersHold
<1>2. \A i \in DOMAIN folders : i \in DOMAIN catalog \cup left \/ \E v \in Windows : op[v].id = i /\ Keeps(v)
  BY DEF Sure, Accounted
<1>3. DOMAIN catalog \subseteq DOMAIN catalog'
  BY CatalogGrows
<1>5. ASSUME left \subseteq left', DOMAIN folders' \subseteq DOMAIN folders,
             Keeps(w) => \/ op[w].id \in DOMAIN catalog' \cup left' \/ op[w].id \notin DOMAIN folders'
                         \/ Keeps(w)' /\ op'[w].id = op[w].id
      PROVE  Accounted'
  BY <1>1, <1>2, <1>3, <1>5 DEF Accounted
<1>6. CASE Unstirred(w)
  BY <1>5, <1>6 DEF Unstirred
<1>7. CASE Makes(w)
  <2>1. PICK id : /\ id = op'[w].id /\ id \notin DOMAIN folders /\ folders' = Put(folders, id, NoFiles)
                  /\ catalog' = catalog /\ left' = left /\ Keeps(w)' /\ ~Keeps(w)
    BY <1>7 DEF Makes
  <2>2. DOMAIN folders' = DOMAIN folders \cup {id}
    BY <2>1 DEF Put
  <2> QED
    BY <1>1, <1>2, <2>1, <2>2 DEF Accounted
<1>8. CASE TakesOver(w)
  BY <1>5, <1>8 DEF TakesOver
<1>9. CASE Copies(w)
  <2>1. DOMAIN folders' = DOMAIN folders
    BY <1>9 DEF Copies
  <2> QED
    BY <1>5, <1>9, <2>1 DEF Copies
<1>10. CASE Leaves(w)
  <2>1. DOMAIN folders' \subseteq DOMAIN folders
    BY <1>10 DEF Leaves, Drop
  <2> QED
    BY <1>5, <1>10, <2>1 DEF Leaves
<1>11. CASE Enters(w)
  <2>1. op[w].id \in DOMAIN catalog' /\ left' = left \ {op[w].id} /\ folders' = folders
    BY <1>11, Changed DEF Enters
  <2> QED
    BY <1>1, <1>2, <1>3, <2>1 DEF Accounted
<1> QED
  BY <1>6, <1>7, <1>8, <1>9, <1>10, <1>11 DEF OwnStep, GivesUp, IsCut

\* No step takes another's entry away.
LEMMA EntriesStay ==
  ASSUME Sure, NEW w \in Windows, OwnStep(w), NEW i \in DOMAIN catalog
  PROVE  i \in DOMAIN catalog' /\ (catalog[i].managed /\ i \notin SourceIds \cup doubtful => catalog'[i] = catalog[i])
<1>1. CASE catalog' = catalog \/ i # op[w].id
  BY <1>1, ChangesCatalog, Changed
<1>2. CASE i = op[w].id /\ (Enters(w) \/ IsCut(w))
  <2>0. op[w] \in Jobs /\ Fits(op[w]) /\ Owned(w) /\ op[w].at = "commit"
    BY <1>2, Changed DEF Sure, Typed
  <2>1. i \in DOMAIN catalog'
    BY <1>2, Changed
  <2>2. catalog[i].managed => i \in CopiedIds \cup SourceIds
    BY DEF Sure, Listed
  <2>3. CopiedIds \cap PlaceIds = {}
    BY DEF CopiedIds, PlaceIds
  <2>4. op[w].what \in {"vault", "inplaceVault"} => i \in SourceIds
    BY <1>2, <2>0, Makers
  <2>5. op[w].what = "inplace" => i \in PlaceIds
    BY <1>2, <2>0, Makers
  <2>6. op[w].what \notin {"vault", "inplaceVault", "inplace"} => Holds(w)
    BY <2>0 DEF Holds
  <2>7. Holds(w) /\ catalog[i].managed => i \in doubtful
    BY <1>2, <2>0 DEF Owned
  <2> QED
    BY <2>1, <2>2, <2>3, <2>4, <2>5, <2>6, <2>7
<1> QED
  BY <1>1, <1>2, ChangesCatalog

LEMMA DiskTyped ==
  ASSUME Sure, NEW w \in Windows, OwnStep(w)
  PROVE  /\ DOMAIN folders' \subseteq Ids /\ folders' \in [DOMAIN folders' -> [Files -> Nat \cup {Torn}]]
         /\ DOMAIN catalog' \subseteq Ids /\ catalog' \in [DOMAIN catalog' -> Entries]
         /\ left' \subseteq Ids /\ doubtful' \subseteq Ids
<1> DEFINE F == [Files -> Nat \cup {Torn}]
<1>0. /\ DOMAIN folders \subseteq Ids /\ folders \in [DOMAIN folders -> F]
      /\ DOMAIN catalog \subseteq Ids /\ catalog \in [DOMAIN catalog -> Entries]
      /\ left \subseteq Ids /\ doubtful \subseteq Ids /\ op[w] \in Jobs /\ Fits(op[w])
  BY DEF Sure, Typed
<1>1. left' \subseteq Ids /\ doubtful' \subseteq Ids
  <2>1. CASE Unstirred(w) \/ Makes(w) \/ Copies(w)
    BY <1>0, <2>1 DEF Unstirred, Makes, Copies
  <2>2. CASE TakesOver(w)
    BY <1>0, <2>2 DEF TakesOver
  <2>3. CASE GivesUp(w)
    BY <1>0, <2>3 DEF GivesUp, Leaves
  <2>4. CASE Enters(w)
    BY <1>0, <2>4 DEF Enters
  <2>5. CASE IsCut(w)
    BY <1>0, <2>5 DEF IsCut, Leaves
  <2> QED
    BY <2>1, <2>2, <2>3, <2>4, <2>5 DEF OwnStep
<1>2. DOMAIN folders' \subseteq Ids /\ folders' \in [DOMAIN folders' -> F]
  <2>1. CASE folders' = folders
    BY <1>0, <2>1
  <2>2. CASE Makes(w)
    <3>1. PICK id \in Ids : folders' = Put(folders, id, NoFiles)
      BY <2>2 DEF Makes
    <3>2. NoFiles \in F
      BY DEF NoFiles
    <3> HIDE DEF F
    <3> QED
      BY <1>0, <3>1, <3>2 DEF Put
  <2>3. CASE Copies(w)
    <3>1. PICK x \in Nat \cup {Torn} : folders' = [folders EXCEPT ![op[w].id][op[w].cur] = x]
      BY <2>3 DEF Copies
    <3> QED
      BY <1>0, <3>1
  <2>4. CASE folders' = Drop(folders, op[w].id)
    <3> HIDE DEF F
    <3> QED
      BY <1>0, <2>4 DEF Drop
  <2> QED
    BY <2>1, <2>2, <2>3, <2>4 DEF OwnStep, Unstirred, TakesOver, GivesUp, Enters, IsCut, Leaves
<1>3. DOMAIN catalog' \subseteq Ids /\ catalog' \in [DOMAIN catalog' -> Entries]
  <2>1. CASE catalog' = catalog
    BY <1>0, <2>1
  <2>2. CASE Enters(w) \/ IsCut(w)
    <3>1. op[w].id \in Ids /\ catalog' = Put(catalog, op[w].id, Entry(w))
      BY <2>2 DEF Enters, IsCut
    <3>2. Entry(w) \in Entries
      BY <1>0 DEF Entry, Entries, Jobs
    <3> HIDE DEF F
    <3> QED
      BY <1>0, <3>1, <3>2 DEF Put
  <2> QED
    BY <2>1, <2>2, ChangesCatalog
<1> QED
  BY <1>1, <1>2, <1>3

-----------------------------------------------------------------------------
\* The jobs after a step: begun anew, before the copying, or with these fields.

NewJob(j) == /\ j.at \in {"idle", "list", "look", "place"} /\ j.stats = NoFiles /\ j.cur = NoFile /\ j.look = 0

LEMMA BegunAnew ==
  ASSUME op \in [Windows -> Jobs], NEW w \in Windows, NEW q, NEW a, NEW d, NEW k,
         NEW at \in {"list", "look", "place"},
         op' = [op EXCEPT ![w] = [Idle EXCEPT !.what = k, !.at = at, !.queue = q, !.asked = a, !.done = d]]
  PROVE  NewJob(op'[w]) /\ op'[w].done = d
<1> DEFINE j == [Idle EXCEPT !.what = k, !.at = at, !.queue = q, !.asked = a, !.done = d]
<1>1. j.at = at /\ j.stats = NoFiles /\ j.cur = NoFile /\ j.look = 0 /\ j.done = d
  BY DEF Idle
<1> HIDE DEF j
<1>2. op'[w] = j
  BY DEF j
<1> QED
  BY <1>1, <1>2 DEF NewJob

LEMMA IdleIsNew == NewJob(Idle) /\ Idle.done = <<>>
  BY DEF NewJob, Idle

LEMMA StartGives ==
  ASSUME op \in [Windows -> Jobs], NEW w \in Windows, Start(w)
  PROVE  NewJob(op'[w]) /\ op'[w].done = <<>> /\ told' = told
<1>1. PICK what, q : Begin(w, what, q)
  BY DEF Start
<1> DEFINE at == IF what = "vault" \/ what = "inplaceVault" THEN "look" ELSE "list"
           j  == [Idle EXCEPT !.what = what, !.queue = q, !.asked = q, !.at = at]
<1>2. op' = [op EXCEPT ![w] = j] /\ told' = told
  BY <1>1 DEF Begin
<1>3. at \in {"look", "list"}
  OBVIOUS
<1> HIDE DEF at
<1>4. j.at = at /\ j.stats = NoFiles /\ j.cur = NoFile /\ j.look = 0 /\ j.done = <<>>
  BY DEF Idle
<1> HIDE DEF j
<1> QED
  BY <1>2, <1>3, <1>4 DEF NewJob

\* An item that is over: the batch goes on with one more outcome, or the outcomes are told.
LEMMA OverGives ==
  ASSUME op \in [Windows -> Jobs], NEW w \in Windows, Fits(op[w]), op[w] # Idle, NEW r \in Results, ItemOver(w, r)
  PROVE  LET done == Append(op[w].done, r) IN
         /\ NewJob(op'[w]) /\ op'[w].done \in {<<>>, done}
         /\ \/ told' = told
            \/ /\ told' = told \cup {[what |-> op[w].what, asked |-> op[w].asked, done |-> done]}
               /\ op[w].what = "batch" => Len(done) = Len(op[w].asked)
<1> DEFINE o == op[w]  done == Append(o.done, r)
<1>1. CASE o.what = "batch" /\ Len(o.queue) > 1
  <2>1. told' = told /\ op' = [op EXCEPT ![w] = [Idle EXCEPT !.what = "batch", !.at = "list", !.queue = Tail(o.queue),
                                                             !.asked = o.asked, !.done = done]]
    BY <1>1 DEF ItemOver
  <2> HIDE DEF done
  <2>2. NewJob(op'[w]) /\ op'[w].done = done
    BY <2>1, BegunAnew
  <2> QED
    BY <2>1, <2>2 DEF done
<1>2. CASE ~(o.what = "batch" /\ Len(o.queue) > 1)
  <2>1. /\ told' = told \cup {[what |-> o.what, asked |-> o.asked, done |-> done]}
        /\ op' = [op EXCEPT ![w] = Idle]
    BY <1>2 DEF ItemOver, Finish
  <2>2. NewJob(op'[w]) /\ op'[w].done = <<>>
    BY <2>1, IdleIsNew
  <2>3. o.what = "batch" => Len(done) = Len(o.asked)
    <3> SUFFICES ASSUME o.what = "batch" PROVE Len(done) = Len(o.asked)
      OBVIOUS
    <3>1. FitsItem(o) /\ o \in Jobs
      BY FitsAs DEF IsVault
    <3>2. o.queue \in Seq(Srcs) /\ o.queue # <<>> /\ o.done \in Seq(Results) /\ Len(o.done) + Len(o.queue) = Len(o.asked)
      BY <3>1 DEF FitsItem, Jobs
    <3>3. Len(o.queue) \in Nat \ {0} /\ ~(Len(o.queue) > 1)
      BY <1>2, <3>2, TailGives
    <3>4. Len(o.queue) = 1
      <4>1. \A n \in Nat \ {0} : ~(n > 1) => n = 1
        OBVIOUS
      <4> QED
        BY <3>3, <4>1
    <3>5. Len(done) = Len(o.done) + 1
      BY <3>2
    <3> QED
      BY <3>2, <3>4, <3>5
  <2> QED
    BY <2>1, <2>2, <2>3
<1> QED
  BY <1>1, <1>2

Refreshes(w) == memory' = [memory EXCEPT ![w] = catalog] /\ UNCHANGED <<catalog, stamp, seen>>

\* Before the copying: the stats and the outcomes stay.
Early(w) ==
  LET o == op[w]  j == op'[w] IN
  /\ o.at \in {"list", "look", "read", "reread", "name"} /\ j.stats = o.stats /\ j.cur = o.cur /\ j.done = o.done
  /\ j.at \in {"look", "read", "reread", "name", "log", "place", "mkdir"} \/ (j.at = "commit" /\ j.what = "inplace")
  /\ j.at = "log" => IsVault(j)
  /\ j.look = o.look \/ j.look = stamp
  /\ j.at = "reread" => Refreshes(w)
  /\ told' = told

LEMMA EarlySteps ==
  ASSUME op \in [Windows -> Jobs], NEW w \in Windows, Fits(op[w]),
         Look(w) \/ Read(w) \/ NoteRead(w) \/ Name(w) \/ (List(w) /\ ~ItemOver(w, [res |-> "skipped", id |-> <<>>]))
  PROVE  Early(w)
<1> DEFINE o == op[w]
<1>0. o \in Jobs
  OBVIOUS
<1>1. CASE Look(w)
  <2> DEFINE at == IF seen[w] = stamp THEN "name" ELSE "read"
  <2>1. o.at = "look" /\ op' = [op EXCEPT ![w].look = stamp, ![w].at = at] /\ told' = told
    BY <1>1 DEF Look
  <2>2. at \in {"name", "read"}
    OBVIOUS
  <2> HIDE DEF at
  <2>3. op'[w].at = at /\ op'[w].look = stamp /\ op'[w].stats = o.stats /\ op'[w].cur = o.cur /\ op'[w].done = o.done
    BY <1>0, <2>1 DEF Jobs
  <2> QED
    BY <1>1, <2>1, <2>2, <2>3 DEF Early
<1>2. CASE Read(w) \/ NoteRead(w)
  <2> DEFINE at == IF Read(w) THEN "reread" ELSE "name"
  <2>1. o.at \in {"read", "reread"} /\ op' = [op EXCEPT ![w].at = at] /\ told' = told
    BY <1>2 DEF Read, NoteRead, Step
  <2>2. at \in {"name", "reread"} /\ (at = "reread" => Refreshes(w))
    BY DEF Read, Refreshes
  <2> HIDE DEF at
  <2>3. op'[w].at = at /\ op'[w].look = o.look /\ op'[w].stats = o.stats /\ op'[w].cur = o.cur /\ op'[w].done = o.done
    BY <1>0, <2>1 DEF Jobs
  <2> QED
    BY <2>1, <2>2, <2>3 DEF Early
<1>3. CASE Name(w)
  <2>0. o.at = "name" /\ told' = told
    BY <1>3 DEF Name
  <2>1. CASE IsVault(o)
    <3>1. PICK q : op' = [op EXCEPT ![w].queue = q, ![w].asked = q, ![w].at = IF q = <<>> THEN "log" ELSE "place"]
      BY <1>3, <2>1 DEF Name
    <3> DEFINE at == IF q = <<>> THEN "log" ELSE "place"
    <3>2. op' = [op EXCEPT ![w].queue = q, ![w].asked = q, ![w].at = at] /\ at \in {"log", "place"}
      BY <3>1
    <3> HIDE DEF at
    <3>3. /\ op'[w].at = at /\ op'[w].look = o.look /\ op'[w].stats = o.stats /\ op'[w].cur = o.cur
          /\ op'[w].done = o.done /\ op'[w].what = o.what
      BY <1>0, <3>2 DEF Jobs
    <3> QED
      BY <2>0, <2>1, <3>2, <3>3 DEF Early, IsVault
  <2>2. CASE ~IsVault(o)
    <3> DEFINE at == IF o.what = "inplace" THEN "commit" ELSE "mkdir"
    <3>1. PICK id : op' = [op EXCEPT ![w].id = id, ![w].at = at]
      BY <1>3, <2>2 DEF Name
    <3>2. at = "mkdir" \/ (at = "commit" /\ o.what = "inplace")
      OBVIOUS
    <3> HIDE DEF at
    <3>3. /\ op'[w].at = at /\ op'[w].look = o.look /\ op'[w].stats = o.stats /\ op'[w].cur = o.cur
          /\ op'[w].done = o.done /\ op'[w].what = o.what
      BY <1>0, <3>1 DEF Jobs
    <3> QED
      BY <2>0, <3>2, <3>3 DEF Early
  <2> QED
    BY <2>1, <2>2
<1>4. CASE List(w) /\ ~ItemOver(w, [res |-> "skipped", id |-> <<>>])
  <2> DEFINE src == Head(o.queue)  files == IF o.what = "extract" THEN Pairs(src) ELSE Present(src)
  <2>1. o.at = "list" /\ op' = [op EXCEPT ![w].src = src, ![w].listed = files, ![w].at = "look"] /\ told' = told
    BY <1>4 DEF List
  <2> HIDE DEF src, files
  <2>2. op'[w].at = "look" /\ op'[w].look = o.look /\ op'[w].stats = o.stats /\ op'[w].cur = o.cur /\ op'[w].done = o.done
    BY <1>0, <2>1 DEF Jobs
  <2> QED
    BY <2>1, <2>2 DEF Early
<1> QED
  BY <1>1, <1>2, <1>3, <1>4

MadeFolder(w) ==
  LET o == op[w]  j == op'[w]  todo == IF o.what = "extract" THEN o.listed ELSE Present(o.src) IN
  /\ o.at = "mkdir" /\ told' = told /\ folders' = Put(folders, o.id, NoFiles) /\ o.id \notin DOMAIN folders
  /\ j.id = o.id /\ j.src = o.src /\ j.listed = o.listed /\ j.stats = o.stats /\ j.cur = o.cur /\ j.done = o.done /\ j.look = o.look
  /\ j.at = IF todo = {} THEN "stat" ELSE "copy"
  /\ todo = {} => j.check = o.listed

LEMMA MkdirGives ==
  ASSUME op \in [Windows -> Jobs], NEW w \in Windows, Mkdir(w), ~Failure(w)
  PROVE  MadeFolder(w)
<1> DEFINE o == op[w]
           todo  == IF o.what = "extract" THEN o.listed ELSE Present(o.src)
           check == IF todo = {} THEN o.listed ELSE {}
           at    == IF todo = {} THEN "stat" ELSE "copy"
<1>1. o \in Jobs /\ o.at = "mkdir" /\ told' = told /\ folders' = Put(folders, o.id, NoFiles) /\ o.id \notin DOMAIN folders
  BY DEF Mkdir
<1>2. op' = [op EXCEPT ![w].todo = todo, ![w].check = check, ![w].at = at]
  BY DEF Mkdir
<1> HIDE DEF todo, check, at
<1>3. /\ op'[w].id = o.id /\ op'[w].src = o.src /\ op'[w].listed = o.listed /\ op'[w].stats = o.stats /\ op'[w].cur = o.cur
      /\ op'[w].done = o.done /\ op'[w].look = o.look /\ op'[w].at = at /\ op'[w].check = check
  BY <1>1, <1>2 DEF Jobs
<1> QED
  BY <1>1, <1>3 DEF MadeFolder, todo, check, at

Placed(w) ==
  LET o == op[w]  j == op'[w] IN
  /\ o.at = "place" /\ told' = told /\ j.id = Head(o.queue) /\ j.src = "still"
  /\ j.stats = o.stats /\ j.cur = o.cur /\ j.done = o.done /\ j.look = o.look /\ j.what = o.what
  /\ \/ j.at = "commit" /\ (o.what = "vault" => j.id \in doubtful')
     \/ j.at = "copy" /\ folders' = Put(folders, j.id, NoFiles)

LEMMA PlaceGives ==
  ASSUME op \in [Windows -> Jobs], NEW w \in Windows, Place(w)
  PROVE  Placed(w)
<1> DEFINE o == op[w]  id == Head(o.queue)
<1>1. o \in Jobs /\ o.at = "place" /\ told' = told
  BY DEF Place
<1> HIDE DEF id
<1>2. CASE o.what = "inplaceVault" \/ id \in DOMAIN folders
  <2>1. op' = [op EXCEPT ![w].id = id, ![w].src = "still", ![w].listed = Present("still"), ![w].at = "commit"]
    BY <1>2 DEF Place, id
  <2>2. o.what = "vault" => id \in doubtful'
    BY <1>2 DEF Place, id
  <2>3. /\ op'[w].id = id /\ op'[w].src = "still" /\ op'[w].stats = o.stats /\ op'[w].cur = o.cur /\ op'[w].what = o.what
        /\ op'[w].done = o.done /\ op'[w].look = o.look /\ op'[w].at = "commit"
    BY <1>1, <2>1 DEF Jobs
  <2> QED
    BY <1>1, <2>2, <2>3 DEF Placed, id
<1>3. CASE ~(o.what = "inplaceVault" \/ id \in DOMAIN folders)
  <2>1. op' = [op EXCEPT ![w].id = id, ![w].src = "still", ![w].listed = Present("still"),
                         ![w].todo = Present("still"), ![w].at = "copy"]
    BY <1>3 DEF Place, id
  <2>2. folders' = Put(folders, id, NoFiles)
    BY <1>3 DEF Place, id
  <2>3. /\ op'[w].id = id /\ op'[w].src = "still" /\ op'[w].stats = o.stats /\ op'[w].cur = o.cur /\ op'[w].what = o.what
        /\ op'[w].done = o.done /\ op'[w].look = o.look /\ op'[w].at = "copy"
    BY <1>1, <2>1 DEF Jobs
  <2> QED
    BY <1>1, <2>2, <2>3 DEF Placed, id
<1> QED
  BY <1>2, <1>3

\* Between the copies: what they copy from and to stays.
Copying(w) ==
  LET o == op[w]  j == op'[w] IN
  /\ told' = told /\ j.id = o.id /\ j.src = o.src /\ j.listed = o.listed /\ j.done = o.done /\ j.look = o.look

Begun(w, f) ==
  LET o == op[w]  j == op'[w] IN
  /\ Copying(w) /\ o.at = "copy" /\ j.at = "copy" /\ f \in o.todo /\ folders' = folders
  /\ j.cur = f /\ j.todo = o.todo /\ j.stats = o.stats /\ j.moved = o.moved

LEMMA BeginGives ==
  ASSUME op \in [Windows -> Jobs], NEW w \in Windows, NEW f \in Files, CopyBegins(w, f), ~Failure(w)
  PROVE  Begun(w, f)
<1> DEFINE o == op[w]
<1>1. /\ o \in Jobs /\ o.at = "copy" /\ f \in o.todo /\ told' = told /\ folders' = folders
      /\ op' = [op EXCEPT ![w].cur = f, ![w].before = Content(o.src)[f]]
  BY DEF CopyBegins, disk
<1>2. /\ op'[w].id = o.id /\ op'[w].src = o.src /\ op'[w].listed = o.listed /\ op'[w].done = o.done /\ op'[w].look = o.look
      /\ op'[w].at = o.at /\ op'[w].cur = f /\ op'[w].todo = o.todo /\ op'[w].stats = o.stats /\ op'[w].moved = o.moved
  BY <1>1 DEF Jobs
<1> QED
  BY <1>1, <1>2 DEF Begun, Copying

Ended(w) ==
  LET o == op[w]  j == op'[w]  after == Content(o.src)[o.cur]  rest == o.todo \ {o.cur} IN
  /\ Copying(w) /\ o.at = "copy" /\ o.cur # NoFile
  /\ folders' = [folders EXCEPT ![o.id][o.cur] = IF after = o.before THEN after ELSE Torn]
  /\ j.cur = NoFile /\ j.todo = rest /\ j.stats = [o.stats EXCEPT ![o.cur] = after]
  /\ j.moved = IF after = o.before THEN o.moved ELSE o.moved \cup {o.cur}
  /\ j.check = IF rest = {} THEN o.listed ELSE {}
  /\ j.at = IF rest = {} THEN "stat" ELSE "copy"

LEMMA EndGives ==
  ASSUME op \in [Windows -> Jobs], NEW w \in Windows, CopyEnds(w), ~Failure(w)
  PROVE  Ended(w)
<1> DEFINE o == op[w]
           after == Content(o.src)[o.cur]
           rest  == o.todo \ {o.cur}
           stats == [o.stats EXCEPT ![o.cur] = after]
           moved == IF after = o.before THEN o.moved ELSE o.moved \cup {o.cur}
           check == IF rest = {} THEN o.listed ELSE {}
           at    == IF rest = {} THEN "stat" ELSE "copy"
           j     == [o EXCEPT !.cur = NoFile, !.before = 0, !.todo = rest, !.stats = stats,
                              !.moved = moved, !.check = check, !.at = at]
<1>1. /\ o \in Jobs /\ o.at = "copy" /\ o.cur # NoFile /\ told' = told /\ op' = [op EXCEPT ![w] = j]
      /\ folders' = [folders EXCEPT ![o.id][o.cur] = IF after = o.before THEN after ELSE Torn]
  BY DEF CopyEnds
<1>2. /\ j.id = o.id /\ j.src = o.src /\ j.listed = o.listed /\ j.done = o.done /\ j.look = o.look /\ j.cur = NoFile
      /\ j.todo = rest /\ j.stats = stats /\ j.moved = moved /\ j.check = check /\ j.at = at
  <2> HIDE DEF after, rest, stats, moved, check, at
  <2> QED
    BY <1>1 DEF Jobs
<1>3. op'[w] = j
  <2> HIDE DEF j
  <2> QED
    BY <1>1
<1> HIDE DEF j
<1> QED
  BY <1>1, <1>2, <1>3 DEF Ended, Copying

Looked(w, f) ==
  LET o == op[w]  j == op'[w]  moved == IF SourceMoved(o, f) THEN o.moved \cup {f} ELSE o.moved  rest == o.check \ {f} IN
  /\ Copying(w) /\ o.at = "stat" /\ f \in o.check /\ folders' = folders
  /\ f \in Present(o.src) /\ (rest = {} => moved \cap o.listed = {})
  /\ j.check = rest /\ j.moved = moved /\ j.stats = o.stats /\ j.at = IF rest = {} THEN "commit" ELSE "stat"

LEMMA StatGives ==
  ASSUME op \in [Windows -> Jobs], NEW w \in Windows, NEW f \in Files, StatAgain(w, f), ~Failure(w)
  PROVE  Looked(w, f)
<1> DEFINE o == op[w]
           moved == IF SourceMoved(o, f) THEN o.moved \cup {f} ELSE o.moved
           rest  == o.check \ {f}
           at    == IF rest = {} THEN "commit" ELSE "stat"
<1>1. /\ o \in Jobs /\ o.at = "stat" /\ f \in o.check /\ told' = told /\ folders' = folders
      /\ f \in Present(o.src) /\ (rest = {} => moved \cap o.listed = {})
      /\ op' = [op EXCEPT ![w].check = rest, ![w].moved = moved, ![w].at = at]
  BY DEF StatAgain, disk
<1>2. /\ op'[w].id = o.id /\ op'[w].src = o.src /\ op'[w].listed = o.listed /\ op'[w].done = o.done /\ op'[w].look = o.look
      /\ op'[w].check = rest /\ op'[w].moved = moved /\ op'[w].stats = o.stats /\ op'[w].at = at
  <2> HIDE DEF moved, rest, at
  <2> QED
    BY <1>1 DEF Jobs
<1> QED
  BY <1>1, <1>2 DEF Looked, Copying

\* The entry is in: the import goes on, or the log is next.
Entered(w) ==
  LET o == op[w]  j == op'[w]  done == Append(o.done, [res |-> "made", id |-> o.id]) IN
  \/ NewJob(j) /\ j.done = done
  \/ j.at = "log" /\ j.look = o.look /\ j.id = o.id /\ j.done = IF IsVault(o) THEN done ELSE o.done

LEMMA MadeGives ==
  ASSUME op \in [Windows -> Jobs], NEW w \in Windows, Made(w)
  PROVE  Entered(w)
<1> DEFINE o == op[w]  done == Append(o.done, [res |-> "made", id |-> o.id])
<1>1. CASE IsVault(o) /\ Len(o.queue) > 1
  <2>1. op' = [op EXCEPT ![w] = [Idle EXCEPT !.what = o.what, !.at = "place", !.asked = o.asked,
                                             !.queue = Tail(o.queue), !.done = done]]
    BY <1>1 DEF Made
  <2> DEFINE j == [Idle EXCEPT !.what = o.what, !.at = "place", !.asked = o.asked, !.queue = Tail(o.queue), !.done = done]
  <2>2. j.at = "place" /\ j.stats = NoFiles /\ j.cur = NoFile /\ j.look = 0 /\ j.done = done
    <3> HIDE DEF done
    <3> QED
      BY DEF Idle
  <2>3. op'[w] = j
    <3> HIDE DEF j
    <3> QED
      BY <2>1 DEF j
  <2> HIDE DEF j
  <2> QED
    BY <2>2, <2>3 DEF Entered, NewJob
<1>2. CASE ~(IsVault(o) /\ Len(o.queue) > 1)
  <2> DEFINE d == IF IsVault(o) THEN done ELSE o.done
  <2>1. op' = [op EXCEPT ![w].at = "log", ![w].done = d]
    BY <1>2 DEF Made
  <2> HIDE DEF d
  <2>2. op'[w].at = "log" /\ op'[w].look = op[w].look /\ op'[w].id = op[w].id /\ op'[w].done = d
    BY <2>1 DEF Jobs
  <2> QED
    BY <2>2 DEF Entered, d
<1> QED
  BY <1>1, <1>2

-----------------------------------------------------------------------------
\* What a job has copied so far is as it was at one moment.

LEMMA LeavesGame ==
  ASSUME NEW w \in Windows, WindowStep(w)
  PROVE  UNCHANGED <<live, due, past, drafts, now>>
<1>1. CASE Start(w)
  BY <1>1 DEF Start, Begin, game
<1>2. CASE List(w) \/ Look(w) \/ Read(w) \/ NoteRead(w) \/ Name(w) \/ Mkdir(w) \/ Place(w)
  BY <1>2 DEF List, Look, Read, NoteRead, Name, Mkdir, Place, Failure, game
<1>3. CASE \E f \in Files : CopyBegins(w, f) \/ StatAgain(w, f)
  BY <1>3 DEF CopyBegins, StatAgain, Failure, game
<1>4. CASE CopyEnds(w)
  BY <1>4 DEF CopyEnds, Failure, game
<1>5. CASE Commit(w) \/ CommitFails(w) \/ Interrupt(w) \/ Error(w) \/ Log(w) \/ LogFails(w) \/ Crash(w)
  BY <1>5 DEF Commit, CommitFails, Interrupt, Error, Log, LogFails, Crash, Failure, game
<1> QED
  BY <1>1, <1>2, <1>3, <1>4, <1>5 DEF WindowStep

\* What can be copied from a source is one state of it.
LEMMA MomentOf ==
  ASSUME Written, NEW src \in Srcs
  PROVE  \E was \in Moments : \A f \in Present(src) : was[f] = Content(src)[f]
<1>1. live \in Moments /\ Whole \in Moments
  BY DEF Written, Moments
<1>2. CASE src = "live"
  BY <1>1, <1>2 DEF Content
<1>3. CASE src = "still"
  BY <1>1, <1>3 DEF Content
<1>4. CASE src = "empty"
  <2>1. Present(src) = {}
    BY <1>4, NotFiles DEF Present, Content
  <2> QED
    BY <1>1, <2>1
<1> QED
  BY <1>2, <1>3, <1>4 DEF Srcs

LEMMA FilledBy ==
  ASSUME NEW w \in Windows, UNCHANGED <<live, due, past, drafts>>,
         CopyStands(op'[w], folders'[op'[w].id]),
         op'[w].at = "commit" /\ Holds(w)' =>
            \E was \in Moments : \A f \in op'[w].listed : folders'[op'[w].id][f] = was[f]
  PROVE  Filled(w)'
<1>1. CopyStands(op[w], folders[op[w].id])'
  BY DEF CopyStands, Moments, Fresh, Present, Content
<1>2. Moments' = Moments
  BY DEF Moments
<1> QED
  BY <1>1, <1>2 DEF Filled

LEMMA NewIsFilled ==
  ASSUME NEW w \in Windows, NewJob(op'[w])
  PROVE  Filled(w)'
  BY DEF NewJob, Filled, CopyStands

\* A folder that is made is empty, and nothing is copied yet.
LEMMA EmptyIsFilled ==
  ASSUME Sure, NEW w \in Windows, op' \in [Windows -> Jobs], UNCHANGED <<live, due, past, drafts>>,
         op'[w].at \in {"copy", "stat"}, op'[w].stats = NoFiles, op'[w].cur = NoFile, op'[w].src \in Srcs,
         folders' = Put(folders, op'[w].id, NoFiles), op'[w].at = "stat" => op'[w].check = op'[w].listed
  PROVE  Filled(w)'
<1> DEFINE j == op'[w]
<1>1. folders'[j.id] = NoFiles
  BY DEF Put
<1>2. \A f \in Files : NoFiles[f] = 0
  BY NotFiles
<1>3. drafts \in Nat /\ drafts # 0 /\ Written
  BY DEF Sure, Typed, Written
<1>4. \A f \in Files : j.stats[f] <= drafts /\ j.stats[f] < drafts
  BY <1>2, <1>3
<1>5. \A f \in Files : Fresh(f, j)
  BY <1>4 DEF Fresh
<1>6. PICK was \in Moments : \A f \in Present(j.src) : was[f] = Content(j.src)[f]
  BY <1>3, MomentOf
<1>7. j.at = "stat" => \A f \in j.listed \ j.moved :
         /\ f \notin j.check => was[f] = j.stats[f]
         /\ f \in j.check /\ f \in Present(j.src) /\ Content(j.src)[f] = j.stats[f] => was[f] = j.stats[f]
  BY <1>6
<1>8. \A f \in Files \ j.moved : folders'[j.id][f] = j.stats[f]
  BY <1>1
<1>9. CopyStands(j, folders'[j.id])
  BY <1>5, <1>6, <1>7, <1>8 DEF CopyStands
<1> QED
  BY <1>9, FilledBy

LEMMA EndIsFilled ==
  ASSUME Sure, NEW w \in Windows, Ended(w), op' \in [Windows -> Jobs], UNCHANGED <<live, due, past, drafts>>
  PROVE  Filled(w)'
<1> DEFINE o == op[w]  j == op'[w]  c == o.cur  after == Content(o.src)[c]
<1>1. /\ o \in Jobs /\ j \in Jobs /\ o.at = "copy" /\ c \in Files /\ Fits(o) /\ Owned(w) /\ Filled(w)
      /\ j.id = o.id /\ j.src = o.src /\ j.listed = o.listed
  BY DEF Sure, Typed, Ended, Copying, Jobs
<1>2. o.src \in Srcs /\ o.id \in DOMAIN folders /\ folders[o.id] \in [Files -> Nat \cup {Torn}] /\ o.stats \in [Files -> Nat]
  <2>1. Holds(w)
    BY <1>1, Makers
  <2> QED
    BY <1>1, <2>1, FitsGives DEF Owned, Sure, Typed, Jobs
<1>3. /\ j.stats = [o.stats EXCEPT ![c] = after] /\ j.cur = NoFile
      /\ j.moved = IF after = o.before THEN o.moved ELSE o.moved \cup {c}
      /\ folders' = [folders EXCEPT ![o.id][c] = IF after = o.before THEN after ELSE Torn]
      /\ j.at \in {"copy", "stat"} /\ (j.at = "stat" => j.check = o.listed)
  BY DEF Ended
<1>4. ASSUME NEW f \in Files \ j.moved
      PROVE  folders'[j.id][f] = j.stats[f]
  <2>1. f \notin o.moved
    BY <1>3, <1>4
  <2>2. CASE f = c
    <3>1. after = o.before
      BY <1>3, <1>4, <2>2
    <3> QED
      BY <1>1, <1>2, <1>3, <2>2, <3>1
  <2>3. CASE f # c
    <3>1. folders[o.id][f] = o.stats[f]
      BY <1>1, <2>1 DEF Filled, CopyStands
    <3> QED
      BY <1>1, <1>2, <1>3, <2>3, <3>1
  <2> QED
    BY <2>2, <2>3
<1>5. ASSUME NEW f \in Files
      PROVE  Fresh(f, j)
  <2>1. CASE f = c
    <3> SUFFICES ASSUME o.src = "live"
                 PROVE  /\ j.stats[f] <= drafts
                        /\ due # <<>> /\ due = <<"meta", f[2]>> /\ f[1] = "meta" => j.stats[f] < drafts
      BY <1>1 DEF Fresh
    <3>1. j.stats[f] = live[f] /\ live[f] <= drafts
      BY <1>1, <1>2, <1>3, <2>1 DEF Content, Sure, Written
    <3>2. ASSUME due = <<"meta", f[2]>>, f[1] = "meta"
          PROVE  live[f] < drafts
      <4>1. due # <<>> /\ due[1] = "meta" /\ due[2] = f[2]
        BY <3>2
      <4>2. f = <<"meta", f[2]>>
        BY <3>2 DEF Files
      <4>3. live[<<"meta", due[2]>>] < drafts
        BY <4>1 DEF Sure, Written
      <4> QED
        BY <4>1, <4>2, <4>3
    <3> QED
      BY <3>1, <3>2
  <2>2. CASE f # c
    <3>1. j.stats[f] = o.stats[f] /\ Fresh(f, o)
      BY <1>1, <1>2, <1>3, <2>2 DEF Filled, CopyStands
    <3> QED
      BY <1>1, <3>1 DEF Fresh
  <2> QED
    BY <2>1, <2>2
<1>6. PICK was \in Moments : \A f \in Present(o.src) : was[f] = Content(o.src)[f]
  BY <1>2, MomentOf DEF Sure
<1>7. j.at = "stat" => \A f \in j.listed \ j.moved :
         /\ f \notin j.check => was[f] = j.stats[f]
         /\ f \in j.check /\ f \in Present(j.src) /\ Content(j.src)[f] = j.stats[f] => was[f] = j.stats[f]
  BY <1>1, <1>3, <1>6
<1>8. CopyStands(j, folders'[j.id])
  BY <1>3, <1>4, <1>5, <1>6, <1>7 DEF CopyStands
<1> QED
  BY <1>3, <1>8, FilledBy

LEMMA LookIsFilled ==
  ASSUME Sure, NEW w \in Windows, NEW f \in Files, Looked(w, f), op' \in [Windows -> Jobs],
         UNCHANGED <<live, due, past, drafts>>
  PROVE  Filled(w)'
<1> DEFINE o == op[w]  j == op'[w]
<1>1. /\ o \in Jobs /\ j \in Jobs /\ o.at = "stat" /\ Filled(w) /\ folders' = folders /\ j.id = o.id /\ j.src = o.src
      /\ j.listed = o.listed /\ j.stats = o.stats /\ o.listed \subseteq Files
  BY DEF Sure, Typed, Looked, Copying, Jobs
<1>2. /\ f \in o.check /\ f \in Present(o.src) /\ j.check = o.check \ {f}
      /\ j.moved = IF SourceMoved(o, f) THEN o.moved \cup {f} ELSE o.moved
      /\ j.at = IF j.check = {} THEN "commit" ELSE "stat"
      /\ j.check = {} => j.moved \cap o.listed = {}
  BY DEF Looked
<1>3. /\ \A g \in Files \ o.moved : folders[o.id][g] = o.stats[g]
      /\ \A g \in Files : Fresh(g, o)
  BY <1>1 DEF Filled, CopyStands
<1>4. PICK was \in Moments : \A g \in o.listed \ o.moved :
         /\ g \notin o.check => was[g] = o.stats[g]
         /\ g \in o.check /\ g \in Present(o.src) /\ Content(o.src)[g] = o.stats[g] => was[g] = o.stats[g]
  BY <1>1 DEF Filled, CopyStands
<1>6. o.moved \subseteq j.moved
  BY <1>2
<1>7. ASSUME NEW g \in o.listed \ j.moved, g \notin j.check
      PROVE  was[g] = o.stats[g]
  <2>1. CASE g = f
    <3>1. Content(o.src)[f] = o.stats[f]
      BY <1>2, <1>7, <2>1 DEF SourceMoved
    <3> QED
      BY <1>2, <1>4, <1>6, <1>7, <2>1, <3>1
  <2>2. CASE g # f
    BY <1>2, <1>4, <1>6, <1>7, <2>2
  <2> QED
    BY <2>1, <2>2
<1>8. CASE j.check # {}
  <2>1. j.at = "stat"
    BY <1>2, <1>8
  <2>2. \A g \in Files \ j.moved : folders'[j.id][g] = j.stats[g]
    BY <1>1, <1>3, <1>6
  <2>3. \A g \in Files : Fresh(g, j)
    BY <1>1, <1>3 DEF Fresh
  <2>4. \A g \in j.listed \ j.moved :
         /\ g \notin j.check => was[g] = j.stats[g]
         /\ g \in j.check /\ g \in Present(j.src) /\ Content(j.src)[g] = j.stats[g] => was[g] = j.stats[g]
    BY <1>1, <1>2, <1>4, <1>6, <1>7
  <2>5. CopyStands(j, folders'[j.id])
    BY <1>4, <2>1, <2>2, <2>3, <2>4 DEF CopyStands
  <2> QED
    BY <2>1, <2>5, FilledBy
<1>9. CASE j.check = {}
  <2>1. j.at = "commit"
    BY <1>2, <1>9
  <2>2. ASSUME NEW g \in j.listed
        PROVE  folders'[j.id][g] = was[g]
    <3>1. g \in o.listed \ j.moved /\ g \notin j.check /\ g \in Files \ o.moved
      BY <1>1, <1>2, <1>6, <1>9
    <3>2. was[g] = o.stats[g] /\ folders[o.id][g] = o.stats[g]
      BY <1>3, <1>7, <3>1
    <3> QED
      BY <1>1, <3>2
  <2>3. CopyStands(j, folders'[j.id])
    BY <2>1 DEF CopyStands
  <2> QED
    BY <1>4, <2>1, <2>2, <2>3, FilledBy
<1> QED
  BY <1>8, <1>9

LEMMA FailsIsNew ==
  ASSUME op \in [Windows -> Jobs], NEW w \in Windows, Fits(op[w]), op[w] # Idle, Fails(w)
  PROVE  NewJob(op'[w])
<1>1. [res |-> "failed", id |-> <<>>] \in Results
  BY DEF Results
<1>2. ItemOver(w, [res |-> "failed", id |-> <<>>])
  BY DEF Fails
<1> QED
  BY <1>1, <1>2, OverGives

LEMMA OwnFilled ==
  ASSUME Sure, NEW w \in Windows, WindowStep(w), OwnStep(w)
  PROVE  Filled(w)'
<1> DEFINE o == op[w]  j == op'[w]
<1>1. /\ op \in [Windows -> Jobs] /\ o \in Jobs /\ Fits(o) /\ Filled(w) /\ Owned(w) /\ UNCHANGED <<live, due, past, drafts>>
      /\ op' \in [Windows -> Jobs] /\ Fits(j)
  BY LeavesGame DEF Sure, Typed, OwnStep, Shifts, Only
<1>2. CASE o # Idle /\ Fails(w)
  BY <1>1, <1>2, FailsIsNew, NewIsFilled
<1>3. CASE Start(w)
  BY <1>1, <1>3, StartGives, NewIsFilled
<1>4. CASE Early(w)
  <2>1. j.stats = NoFiles /\ j.cur = NoFile
    BY <1>1, <1>4 DEF Early, Filled, CopyStands
  <2>2. j.at = "commit" => ~Holds(w)'
    BY <1>4 DEF Early, Holds
  <2>3. j.at \notin {"copy", "stat"}
    BY <1>4 DEF Early
  <2> QED
    BY <2>1, <2>2, <2>3 DEF Filled, CopyStands
<1>5. CASE List(w)
  <2>1. o # Idle
    <3>1. o.at = "list"
      BY <1>5 DEF List
    <3> QED
      BY <3>1 DEF Idle
  <2>2. [res |-> "skipped", id |-> <<>>] \in Results
    BY DEF Results
  <2>3. CASE ItemOver(w, [res |-> "skipped", id |-> <<>>])
    BY <1>1, <2>1, <2>2, <2>3, OverGives, NewIsFilled
  <2>4. CASE ~ItemOver(w, [res |-> "skipped", id |-> <<>>])
    BY <1>1, <1>4, <1>5, <2>4, EarlySteps
  <2> QED
    BY <2>3, <2>4
<1>6. CASE Look(w) \/ Read(w) \/ NoteRead(w) \/ Name(w)
  BY <1>1, <1>4, <1>6, EarlySteps
<1>7. CASE Mkdir(w)
  <2>1. o.at = "mkdir" /\ o # Idle
    <3>1. o.at = "mkdir"
      BY <1>7 DEF Mkdir
    <3> QED
      BY <3>1 DEF Idle
  <2>2. CASE Failure(w)
    BY <1>2, <2>1, <2>2 DEF Failure
  <2>3. CASE ~Failure(w)
    <3>1. MadeFolder(w)
      BY <1>1, <1>7, <2>3, MkdirGives
    <3>2. o.src \in Srcs /\ o.stats = NoFiles /\ o.cur = NoFile
      BY <1>1, <2>1, FitsGives DEF Filled, CopyStands
    <3>3. j.at \in {"copy", "stat"} /\ (j.at = "stat" => j.check = j.listed)
      BY <3>1 DEF MadeFolder
    <3>4. j.src \in Srcs /\ j.stats = NoFiles /\ j.cur = NoFile /\ folders' = Put(folders, j.id, NoFiles)
      BY <3>1, <3>2 DEF MadeFolder
    <3> QED
      BY <1>1, <3>3, <3>4, EmptyIsFilled
  <2> QED
    BY <2>2, <2>3
<1>8. CASE Place(w)
  <2>1. Placed(w)
    BY <1>1, <1>8, PlaceGives
  <2>2. j.stats = NoFiles /\ j.cur = NoFile /\ j.src \in Srcs
    BY <1>1, <2>1 DEF Placed, Filled, CopyStands, Srcs
  <2>3. CASE j.at = "copy" /\ folders' = Put(folders, j.id, NoFiles)
    BY <1>1, <2>2, <2>3, EmptyIsFilled
  <2>4. CASE j.at = "commit" /\ (o.what = "vault" => j.id \in doubtful')
    <3>1. o # Idle /\ o.what \in {"vault", "inplaceVault"} /\ j.what = o.what
      BY <1>1, <2>1 DEF Fits, FitsItem, FitsVault, IsVault, Placed, Idle
    <3>2. ~Holds(w)'
      BY <2>4, <3>1 DEF Holds
    <3> QED
      BY <2>4, <3>2 DEF Filled, CopyStands
  <2> QED
    BY <2>1, <2>3, <2>4 DEF Placed
<1>9. CASE \E f \in Files : CopyBegins(w, f) \/ StatAgain(w, f)
  <2>1. PICK f \in Files : CopyBegins(w, f) \/ StatAgain(w, f)
    BY <1>9
  <2>2. o # Idle
    BY <2>1 DEF CopyBegins, StatAgain, Idle
  <2>3. CASE Failure(w)
    BY <1>2, <2>2, <2>3 DEF Failure
  <2>4. CASE ~Failure(w) /\ StatAgain(w, f)
    BY <1>1, <2>4, StatGives, LookIsFilled
  <2>5. CASE ~Failure(w) /\ CopyBegins(w, f)
    <3>1. Begun(w, f)
      BY <1>1, <2>5, BeginGives
    <3>2. /\ j.id = o.id /\ j.src = o.src /\ j.stats = o.stats /\ j.moved = o.moved /\ j.cur \in j.todo
          /\ j.at = "copy" /\ o.at = "copy" /\ folders' = folders
      BY <3>1 DEF Begun, Copying
    <3>3. \A g \in Files : Fresh(g, o) => Fresh(g, j)
      BY <3>2 DEF Fresh
    <3>4. CopyStands(j, folders'[j.id])
      BY <1>1, <3>2, <3>3 DEF Filled, CopyStands
    <3> QED
      BY <1>1, <3>2, <3>4, FilledBy
  <2> QED
    BY <2>1, <2>3, <2>4, <2>5
<1>10. CASE CopyEnds(w)
  <2>1. o # Idle
    BY <1>10 DEF CopyEnds, Idle
  <2>2. CASE Failure(w)
    BY <1>2, <2>1, <2>2 DEF Failure
  <2>3. CASE ~Failure(w)
    BY <1>1, <1>10, <2>3, EndGives, EndIsFilled
  <2> QED
    BY <2>2, <2>3
<1>11. CASE Commit(w)
  <2>1. Entered(w)
    BY <1>1, <1>11, MadeGives DEF Commit
  <2>2. CASE NewJob(j)
    BY <2>2, NewIsFilled
  <2>3. CASE j.at = "log"
    BY <2>3 DEF Filled, CopyStands
  <2> QED
    BY <2>1, <2>2, <2>3 DEF Entered
<1>12. CASE CommitFails(w) \/ Interrupt(w) \/ Error(w)
  BY <1>2, <1>12 DEF CommitFails, Interrupt, Error, Failure, Idle
<1>13. CASE Log(w) \/ LogFails(w)
  <2>1. o.at = "log" /\ o # Idle
    BY <1>13 DEF Log, LogFails, Idle
  <2>2. [res |-> "made", id |-> o.id] \in Results
    BY <1>1 DEF Jobs, Results
  <2>3. op' = [op EXCEPT ![w] = Idle] \/ ItemOver(w, [res |-> "made", id |-> o.id])
    BY <1>13 DEF Log, LogFails, Finish
  <2>4. CASE op' = [op EXCEPT ![w] = Idle]
    BY <1>1, <2>4, IdleIsNew, NewIsFilled
  <2>5. CASE ItemOver(w, [res |-> "made", id |-> o.id])
    BY <1>1, <2>1, <2>2, <2>5, OverGives, NewIsFilled
  <2> QED
    BY <2>3, <2>4, <2>5
<1>14. CASE Crash(w)
  <2>1. op' = [op EXCEPT ![w] = Idle]
    BY <1>14 DEF Crash
  <2> QED
    BY <1>1, <2>1, IdleIsNew, NewIsFilled
<1> QED
  BY <1>3, <1>5, <1>6, <1>7, <1>8, <1>9, <1>10, <1>11, <1>12, <1>13, <1>14 DEF WindowStep

LEMMA OthersFilled ==
  ASSUME Sure, NEW w \in Windows, WindowStep(w), OwnStep(w), NEW v \in Windows \ {w}
  PROVE  Filled(v)'
<1> DEFINE o == op[v]
<1>1. op'[v] = o /\ (Holds(v)' => Holds(v)) /\ Fits(o) /\ Filled(v) /\ o \in Jobs
  BY OthersHold DEF Sure, Typed
<1>2. UNCHANGED <<live, due, past, drafts>>
  BY LeavesGame
<1>3. o.at \in {"copy", "stat"} => Holds(v)
  BY <1>1, Makers
<1>4. Holds(v) => folders'[o.id] = folders[o.id]
  BY HoldersFolder
<1>5. CopyStands(op'[v], folders'[op'[v].id])
  BY <1>1, <1>3, <1>4 DEF Filled, CopyStands
<1>6. op'[v].at = "commit" /\ Holds(v)' =>
        \E was \in Moments : \A f \in op'[v].listed : folders'[op'[v].id][f] = was[f]
  BY <1>1, <1>4 DEF Filled
<1> QED
  BY <1>2, <1>5, <1>6, FilledBy

-----------------------------------------------------------------------------
\* What was reported is listed, and what a window looked at is not newer than the file.

Speaks(w) == /\ op'[w].look \in {0, stamp, op[w].look}
             /\ op'[w].at = "reread" => Refreshes(w)
             /\ Said(w)' /\ ToldIsTrue'

LEMMA IsListedMore ==
  ASSUME NEW d \in Seq(Results), IsListed(d), NEW r \in Results, r.res = "made" => r.id \in DOMAIN catalog
  PROVE  IsListed(Append(d, r))
<1>1. \A i \in DOMAIN Append(d, r) : Append(d, r)[i] = r \/ (i \in DOMAIN d /\ Append(d, r)[i] = d[i])
  OBVIOUS
<1> QED
  BY <1>1 DEF IsListed

LEMMA SpeaksBy ==
  ASSUME Sure, NEW w \in Windows, DOMAIN catalog \subseteq DOMAIN catalog',
         op'[w].look \in {0, stamp, op[w].look}, op'[w].at = "reread" => Refreshes(w),
         \A i \in DOMAIN op'[w].done : op'[w].done[i].res = "made" => op'[w].done[i].id \in DOMAIN catalog',
         op'[w].at = "log" /\ ~IsVault(op'[w]) => op'[w].id \in DOMAIN catalog', told' = told
  PROVE  Speaks(w)
<1>1. ToldIsTrue'
  BY DEF Sure, ToldIsTrue
<1>2. Said(w)'
  BY DEF Said, IsListed, IsVault
<1> QED
  BY <1>1, <1>2 DEF Speaks

LEMMA NewSpeaks ==
  ASSUME Sure, NEW w \in Windows, DOMAIN catalog \subseteq DOMAIN catalog', NewJob(op'[w]), told' = told,
         op'[w].done = <<>>
  PROVE  Speaks(w)
<1>1. op'[w].look = 0 /\ op'[w].at \notin {"reread", "log"} /\ DOMAIN op'[w].done = {}
  BY DEF NewJob
<1> QED
  BY <1>1, SpeaksBy

LEMMA OverSpeaks ==
  ASSUME Sure, NEW w \in Windows, DOMAIN catalog \subseteq DOMAIN catalog', op[w] # Idle,
         NEW r \in Results, r.res = "made" => r.id \in DOMAIN catalog, ItemOver(w, r)
  PROVE  Speaks(w)
<1> DEFINE o == op[w]  done == Append(o.done, r)
<1>1. op \in [Windows -> Jobs] /\ Fits(o) /\ o.done \in Seq(Results) /\ IsListed(o.done) /\ ToldIsTrue
  BY DEF Sure, Typed, Said, Jobs
<1>2. IsListed(done)
  BY <1>1, IsListedMore
<1>3. /\ NewJob(op'[w]) /\ op'[w].done \in {<<>>, done}
      /\ \/ told' = told
         \/ /\ told' = told \cup {[what |-> o.what, asked |-> o.asked, done |-> done]}
            /\ o.what = "batch" => Len(done) = Len(o.asked)
  BY <1>1, OverGives
<1> HIDE DEF done
<1>4. op'[w].look = 0 /\ op'[w].at \notin {"reread", "log"}
  BY <1>3 DEF NewJob
<1>5. \A i \in DOMAIN op'[w].done : op'[w].done[i].res = "made" => op'[w].done[i].id \in DOMAIN catalog'
  BY <1>2, <1>3 DEF IsListed
<1>6. Said(w)'
  BY <1>4, <1>5 DEF Said, IsListed
<1>7. \A i \in DOMAIN done : done[i].res = "made" => done[i].id \in DOMAIN catalog'
  BY <1>2 DEF IsListed
<1>8. ToldIsTrue'
  BY <1>1, <1>3, <1>7 DEF ToldIsTrue
<1> QED
  BY <1>4, <1>6, <1>8 DEF Speaks

LEMMA FailsSpeaks ==
  ASSUME Sure, NEW w \in Windows, DOMAIN catalog \subseteq DOMAIN catalog', op[w] # Idle, Fails(w)
  PROVE  Speaks(w)
<1>1. [res |-> "failed", id |-> <<>>] \in Results
  BY DEF Results
<1>2. ItemOver(w, [res |-> "failed", id |-> <<>>])
  BY DEF Fails
<1> QED
  BY <1>1, <1>2, OverSpeaks

LEMMA StepSpeaks ==
  ASSUME Sure, NEW w \in Windows, WindowStep(w), OwnStep(w)
  PROVE  Speaks(w)
<1> DEFINE o == op[w]  j == op'[w]
<1>1. /\ op \in [Windows -> Jobs] /\ o \in Jobs /\ Fits(o) /\ Said(w) /\ o.done \in Seq(Results)
      /\ op' \in [Windows -> Jobs] /\ Fits(j) /\ DOMAIN catalog \subseteq DOMAIN catalog'
  BY CatalogGrows DEF Sure, Typed, OwnStep, Shifts, Only, Jobs
<1>2. CASE o # Idle /\ Fails(w)
  BY <1>1, <1>2, FailsSpeaks
<1>3. \A i \in DOMAIN o.done : o.done[i].res = "made" => o.done[i].id \in DOMAIN catalog'
  BY <1>1 DEF Said, IsListed
<1>4. CASE Start(w)
  BY <1>1, <1>4, StartGives, NewSpeaks
<1>5. CASE Early(w)
  <2>1. j.look \in {0, stamp, o.look} /\ (j.at = "reread" => Refreshes(w)) /\ j.done = o.done /\ told' = told
        /\ (j.at = "log" => IsVault(j))
    BY <1>5 DEF Early
  <2> QED
    BY <1>1, <1>3, <2>1, SpeaksBy
<1>6. CASE List(w)
  <2>1. o # Idle
    <3>1. o.at = "list"
      BY <1>6 DEF List
    <3> QED
      BY <3>1 DEF Idle
  <2>2. [res |-> "skipped", id |-> <<>>] \in Results
    BY DEF Results
  <2>3. CASE ItemOver(w, [res |-> "skipped", id |-> <<>>])
    BY <1>1, <2>1, <2>2, <2>3, OverSpeaks
  <2>4. CASE ~ItemOver(w, [res |-> "skipped", id |-> <<>>])
    BY <1>1, <1>5, <1>6, <2>4, EarlySteps
  <2> QED
    BY <2>3, <2>4
<1>7. CASE Look(w) \/ Read(w) \/ NoteRead(w) \/ Name(w)
  BY <1>1, <1>5, <1>7, EarlySteps
<1>8. CASE Mkdir(w)
  <2>1. o # Idle
    <3>1. o.at = "mkdir"
      BY <1>8 DEF Mkdir
    <3> QED
      BY <3>1 DEF Idle
  <2>2. CASE Failure(w)
    BY <1>2, <2>1, <2>2 DEF Failure
  <2>3. CASE ~Failure(w)
    <3>1. j.look = o.look /\ j.at \notin {"reread", "log"} /\ j.done = o.done /\ told' = told
      BY <1>1, <1>8, <2>3, MkdirGives DEF MadeFolder
    <3> QED
      BY <1>1, <1>3, <3>1, SpeaksBy
  <2> QED
    BY <2>2, <2>3
<1>9. CASE Place(w)
  <2>1. j.look = o.look /\ j.at \notin {"reread", "log"} /\ j.done = o.done /\ told' = told
    BY <1>1, <1>9, PlaceGives DEF Placed
  <2> QED
    BY <1>1, <1>3, <2>1, SpeaksBy
<1>10. CASE (\E f \in Files : CopyBegins(w, f) \/ StatAgain(w, f)) \/ CopyEnds(w)
  <2>1. o # Idle
    <3>1. o.at \in {"copy", "stat"}
      BY <1>10 DEF CopyBegins, StatAgain, CopyEnds
    <3> QED
      BY <3>1 DEF Idle
  <2>2. CASE Failure(w)
    BY <1>2, <2>1, <2>2 DEF Failure
  <2>3. CASE ~Failure(w)
    <3>1. Copying(w) /\ j.at \notin {"reread", "log"}
      <4>1. CASE CopyEnds(w)
        BY <1>1, <2>3, <4>1, EndGives DEF Ended
      <4>2. CASE \E f \in Files : CopyBegins(w, f) \/ StatAgain(w, f)
        <5>1. PICK f \in Files : CopyBegins(w, f) \/ StatAgain(w, f)
          BY <4>2
        <5> QED
          BY <1>1, <2>3, <5>1, BeginGives, StatGives DEF Begun, Looked
      <4> QED
        BY <1>10, <4>1, <4>2
    <3> QED
      BY <1>1, <1>3, <3>1, SpeaksBy DEF Copying
  <2> QED
    BY <2>2, <2>3
<1>11. CASE Commit(w)
  <2>1. Entered(w) /\ told' = told
    <3>1. told' = told /\ Made(w)
      BY <1>11 DEF Commit
    <3> QED
      BY <1>1, <3>1, MadeGives
  <2> DEFINE r == [res |-> "made", id |-> o.id]
  <2>2. o.id \in DOMAIN catalog'
    BY <1>11 DEF Commit, Put
  <2>3. r \in Results
    BY <1>1 DEF Jobs, Results
  <2>4. r.id = o.id
    OBVIOUS
  <2> HIDE DEF r
  <2>5. \A i \in DOMAIN Append(o.done, r) : Append(o.done, r)[i].res = "made" => Append(o.done, r)[i].id \in DOMAIN catalog'
    <3>1. \A i \in DOMAIN Append(o.done, r) : Append(o.done, r)[i] = r \/ (i \in DOMAIN o.done /\ Append(o.done, r)[i] = o.done[i])
      BY <1>1, <2>3
    <3> QED
      BY <1>3, <2>2, <2>4, <3>1
  <2>6. CASE NewJob(j) /\ j.done = Append(o.done, r)
    <3>1. j.look = 0 /\ j.at \notin {"reread", "log"}
      BY <2>6 DEF NewJob
    <3> QED
      BY <1>1, <2>1, <2>5, <2>6, <3>1, SpeaksBy
  <2>7. CASE j.at = "log" /\ j.look = o.look /\ j.id = o.id /\ j.done = IF IsVault(o) THEN Append(o.done, r) ELSE o.done
    <3>1. j.look \in {0, stamp, o.look} /\ j.id \in DOMAIN catalog' /\ j.at # "reread"
      BY <2>2, <2>7
    <3>2. \A i \in DOMAIN j.done : j.done[i].res = "made" => j.done[i].id \in DOMAIN catalog'
      BY <1>3, <2>5, <2>7
    <3> QED
      BY <1>1, <2>1, <3>1, <3>2, SpeaksBy
  <2> QED
    BY <2>1, <2>6, <2>7 DEF Entered, r
<1>12. CASE CommitFails(w) \/ Interrupt(w) \/ Error(w)
  BY <1>2, <1>12 DEF CommitFails, Interrupt, Error, Failure, Idle
<1>13. CASE Log(w) \/ LogFails(w)
  <2>1. o # Idle /\ o.at = "log"
    <3>1. o.at = "log"
      BY <1>13 DEF Log, LogFails
    <3> QED
      BY <3>1 DEF Idle
  <2>2. CASE IsVault(o)
    <3>1. op' = [op EXCEPT ![w] = Idle] /\ told' = told \cup {[what |-> o.what, asked |-> o.asked, done |-> o.done]}
      BY <1>13, <2>2 DEF Log, LogFails, Finish
    <3>2. ToldIsTrue'
      BY <1>1, <1>3, <2>2, <3>1 DEF ToldIsTrue, Sure, IsVault
    <3>3. j = Idle
      BY <1>1, <3>1
    <3>4. j.look = 0 /\ j.at = "idle" /\ j.done = <<>>
      BY <3>3 DEF Idle
    <3>5. Said(w)'
      BY <3>4 DEF Said, IsListed
    <3> QED
      BY <3>2, <3>4, <3>5 DEF Speaks
  <2>3. CASE ~IsVault(o)
    <3>1. ItemOver(w, [res |-> "made", id |-> o.id])
      BY <1>13, <2>3 DEF Log, LogFails
    <3>2. [res |-> "made", id |-> o.id] \in Results
      BY <1>1 DEF Jobs, Results
    <3>3. o.id \in DOMAIN catalog
      BY <1>1, <2>1, <2>3 DEF Said
    <3> QED
      BY <1>1, <2>1, <3>1, <3>2, <3>3, OverSpeaks
  <2> QED
    BY <2>2, <2>3
<1>14. CASE Crash(w)
  <2>1. op' = [op EXCEPT ![w] = Idle] /\ told' = told
    BY <1>14 DEF Crash
  <2>2. NewJob(j) /\ j.done = <<>>
    BY <1>1, <2>1, IdleIsNew
  <2> QED
    BY <1>1, <2>1, <2>2, NewSpeaks
<1> QED
  BY <1>4, <1>6, <1>7, <1>8, <1>9, <1>10, <1>11, <1>12, <1>13, <1>14 DEF WindowStep

LEMMA OthersSaid ==
  ASSUME Sure, NEW w \in Windows, OwnStep(w), NEW v \in Windows \ {w}
  PROVE  Said(v)'
<1>1. op'[v] = op[v] /\ DOMAIN catalog \subseteq DOMAIN catalog' /\ Said(v)
  BY OthersHold, CatalogGrows DEF Sure
<1> QED
  BY <1>1 DEF Said, IsListed

-----------------------------------------------------------------------------
\* Every window's memory of the catalog, and the log.

\* What a step does to the catalog file and to what is known of it.
Remembers(w) ==
  \/ UNCHANGED <<catalog, stamp, memory, seen>>
  \/ Refreshes(w) /\ op'[w].look = op[w].look
  \/ /\ op[w].at = "reread" /\ seen' = [seen EXCEPT ![w] = op[w].look] /\ UNCHANGED <<catalog, stamp, memory>>
  \/ /\ stamp' = stamp + 1 /\ memory' = [memory EXCEPT ![w] = catalog'] /\ seen' = [seen EXCEPT ![w] = stamp']
  \/ /\ stamp' = stamp + 1 /\ memory' = [memory EXCEPT ![w] = catalog] /\ seen' = [seen EXCEPT ![w] = stamp]
  \/ /\ memory' = [memory EXCEPT ![w] = catalog] /\ seen' = [seen EXCEPT ![w] = stamp] /\ UNCHANGED <<catalog, stamp>>
  \/ /\ memory' = [memory EXCEPT ![w] = <<>>] /\ seen' = [seen EXCEPT ![w] = 0] /\ UNCHANGED <<catalog, stamp>>

LEMMA StepRemembers ==
  ASSUME op \in [Windows -> Jobs], NEW w \in Windows, WindowStep(w)
  PROVE  Remembers(w)
<1>1. CASE Start(w)
  BY <1>1 DEF Start, Begin, disk, Remembers
<1>2. CASE List(w) \/ Look(w) \/ Name(w)
  BY <1>2 DEF List, Look, Name, disk, Remembers
<1>3. CASE Read(w)
  <2>1. op' = [op EXCEPT ![w].at = "reread"] /\ Refreshes(w)
    BY <1>3 DEF Read, Step, Refreshes
  <2>2. op'[w].look = op[w].look
    BY <2>1 DEF Jobs
  <2> QED
    BY <2>1, <2>2 DEF Remembers
<1>4. CASE NoteRead(w)
  BY <1>4 DEF NoteRead, StampOf, Remembers
<1>5. CASE Mkdir(w) \/ Place(w)
  BY <1>5 DEF Mkdir, Place, Failure, Remembers
<1>6. CASE \E f \in Files : CopyBegins(w, f) \/ StatAgain(w, f)
  BY <1>6 DEF CopyBegins, StatAgain, Failure, disk, Remembers
<1>7. CASE CopyEnds(w)
  BY <1>7 DEF CopyEnds, Failure, Remembers
<1>8. CASE Commit(w)
  BY <1>8 DEF Commit, Remembers
<1>9. CASE CommitFails(w)
  BY <1>9 DEF CommitFails, Restored, Remembers
<1>10. CASE Interrupt(w)
  BY <1>10 DEF Interrupt, Remembers
<1>11. CASE Error(w) \/ Log(w) \/ LogFails(w)
  BY <1>11 DEF Error, Failure, Log, LogFails, disk, Remembers
<1>12. CASE Crash(w)
  BY <1>12 DEF Crash, Remembers
<1> QED
  BY <1>1, <1>2, <1>3, <1>4, <1>5, <1>6, <1>7, <1>8, <1>9, <1>10, <1>11, <1>12 DEF WindowStep

LEMMA MemoryKept ==
  ASSUME Sure, NEW w \in Windows, WindowStep(w), OwnStep(w)
  PROVE  /\ DOMAIN memory' = Windows /\ \A v \in Windows : DOMAIN memory'[v] \subseteq Ids
         /\ stamp' \in Nat \ {0} /\ seen' \in [Windows -> Nat]
         /\ \A v \in Windows : SeenAt(v)'
<1> DEFINE o == op[w]  j == op'[w]
<1>1. /\ DOMAIN memory = Windows /\ \A v \in Windows : DOMAIN memory[v] \subseteq Ids
      /\ stamp \in Nat \ {0} /\ seen \in [Windows -> Nat] /\ DOMAIN catalog \subseteq Ids /\ DOMAIN catalog' \subseteq Ids
      /\ op \in [Windows -> Jobs] /\ \A v \in Windows : SeenAt(v) /\ op[v].look \in Nat
  BY DiskTyped DEF Sure, Typed, Jobs
<1>2. Remembers(w) /\ Speaks(w) /\ \A v \in Windows \ {w} : op'[v] = op[v]
  BY <1>1, StepRemembers, StepSpeaks, OthersHold
<1>3. j.look \in {0, stamp, o.look} /\ (j.at = "reread" => Refreshes(w)) /\ j.look <= stamp
  BY <1>1, <1>2 DEF Speaks, SeenAt
<1>4. DOMAIN <<>> = {}
  OBVIOUS
<1>5. ASSUME seen' \in [Windows -> Nat], stamp' \in Nat \ {0}, stamp <= stamp', seen'[w] <= stamp',
             seen'[w] = stamp' => memory'[w] = catalog',
             j.at = "reread" /\ j.look = stamp' => memory'[w] = catalog',
             \A v \in Windows \ {w} : seen'[v] = seen[v] /\ memory'[v] = memory[v],
             stamp' = stamp => catalog' = catalog
      PROVE  \A v \in Windows : SeenAt(v)'
  <2> TAKE v \in Windows
  <2>1. CASE v = w
    BY <1>1, <1>3, <1>5, <2>1 DEF SeenAt
  <2>2. CASE v # w
    <3>1. seen[v] <= stamp /\ op[v].look <= stamp /\ seen[v] \in Nat /\ op[v].look \in Nat /\ op'[v] = op[v]
          /\ seen'[v] = seen[v] /\ memory'[v] = memory[v]
      BY <1>1, <1>2, <1>5, <2>2 DEF SeenAt
    <3>2. CASE stamp' = stamp
      BY <1>1, <1>5, <3>1, <3>2 DEF SeenAt
    <3>3. CASE stamp' # stamp
      <4>1. seen[v] # stamp' /\ op[v].look # stamp' /\ seen[v] <= stamp' /\ op[v].look <= stamp'
        BY <1>1, <1>5, <3>1, <3>3
      <4> QED
        BY <3>1, <4>1 DEF SeenAt
    <3> QED
      BY <3>2, <3>3
  <2> QED
    BY <2>1, <2>2
<1>6. CASE UNCHANGED <<catalog, stamp, memory, seen>>
  <2>1. j.at = "reread" => memory'[w] = catalog'
    BY <1>1, <1>3, <1>6 DEF Refreshes
  <2> QED
    BY <1>1, <1>5, <1>6, <2>1 DEF SeenAt
<1>7. CASE Refreshes(w) /\ j.look = o.look
  <2>1. memory' = [memory EXCEPT ![w] = catalog] /\ UNCHANGED <<catalog, stamp, seen>>
    BY <1>7 DEF Refreshes
  <2> QED
    BY <1>1, <1>5, <2>1 DEF SeenAt
<1>8. CASE o.at = "reread" /\ seen' = [seen EXCEPT ![w] = o.look] /\ UNCHANGED <<catalog, stamp, memory>>
  <2>1. j.at = "reread" => memory'[w] = catalog'
    BY <1>1, <1>3, <1>8 DEF Refreshes
  <2> QED
    BY <1>1, <1>5, <1>8, <2>1 DEF SeenAt
<1>9. CASE /\ stamp' = stamp + 1 /\ memory' = [memory EXCEPT ![w] = catalog'] /\ seen' = [seen EXCEPT ![w] = stamp']
  BY <1>1, <1>5, <1>9
<1>10. CASE /\ stamp' = stamp + 1 /\ memory' = [memory EXCEPT ![w] = catalog] /\ seen' = [seen EXCEPT ![w] = stamp]
  <2>1. j.look # stamp' /\ seen'[w] # stamp'
    BY <1>1, <1>3, <1>10
  <2> QED
    BY <1>1, <1>5, <1>10, <2>1
<1>11. CASE /\ memory' = [memory EXCEPT ![w] = catalog] /\ seen' = [seen EXCEPT ![w] = stamp] /\ UNCHANGED <<catalog, stamp>>
  BY <1>1, <1>5, <1>11
<1>12. CASE /\ memory' = [memory EXCEPT ![w] = <<>>] /\ seen' = [seen EXCEPT ![w] = 0] /\ UNCHANGED <<catalog, stamp>>
  <2>1. j.at = "reread" => memory'[w] = catalog'
    BY <1>1, <1>3, <1>12 DEF Refreshes
  <2> QED
    BY <1>1, <1>4, <1>5, <1>12, <2>1
<1> QED
  BY <1>2, <1>6, <1>7, <1>8, <1>9, <1>10, <1>11, <1>12 DEF Remembers

LEMMA ReadableGives ==
  ASSUME NEW log \in Seq({"whole", "torn"})
  PROVE  /\ IsFiniteSet(Readable(log)) /\ Cardinality(Readable(log)) \in Nat /\ Cardinality(Readable(log)) <= Len(log)
         /\ Cardinality(Readable(Append(log, "whole"))) = Cardinality(Readable(log)) + 1
         /\ Readable(Append(log, "torn")) = Readable(log)
<1>1. Readable(log) \subseteq 1..Len(log) /\ Len(log) \in Nat
  BY DEF Readable
<1>2. IsFiniteSet(1..Len(log)) /\ Cardinality(1..Len(log)) = Len(log)
  <2>1. 1 \in Int /\ Len(log) \in Int
    BY <1>1
  <2>2. Cardinality(1..Len(log)) = IF 1 > Len(log) THEN 0 ELSE Len(log) - 1 + 1
    BY <2>1, FS_Interval
  <2> QED
    BY <1>1, <2>1, <2>2, FS_Interval
<1>3. IsFiniteSet(Readable(log)) /\ Cardinality(Readable(log)) <= Len(log)
  BY <1>1, <1>2, FS_Subset
<1>4. Cardinality(Readable(log)) \in Nat
  BY <1>3, FS_CardinalityType
<1>5. Readable(Append(log, "whole")) = Readable(log) \cup {Len(log) + 1}
  BY <1>1 DEF Readable
<1>6. Len(log) + 1 \notin Readable(log)
  BY <1>1
<1>7. Cardinality(Readable(log) \cup {Len(log) + 1}) = Cardinality(Readable(log)) + 1
  BY <1>3, <1>6, FS_AddElement
<1>8. Readable(Append(log, "torn")) = Readable(log)
  BY <1>1 DEF Readable
<1> QED
  BY <1>3, <1>4, <1>5, <1>7, <1>8

LEMMA LogKept ==
  ASSUME Sure, NEW w \in Windows, WindowStep(w)
  PROVE  oplog' \in Seq({"whole", "torn"}) /\ acked' \in Nat /\ Recorded'
<1>1. oplog \in Seq({"whole", "torn"}) /\ acked \in Nat /\ Recorded
  BY DEF Sure, Typed
<1>2. \/ oplog' \in {oplog, Append(oplog, "torn")} /\ acked' = acked
      \/ oplog' = Append(oplog, "whole") /\ acked' = acked + 1
  <2>1. CASE Start(w)
    BY <2>1 DEF Start, Begin
  <2>2. CASE List(w) \/ Look(w) \/ Read(w) \/ NoteRead(w) \/ Name(w) \/ Mkdir(w) \/ Place(w)
    BY <2>2 DEF List, Look, Read, NoteRead, Name, Mkdir, Place, Failure
  <2>3. CASE (\E f \in Files : CopyBegins(w, f) \/ StatAgain(w, f)) \/ CopyEnds(w)
    BY <2>3 DEF CopyBegins, StatAgain, CopyEnds, Failure
  <2>4. CASE Commit(w) \/ CommitFails(w) \/ Interrupt(w) \/ Error(w)
    BY <2>4 DEF Commit, CommitFails, Interrupt, Error, Failure
  <2>5. CASE Log(w)
    BY <2>5 DEF Log, WithLine
  <2>6. CASE LogFails(w) \/ Crash(w)
    BY <2>6 DEF LogFails, Crash
  <2> QED
    BY <2>1, <2>2, <2>3, <2>4, <2>5, <2>6 DEF WindowStep
<1>3. /\ Cardinality(Readable(oplog)) \in Nat /\ Cardinality(Readable(Append(oplog, "whole"))) = Cardinality(Readable(oplog)) + 1
      /\ Readable(Append(oplog, "torn")) = Readable(oplog)
  BY <1>1, ReadableGives
<1>4. CASE oplog' \in {oplog, Append(oplog, "torn")} /\ acked' = acked
  <2>1. Readable(oplog') = Readable(oplog)
    BY <1>3, <1>4
  <2>2. oplog' \in Seq({"whole", "torn"})
    BY <1>1, <1>4
  <2> QED
    BY <1>1, <1>4, <2>1, <2>2 DEF Recorded, Readable
<1>5. CASE oplog' = Append(oplog, "whole") /\ acked' = acked + 1
  <2>1. Cardinality(Readable(oplog')) >= acked'
    BY <1>1, <1>3, <1>5 DEF Recorded
  <2>2. Recorded'
    BY <2>1 DEF Recorded, Readable
  <2>3. oplog' \in Seq({"whole", "torn"}) /\ acked' \in Nat
    BY <1>1, <1>5
  <2> QED
    BY <2>2, <2>3
<1> QED
  BY <1>2, <1>4, <1>5

\* A window's step keeps everything.
LEMMA WindowKept ==
  ASSUME Sure, NEW w \in Windows, WindowStep(w)
  PROVE  Sure' /\ OwnStep(w)
<1>1. /\ op \in [Windows -> Jobs] /\ live \in [Files -> Nat] /\ stamp \in Nat /\ now \in Nat /\ Fits(op[w])
      /\ op[w].at = "copy" => op[w].id \in DOMAIN folders
  <2>1. /\ op \in [Windows -> Jobs] /\ live \in [Files -> Nat] /\ stamp \in Nat /\ now \in 0..MaxTime
        /\ Fits(op[w]) /\ Owned(w)
    BY DEF Sure, Typed
  <2>2. op[w].at = "copy" => Holds(w)
    BY <2>1, Makers
  <2>3. now \in Nat
    BY <2>1, Constants
  <2> QED
    BY <2>1, <2>2, <2>3 DEF Owned
<1>2. OwnStep(w)
  BY <1>1, WindowMoves, StepKinds DEF OwnStep
<1>3. UNCHANGED <<live, due, past, drafts, now>>
  BY LeavesGame
<1>4. op' \in [Windows -> Jobs] /\ \A v \in Windows : Fits(op'[v])
  BY <1>2 DEF OwnStep, Shifts, Only, Sure
<1>5. Typed'
  BY <1>2, <1>3, <1>4, DiskTyped, MemoryKept, LogKept DEF Sure, Typed
<1>6. Written' /\ Listed' /\ Accounted' /\ ToldIsTrue' /\ Recorded'
  <2>1. Written'
    BY <1>3 DEF Sure, Written
  <2>2. past' = past
    BY <1>3
  <2> QED
    BY <1>2, <2>1, <2>2, ListedKept, AccountedKept, StepSpeaks, LogKept DEF Speaks
<1>7. ASSUME NEW v \in Windows
      PROVE  Owned(v)' /\ Filled(v)' /\ SeenAt(v)' /\ Said(v)'
  <2>1. Owned(v)' /\ SeenAt(v)'
    BY <1>2, OwnedKept, MemoryKept
  <2>2. Filled(v)' /\ Said(v)'
    BY <1>2, OwnFilled, OthersFilled, StepSpeaks, OthersSaid DEF Speaks
  <2> QED
    BY <2>1, <2>2
<1> QED
  BY <1>2, <1>4, <1>5, <1>6, <1>7 DEF Sure

-----------------------------------------------------------------------------
\* The game's steps.

OutOfHand == <<folders, catalog, stamp, memory, seen, oplog, acked, op, told, left, doubtful>>

\* What was copied of the live folder stays the state of one moment: a file that is written
\* again has a version that was not there before.
LEMMA CopiedKept ==
  ASSUME NEW o \in Jobs, NEW dir, CopyStands(o, dir), past \subseteq past',
         \A f \in Files : Fresh(f, o) => Fresh(f, o)',
         o.src = "live" => \A f \in Files : Fresh(f, o) /\ live'[f] # 0 /\ live'[f] = o.stats[f] => live[f] = live'[f]
  PROVE  CopyStands(o, dir)'
<1>1. Moments \subseteq Moments'
  BY DEF Moments
<1>2. o.listed \subseteq Files
  BY DEF Jobs
<1>3. ASSUME NEW f \in Files, Fresh(f, o), f \in Present(o.src)', Content(o.src)'[f] = o.stats[f]
      PROVE  f \in Present(o.src) /\ Content(o.src)[f] = o.stats[f]
  <2>1. CASE o.src = "live"
    BY <1>3, <2>1 DEF Present, Content
  <2>2. CASE o.src # "live"
    BY <1>3, <2>2 DEF Present, Content
  <2> QED
    BY <2>1, <2>2
<1>4. o.at = "stat" =>
       \E was \in Moments' : \A f \in o.listed \ o.moved :
         /\ f \notin o.check => was[f] = o.stats[f]
         /\ f \in o.check /\ f \in Present(o.src)' /\ Content(o.src)'[f] = o.stats[f] => was[f] = o.stats[f]
  <2> SUFFICES ASSUME o.at = "stat"
               PROVE  \E was \in Moments' : \A f \in o.listed \ o.moved :
                        /\ f \notin o.check => was[f] = o.stats[f]
                        /\ f \in o.check /\ f \in Present(o.src)' /\ Content(o.src)'[f] = o.stats[f] => was[f] = o.stats[f]
    OBVIOUS
  <2>1. PICK was \in Moments : \A f \in o.listed \ o.moved :
         /\ f \notin o.check => was[f] = o.stats[f]
         /\ f \in o.check /\ f \in Present(o.src) /\ Content(o.src)[f] = o.stats[f] => was[f] = o.stats[f]
    BY DEF CopyStands
  <2>2. \A f \in Files : Fresh(f, o)
    BY DEF CopyStands
  <2> QED
    BY <1>1, <1>2, <1>3, <2>1, <2>2
<1>5. o.at \in {"copy", "stat"} => \A f \in Files : Fresh(f, o)'
  BY DEF CopyStands
<1> QED
  BY <1>4, <1>5 DEF CopyStands

LEMMA GameKept ==
  ASSUME Sure, UNCHANGED OutOfHand, past \subseteq past', Written',
         live' \in [Files -> Nat], past' \subseteq [Files -> Nat], drafts' \in Nat, now' \in 0..MaxTime,
         due' = <<>> \/ due' \in {"meta", "gone"} \X Slots,
         \A w \in Windows : CopyStands(op[w], folders[op[w].id])'
  PROVE  Sure'
<1>1. Typed'
  BY DEF Sure, Typed, OutOfHand
<1>2. Moments \subseteq Moments'
  BY DEF Moments
<1>3. Listed'
  <2>1. \A i \in DOMAIN catalog \ doubtful : catalog[i].managed => IsWhole(i)
    BY DEF Sure, Listed, EntriesAreWhole
  <2>2. \A i \in DOMAIN catalog : IsWhole(i) => IsWhole(i)'
    BY DEF IsWhole, OutOfHand
  <2> QED
    BY <2>1, <2>2 DEF Sure, Listed, EntriesAreWhole, OutOfHand
<1>4. Accounted' /\ ToldIsTrue' /\ Recorded'
  BY DEF Sure, Accounted, ToldIsTrue, Recorded, Readable, Keeps, HasMade, IsVault, OutOfHand
<1>5. ASSUME NEW w \in Windows
      PROVE  Fits(op'[w]) /\ Owned(w)' /\ Filled(w)' /\ SeenAt(w)' /\ Said(w)'
  <2>1. Fits(op[w]) /\ Owned(w) /\ Filled(w) /\ SeenAt(w) /\ Said(w)
    BY DEF Sure
  <2>2. Holds(w)' <=> Holds(w)
    BY DEF Holds, OutOfHand
  <2>3. \A v \in Windows : Holds(v)' <=> Holds(v)
    BY DEF Holds, OutOfHand
  <2>4. Filled(w)'
    <3>1. op'[w] = op[w] /\ folders' = folders
      BY DEF OutOfHand
    <3> QED
      BY <1>2, <2>1, <2>2, <3>1 DEF Filled
  <2>5. Owned(w)'
    BY <2>1, <2>3 DEF Owned, OutOfHand
  <2> QED
    BY <2>1, <2>4, <2>5 DEF SeenAt, Said, IsListed, IsVault, OutOfHand
<1> QED
  BY <1>1, <1>3, <1>4, <1>5 DEF Sure, OutOfHand

\* The same of a window's job, which the game leaves alone.
LEMMA JobCopiedKept ==
  ASSUME Sure, NEW w \in Windows, UNCHANGED <<op, folders>>, past \subseteq past',
         op[w].src = "live" => \A f \in Files : Fresh(f, op[w]) =>
            /\ op[w].stats[f] <= drafts'
            /\ due' = <<"meta", f[2]>> /\ f[1] = "meta" => op[w].stats[f] < drafts'
            /\ live'[f] # 0 /\ live'[f] = op[w].stats[f] => live[f] = live'[f]
  PROVE  CopyStands(op[w], folders[op[w].id])'
<1>1. op[w] \in Jobs /\ CopyStands(op[w], folders[op[w].id])
  BY DEF Sure, Typed, Filled
<1>2. PICK o \in Jobs : o = op[w]
  BY <1>1
<1>3. PICK dir : dir = folders[o.id]
  OBVIOUS
<1>4. CopyStands(o, dir)
  BY <1>1, <1>2, <1>3
<1>5. \A f \in Files : Fresh(f, o) => Fresh(f, o)'
  BY <1>2 DEF Fresh
<1>6. o.src = "live" => \A f \in Files : Fresh(f, o) /\ live'[f] # 0 /\ live'[f] = o.stats[f] => live[f] = live'[f]
  BY <1>2
<1>7. CopyStands(o, dir)'
  BY <1>4, <1>5, <1>6, CopiedKept
<1> QED
  BY <1>2, <1>3, <1>7 DEF CopyStands, Moments, Fresh, Present, Content

LEMMA SavesKeeps ==
  ASSUME Sure, NEW s \in Slots, GameSaves(s)
  PROVE  Sure'
<1> DEFINE f0 == <<"data", s>>  m0 == <<"meta", s>>
<1>1. /\ live \in [Files -> Nat] /\ past \subseteq [Files -> Nat] /\ drafts \in Nat /\ now \in 0..MaxTime
      /\ \A f \in Files : live[f] <= drafts
  BY DEF Sure, Typed, Written
<1>2. /\ drafts' = drafts + 1 /\ live' = [live EXCEPT ![f0] = drafts'] /\ past' = past \cup {live'}
      /\ due' = <<"meta", s>> /\ now' = now /\ UNCHANGED OutOfHand
  BY DEF GameSaves, Write, OutOfHand
<1>3. f0 \in Files /\ m0 \in Files /\ f0 # m0
  BY DEF Files
<1>4. live' \in [Files -> Nat] /\ drafts' \in Nat
  BY <1>1, <1>2, <1>3
<1>5. live'[f0] = drafts' /\ \A f \in Files \ {f0} : live'[f] = live[f]
  BY <1>1, <1>2, <1>3
<1>6. Written'
  <2>1. \A f \in Files : live'[f] <= drafts'
    BY <1>1, <1>2, <1>5
  <2>2. live'[m0] < drafts'
    BY <1>1, <1>2, <1>3, <1>5
  <2>3. drafts' # 0
    BY <1>1, <1>2
  <2> QED
    BY <1>2, <1>5, <2>1, <2>2, <2>3 DEF Written
<1>7. ASSUME NEW w \in Windows
      PROVE  CopyStands(op[w], folders[op[w].id])'
  <2>1. op[w].stats \in [Files -> Nat]
    BY DEF Sure, Typed, Jobs
  <2>2. ASSUME op[w].src = "live", NEW f \in Files, Fresh(f, op[w])
        PROVE  /\ op[w].stats[f] <= drafts' /\ op[w].stats[f] < drafts'
               /\ live'[f] # 0 /\ live'[f] = op[w].stats[f] => live[f] = live'[f]
    <3>1. op[w].stats[f] \in Nat /\ op[w].stats[f] <= drafts
      BY <2>1, <2>2 DEF Fresh
    <3>2. op[w].stats[f] < drafts'
      BY <1>1, <1>2, <3>1
    <3>3. op[w].stats[f] # drafts'
      BY <1>4, <3>1, <3>2
    <3> QED
      BY <1>4, <1>5, <3>1, <3>2, <3>3
  <2>3. UNCHANGED <<op, folders>> /\ past \subseteq past'
    BY <1>2 DEF OutOfHand
  <2> QED
    BY <2>2, <2>3, JobCopiedKept
<1>8. past' \subseteq [Files -> Nat] /\ past \subseteq past' /\ due' \in {"meta", "gone"} \X Slots
  BY <1>1, <1>2, <1>4
<1> QED
  BY <1>1, <1>2, <1>4, <1>6, <1>7, <1>8, GameKept

LEMMA ErasesKeeps ==
  ASSUME Sure, NEW s \in Slots, GameErases(s)
  PROVE  Sure'
<1> DEFINE f0 == <<"data", s>>
<1>1. /\ live \in [Files -> Nat] /\ past \subseteq [Files -> Nat] /\ drafts \in Nat /\ now \in 0..MaxTime
      /\ (\A f \in Files : live[f] <= drafts) /\ drafts # 0
  BY DEF Sure, Typed, Written
<1>2. /\ live' = [live EXCEPT ![f0] = 0] /\ past' = past \cup {live'}
      /\ due' = <<"gone", s>> /\ now' = now /\ drafts' = drafts /\ UNCHANGED OutOfHand
  BY DEF GameErases, Write, OutOfHand
<1>3. f0 \in Files
  BY DEF Files
<1>4. live' \in [Files -> Nat] /\ live'[f0] = 0 /\ \A f \in Files \ {f0} : live'[f] = live[f]
  BY <1>1, <1>2, <1>3
<1>5. due' # <<>> /\ due'[1] # "meta" /\ \A x : due' # <<"meta", x>>
  BY <1>2
<1>6. Written'
  <2>1. \A f \in Files : live'[f] <= drafts'
    BY <1>1, <1>2, <1>4
  <2> QED
    BY <1>1, <1>2, <1>5, <2>1 DEF Written
<1>7. ASSUME NEW w \in Windows
      PROVE  CopyStands(op[w], folders[op[w].id])'
  <2>1. ASSUME op[w].src = "live", NEW f \in Files, Fresh(f, op[w])
        PROVE  op[w].stats[f] <= drafts' /\ (live'[f] # 0 => live[f] = live'[f])
    BY <1>2, <1>4, <2>1 DEF Fresh
  <2>2. UNCHANGED <<op, folders>> /\ past \subseteq past'
    BY <1>2 DEF OutOfHand
  <2> QED
    BY <1>5, <2>1, <2>2, JobCopiedKept
<1>8. past' \subseteq [Files -> Nat] /\ past \subseteq past' /\ due' \in {"meta", "gone"} \X Slots /\ drafts' \in Nat
  BY <1>1, <1>2, <1>4
<1> QED
  BY <1>1, <1>2, <1>4, <1>6, <1>7, <1>8, GameKept

LEMMA FinishesKeeps ==
  ASSUME Sure, GameFinishes
  PROVE  Sure'
<1> DEFINE s == due[2]  m0 == <<"meta", s>>  new == IF due[1] = "meta" THEN live[<<"data", s>>] ELSE 0
<1>1. /\ live \in [Files -> Nat] /\ past \subseteq [Files -> Nat] /\ drafts \in Nat /\ now \in 0..MaxTime
      /\ (\A f \in Files : live[f] <= drafts) /\ drafts # 0
  BY DEF Sure, Typed, Written
<1>2. /\ due # <<>> /\ live' = [live EXCEPT ![m0] = new] /\ past' = past \cup {live'}
      /\ due' = <<>> /\ now' = now /\ drafts' = drafts /\ UNCHANGED OutOfHand
  BY DEF GameFinishes, Write, OutOfHand, disk
<1>3. due \in {"meta", "gone"} \X Slots /\ s \in Slots /\ due = <<due[1], s>>
  BY <1>2 DEF Sure, Typed
<1>4. m0 \in Files /\ <<"data", s>> \in Files /\ new \in Nat /\ new <= drafts
  BY <1>1, <1>3 DEF Files
<1>5. due[1] = "meta" => new = drafts
  BY <1>2 DEF Sure, Written
<1>6. due[1] # "meta" => new = 0
  OBVIOUS
<1> HIDE DEF new
<1>7. live' \in [Files -> Nat] /\ live'[m0] = new /\ \A f \in Files \ {m0} : live'[f] = live[f]
  BY <1>1, <1>2, <1>4
<1>8. Written'
  <2>1. \A f \in Files : live'[f] <= drafts'
    BY <1>1, <1>2, <1>4, <1>7
  <2> QED
    BY <1>1, <1>2, <2>1 DEF Written
<1>9. ASSUME NEW w \in Windows
      PROVE  CopyStands(op[w], folders[op[w].id])'
  <2>0. op[w].stats \in [Files -> Nat]
    BY DEF Sure, Typed, Jobs
  <2>1. ASSUME op[w].src = "live", NEW f \in Files, Fresh(f, op[w])
        PROVE  op[w].stats[f] <= drafts' /\ (live'[f] # 0 /\ live'[f] = op[w].stats[f] => live[f] = live'[f])
    <3>1. op[w].stats[f] \in Nat /\ op[w].stats[f] <= drafts
      BY <2>0, <2>1 DEF Fresh
    <3>2. CASE f # m0
      BY <1>2, <1>7, <3>1, <3>2
    <3>3. CASE f = m0 /\ due[1] = "meta"
      <4>1. f[1] = "meta" /\ f[2] = s /\ due = <<"meta", f[2]>>
        BY <1>3, <3>3
      <4>2. op[w].stats[f] < drafts
        BY <1>2, <2>1, <4>1 DEF Fresh
      <4>3. live'[f] # op[w].stats[f]
        BY <1>1, <1>5, <1>7, <3>1, <3>3, <4>2
      <4> QED
        BY <1>2, <3>1, <4>3
    <3>4. CASE f = m0 /\ due[1] # "meta"
      BY <1>2, <1>6, <1>7, <3>1, <3>4
    <3> QED
      BY <3>2, <3>3, <3>4
  <2>2. UNCHANGED <<op, folders>> /\ past \subseteq past'
    BY <1>2 DEF OutOfHand
  <2>3. \A x : due' # <<"meta", x>>
    BY <1>2
  <2> QED
    BY <2>1, <2>2, <2>3, JobCopiedKept
<1>10. past' \subseteq [Files -> Nat] /\ past \subseteq past' /\ drafts' \in Nat
  BY <1>1, <1>2, <1>7
<1> QED
  BY <1>1, <1>2, <1>7, <1>8, <1>9, <1>10, GameKept

LEMMA TickKeeps ==
  ASSUME Sure, Tick
  PROVE  Sure'
<1>1. /\ live \in [Files -> Nat] /\ past \subseteq [Files -> Nat] /\ drafts \in Nat /\ now \in 0..MaxTime
      /\ (due = <<>> \/ due \in {"meta", "gone"} \X Slots) /\ Written
  BY DEF Sure, Typed
<1>2. now' = now + 1 /\ now < MaxTime /\ UNCHANGED <<live, due, past, drafts>> /\ UNCHANGED OutOfHand
  BY DEF Tick, OutOfHand, disk
<1>3. now' \in 0..MaxTime
  BY <1>1, <1>2, Constants
<1>4. Written'
  BY <1>1, <1>2 DEF Written
<1>5. ASSUME NEW w \in Windows
      PROVE  CopyStands(op[w], folders[op[w].id])'
  <2>1. UNCHANGED <<op, folders>> /\ past \subseteq past'
    BY <1>2 DEF OutOfHand
  <2>2. ASSUME op[w].src = "live", NEW f \in Files, Fresh(f, op[w])
        PROVE  /\ op[w].stats[f] <= drafts'
               /\ due' = <<"meta", f[2]>> /\ f[1] = "meta" => op[w].stats[f] < drafts'
               /\ live[f] = live'[f]
    <3>1. live' = live /\ due' = due /\ drafts' = drafts
      BY <1>2
    <3>2. due = <<"meta", f[2]>> => due # <<>>
      OBVIOUS
    <3> QED
      BY <2>2, <3>1, <3>2 DEF Fresh
  <2> QED
    BY <2>1, <2>2, JobCopiedKept
<1> QED
  BY <1>1, <1>2, <1>3, <1>4, <1>5, GameKept

-----------------------------------------------------------------------------
LEMMA Begins == Init => Sure
<1> SUFFICES ASSUME Init PROVE Sure
  OBVIOUS
<1>1. /\ live = Whole /\ due = <<>> /\ past = {live} /\ drafts = 1 /\ now = 0 /\ folders = <<>> /\ catalog = <<>> /\ stamp = 1
      /\ memory = [w \in Windows |-> <<>>] /\ seen = [w \in Windows |-> 0] /\ oplog = <<>> /\ acked = 0
      /\ op = [w \in Windows |-> Idle] /\ told = {} /\ left = {} /\ doubtful = {}
  BY DEF Init
<1>2. DOMAIN folders = {} /\ DOMAIN catalog = {} /\ \A w \in Windows : DOMAIN memory[w] = {}
  BY <1>1
<1>3. folders \in [DOMAIN folders -> [Files -> Nat \cup {Torn}]] /\ catalog \in [DOMAIN catalog -> Entries]
  BY <1>1, <1>2
<1>4. Typed
  <2>1. live \in [Files -> Nat] /\ past \subseteq [Files -> Nat] /\ drafts \in Nat /\ now \in 0..MaxTime /\ due = <<>>
    BY <1>1, NotFiles, Constants
  <2>2. op \in [Windows -> Jobs] /\ oplog \in Seq({"whole", "torn"}) /\ acked \in Nat /\ stamp \in Nat \ {0}
        /\ seen \in [Windows -> Nat] /\ DOMAIN memory = Windows
    BY <1>1, IdleFits
  <2> QED
    BY <1>1, <1>2, <1>3, <2>1, <2>2 DEF Typed
<1>5. Written
  BY <1>1 DEF Written, Whole
<1>6. Listed /\ Accounted /\ ToldIsTrue
  BY <1>1, <1>2 DEF Listed, EntriesAreWhole, Accounted, ToldIsTrue
<1>7. Recorded
  <2>1. Readable(oplog) = {}
    BY <1>1 DEF Readable
  <2>2. Cardinality(Readable(oplog)) = 0
    BY <2>1, FS_EmptySet
  <2> QED
    BY <1>1, <2>2 DEF Recorded
<1>8. ASSUME NEW w \in Windows
      PROVE  Fits(op[w]) /\ Owned(w) /\ Filled(w) /\ SeenAt(w) /\ Said(w)
  <2>1. op[w] = Idle /\ Fits(op[w])
    BY <1>1, IdleFits
  <2>2. op[w].at = "idle" /\ op[w].done = <<>> /\ op[w].look = 0 /\ op[w].stats = NoFiles
    BY <2>1 DEF Idle
  <2>3. Owned(w)
    BY <2>2 DEF Owned, Holds
  <2>4. Filled(w)
    BY <2>2 DEF Filled, CopyStands
  <2>5. SeenAt(w)
    BY <1>1, <2>2 DEF SeenAt
  <2>6. Said(w)
    BY <2>2 DEF Said, IsListed
  <2> QED
    BY <2>1, <2>3, <2>4, <2>5, <2>6
<1> QED
  BY <1>4, <1>5, <1>6, <1>7, <1>8 DEF Sure

LEMMA StutterKeeps ==
  ASSUME Sure, UNCHANGED vars
  PROVE  Sure'
<1>1. UNCHANGED <<live, due, past, drafts, now>> /\ UNCHANGED OutOfHand
  BY DEF vars, OutOfHand
<1>2. /\ live \in [Files -> Nat] /\ past \subseteq [Files -> Nat] /\ drafts \in Nat /\ now \in 0..MaxTime
      /\ (due = <<>> \/ due \in {"meta", "gone"} \X Slots) /\ Written
  BY DEF Sure, Typed
<1>3. Written'
  BY <1>1, <1>2 DEF Written
<1>4. ASSUME NEW w \in Windows
      PROVE  CopyStands(op[w], folders[op[w].id])'
  <2>1. UNCHANGED <<op, folders>> /\ past \subseteq past'
    BY <1>1 DEF OutOfHand
  <2>2. ASSUME op[w].src = "live", NEW f \in Files, Fresh(f, op[w])
        PROVE  /\ op[w].stats[f] <= drafts'
               /\ due' = <<"meta", f[2]>> /\ f[1] = "meta" => op[w].stats[f] < drafts'
               /\ live[f] = live'[f]
    <3>1. live' = live /\ due' = due /\ drafts' = drafts
      BY <1>1
    <3>2. due = <<"meta", f[2]>> => due # <<>>
      OBVIOUS
    <3> QED
      BY <2>2, <3>1, <3>2 DEF Fresh
  <2> QED
    BY <2>1, <2>2, JobCopiedKept
<1> QED
  BY <1>1, <1>2, <1>3, <1>4, GameKept

LEMMA Continues ==
  ASSUME Sure, [Next]_vars
  PROVE  Sure'
<1>1. ASSUME NEW s \in Slots, GameSaves(s) \/ GameErases(s) PROVE Sure'
  BY <1>1, SavesKeeps, ErasesKeeps
<1>2. ASSUME NEW w \in Windows, WindowStep(w) PROVE Sure'
  BY <1>2, WindowKept
<1> QED
  BY <1>1, <1>2, FinishesKeeps, TickKeeps, StutterKeeps DEF Next, WindowStep

\* Everything above holds of every state.
THEOREM VaultIsSure == Spec => []Sure
<1>1. Init => Sure
  BY Begins
<1>2. Sure /\ [Next]_vars => Sure'
  BY Continues
<1> QED
  BY <1>1, <1>2, PTL DEF Spec

\* What the vault of folders is, whatever the game, the windows, an error or a crash do: an
\* entry's folder is there with the files of one moment, a folder without an entry is being
\* made or was left, every acknowledged record is read, and what was reported is true.
THEOREM ListedIsWhole == Spec => []VaultIsSound
<1>1. Sure => TypeOK
  <2> SUFFICES ASSUME Sure PROVE TypeOK
    OBVIOUS
  <2>1. acked <= Len(oplog)
    <3>1. oplog \in Seq({"whole", "torn"}) /\ acked \in Nat /\ Cardinality(Readable(oplog)) >= acked
      BY DEF Sure, Typed, Recorded
    <3>2. Cardinality(Readable(oplog)) \in Nat /\ Cardinality(Readable(oplog)) <= Len(oplog) /\ Len(oplog) \in Nat
      BY <3>1, ReadableGives
    <3> QED
      BY <3>1, <3>2
  <2> QED
    BY <2>1 DEF Sure, Typed, TypeOK, SeenAt
<1>2. Sure => EntriesAreWhole /\ SeenIsCurrent /\ RecordedIsRead /\ ToldIsTrue
  BY DEF Sure, Listed, SeenIsCurrent, SeenAt, Recorded, RecordedIsRead
<1>3. Sure => NoOrphans
  <2> SUFFICES ASSUME Sure PROVE NoOrphans
    OBVIOUS
  <2>1. \A w \in Windows : Keeps(w) => op[w].at \in {"copy", "stat", "commit"}
    BY DEF Keeps, HasMade
  <2> QED
    BY <2>1 DEF Sure, Accounted, NoOrphans
<1>4. Sure => VaultIsSound
  BY <1>1, <1>2, <1>3 DEF VaultIsSound
<1> QED
  BY <1>4, VaultIsSure, PTL

\* No window takes another's entry from the catalog, or changes one that has a folder of its own.
THEOREM OthersAreKept == Spec => KeepsOthers
<1> DEFINE Stays == \A i \in DOMAIN catalog :
                      /\ i \in DOMAIN catalog'
                      /\ (catalog[i].managed /\ i \notin SourceIds \cup doubtful) => catalog'[i] = catalog[i]
<1>1. ASSUME Sure, [Next]_vars
      PROVE  [Stays]_vars
  <2>1. ASSUME NEW w \in Windows, WindowStep(w) PROVE Stays
    <3>1. OwnStep(w)
      BY <1>1, <2>1, WindowKept
    <3> QED
      BY <1>1, <3>1, EntriesStay
  <2>2. CASE catalog' = catalog
    BY <2>2
  <2>3. CASE (\E s \in Slots : GameSaves(s) \/ GameErases(s)) \/ GameFinishes \/ Tick
    <3>1. catalog' = catalog
      BY <2>3 DEF GameSaves, GameErases, GameFinishes, Tick, disk
    <3> QED
      BY <2>2, <3>1
  <2> QED
    BY <1>1, <2>1, <2>3 DEF Next, WindowStep
<1>2. Spec => [][Stays]_vars
  BY <1>1, VaultIsSure, PTL DEF Spec
<1> QED
  BY <1>2 DEF KeepsOthers
-----------------------------------------------------------------------------
(* The window and its worker (NothingIsCut, ChangesShown).                  *)

Statuses == {"done", "error"}
Asks     == {"no", "plain", "record"}
Tasks    == Writes \cup Reads \cup {"list", "scan"}
Tabs     == [ok : BOOLEAN, version : Nat, home : Nat]
WorkJobs == [kind : Tasks, low : BOOLEAN, counts : BOOLEAN, tag : Nat, home : Nat,
             at : {"begin", "open", "read"}]
Uis ==
  [gen : Nat, listing : Tabs, queue : Seq(WorkJobs), scanning : BOOLEAN, pending : Asks, again : Asks,
   reopen : BOOLEAN, checked : BOOLEAN, looked : Nat, org : Nat, model : Tabs, switched : Nat,
   excused : BOOLEAN, owed : [list : Nat, model : Nat, home : Nat]]
WorkResults == [kind : Tasks, counts : BOOLEAN, tag : Nat, status : Statuses, version : Nat, home : Nat]
FrameStates == [kind : Classics, at : {"thread", "over", "box"},
                status : Statuses \cup {"none", "invalid", "game"}]
WindowStates ==
  [at : {"open", "leaving", "gone"}, asked : {"no", "worker", "classic"}, closing : BOOLEAN,
   finishing : BOOLEAN, how : {"none", "close", "poll", "finish", "update"}, late : BOOLEAN,
   cut : SUBSET Classics, dropped : SUBSET Tasks]

DesktopTyped ==
  /\ truth \in Nat /\ home \in Nat \ {0}
  /\ ui \in Uis
  /\ running \in WorkJobs \cup {NoJob}
  /\ results \in Seq(WorkResults)
  /\ frames \in Seq(FrameStates)
  /\ window \in WindowStates

\* What has been promised to the owner about closing.
WindowHolds ==
  /\ \A i \in DOMAIN frames : frames[i].status \in {"invalid", "game"} => frames[i].kind = "run"
  /\ Open /\ (window.asked = "worker" \/ window.finishing) /\ ~window.late => ~ClassicOps
  /\ ~Open => /\ ~window.late => window.cut = {}
              /\ window.how # "update" => window.dropped = {}
  /\ window.at = "gone" => running = NoJob

\* What the window u has asked for is where it should be: r is the job the worker is at, q
\* what it has finished, t and h the changes and the layouts there have been.
ScanQueued(u) == \E i \in DOMAIN u.queue : u.queue[i].kind = "scan"
ScanRuns(r)   == r.kind = "scan"
ScanDone(q)   == \E i \in DOMAIN q : q[i].kind = "scan"

\* The worker has one scan at most, and the view knows of it.
OneScan(u, r, q) ==
  /\ \A i, j \in DOMAIN u.queue : u.queue[i].kind = "scan" /\ u.queue[j].kind = "scan" => i = j
  /\ \A i, j \in DOMAIN q : q[i].kind = "scan" /\ q[j].kind = "scan" => i = j
  /\ ScanQueued(u) => ~ScanRuns(r) /\ ~ScanDone(q)
  /\ ScanRuns(r) => ~ScanDone(q)
  /\ u.scanning <=> ScanQueued(u) \/ ScanRuns(r) \/ ScanDone(q)
  /\ u.pending # "no" => u.scanning
  /\ \A i \in DOMAIN u.queue : u.queue[i].at = "begin"

\* The newest listing is on its way or shown, and it is not older than what is owed.
Newest(u, job) == job.kind = "list" /\ job.tag = u.gen
ListQueued(u)  == \E i \in DOMAIN u.queue : Newest(u, u.queue[i])
ListRuns(u, r) == Newest(u, r)
ListDone(u, q) == \E i \in DOMAIN q : Newest(u, q[i])
Timely(u, job) == job.kind = "list" => job.tag <= u.gen /\ (job.tag = u.gen => job.home >= u.owed.home)
ListingKept(u, r, q) ==
  /\ \A i \in DOMAIN u.queue : Timely(u, u.queue[i])
  /\ Timely(u, r)
  /\ \A i \in DOMAIN q :
       q[i].kind = "list" =>
         /\ q[i].tag <= u.gen
         /\ q[i].tag = u.gen /\ q[i].status = "done" =>
              q[i].version >= u.owed.list /\ q[i].home >= u.owed.home
  /\ \/ ListQueued(u) \/ ListRuns(u, r) \/ ListDone(u, q)
     \/ (u.listing.ok => u.listing.version >= u.owed.list /\ u.listing.home >= u.owed.home)
Within(u, t, h) == /\ u.owed.list <= t /\ u.owed.model <= t
                   /\ u.owed.home <= h /\ u.switched <= h

\* A scan that has not begun will see what is owed, or another follows.
ScansSettled(u)    == u.pending = "no" /\ u.again = "no"
Covered(u, r) == ~ScansSettled(u) \/ ScanQueued(u) \/ (ScanRuns(r) /\ r.at = "begin")
Late(u, h)    == h >= u.owed.home \/ u.excused
Anew(u)       == u.org = 0 \/ u.reopen
Opened(u, r) == /\ ~Anew(u) => Late(u, u.org)
                /\ ScanRuns(r) /\ r.at # "begin" => u.org # 0
Modelled(u, r, q) ==
  /\ Opened(u, r)
  /\ ScansSettled(u) /\ ScanRuns(r) /\ r.at = "read" => r.tag >= u.owed.model /\ Late(u, r.home)
  /\ ScansSettled(u) => \A i \in DOMAIN q :
       q[i].kind = "scan" /\ q[i].status = "done" =>
         q[i].version >= u.owed.model /\ Late(u, q[i].home)
  /\ ScansSettled(u) /\ ~u.scanning /\ u.model.ok =>
       u.model.version >= u.owed.model /\ Late(u, u.model.home)
Reopens(u, r) == u.reopen => Covered(u, r)

\* A look for interrupted moves is one at the vault that is open.
Looks(u, h) == h >= u.switched \/ u.excused
Checked(u, r) ==
  /\ ~Anew(u) => Looks(u, u.org)
  /\ ScanRuns(r) /\ r.at = "open" => Looks(u, u.org)
  /\ ScanRuns(r) /\ r.at = "read" => Looks(u, r.home)
  /\ u.checked => Looks(u, u.looked)

Kept(u, r, q, t, h) == OneScan(u, r, q) /\ ListingKept(u, r, q) /\ Within(u, t, h)
                       /\ Modelled(u, r, q) /\ Checked(u, r)
\* The same, where what the scan saw is left out.
ScanBegun(u, r, q, t, h) == OneScan(u, r, q) /\ ListingKept(u, r, q) /\ Within(u, t, h)
                        /\ Opened(u, r) /\ Checked(u, r)
TabsKept   == Kept(ui, running, results, truth, home) /\ Reopens(ui, running)
DesktopInv == DesktopTyped /\ WindowHolds /\ TabsKept

-----------------------------------------------------------------------------
(* Facts about queues.                                                      *)

LEMMA JobIsTyped ==
  ASSUME NEW kind \in Tasks, NEW low \in BOOLEAN, NEW counts \in BOOLEAN, NEW tag \in Nat, NEW h \in Nat
  PROVE  /\ Job(kind, low, counts, tag, h) \in WorkJobs
         /\ Job(kind, low, counts, tag, h).kind = kind /\ Job(kind, low, counts, tag, h).tag = tag
         /\ Job(kind, low, counts, tag, h).home = h /\ Job(kind, low, counts, tag, h).at = "begin"
         /\ Job(kind, low, counts, tag, h).counts = counts
  BY DEF Job, WorkJobs

LEMMA ScanJobIsTyped ==
  ASSUME NEW record \in {0, 1}
  PROVE  LET job == Job("scan", TRUE, FALSE, record, 0)
         IN  job \in WorkJobs /\ job.kind = "scan" /\ job.at = "begin"
  BY DEF Job, WorkJobs, Tasks

LEMMA NoJobIsNone == NoJob.kind = "none" /\ NoJob.counts = FALSE /\ NoJob.at = "end"
  BY DEF NoJob

LEMMA Appends ==
  ASSUME NEW S, NEW q \in Seq(S), NEW e \in S
  PROVE  /\ Append(q, e) \in Seq(S)
         /\ DOMAIN Append(q, e) = DOMAIN q \cup {Len(q) + 1}
         /\ Len(q) + 1 \notin DOMAIN q /\ Append(q, e)[Len(q) + 1] = e
         /\ \A i \in DOMAIN q : Append(q, e)[i] = q[i] /\ q[i] \in S
  OBVIOUS

LEMMA Tails ==
  ASSUME NEW S, NEW q \in Seq(S), q # <<>>
  PROVE  /\ Tail(q) \in Seq(S) /\ Head(q) = q[1] /\ Head(q) \in S /\ 1 \in DOMAIN q
         /\ \A i \in DOMAIN Tail(q) : i + 1 \in DOMAIN q /\ i \in Nat /\ Tail(q)[i] = q[i + 1]
         /\ \A i \in DOMAIN q : i = 1 \/ (i - 1 \in DOMAIN Tail(q) /\ Tail(q)[i - 1] = q[i])
  OBVIOUS

LEMMA Fronts ==
  ASSUME NEW S, NEW q \in Seq(S), q # <<>>
  PROVE  /\ Front(q) \in Seq(S) /\ Last(q) = q[Len(q)] /\ Last(q) \in S /\ Len(q) \in DOMAIN q
         /\ \A i \in DOMAIN Front(q) : i \in DOMAIN q /\ Front(q)[i] = q[i]
  <1>1. Len(q) \in Nat /\ Len(q) > 0 /\ DOMAIN q = 1 .. Len(q) /\ \A i \in DOMAIN q : q[i] \in S
    OBVIOUS
  <1>2. Front(q) = [i \in 1 .. Len(q) - 1 |-> q[i]]
    BY <1>1 DEF Front
  <1>3. Front(q) \in Seq(S) /\ DOMAIN Front(q) = 1 .. Len(q) - 1
    BY <1>1, <1>2
  <1> QED
    BY <1>1, <1>2, <1>3 DEF Last

\* Without the n-th, the others are there in their order.
LEMMA Removes ==
  ASSUME NEW S, NEW q \in Seq(S), NEW n \in DOMAIN q
  PROVE  /\ RemoveAt(q, n) \in Seq(S)
         /\ \A i \in DOMAIN RemoveAt(q, n) :
              i \in Nat /\ RemoveAt(q, n)[i] = IF i < n THEN q[i] ELSE q[i + 1]
         /\ \A i \in DOMAIN RemoveAt(q, n) : (i < n => i \in DOMAIN q) /\ (i >= n => i + 1 \in DOMAIN q)
         /\ \A i \in DOMAIN q : /\ i < n => i \in DOMAIN RemoveAt(q, n)
                                /\ i > n => i - 1 \in DOMAIN RemoveAt(q, n)
  <1>1. Len(q) \in Nat /\ n \in 1 .. Len(q) /\ DOMAIN q = 1 .. Len(q)
    OBVIOUS
  <1>2. /\ SubSeq(q, 1, n - 1) \in Seq(S) /\ Len(SubSeq(q, 1, n - 1)) = n - 1
        /\ \A i \in 1 .. n - 1 : SubSeq(q, 1, n - 1)[i] = q[i]
    BY <1>1, SubSeqProperties
  <1>3. /\ SubSeq(q, n + 1, Len(q)) \in Seq(S) /\ Len(SubSeq(q, n + 1, Len(q))) = Len(q) - n
        /\ \A i \in 1 .. Len(q) - n : SubSeq(q, n + 1, Len(q))[i] = q[n + i]
    BY <1>1, SubSeqProperties
  <1> DEFINE a == SubSeq(q, 1, n - 1)
             b == SubSeq(q, n + 1, Len(q))
  <1>4. RemoveAt(q, n) = a \o b
    BY DEF RemoveAt
  <1>5. a \in Seq(S) /\ b \in Seq(S) /\ Len(a) = n - 1 /\ Len(b) = Len(q) - n
    BY <1>2, <1>3
  <1> HIDE DEF a, b
  <1>6. /\ a \o b \in Seq(S) /\ Len(a \o b) = Len(a) + Len(b)
        /\ \A i \in 1 .. Len(a) + Len(b) : (a \o b)[i] = IF i <= Len(a) THEN a[i] ELSE b[i - Len(a)]
    BY <1>5, ConcatProperties
  <1>7. DOMAIN RemoveAt(q, n) = 1 .. Len(q) - 1
    <2>1. RemoveAt(q, n) \in Seq(S) /\ Len(RemoveAt(q, n)) = Len(a) + Len(b)
      BY <1>4, <1>6
    <2>2. Len(a) + Len(b) = Len(q) - 1
      BY <1>1, <1>5
    <2> QED
      BY <2>1, <2>2
  <1>8. ASSUME NEW i \in 1 .. Len(q) - 1
        PROVE  RemoveAt(q, n)[i] = IF i < n THEN q[i] ELSE q[i + 1]
    <2>1. CASE i < n
      BY <1>1, <1>2, <1>4, <1>5, <1>6, <2>1 DEF a
    <2>2. CASE i >= n
      <3>1. (a \o b)[i] = b[i - (n - 1)] /\ i - (n - 1) \in 1 .. Len(q) - n
        BY <1>1, <1>5, <1>6, <2>2, SMTT(40)
      <3>2. b[i - (n - 1)] = q[n + (i - (n - 1))]
        BY <1>3, <3>1 DEF b
      <3>3. n + (i - (n - 1)) = i + 1
        BY <1>1
      <3> QED
        BY <1>1, <1>4, <2>2, <3>1, <3>2, <3>3
    <2> QED
      BY <1>1, <2>1, <2>2
  <1>9. RemoveAt(q, n) \in Seq(S)
    BY <1>4, <1>6
  <1> HIDE DEF a, b
  <1> QED
    BY <1>1, <1>7, <1>8, <1>9

\* A set of numbers that is not empty has a first.
LEMMA FirstOfAll ==
  ASSUME NEW n \in Nat, NEW F \in SUBSET (1 .. n), F # {}
  PROVE  \E i \in F : \A j \in F : i <= j
  <1> DEFINE Below(i) == {j \in F : j <= i}
             B == {Below(i) : i \in F}
             S == 1 .. n
  <1>1. IsFiniteSet(S)
    BY FS_Interval
  <1>2. B \subseteq SUBSET S /\ B # {}
    OBVIOUS
  <1>3. IsWellFoundedOn(StrictSubsetOrdering(S), FiniteSubsetsOf(S)) /\ FiniteSubsetsOf(S) = SUBSET S
    BY <1>1, FS_StrictSubsetOrderingWellFounded, FS_FiniteSubsetsOfFinite
  <1>4. PICK T \in B : \A U \in B : ~(<<U, T>> \in StrictSubsetOrdering(S))
    <2> HIDE DEF B, S
    <2> QED
      BY <1>2, <1>3, WFMin
  <1>5. PICK i \in F : T = Below(i)
    BY <1>4
  <1>6. ASSUME NEW j \in F, j < i
        PROVE  FALSE
    <2>0. j \in Nat /\ i \in Nat /\ \A k \in F : k \in Nat
      OBVIOUS
    <2>1. Below(j) \subseteq Below(i) /\ i \in Below(i) /\ i \notin Below(j)
      <3>1. \A k \in F : k <= j => k <= i
        BY <1>6, <2>0
      <3>2. ~(i <= j) /\ i <= i
        BY <1>6, <2>0
      <3>3. i \in F /\ j \in F
        BY <1>6
      <3> QED
        BY <3>1, <3>2, <3>3
    <2>2. <<Below(j), Below(i)>> \in StrictSubsetOrdering(S)
      BY <2>1 DEF StrictSubsetOrdering
    <2> QED
      BY <1>4, <1>5, <2>2
  <1>7. \A j \in F : j \in Nat
    OBVIOUS
  <1> QED
    BY <1>6, <1>7

LEMMA NextIsQueued ==
  ASSUME NEW q \in Seq(WorkJobs), q # <<>>
  PROVE  NextJob(q) \in DOMAIN q
  <1> DEFINE first == {i \in DOMAIN q : ~q[i].low}
  <1>1. DOMAIN q = 1 .. Len(q) /\ Len(q) \in Nat /\ 1 \in DOMAIN q
    OBVIOUS
  <1>2. first # {} => \E i \in first : \A j \in first : i <= j
    BY <1>1, FirstOfAll
  <1> QED
    BY <1>1, <1>2 DEF NextJob

-----------------------------------------------------------------------------
(* What the handlers keep.                                                  *)

\* A job that is submitted is queued behind the others.
LEMMA SubmitFacts ==
  ASSUME NEW u \in Uis, NEW job \in WorkJobs
  PROVE  /\ Submit2(u, job) \in Uis
         /\ Submit2(u, job) = [u EXCEPT !.queue = Append(u.queue, job)]
         /\ DOMAIN Submit2(u, job).queue = DOMAIN u.queue \cup {Len(u.queue) + 1}
         /\ Len(u.queue) + 1 \notin DOMAIN u.queue
         /\ Submit2(u, job).queue[Len(u.queue) + 1] = job
         /\ \A i \in DOMAIN u.queue : Submit2(u, job).queue[i] = u.queue[i]
  <1>1. u.queue \in Seq(WorkJobs)
    BY DEF Uis
  <1>2. /\ Append(u.queue, job) \in Seq(WorkJobs)
        /\ DOMAIN Append(u.queue, job) = DOMAIN u.queue \cup {Len(u.queue) + 1}
        /\ Len(u.queue) + 1 \notin DOMAIN u.queue /\ Append(u.queue, job)[Len(u.queue) + 1] = job
        /\ \A i \in DOMAIN u.queue : Append(u.queue, job)[i] = u.queue[i]
    BY <1>1, Appends
  <1>3. Submit2(u, job) = [u EXCEPT !.queue = Append(u.queue, job)]
    BY DEF Submit2
  <1>4. [u EXCEPT !.queue = Append(u.queue, job)] \in Uis
        /\ [u EXCEPT !.queue = Append(u.queue, job)].queue = Append(u.queue, job)
    BY <1>2 DEF Uis
  <1> QED
    BY <1>2, <1>3, <1>4

\* More changes and layouts than before take nothing away.
LEMMA LaterKeeps ==
  ASSUME NEW u \in Uis, NEW r, NEW q, NEW t \in Nat, NEW h \in Nat, NEW t2 \in Nat, NEW h2 \in Nat,
         Kept(u, r, q, t, h), t2 >= t, h2 >= h
  PROVE  Kept(u, r, q, t2, h2)
  <1>1. u.owed.list \in Nat /\ u.owed.model \in Nat /\ u.owed.home \in Nat /\ u.switched \in Nat
    BY DEF Uis
  <1> QED
    BY <1>1 DEF Kept, Within

\* A job that is neither a scan nor a listing is nothing to the tabs.
LEMMA SubmitKeeps ==
  ASSUME NEW u \in Uis, NEW r, NEW q, NEW t \in Nat, NEW h \in Nat, NEW job \in WorkJobs,
         Kept(u, r, q, t, h), job.kind \notin {"scan", "list"}, job.at = "begin"
  PROVE  /\ Submit2(u, job) \in Uis /\ Kept(Submit2(u, job), r, q, t, h)
         /\ Reopens(u, r) => Reopens(Submit2(u, job), r)
  <1> DEFINE v == Submit2(u, job)
             n == Len(u.queue) + 1
  <1>1. /\ v \in Uis /\ v = [u EXCEPT !.queue = Append(u.queue, job)]
        /\ DOMAIN v.queue = DOMAIN u.queue \cup {n} /\ n \notin DOMAIN u.queue /\ v.queue[n] = job
        /\ \A i \in DOMAIN u.queue : v.queue[i] = u.queue[i]
    BY SubmitFacts
  <1>2. /\ v.gen = u.gen /\ v.listing = u.listing /\ v.scanning = u.scanning /\ v.pending = u.pending
        /\ v.again = u.again /\ v.reopen = u.reopen /\ v.checked = u.checked /\ v.looked = u.looked
        /\ v.org = u.org /\ v.model = u.model /\ v.switched = u.switched /\ v.excused = u.excused
        /\ v.owed = u.owed
    BY <1>1 DEF Uis
  <1> HIDE DEF v, n
  <1>3. ScanQueued(v) <=> ScanQueued(u)
    BY <1>1 DEF ScanQueued
  <1>4. ListQueued(u) => ListQueued(v)
    BY <1>1, <1>2 DEF ListQueued, Newest
  <1>5. OneScan(v, r, q)
    BY <1>1, <1>2, <1>3, SMTT(40) DEF Kept, OneScan
  <1>6. ListingKept(v, r, q)
    <2>1. \A i \in DOMAIN v.queue : Timely(v, v.queue[i])
      BY <1>1, <1>2 DEF Kept, ListingKept, Timely
    <2>2. Timely(v, r)
      BY <1>2 DEF Kept, ListingKept, Timely
    <2>3. \/ ListQueued(v) \/ ListRuns(v, r) \/ ListDone(v, q)
          \/ (v.listing.ok => v.listing.version >= v.owed.list /\ v.listing.home >= v.owed.home)
      BY <1>2, <1>4 DEF Kept, ListingKept, ListRuns, ListDone, Newest
    <2> QED
      BY <1>2, <2>1, <2>2, <2>3 DEF Kept, ListingKept
  <1>7. Within(v, t, h) /\ Modelled(v, r, q) /\ Checked(v, r)
    BY <1>2 DEF Kept, Within, Modelled, Opened, Checked, ScansSettled, Late, Looks, Anew
  <1>8. Reopens(u, r) => Reopens(v, r)
    BY <1>2, <1>3 DEF Reopens, Covered, ScansSettled
  <1> QED
    BY <1>1, <1>5, <1>6, <1>7, <1>8 DEF Kept, v

\* Whatever listing may count is of layout h and of now, and it is queued.
FreshList(u, r, q, h) ==
  /\ ListQueued(u) /\ ~ListRuns(u, r) /\ ~ListDone(u, q)
  /\ \A i \in DOMAIN u.queue : Newest(u, u.queue[i]) => u.queue[i].home >= h

LEMMA RefreshKeeps ==
  ASSUME NEW u \in Uis, NEW r \in WorkJobs \cup {NoJob}, NEW q \in Seq(WorkResults),
         NEW t \in Nat, NEW h \in Nat, NEW h2 \in Nat,
         Kept(u, r, q, t, h), h2 >= u.owed.home
  PROVE  /\ Refresh(u, h2) \in Uis /\ Kept(Refresh(u, h2), r, q, t, h)
         /\ FreshList(Refresh(u, h2), r, q, h2)
         /\ Covered(u, r) => Covered(Refresh(u, h2), r)
         /\ Refresh(u, h2).owed = u.owed /\ Refresh(u, h2).reopen = u.reopen
         /\ Refresh(u, h2).checked = u.checked /\ Refresh(u, h2).excused = u.excused
         /\ Refresh(u, h2).org = u.org
  <1> DEFINE w == [u EXCEPT !.gen = u.gen + 1]
             job == Job("list", FALSE, FALSE, u.gen + 1, h2)
             v == Submit2(w, job)
             n == Len(w.queue) + 1
  <1>0. u.gen \in Nat /\ u.gen + 1 \in Nat
    BY DEF Uis
  <1>1. w \in Uis /\ w.gen = u.gen + 1 /\ w.queue = u.queue
    BY <1>0 DEF Uis
  <1>2. job \in WorkJobs /\ job.kind = "list" /\ job.tag = u.gen + 1 /\ job.home = h2 /\ job.at = "begin"
    <2>1. \A k \in Nat : LET j == Job("list", FALSE, FALSE, k, h2)
          IN  j \in WorkJobs /\ j.kind = "list" /\ j.tag = k /\ j.home = h2 /\ j.at = "begin"
      <3> SUFFICES ASSUME NEW k \in Nat
                   PROVE  LET j == Job("list", FALSE, FALSE, k, h2)
                          IN  j \in WorkJobs /\ j.kind = "list" /\ j.tag = k /\ j.home = h2 /\ j.at = "begin"
        OBVIOUS
      <3> QED
        BY DEF Job, WorkJobs, Tasks
    <2> QED
      BY <1>0, <2>1
  <1>3. Refresh(u, h2) = v
    BY DEF Refresh
  <1>4. w.listing = u.listing /\ w.scanning = u.scanning /\ w.pending = u.pending
        /\ w.again = u.again /\ w.reopen = u.reopen /\ w.checked = u.checked /\ w.looked = u.looked
        /\ w.org = u.org /\ w.model = u.model /\ w.switched = u.switched /\ w.excused = u.excused
        /\ w.owed = u.owed
    BY DEF Uis
  <1> HIDE DEF w, job
  <1>5. /\ v \in Uis /\ v = [w EXCEPT !.queue = Append(w.queue, job)]
        /\ DOMAIN v.queue = DOMAIN u.queue \cup {n} /\ n \notin DOMAIN u.queue /\ v.queue[n] = job
        /\ \A i \in DOMAIN u.queue : v.queue[i] = u.queue[i]
    <2>1. /\ v \in Uis /\ v = [w EXCEPT !.queue = Append(w.queue, job)]
          /\ DOMAIN v.queue = DOMAIN w.queue \cup {n} /\ n \notin DOMAIN w.queue /\ v.queue[n] = job
          /\ \A i \in DOMAIN w.queue : v.queue[i] = w.queue[i]
      BY <1>1, <1>2, SubmitFacts
    <2> HIDE DEF v, n
    <2> QED
      BY <1>1, <2>1
  <1>6. /\ v.gen = u.gen + 1 /\ v.listing = u.listing /\ v.scanning = u.scanning /\ v.pending = u.pending
        /\ v.again = u.again /\ v.reopen = u.reopen /\ v.checked = u.checked /\ v.looked = u.looked
        /\ v.org = u.org /\ v.model = u.model /\ v.switched = u.switched /\ v.excused = u.excused
        /\ v.owed = u.owed
    BY <1>1, <1>4, <1>5 DEF Uis
  <1> HIDE DEF v, n
  <1>7. ScanQueued(v) <=> ScanQueued(u)
    BY <1>2, <1>5 DEF ScanQueued
  <1>8. OneScan(v, r, q)
    <2>1. \A i \in DOMAIN v.queue : v.queue[i].at = "begin" /\ (v.queue[i].kind = "scan" =>
             i \in DOMAIN u.queue /\ u.queue[i].kind = "scan")
      BY <1>2, <1>5 DEF Kept, OneScan
    <2>2. \A i, j \in DOMAIN v.queue : v.queue[i].kind = "scan" /\ v.queue[j].kind = "scan" => i = j
      BY <2>1 DEF Kept, OneScan
    <2> QED
      BY <1>6, <1>7, <2>1, <2>2 DEF Kept, OneScan
  <1>9. \A i \in DOMAIN u.queue : u.queue[i].kind = "list" => u.queue[i].tag <= u.gen /\ u.queue[i].tag \in Nat
    <2>1. \A i \in DOMAIN u.queue : u.queue[i] \in WorkJobs
      BY DEF Uis
    <2> QED
      BY <2>1 DEF Kept, ListingKept, Timely, WorkJobs
  <1>10. r.kind = "list" => r.tag <= u.gen /\ r.tag \in Nat
    BY NoJobIsNone DEF Kept, ListingKept, Timely, WorkJobs
  <1>11. \A i \in DOMAIN q : q[i].kind = "list" => q[i].tag <= u.gen /\ q[i].tag \in Nat
    <2>1. \A i \in DOMAIN q : q[i] \in WorkResults
      OBVIOUS
    <2> QED
      BY <2>1 DEF Kept, ListingKept, WorkResults
  <1>12. FreshList(v, r, q, h2)
    <2>1. ListQueued(v)
      BY <1>2, <1>5, <1>6 DEF ListQueued, Newest
    <2>2. ~ListRuns(v, r)
      BY <1>0, <1>6, <1>10 DEF ListRuns, Newest
    <2>3. ~ListDone(v, q)
      BY <1>0, <1>6, <1>11 DEF ListDone, Newest
    <2>4. ASSUME NEW i \in DOMAIN v.queue, Newest(v, v.queue[i])
          PROVE  v.queue[i].home >= h2
      <3>1. i = n
        <4>1. CASE i \in DOMAIN u.queue
          <5>1. u.queue[i].kind = "list" /\ u.queue[i].tag = u.gen + 1
            BY <1>5, <1>6, <2>4, <4>1 DEF Newest
          <5> QED
            BY <1>0, <1>9, <4>1, <5>1
        <4> QED
          BY <1>5, <4>1
      <3> QED
        BY <1>2, <1>5, <3>1
    <2> QED
      BY <2>1, <2>2, <2>3, <2>4 DEF FreshList
  <1>13. ListingKept(v, r, q)
    <2>1. ASSUME NEW i \in DOMAIN v.queue
          PROVE  Timely(v, v.queue[i])
      <3>1. CASE i = n
        BY <1>0, <1>2, <1>5, <1>6, <3>1, SMTT(40) DEF Timely
      <3>2. CASE i \in DOMAIN u.queue
        <4>1. v.queue[i] = u.queue[i] /\ v.gen = u.gen + 1
          BY <1>5, <1>6, <3>2
        <4> QED
          BY <1>0, <1>9, <3>2, <4>1 DEF Timely
      <3> QED
        BY <1>5, <3>1, <3>2
    <2>2. Timely(v, r)
      BY <1>0, <1>6, <1>10 DEF Timely
    <2>3. \A i \in DOMAIN q : q[i].kind = "list" => q[i].tag <= v.gen /\ q[i].tag # v.gen
      BY <1>0, <1>6, <1>11
    <2> QED
      BY <1>12, <2>1, <2>2, <2>3 DEF ListingKept, FreshList
  <1>14. Within(v, t, h) /\ Modelled(v, r, q) /\ Checked(v, r)
    BY <1>6 DEF Kept, Within, Modelled, Opened, Checked, ScansSettled, Late, Looks, Anew
  <1>15. Covered(u, r) => Covered(v, r)
    BY <1>6, <1>7 DEF Covered, ScansSettled
  <1> QED
    BY <1>3, <1>5, <1>6, <1>8, <1>12, <1>13, <1>14, <1>15 DEF Kept

\* Whether a scan is under way or not, one that has not begun will follow.
LEMMA RescanBegins ==
  ASSUME NEW u \in Uis, NEW r \in WorkJobs \cup {NoJob}, NEW q \in Seq(WorkResults),
         NEW t \in Nat, NEW h \in Nat, NEW record \in {0, 1},
         ScanBegun(u, r, q, t, h)
  PROVE  /\ Rescan(u, record) \in Uis /\ Kept(Rescan(u, record), r, q, t, h)
         /\ Covered(Rescan(u, record), r) /\ Reopens(Rescan(u, record), r)
         /\ \A h2 : FreshList(u, r, q, h2) => FreshList(Rescan(u, record), r, q, h2)
         /\ Rescan(u, record).owed = u.owed /\ Rescan(u, record).reopen = u.reopen
         /\ Rescan(u, record).checked = u.checked /\ Rescan(u, record).excused = u.excused
         /\ Rescan(u, record).org = u.org
  <1>1. CASE u.scanning
    <2> DEFINE p == IF u.pending = "record" \/ record = 1 THEN "record" ELSE "plain"
               v == [u EXCEPT !.pending = p]
    <2>1. Rescan(u, record) = v
      BY <1>1 DEF Rescan
    <2>2. v \in Uis /\ v.pending # "no"
      BY DEF Uis, Asks
    <2>3. /\ v.gen = u.gen /\ v.listing = u.listing /\ v.scanning = u.scanning /\ v.queue = u.queue
          /\ v.again = u.again /\ v.reopen = u.reopen /\ v.checked = u.checked /\ v.looked = u.looked
          /\ v.org = u.org /\ v.model = u.model /\ v.switched = u.switched /\ v.excused = u.excused
          /\ v.owed = u.owed
      BY DEF Uis
    <2> HIDE DEF v
    <2>4. OneScan(v, r, q)
      BY <1>1, <2>3 DEF ScanBegun, OneScan, ScanQueued
    <2>5. ListingKept(v, r, q)
      BY <2>3 DEF ScanBegun, ListingKept, Timely, ListQueued, ListRuns, ListDone, Newest
    <2>6. Within(v, t, h) /\ Modelled(v, r, q) /\ Checked(v, r)
      BY <2>2, <2>3 DEF ScanBegun, Within, Modelled, Opened, Checked, ScansSettled, Late, Looks, Anew
    <2>7. Covered(v, r) /\ Reopens(v, r)
      BY <2>2 DEF Covered, ScansSettled, Reopens
    <2>8. \A h2 : FreshList(u, r, q, h2) => FreshList(v, r, q, h2)
      BY <2>3 DEF FreshList, ListQueued, ListRuns, ListDone, Newest
    <2> QED
      BY <2>1, <2>2, <2>3, <2>4, <2>5, <2>6, <2>7, <2>8 DEF Kept
  <1>2. CASE ~u.scanning
    <2> DEFINE w == [u EXCEPT !.scanning = TRUE]
               job == Job("scan", TRUE, FALSE, record, 0)
               v == Submit2(w, job)
               n == Len(w.queue) + 1
    <2>1. Rescan(u, record) = v
      BY <1>2 DEF Rescan
    <2>2. w \in Uis /\ w.scanning = TRUE /\ w.queue = u.queue /\ w.gen = u.gen
      BY DEF Uis
    <2>3. job \in WorkJobs /\ job.kind = "scan" /\ job.at = "begin"
      BY ScanJobIsTyped
    <2>4. w.listing = u.listing /\ w.pending = u.pending
          /\ w.again = u.again /\ w.reopen = u.reopen /\ w.checked = u.checked /\ w.looked = u.looked
          /\ w.org = u.org /\ w.model = u.model /\ w.switched = u.switched /\ w.excused = u.excused
          /\ w.owed = u.owed
      BY DEF Uis
    <2> HIDE DEF w, job
    <2>5. /\ v \in Uis /\ v = [w EXCEPT !.queue = Append(w.queue, job)]
          /\ DOMAIN v.queue = DOMAIN u.queue \cup {n} /\ n \notin DOMAIN u.queue /\ v.queue[n] = job
          /\ \A i \in DOMAIN u.queue : v.queue[i] = u.queue[i]
      <3>1. /\ v \in Uis /\ v = [w EXCEPT !.queue = Append(w.queue, job)]
            /\ DOMAIN v.queue = DOMAIN w.queue \cup {n} /\ n \notin DOMAIN w.queue /\ v.queue[n] = job
            /\ \A i \in DOMAIN w.queue : v.queue[i] = w.queue[i]
        BY <2>2, <2>3, SubmitFacts
      <3> HIDE DEF v, n
      <3> QED
        BY <2>2, <3>1
    <2>6. /\ v.gen = u.gen /\ v.listing = u.listing /\ v.scanning = TRUE /\ v.pending = u.pending
          /\ v.again = u.again /\ v.reopen = u.reopen /\ v.checked = u.checked /\ v.looked = u.looked
          /\ v.org = u.org /\ v.model = u.model /\ v.switched = u.switched /\ v.excused = u.excused
          /\ v.owed = u.owed
      BY <2>2, <2>4, <2>5 DEF Uis
    <2> HIDE DEF v, n
    <2>7. ScanQueued(v)
      BY <2>3, <2>5 DEF ScanQueued
    <2>8. ~ScanQueued(u) /\ ~ScanRuns(r) /\ ~ScanDone(q) /\ u.pending = "no"
      BY <1>2 DEF ScanBegun, OneScan
    <2>9. OneScan(v, r, q)
      <3>1. \A i, j \in DOMAIN v.queue : v.queue[i].kind = "scan" /\ v.queue[j].kind = "scan" => i = j
        BY <2>5, <2>8 DEF ScanQueued
      <3>2. \A i \in DOMAIN v.queue : v.queue[i].at = "begin"
        BY <2>3, <2>5 DEF ScanBegun, OneScan
      <3> QED
        BY <2>6, <2>7, <2>8, <3>1, <3>2 DEF ScanBegun, OneScan
    <2>10. \A i \in DOMAIN v.queue : Newest(v, v.queue[i]) => i \in DOMAIN u.queue /\ Newest(u, u.queue[i])
      BY <2>3, <2>5, <2>6 DEF Newest
    <2>11. /\ ListQueued(v) <=> ListQueued(u)
           /\ ListRuns(v, r) <=> ListRuns(u, r)
           /\ ListDone(v, q) <=> ListDone(u, q)
      BY <2>3, <2>5, <2>6, SMTT(40) DEF ListQueued, ListRuns, ListDone, Newest
    <2>12. ListingKept(v, r, q)
      <3>1. \A i \in DOMAIN v.queue : Timely(v, v.queue[i])
        BY <2>3, <2>5, <2>6 DEF ScanBegun, ListingKept, Timely
      <3>2. Timely(v, r)
        BY <2>6 DEF ScanBegun, ListingKept, Timely
      <3> QED
        BY <2>6, <2>11, <3>1, <3>2 DEF ScanBegun, ListingKept
    <2>13. Within(v, t, h) /\ Modelled(v, r, q) /\ Checked(v, r)
      <3>1. \A i \in DOMAIN q : q[i].kind # "scan"
        BY <2>8 DEF ScanDone
      <3> QED
        BY <2>6, <2>8, <3>1 DEF ScanBegun, Within, Modelled, Opened, Checked, ScansSettled, Late, Looks, Anew
    <2>14. Covered(v, r) /\ Reopens(v, r)
      BY <2>7 DEF Covered, Reopens
    <2>15. \A h2 : FreshList(u, r, q, h2) => FreshList(v, r, q, h2)
      BY <2>5, <2>10, <2>11 DEF FreshList
    <2> QED
      BY <2>1, <2>5, <2>6, <2>9, <2>12, <2>13, <2>14, <2>15 DEF Kept
  <1> QED
    BY <1>1, <1>2 DEF Uis

LEMMA RescanKeeps ==
  ASSUME NEW u \in Uis, NEW r \in WorkJobs \cup {NoJob}, NEW q \in Seq(WorkResults),
         NEW t \in Nat, NEW h \in Nat, NEW record \in {0, 1},
         Kept(u, r, q, t, h)
  PROVE  /\ Rescan(u, record) \in Uis /\ Kept(Rescan(u, record), r, q, t, h)
         /\ Covered(Rescan(u, record), r) /\ Reopens(Rescan(u, record), r)
         /\ \A h2 : FreshList(u, r, q, h2) => FreshList(Rescan(u, record), r, q, h2)
         /\ Rescan(u, record).owed = u.owed /\ Rescan(u, record).reopen = u.reopen
         /\ Rescan(u, record).checked = u.checked /\ Rescan(u, record).excused = u.excused
         /\ Rescan(u, record).org = u.org
  <1>1. ScanBegun(u, r, q, t, h)
    BY DEF Kept, ScanBegun, Modelled
  <1> QED
    BY <1>1, RescanBegins

\* The next scan opens a new organizer: nothing is known of it.
LEMMA ReopenKeeps ==
  ASSUME NEW u \in Uis, NEW r, NEW q, NEW t, NEW h, NEW c \in BOOLEAN,
         Kept(u, r, q, t, h), c => u.checked
  PROVE  LET v == [u EXCEPT !.reopen = TRUE, !.checked = c]
         IN  /\ v \in Uis /\ Kept(v, r, q, t, h) /\ v.owed = u.owed /\ v.reopen /\ v.checked = c
             /\ \A h2 : FreshList(u, r, q, h2) => FreshList(v, r, q, h2)
             /\ v.excused = u.excused
  <1> DEFINE v == [u EXCEPT !.reopen = TRUE, !.checked = c]
  <1>1. v \in Uis /\ v.reopen /\ v.checked = c
    BY DEF Uis
  <1>2. /\ v.gen = u.gen /\ v.listing = u.listing /\ v.scanning = u.scanning /\ v.pending = u.pending
        /\ v.again = u.again /\ v.queue = u.queue /\ v.looked = u.looked
        /\ v.org = u.org /\ v.model = u.model /\ v.switched = u.switched /\ v.excused = u.excused
        /\ v.owed = u.owed
    BY DEF Uis
  <1> HIDE DEF v
  <1>3. OneScan(v, r, q)
    BY <1>2 DEF Kept, OneScan, ScanQueued
  <1>4. ListingKept(v, r, q)
    BY <1>2 DEF Kept, ListingKept, Timely, ListQueued, ListRuns, ListDone, Newest
  <1>5. Within(v, t, h) /\ Modelled(v, r, q) /\ Checked(v, r)
    BY <1>1, <1>2 DEF Kept, Within, Modelled, Opened, Checked, ScansSettled, Late, Looks, Anew
  <1>6. \A h2 : FreshList(u, r, q, h2) => FreshList(v, r, q, h2)
    BY <1>2 DEF FreshList, ListQueued, ListRuns, ListDone, Newest
  <1> QED
    BY <1>1, <1>2, <1>3, <1>4, <1>5, <1>6 DEF Kept, v

\* A change is owed once a scan and, where the listing is concerned, a listing are to come.
LEMMA OwesKeeps ==
  ASSUME NEW u \in Uis, NEW r \in WorkJobs \cup {NoJob}, NEW q \in Seq(WorkResults),
         NEW t \in Nat, NEW h \in Nat, NEW l, NEW m, NEW h2 \in Nat, NEW h3 \in Nat,
         Kept(u, r, q, t, h), Covered(u, r),
         l \in {u.owed.list, t}, m \in {u.owed.model, t},
         h2 >= u.owed.home, h2 <= h, h2 = u.owed.home \/ Anew(u),
         \/ l = u.owed.list /\ h2 = u.owed.home
         \/ FreshList(u, r, q, h3) /\ h3 >= h2
  PROVE  LET v == [u EXCEPT !.owed = [list |-> l, model |-> m, home |-> h2]]
         IN  v \in Uis /\ Kept(v, r, q, t, h) /\ Reopens(v, r)
  <1> DEFINE v == [u EXCEPT !.owed = [list |-> l, model |-> m, home |-> h2]]
  <1>0. /\ u.owed.list \in Nat /\ u.owed.model \in Nat /\ u.owed.home \in Nat
        /\ l \in Nat /\ m \in Nat
    BY DEF Uis
  <1>1. v \in Uis /\ v.owed.list = l /\ v.owed.model = m /\ v.owed.home = h2
    BY <1>0 DEF Uis
  <1>2. /\ v.gen = u.gen /\ v.listing = u.listing /\ v.scanning = u.scanning /\ v.pending = u.pending
        /\ v.again = u.again /\ v.queue = u.queue /\ v.reopen = u.reopen /\ v.checked = u.checked
        /\ v.looked = u.looked /\ v.org = u.org /\ v.model = u.model /\ v.switched = u.switched
        /\ v.excused = u.excused
    BY DEF Uis
  <1> HIDE DEF v
  <1>3. OneScan(v, r, q)
    BY <1>2 DEF Kept, OneScan, ScanQueued
  <1>4. ListingKept(v, r, q)
    <2>1. CASE l = u.owed.list /\ h2 = u.owed.home
      BY <1>1, <1>2, <2>1 DEF Kept, ListingKept, Timely, ListQueued, ListRuns, ListDone, Newest
    <2>2. CASE FreshList(u, r, q, h3) /\ h3 >= h2
      <3>1. ASSUME NEW i \in DOMAIN v.queue
            PROVE  Timely(v, v.queue[i])
        <4>1. u.queue[i] \in WorkJobs /\ v.queue[i] = u.queue[i] /\ i \in DOMAIN u.queue
          BY <1>2 DEF Uis
        <4>2. u.queue[i].home \in Nat
          BY <4>1 DEF WorkJobs
        <4>3. Newest(u, u.queue[i]) => u.queue[i].home >= h2
          BY <2>2, <4>1, <4>2 DEF FreshList
        <4> QED
          BY <1>1, <1>2, <4>1, <4>3 DEF Kept, ListingKept, Timely, Newest
      <3>2. Timely(v, r)
        BY <1>2, <2>2 DEF Kept, ListingKept, Timely, FreshList, ListRuns, Newest
      <3>3. \A i \in DOMAIN q : q[i].kind = "list" => q[i].tag <= v.gen /\ q[i].tag # v.gen
        BY <1>2, <2>2 DEF Kept, ListingKept, FreshList, ListDone, Newest
      <3>4. ListQueued(v)
        BY <1>2, <2>2 DEF FreshList, ListQueued, Newest
      <3> QED
        BY <3>1, <3>2, <3>3, <3>4 DEF ListingKept
    <2> QED
      BY <2>1, <2>2
  <1>5. Within(v, t, h)
    BY <1>0, <1>1, <1>2 DEF Kept, Within
  <1>6. ScansSettled(u) => u.scanning /\ (ScanRuns(r) => r.at = "begin") /\ ~ScanDone(q)
    BY DEF Kept, Covered, OneScan
  <1>7. Modelled(v, r, q)
    <2>1. ~Anew(v) => Late(v, v.org)
      BY <1>1, <1>2 DEF Kept, Modelled, Opened, Anew, Late
    <2>2. ScanRuns(r) /\ r.at # "begin" => v.org # 0
      BY <1>2 DEF Kept, Modelled, Opened
    <2>3. ScansSettled(v) <=> ScansSettled(u)
      BY <1>2 DEF ScansSettled
    <2> QED
      BY <1>2, <1>6, <2>1, <2>2, <2>3 DEF Modelled, Opened, ScanDone
  <1>8. Checked(v, r)
    BY <1>2 DEF Kept, Checked, Anew, Looks
  <1>9. Reopens(v, r)
    BY <1>2 DEF Reopens, Covered, ScansSettled, ScanQueued
  <1> QED
    BY <1>1, <1>3, <1>4, <1>5, <1>7, <1>8, <1>9 DEF Kept, v

\* The vault that is open is another one from now on.
LEMMA SwitchKeeps ==
  ASSUME NEW u \in Uis, NEW r \in WorkJobs \cup {NoJob}, NEW q \in Seq(WorkResults),
         NEW t \in Nat, NEW h \in Nat, NEW e \in BOOLEAN,
         Kept(u, r, q, t, h), Reopens(u, r), u.reopen, ~u.checked,
         u.excused => e, ScanRuns(r) /\ r.at # "begin" => e
  PROVE  LET v == [u EXCEPT !.switched = h, !.excused = e]
         IN  v \in Uis /\ Kept(v, r, q, t, h) /\ Reopens(v, r)
  <1> DEFINE v == [u EXCEPT !.switched = h, !.excused = e]
  <1>1. v \in Uis /\ v.switched = h /\ v.excused = e
    BY DEF Uis
  <1>2. /\ v.gen = u.gen /\ v.listing = u.listing /\ v.scanning = u.scanning /\ v.pending = u.pending
        /\ v.again = u.again /\ v.queue = u.queue /\ v.looked = u.looked /\ v.owed = u.owed
        /\ v.org = u.org /\ v.model = u.model /\ v.reopen = u.reopen /\ v.checked = u.checked
    BY DEF Uis
  <1> HIDE DEF v
  <1>3. OneScan(v, r, q)
    BY <1>2 DEF Kept, OneScan, ScanQueued
  <1>4. ListingKept(v, r, q)
    BY <1>2 DEF Kept, ListingKept, Timely, ListQueued, ListRuns, ListDone, Newest
  <1>5. Within(v, t, h)
    BY <1>1, <1>2 DEF Kept, Within
  <1>6. Modelled(v, r, q)
    BY <1>1, <1>2 DEF Kept, Modelled, Opened, ScansSettled, Late, Anew
  <1>7. Checked(v, r)
    BY <1>1, <1>2 DEF Checked, Looks, Anew
  <1>8. Reopens(v, r)
    BY <1>2 DEF Reopens, Covered, ScansSettled, ScanQueued
  <1> QED
    BY <1>1, <1>3, <1>4, <1>5, <1>6, <1>7, <1>8 DEF Kept, v


LEMMA MovedKeeps ==
  ASSUME NEW u \in Uis, NEW r \in WorkJobs \cup {NoJob}, NEW q \in Seq(WorkResults),
         NEW h \in Nat, truth \in Nat,
         Kept(u, r, q, truth, h)
  PROVE  Moved(u, h) \in Uis /\ Kept(Moved(u, h), r, q, truth, h) /\ Reopens(Moved(u, h), r)
  <1> DEFINE v == Refresh(u, h)
             w == Rescan(v, 1)
  <1>0. u.owed.home \in Nat /\ h >= u.owed.home
    BY DEF Uis, Kept, Within
  <1>1. v \in Uis /\ Kept(v, r, q, truth, h) /\ FreshList(v, r, q, h) /\ v.owed = u.owed
    <2>1. \A h2 \in Nat : h2 >= u.owed.home =>
            LET x == Refresh(u, h2)
            IN  x \in Uis /\ Kept(x, r, q, truth, h) /\ FreshList(x, r, q, h2) /\ x.owed = u.owed
      BY RefreshKeeps
    <2> QED
      BY <1>0, <2>1
  <1> HIDE DEF v
  <1>2. /\ w \in Uis /\ Kept(w, r, q, truth, h) /\ Covered(w, r) /\ FreshList(w, r, q, h)
        /\ w.owed = u.owed
    BY <1>0, <1>1, RescanKeeps
  <1> HIDE DEF w
  <1>3. Moved(u, h) = [w EXCEPT !.owed = [list |-> truth, model |-> truth, home |-> u.owed.home]]
    BY DEF Moved, Owes, v, w
  <1> DEFINE n == u.owed.home
  <1>4. n \in Nat /\ n >= w.owed.home /\ n <= h /\ n = w.owed.home /\ h >= n
    BY <1>0, <1>2
  <1> HIDE DEF n
  <1>5. LET x == [w EXCEPT !.owed = [list |-> truth, model |-> truth, home |-> n]]
        IN  x \in Uis /\ Kept(x, r, q, truth, h) /\ Reopens(x, r)
    BY <1>2, <1>4, OwesKeeps
  <1> QED
    BY <1>3, <1>5 DEF n

LEMMA VaultChangedKeeps ==
  ASSUME NEW u \in Uis, NEW r \in WorkJobs \cup {NoJob}, NEW q \in Seq(WorkResults),
         NEW mode \in BOOLEAN, NEW h \in Nat, truth \in Nat,
         Kept(u, r, q, truth, h)
  PROVE  /\ VaultChanged(u, mode, h) \in Uis /\ Kept(VaultChanged(u, mode, h), r, q, truth, h)
         /\ Reopens(VaultChanged(u, mode, h), r)
         /\ VaultChanged(u, mode, h).excused = u.excused
         /\ mode => VaultChanged(u, mode, h).reopen /\ ~VaultChanged(u, mode, h).checked
  <1> DEFINE o == IF mode THEN Reopening(u) ELSE u
             v == Rescan(o, 1)
             w == Refresh(v, h)
             n == IF mode THEN h ELSE u.owed.home
  <1>0. u.owed.home \in Nat /\ h >= u.owed.home
    BY DEF Uis, Kept, Within
  <1>1. /\ o \in Uis /\ Kept(o, r, q, truth, h) /\ o.owed = u.owed /\ o.excused = u.excused
        /\ mode => o.reopen /\ ~o.checked
    <2>1. CASE mode
      <3>1. Reopening(u) = [u EXCEPT !.reopen = TRUE, !.checked = FALSE]
        BY DEF Reopening, SourcesChanged, Uis
      <3>2. \A c \in BOOLEAN : (c => u.checked) =>
              LET x == [u EXCEPT !.reopen = TRUE, !.checked = c]
              IN  /\ x \in Uis /\ Kept(x, r, q, truth, h) /\ x.owed = u.owed /\ x.reopen /\ x.checked = c
                  /\ x.excused = u.excused
        BY ReopenKeeps
      <3>3. LET x == [u EXCEPT !.reopen = TRUE, !.checked = FALSE]
            IN  /\ x \in Uis /\ Kept(x, r, q, truth, h) /\ x.owed = u.owed /\ x.reopen /\ ~x.checked
                /\ x.excused = u.excused
        BY <3>2
      <3> QED
        BY <2>1, <3>1, <3>3
    <2>2. CASE ~mode
      BY <2>2
    <2> QED
      BY <2>1, <2>2
  <1> HIDE DEF o
  <1>2. /\ v \in Uis /\ Kept(v, r, q, truth, h) /\ Covered(v, r) /\ v.owed = u.owed
        /\ v.excused = u.excused /\ (mode => v.reopen /\ ~v.checked)
    BY <1>1, RescanKeeps
  <1> HIDE DEF v
  <1>3. /\ w \in Uis /\ Kept(w, r, q, truth, h) /\ Covered(w, r) /\ w.owed = u.owed
        /\ w.excused = u.excused /\ (mode => w.reopen /\ ~w.checked)
        /\ FreshList(w, r, q, h)
    BY <1>0, <1>2, RefreshKeeps
  <1> HIDE DEF w
  <1>4. VaultChanged(u, mode, h) = [w EXCEPT !.owed = [list |-> truth, model |-> truth, home |-> n]]
    BY DEF VaultChanged, Owes, o, v, w
  <1>5. n \in Nat /\ n >= w.owed.home /\ n <= h /\ (n = w.owed.home \/ Anew(w))
    BY <1>0, <1>3 DEF Anew
  <1> HIDE DEF n
  <1>6. LET x == [w EXCEPT !.owed = [list |-> truth, model |-> truth, home |-> n]]
        IN  x \in Uis /\ Kept(x, r, q, truth, h) /\ Reopens(x, r)
    BY <1>3, <1>5, OwesKeeps
  <1>7. LET x == [w EXCEPT !.owed = [list |-> truth, model |-> truth, home |-> n]]
        IN  x.excused = w.excused /\ x.reopen = w.reopen /\ x.checked = w.checked
    BY <1>3 DEF Uis
  <1> QED
    BY <1>3, <1>4, <1>6, <1>7

-----------------------------------------------------------------------------
(* What the worker and the delivery of its answers keep.                    *)

\* The job that is taken out of the queue is the one that runs.
LEMMA TakeKeeps ==
  ASSUME NEW u \in Uis, NEW q \in Seq(WorkResults), NEW t \in Nat, NEW h \in Nat,
         NEW n \in DOMAIN u.queue,
         Kept(u, NoJob, q, t, h), Reopens(u, NoJob)
  PROVE  LET v == [u EXCEPT !.queue = RemoveAt(u.queue, n)]
         IN  /\ v \in Uis /\ u.queue[n] \in WorkJobs
             /\ Kept(v, u.queue[n], q, t, h) /\ Reopens(v, u.queue[n])
  <1> DEFINE v == [u EXCEPT !.queue = RemoveAt(u.queue, n)]
             r == u.queue[n]
  <1>0. u.queue \in Seq(WorkJobs) /\ n \in Nat /\ \A i \in DOMAIN u.queue : i \in Nat
    BY DEF Uis
  <1>1. /\ RemoveAt(u.queue, n) \in Seq(WorkJobs)
        /\ \A i \in DOMAIN RemoveAt(u.queue, n) :
             i \in Nat /\ RemoveAt(u.queue, n)[i] = IF i < n THEN u.queue[i] ELSE u.queue[i + 1]
        /\ \A i \in DOMAIN RemoveAt(u.queue, n) :
             (i < n => i \in DOMAIN u.queue) /\ (i >= n => i + 1 \in DOMAIN u.queue)
        /\ \A i \in DOMAIN u.queue : /\ i < n => i \in DOMAIN RemoveAt(u.queue, n)
                                     /\ i > n => i - 1 \in DOMAIN RemoveAt(u.queue, n)
    BY <1>0, Removes
  <1>2. v \in Uis /\ v.queue = RemoveAt(u.queue, n)
    BY <1>1 DEF Uis
  <1>3. /\ v.gen = u.gen /\ v.listing = u.listing /\ v.scanning = u.scanning /\ v.pending = u.pending
        /\ v.again = u.again /\ v.reopen = u.reopen /\ v.checked = u.checked /\ v.looked = u.looked
        /\ v.org = u.org /\ v.model = u.model /\ v.switched = u.switched /\ v.excused = u.excused
        /\ v.owed = u.owed
    BY DEF Uis
  <1>4. r \in WorkJobs
    BY <1>0
  <1> HIDE DEF v, r
  <1> DEFINE WasAt(i) == IF i < n THEN i ELSE i + 1
  <1>5. \A i \in DOMAIN v.queue : WasAt(i) \in DOMAIN u.queue /\ WasAt(i) # n /\ v.queue[i] = u.queue[WasAt(i)]
    BY <1>0, <1>1, <1>2
  <1>6. \A i, j \in DOMAIN v.queue : WasAt(i) = WasAt(j) => i = j
    BY <1>0, <1>1, <1>2
  <1>7. \A j \in DOMAIN u.queue : j # n => \E i \in DOMAIN v.queue : v.queue[i] = u.queue[j]
    <2> TAKE j \in DOMAIN u.queue
    <2> HAVE j # n
    <2>1. CASE j < n
      BY <1>0, <1>1, <1>2, <2>1
    <2>2. CASE j > n
      <3>1. j - 1 \in DOMAIN v.queue /\ v.queue[j - 1] = u.queue[j]
        BY <1>0, <1>1, <1>2, <2>2
      <3> QED
        BY <3>1
    <2> QED
      BY <1>0, <2>1, <2>2
  <1> HIDE DEF WasAt
  <1>8. ScanRuns(r) => ~ScanQueued(v)
    BY <1>5 DEF Kept, OneScan, ScanRuns, ScanQueued, r
  <1>9. ScanQueued(u) <=> ScanQueued(v) \/ ScanRuns(r)
    BY <1>5, <1>7 DEF ScanQueued, ScanRuns, r
  <1>10. r.at = "begin" /\ ~ScanRuns(NoJob)
    BY NoJobIsNone DEF Kept, OneScan, ScanRuns, r
  <1>11. OneScan(v, r, q)
    <2>1. \A i, j \in DOMAIN v.queue : v.queue[i].kind = "scan" /\ v.queue[j].kind = "scan" => i = j
      BY <1>5, <1>6 DEF Kept, OneScan
    <2>2. \A i \in DOMAIN v.queue : v.queue[i].at = "begin"
      BY <1>5 DEF Kept, OneScan
    <2> QED
      BY <1>3, <1>8, <1>9, <1>10, <2>1, <2>2 DEF Kept, OneScan
  <1>12. ListingKept(v, r, q)
    <2>1. \A i \in DOMAIN v.queue : Timely(v, v.queue[i])
      BY <1>3, <1>5 DEF Kept, ListingKept, Timely
    <2>2. Timely(v, r)
      BY <1>3 DEF Kept, ListingKept, Timely, r
    <2>3. ListQueued(u) => ListQueued(v) \/ ListRuns(v, r)
      BY <1>3, <1>7 DEF ListQueued, ListRuns, Newest, r
    <2>4. ~ListRuns(u, NoJob)
      BY NoJobIsNone DEF ListRuns, Newest
    <2>5. ListDone(u, q) <=> ListDone(v, q)
      BY <1>3 DEF ListDone, Newest
    <2> QED
      BY <1>3, <2>1, <2>2, <2>3, <2>4, <2>5 DEF Kept, ListingKept
  <1>13. Within(v, t, h) /\ Checked(v, r)
    BY <1>3, <1>10 DEF Kept, Within, Checked, Looks, Anew
  <1>14. Modelled(v, r, q)
    BY <1>3, <1>10 DEF Kept, Modelled, Opened, ScansSettled, Late, Anew
  <1>15. Reopens(v, r)
    BY <1>3, <1>9, <1>10 DEF Reopens, Covered, ScansSettled
  <1> QED
    BY <1>2, <1>4, <1>11, <1>12, <1>13, <1>14, <1>15 DEF Kept, v, r

\* A job that is neither a scan nor a listing may end.
LEMMA OtherEndKeeps ==
  ASSUME NEW u \in Uis, NEW r \in WorkJobs, NEW q \in Seq(WorkResults), NEW t \in Nat, NEW h \in Nat,
         NEW x \in WorkResults,
         Kept(u, r, q, t, h), Reopens(u, r),
         r.kind \notin {"scan", "list"}, x.kind = r.kind
  PROVE  Kept(u, NoJob, Append(q, x), t, h) /\ Reopens(u, NoJob)
  <1> DEFINE n == Len(q) + 1
             p == Append(q, x)
  <1>1. /\ DOMAIN p = DOMAIN q \cup {n} /\ n \notin DOMAIN q /\ p[n] = x
        /\ \A i \in DOMAIN q : p[i] = q[i]
    BY Appends
  <1> HIDE DEF p, n
  <1>2. ~ScanRuns(r) /\ ~ScanRuns(NoJob) /\ ~ListRuns(u, r) /\ ~ListRuns(u, NoJob)
    BY NoJobIsNone DEF ScanRuns, ListRuns, Newest
  <1>3. (ScanDone(p) <=> ScanDone(q)) /\ (ListDone(u, p) <=> ListDone(u, q))
    BY <1>1 DEF ScanDone, ListDone, Newest
  <1>4. OneScan(u, NoJob, p)
    <2>1. \A i, j \in DOMAIN p : p[i].kind = "scan" /\ p[j].kind = "scan" => i = j
      BY <1>1 DEF Kept, OneScan
    <2> QED
      BY <1>2, <1>3, <2>1 DEF Kept, OneScan
  <1>5. ListingKept(u, NoJob, p)
    <2>1. Timely(u, NoJob)
      BY NoJobIsNone DEF Timely
    <2>2. \A i \in DOMAIN p : p[i].kind = "list" => i \in DOMAIN q /\ p[i] = q[i]
      BY <1>1
    <2> QED
      BY <1>2, <1>3, <2>1, <2>2 DEF Kept, ListingKept
  <1>6. Modelled(u, NoJob, p)
    <2>1. \A i \in DOMAIN p : p[i].kind = "scan" => i \in DOMAIN q /\ p[i] = q[i]
      BY <1>1
    <2> QED
      BY <1>2, <2>1 DEF Kept, Modelled, Opened
  <1>7. Checked(u, NoJob) /\ Reopens(u, NoJob)
    BY <1>2 DEF Kept, Checked, Reopens, Covered
  <1> QED
    BY <1>4, <1>5, <1>6, <1>7 DEF Kept, p

\* A listing ends with what there is.
LEMMA ListEndKeeps ==
  ASSUME NEW u \in Uis, NEW r \in WorkJobs, NEW q \in Seq(WorkResults), NEW t \in Nat, NEW h \in Nat,
         NEW x \in WorkResults,
         Kept(u, r, q, t, h), Reopens(u, r),
         r.kind = "list", x.kind = "list", x.tag = r.tag, x.version = t, x.home = r.home
  PROVE  Kept(u, NoJob, Append(q, x), t, h) /\ Reopens(u, NoJob)
  <1> DEFINE n == Len(q) + 1
             p == Append(q, x)
  <1>1. /\ DOMAIN p = DOMAIN q \cup {n} /\ n \notin DOMAIN q /\ p[n] = x
        /\ \A i \in DOMAIN q : p[i] = q[i]
    BY Appends
  <1> HIDE DEF p, n
  <1>2. ~ScanRuns(r) /\ ~ScanRuns(NoJob) /\ ~ListRuns(u, NoJob)
    BY NoJobIsNone DEF ScanRuns, ListRuns, Newest
  <1>3. /\ ScanDone(p) <=> ScanDone(q)
        /\ ListDone(u, p) <=> ListDone(u, q) \/ ListRuns(u, r)
    BY <1>1 DEF ScanDone, ListDone, ListRuns, Newest
  <1>4. OneScan(u, NoJob, p)
    <2>1. \A i, j \in DOMAIN p : p[i].kind = "scan" /\ p[j].kind = "scan" => i = j
      BY <1>1 DEF Kept, OneScan
    <2> QED
      BY <1>2, <1>3, <2>1 DEF Kept, OneScan
  <1>5. ListingKept(u, NoJob, p)
    <2>1. Timely(u, NoJob)
      BY NoJobIsNone DEF Timely
    <2>2. ASSUME NEW i \in DOMAIN p, p[i].kind = "list"
          PROVE  /\ p[i].tag <= u.gen
                 /\ p[i].tag = u.gen /\ p[i].status = "done" =>
                      p[i].version >= u.owed.list /\ p[i].home >= u.owed.home
      <3>1. CASE i = n
        <4>1. r.tag <= u.gen /\ (r.tag = u.gen => r.home >= u.owed.home) /\ t >= u.owed.list
          BY DEF Kept, ListingKept, Timely, Within, Uis
        <4> QED
          BY <1>1, <3>1, <4>1
      <3>2. CASE i \in DOMAIN q
        BY <1>1, <2>2, <3>2 DEF Kept, ListingKept
      <3> QED
        BY <1>1, <3>1, <3>2
    <2> QED
      BY <1>3, <2>1, <2>2 DEF Kept, ListingKept
  <1>6. Modelled(u, NoJob, p)
    <2>1. \A i \in DOMAIN p : p[i].kind = "scan" => i \in DOMAIN q /\ p[i] = q[i]
      BY <1>1
    <2> QED
      BY <1>2, <2>1 DEF Kept, Modelled, Opened
  <1>7. Checked(u, NoJob) /\ Reopens(u, NoJob)
    BY <1>2 DEF Kept, Checked, Reopens, Covered
  <1> QED
    BY <1>4, <1>5, <1>6, <1>7 DEF Kept, p

\* A scan ends: what it saw is what it read of the organizer that it opened.
LEMMA ScanEndKeeps ==
  ASSUME NEW u \in Uis, NEW r \in WorkJobs, NEW q \in Seq(WorkResults), NEW t \in Nat, NEW h \in Nat,
         NEW x \in WorkResults,
         Kept(u, r, q, t, h), u.reopen => ~ScansSettled(u),
         r.kind = "scan", x.kind = "scan",
         x.status = "done" => r.at = "read" /\ x.version = r.tag /\ x.home = r.home
  PROVE  Kept(u, NoJob, Append(q, x), t, h) /\ Reopens(u, NoJob)
  <1> DEFINE n == Len(q) + 1
             p == Append(q, x)
  <1>1. /\ DOMAIN p = DOMAIN q \cup {n} /\ n \notin DOMAIN q /\ p[n] = x
        /\ \A i \in DOMAIN q : p[i] = q[i]
    BY Appends
  <1> HIDE DEF p, n
  <1>2. ScanRuns(r) /\ ~ScanRuns(NoJob) /\ ~ListRuns(u, NoJob) /\ ~ListRuns(u, r)
    BY NoJobIsNone DEF ScanRuns, ListRuns, Newest
  <1>3. ~ScanDone(q) /\ ScanDone(p) /\ (ListDone(u, p) <=> ListDone(u, q)) /\ ~ScanQueued(u)
    BY <1>1, <1>2 DEF Kept, OneScan, ScanDone, ListDone, Newest
  <1>4. OneScan(u, NoJob, p)
    <2>1. \A i, j \in DOMAIN p : p[i].kind = "scan" /\ p[j].kind = "scan" => i = j
      BY <1>1, <1>3 DEF ScanDone
    <2> QED
      BY <1>2, <1>3, <2>1 DEF Kept, OneScan
  <1>5. ListingKept(u, NoJob, p)
    <2>1. Timely(u, NoJob)
      BY NoJobIsNone DEF Timely
    <2>2. \A i \in DOMAIN p : p[i].kind = "list" => i \in DOMAIN q /\ p[i] = q[i]
      BY <1>1
    <2> QED
      BY <1>2, <1>3, <2>1, <2>2 DEF Kept, ListingKept
  <1>6. Modelled(u, NoJob, p)
    <2>1. \A i \in DOMAIN p : p[i].kind = "scan" => p[i] = x
      BY <1>1, <1>3 DEF ScanDone
    <2>2. u.scanning
      BY <1>2 DEF Kept, OneScan
    <2>3. ScansSettled(u) /\ x.status = "done" => x.version >= u.owed.model /\ Late(u, x.home)
      BY <1>2 DEF Kept, Modelled
    <2> QED
      BY <1>2, <2>1, <2>2, <2>3 DEF Kept, Modelled, Opened
  <1>7. Checked(u, NoJob) /\ Reopens(u, NoJob)
    BY <1>2 DEF Kept, Checked, Reopens, Covered
  <1> QED
    BY <1>4, <1>5, <1>6, <1>7 DEF Kept, p

\* An answer that is no scan and no listing that counts is taken off.
LEMMA DeliverKeeps ==
  ASSUME NEW u \in Uis, NEW r \in WorkJobs \cup {NoJob}, NEW q \in Seq(WorkResults), q # <<>>,
         NEW t \in Nat, NEW h \in Nat,
         Kept(u, r, q, t, h), Head(q).kind # "scan", ~Newest(u, Head(q))
  PROVE  Kept(u, r, Tail(q), t, h)
  <1> DEFINE p == Tail(q)
  <1>1. /\ Head(q) = q[1]
        /\ \A i \in DOMAIN p : i + 1 \in DOMAIN q /\ i \in Nat /\ p[i] = q[i + 1]
        /\ \A i \in DOMAIN q : i = 1 \/ (i - 1 \in DOMAIN p /\ p[i - 1] = q[i])
    BY Tails
  <1> HIDE DEF p
  <1>2. ScanDone(p) <=> ScanDone(q)
    <2>1. ScanDone(p) => ScanDone(q)
      BY <1>1 DEF ScanDone
    <2>2. ASSUME NEW i \in DOMAIN q, q[i].kind = "scan"
          PROVE  ScanDone(p)
      <3>1. i - 1 \in DOMAIN p /\ p[i - 1] = q[i]
        BY <1>1, <2>2
      <3> QED
        BY <2>2, <3>1 DEF ScanDone
    <2> QED
      BY <2>1, <2>2 DEF ScanDone
  <1>3. ListDone(u, p) <=> ListDone(u, q)
    <2>1. ListDone(u, p) => ListDone(u, q)
      BY <1>1 DEF ListDone
    <2>2. ASSUME NEW i \in DOMAIN q, Newest(u, q[i])
          PROVE  ListDone(u, p)
      <3>1. i - 1 \in DOMAIN p /\ p[i - 1] = q[i]
        BY <1>1, <2>2
      <3> QED
        BY <2>2, <3>1 DEF ListDone
    <2> QED
      BY <2>1, <2>2 DEF ListDone
  <1>4. OneScan(u, r, p)
    <2>1. \A i, j \in DOMAIN p : p[i].kind = "scan" /\ p[j].kind = "scan" => i = j
      <3> SUFFICES ASSUME NEW i \in DOMAIN p, NEW j \in DOMAIN p, p[i].kind = "scan", p[j].kind = "scan"
                   PROVE  i = j
        OBVIOUS
      <3>1. i + 1 = j + 1
        BY <1>1 DEF Kept, OneScan
      <3> QED
        BY <1>1, <3>1
    <2> QED
      BY <1>2, <2>1 DEF Kept, OneScan
  <1>5. ListingKept(u, r, p)
    <2>1. \A i \in DOMAIN p : p[i].kind = "list" =>
            /\ p[i].tag <= u.gen
            /\ p[i].tag = u.gen /\ p[i].status = "done" =>
                 p[i].version >= u.owed.list /\ p[i].home >= u.owed.home
      BY <1>1 DEF Kept, ListingKept
    <2> QED
      BY <1>3, <2>1 DEF Kept, ListingKept
  <1>6. Modelled(u, r, p)
    <2>1. ScansSettled(u) => \A i \in DOMAIN p :
            p[i].kind = "scan" /\ p[i].status = "done" =>
              p[i].version >= u.owed.model /\ Late(u, p[i].home)
      BY <1>1 DEF Kept, Modelled
    <2> QED
      BY <2>1 DEF Kept, Modelled
  <1> QED
    BY <1>4, <1>5, <1>6 DEF Kept, p

\* The listing that counts is shown, or that there is none.
LEMMA ShowListing ==
  ASSUME NEW u \in Uis, NEW r \in WorkJobs \cup {NoJob}, NEW q \in Seq(WorkResults), q # <<>>,
         NEW t \in Nat, NEW h \in Nat,
         Kept(u, r, q, t, h), Reopens(u, r), Newest(u, Head(q))
  PROVE  LET v == [u EXCEPT !.listing = [ok |-> Head(q).status = "done", version |-> Head(q).version,
                                         home |-> Head(q).home]]
         IN  v \in Uis /\ Kept(v, r, Tail(q), t, h) /\ Reopens(v, r)
  <1> DEFINE p == Tail(q)
             x == Head(q)
             l == [ok |-> x.status = "done", version |-> x.version, home |-> x.home]
             v == [u EXCEPT !.listing = l]
  <1>1. /\ x = q[1] /\ x \in WorkResults /\ 1 \in DOMAIN q
        /\ \A i \in DOMAIN p : i + 1 \in DOMAIN q /\ i \in Nat /\ p[i] = q[i + 1]
        /\ \A i \in DOMAIN q : i = 1 \/ (i - 1 \in DOMAIN p /\ p[i - 1] = q[i])
    BY Tails
  <1> HIDE DEF p, x
  <1>2. l \in Tabs /\ l.ok = (x.status = "done") /\ l.version = x.version /\ l.home = x.home
    <2>1. x.version \in Nat /\ x.home \in Nat /\ (x.status = "done") \in BOOLEAN
      BY <1>1 DEF WorkResults
    <2> QED
      BY <2>1 DEF Tabs
  <1> HIDE DEF l
  <1>3. v \in Uis /\ v.listing = l
    BY <1>2 DEF Uis
  <1>4. /\ v.gen = u.gen /\ v.queue = u.queue /\ v.scanning = u.scanning /\ v.pending = u.pending
        /\ v.again = u.again /\ v.reopen = u.reopen /\ v.checked = u.checked /\ v.looked = u.looked
        /\ v.org = u.org /\ v.model = u.model /\ v.switched = u.switched /\ v.excused = u.excused
        /\ v.owed = u.owed
    BY DEF Uis
  <1> HIDE DEF v
  <1>5. x.kind = "list" /\ x.tag = u.gen
    BY DEF Newest, x
  <1>6. ScanDone(p) <=> ScanDone(q)
    <2>1. ScanDone(p) => ScanDone(q)
      BY <1>1 DEF ScanDone
    <2>2. ASSUME NEW i \in DOMAIN q, q[i].kind = "scan"
          PROVE  ScanDone(p)
      <3>1. i - 1 \in DOMAIN p /\ p[i - 1] = q[i]
        BY <1>1, <1>5, <2>2
      <3> QED
        BY <2>2, <3>1 DEF ScanDone
    <2> QED
      BY <2>1, <2>2 DEF ScanDone
  <1>7. OneScan(v, r, p)
    <2>1. \A i, j \in DOMAIN p : p[i].kind = "scan" /\ p[j].kind = "scan" => i = j
      <3> SUFFICES ASSUME NEW i \in DOMAIN p, NEW j \in DOMAIN p, p[i].kind = "scan", p[j].kind = "scan"
                   PROVE  i = j
        OBVIOUS
      <3>1. i + 1 = j + 1
        BY <1>1 DEF Kept, OneScan
      <3> QED
        BY <1>1, <3>1
    <2> QED
      BY <1>4, <1>6, <2>1 DEF Kept, OneScan, ScanQueued
  <1>8. ListingKept(v, r, p)
    <2>1. \A i \in DOMAIN p : p[i].kind = "list" =>
            /\ p[i].tag <= v.gen
            /\ p[i].tag = v.gen /\ p[i].status = "done" =>
                 p[i].version >= v.owed.list /\ p[i].home >= v.owed.home
      BY <1>1, <1>4 DEF Kept, ListingKept
    <2>2. v.listing.ok => v.listing.version >= v.owed.list /\ v.listing.home >= v.owed.home
      BY <1>1, <1>2, <1>3, <1>4, <1>5 DEF Kept, ListingKept
    <2>3. \A i \in DOMAIN v.queue : Timely(v, v.queue[i])
      BY <1>4 DEF Kept, ListingKept, Timely
    <2>4. Timely(v, r)
      BY <1>4 DEF Kept, ListingKept, Timely
    <2> QED
      BY <2>1, <2>2, <2>3, <2>4 DEF ListingKept
  <1>9. Modelled(v, r, p)
    <2>1. ScansSettled(u) => \A i \in DOMAIN p :
            p[i].kind = "scan" /\ p[i].status = "done" =>
              p[i].version >= u.owed.model /\ Late(u, p[i].home)
      BY <1>1 DEF Kept, Modelled
    <2> QED
      BY <1>4, <2>1 DEF Kept, Modelled, Opened, ScansSettled, Late, Anew
  <1>10. Within(v, t, h) /\ Checked(v, r) /\ Reopens(v, r)
    BY <1>4 DEF Kept, Within, Checked, Looks, Anew, Reopens, Covered, ScansSettled, ScanQueued
  <1> QED
    BY <1>3, <1>7, <1>8, <1>9, <1>10 DEF Kept, v, p, l, x

\* What a scan saw is shown, and what was asked for meanwhile is still to come.
LEMMA ShowScan ==
  ASSUME NEW u \in Uis, NEW r \in WorkJobs \cup {NoJob}, NEW q \in Seq(WorkResults), q # <<>>,
         NEW t \in Nat, NEW h \in Nat, NEW m \in Tabs,
         Kept(u, r, q, t, h), Reopens(u, r), Head(q).kind = "scan",
         m.ok => Head(q).status = "done" /\ m.version = Head(q).version /\ m.home = Head(q).home
  PROVE  LET v == [u EXCEPT !.scanning = FALSE, !.pending = "no",
                            !.again = IF u.pending = "no" THEN u.again ELSE u.pending, !.model = m]
         IN  v \in Uis /\ Kept(v, r, Tail(q), t, h) /\ Reopens(v, r)
  <1> DEFINE p == Tail(q)
             x == Head(q)
             a == IF u.pending = "no" THEN u.again ELSE u.pending
             v == [u EXCEPT !.scanning = FALSE, !.pending = "no", !.again = a, !.model = m]
  <1>1. /\ x = q[1] /\ x \in WorkResults /\ 1 \in DOMAIN q
        /\ \A i \in DOMAIN p : i + 1 \in DOMAIN q /\ i \in Nat /\ p[i] = q[i + 1]
        /\ \A i \in DOMAIN q : i = 1 \/ (i - 1 \in DOMAIN p /\ p[i - 1] = q[i])
    BY Tails
  <1> HIDE DEF p, x
  <1>2. a \in Asks /\ (a = "no" <=> ScansSettled(u))
    BY DEF Uis, ScansSettled
  <1> HIDE DEF a
  <1>3. v \in Uis /\ v.scanning = FALSE /\ v.pending = "no" /\ v.again = a /\ v.model = m
    BY <1>2 DEF Uis, Asks
  <1>4. /\ v.gen = u.gen /\ v.queue = u.queue /\ v.listing = u.listing
        /\ v.reopen = u.reopen /\ v.checked = u.checked /\ v.looked = u.looked
        /\ v.org = u.org /\ v.switched = u.switched /\ v.excused = u.excused /\ v.owed = u.owed
    BY DEF Uis
  <1> HIDE DEF v
  <1>5. x.kind = "scan" /\ ScanDone(q)
    BY <1>1 DEF ScanDone, x
  <1>6. ~ScanDone(p)
    <2> SUFFICES ASSUME NEW i \in DOMAIN p, p[i].kind = "scan"
                 PROVE  FALSE
      BY DEF ScanDone
    <2>1. i + 1 \in DOMAIN q /\ q[i + 1].kind = "scan" /\ i \in Nat /\ i \in 1 .. Len(p)
      <3>1. p \in Seq(WorkResults)
        BY Tails DEF p
      <3> QED
        BY <1>1, <3>1
    <2>2. i + 1 = 1
      BY <1>1, <1>5, <2>1 DEF Kept, OneScan
    <2> QED
      BY <2>1, <2>2
  <1>7. ~ScanQueued(u) /\ ~ScanRuns(r)
    BY <1>5 DEF Kept, OneScan
  <1>8. ScanQueued(v) <=> ScanQueued(u)
    BY <1>4 DEF ScanQueued
  <1>9. OneScan(v, r, p)
    BY <1>3, <1>4, <1>6, <1>7, <1>8 DEF Kept, OneScan, ScanDone
  <1>10. ListingKept(v, r, p)
    <2>1. \A i \in DOMAIN p : p[i].kind = "list" =>
            /\ p[i].tag <= v.gen
            /\ p[i].tag = v.gen /\ p[i].status = "done" =>
                 p[i].version >= v.owed.list /\ p[i].home >= v.owed.home
      BY <1>1, <1>4 DEF Kept, ListingKept
    <2>2. (ListQueued(u) <=> ListQueued(v)) /\ (ListRuns(u, r) <=> ListRuns(v, r))
      BY <1>4 DEF ListQueued, ListRuns, Newest
    <2>3. \A i \in DOMAIN v.queue : Timely(v, v.queue[i])
      BY <1>4 DEF Kept, ListingKept, Timely
    <2>4. Timely(v, r)
      BY <1>4 DEF Kept, ListingKept, Timely
    <2>5. ASSUME ListDone(u, q)
          PROVE  ListDone(v, p)
      <3>1. PICK i \in DOMAIN q : Newest(u, q[i])
        BY <2>5 DEF ListDone
      <3>2. i - 1 \in DOMAIN p /\ p[i - 1] = q[i]
        BY <1>1, <1>5, <3>1 DEF Newest
      <3> QED
        BY <1>4, <3>1, <3>2 DEF ListDone, Newest
    <2> QED
      BY <1>4, <2>1, <2>2, <2>3, <2>4, <2>5 DEF Kept, ListingKept
  <1>11. Modelled(v, r, p)
    <2>1. ScansSettled(v) => ScansSettled(u)
      BY <1>2, <1>3 DEF ScansSettled
    <2>2. ScansSettled(u) /\ x.status = "done" => x.version >= u.owed.model /\ Late(u, x.home)
      BY <1>1, <1>5 DEF Kept, Modelled
    <2>3. m.ok => x.status = "done" /\ m.version = x.version /\ m.home = x.home
      BY DEF x
    <2>4. \A i \in DOMAIN p : p[i].kind # "scan"
      BY <1>6 DEF ScanDone
    <2> QED
      BY <1>3, <1>4, <1>7, <2>1, <2>2, <2>3, <2>4 DEF Kept, Modelled, Opened, Late, Anew
  <1>12. Within(v, t, h) /\ Checked(v, r)
    BY <1>4 DEF Kept, Within, Checked, Looks, Anew
  <1>13. Reopens(v, r)
    BY <1>2, <1>3, <1>4, <1>7, <1>8 DEF Reopens, Covered, ScansSettled
  <1> QED
    BY <1>3, <1>9, <1>10, <1>11, <1>12, <1>13 DEF Kept, v, p, a

\* The wish for another scan becomes one.
LEMMA AgainKeeps ==
  ASSUME NEW u \in Uis, NEW r \in WorkJobs \cup {NoJob}, NEW q \in Seq(WorkResults),
         NEW t \in Nat, NEW h \in Nat, NEW record \in {0, 1}, Kept(u, r, q, t, h)
  PROVE  LET v == Rescan([u EXCEPT !.again = "no"], record)
         IN  v \in Uis /\ Kept(v, r, q, t, h) /\ Reopens(v, r)
  <1> DEFINE v == [u EXCEPT !.again = "no"]
  <1>1. v \in Uis
    BY DEF Uis, Asks
  <1>2. /\ v.gen = u.gen /\ v.queue = u.queue /\ v.scanning = u.scanning /\ v.pending = u.pending
        /\ v.listing = u.listing /\ v.reopen = u.reopen /\ v.checked = u.checked /\ v.looked = u.looked
        /\ v.org = u.org /\ v.model = u.model /\ v.switched = u.switched /\ v.excused = u.excused
        /\ v.owed = u.owed
    BY DEF Uis
  <1> HIDE DEF v
  <1>3. OneScan(v, r, q) /\ Within(v, t, h)
    BY <1>2 DEF Kept, OneScan, ScanQueued, Within
  <1>4. ListingKept(v, r, q)
    BY <1>2 DEF Kept, ListingKept, Timely, ListQueued, ListRuns, ListDone, Newest
  <1>5. Opened(v, r) /\ Checked(v, r)
    BY <1>2 DEF Kept, Modelled, Opened, Checked, Looks, Late, Anew
  <1>6. ScanBegun(v, r, q, t, h)
    BY <1>3, <1>4, <1>5 DEF ScanBegun
  <1>7. /\ Rescan(v, record) \in Uis /\ Kept(Rescan(v, record), r, q, t, h)
        /\ Reopens(Rescan(v, record), r)
    BY <1>1, <1>6, RescanBegins
  <1> QED
    BY <1>7 DEF v

\* A scan that begins opens the organizer of the vault that is open, when it must.
LEMMA OpenKeeps ==
  ASSUME NEW u \in Uis, NEW r \in WorkJobs, NEW q \in Seq(WorkResults), NEW t \in Nat, NEW h \in Nat \ {0},
         Kept(u, r, q, t, h), r.kind = "scan", r.at = "begin"
  PROVE  LET v == IF Anew(u) THEN [u EXCEPT !.org = h, !.reopen = FALSE] ELSE u
             s == [r EXCEPT !.at = "open"]
         IN  v \in Uis /\ s \in WorkJobs /\ Kept(v, s, q, t, h) /\ Reopens(v, s)
  <1> DEFINE v == IF Anew(u) THEN [u EXCEPT !.org = h, !.reopen = FALSE] ELSE u
             s == [r EXCEPT !.at = "open"]
  <1>1. s \in WorkJobs /\ s.kind = "scan" /\ s.at = "open"
    BY DEF WorkJobs
  <1>2. v \in Uis
    BY DEF Uis
  <1>3. /\ v.gen = u.gen /\ v.queue = u.queue /\ v.scanning = u.scanning /\ v.pending = u.pending
        /\ v.again = u.again /\ v.listing = u.listing /\ v.checked = u.checked /\ v.looked = u.looked
        /\ v.model = u.model /\ v.switched = u.switched /\ v.excused = u.excused
        /\ v.owed = u.owed
    BY DEF Uis
  <1>4. ~v.reopen /\ (Anew(u) => v.org = h) /\ (~Anew(u) => v.org = u.org /\ u.org # 0)
    BY DEF Uis, Anew
  <1> HIDE DEF v, s
  <1>5. ScanRuns(r) /\ ScanRuns(s) /\ ~ListRuns(u, r) /\ ~ListRuns(v, s)
    BY <1>1 DEF ScanRuns, ListRuns, Newest
  <1>6. OneScan(v, s, q)
    BY <1>3, <1>5 DEF Kept, OneScan, ScanQueued
  <1>7. ListingKept(v, s, q)
    BY <1>1, <1>3, <1>5 DEF Kept, ListingKept, Timely, ListQueued, ListDone, Newest
  <1>8. Within(v, t, h)
    BY <1>3 DEF Kept, Within
  <1>9. h >= v.owed.home /\ h >= v.switched
    BY <1>8 DEF Within, Uis
  <1>10. Modelled(v, s, q)
    <2>1. u.scanning /\ \A i \in DOMAIN q : q[i].kind # "scan"
      BY <1>5 DEF Kept, OneScan, ScanDone
    <2>2. Late(v, v.org)
      BY <1>3, <1>4, <1>9 DEF Kept, Modelled, Opened, Late
    <2> QED
      BY <1>1, <1>3, <1>4, <2>1, <2>2 DEF Modelled, Opened
  <1>11. Checked(v, s)
    <2>1. Looks(v, v.org)
      BY <1>3, <1>4, <1>9 DEF Kept, Checked, Looks
    <2> QED
      BY <1>1, <1>3, <2>1 DEF Kept, Checked, Looks
  <1>12. Reopens(v, s)
    BY <1>4 DEF Reopens
  <1> QED
    BY <1>1, <1>2, <1>6, <1>7, <1>8, <1>10, <1>11, <1>12 DEF Kept, v, s

\* Nothing can be opened: the wish is over, and the view goes on with what it had.
LEMMA OpenFailsKeeps ==
  ASSUME NEW u \in Uis, NEW r \in WorkJobs, NEW q \in Seq(WorkResults), NEW t \in Nat, NEW h \in Nat,
         Kept(u, r, q, t, h), r.kind = "scan", r.at = "begin"
  PROVE  LET v == [u EXCEPT !.reopen = FALSE, !.excused = u.excused \/ u.org # 0]
         IN  v \in Uis /\ Kept(v, r, q, t, h) /\ ~v.reopen
  <1> DEFINE v == [u EXCEPT !.reopen = FALSE, !.excused = u.excused \/ u.org # 0]
  <1>1. v \in Uis /\ v.reopen = FALSE /\ v.excused = (u.excused \/ u.org # 0)
    BY DEF Uis
  <1>2. /\ v.gen = u.gen /\ v.queue = u.queue /\ v.scanning = u.scanning /\ v.pending = u.pending
        /\ v.again = u.again /\ v.listing = u.listing /\ v.checked = u.checked /\ v.looked = u.looked
        /\ v.model = u.model /\ v.switched = u.switched /\ v.org = u.org /\ v.owed = u.owed
    BY DEF Uis
  <1> HIDE DEF v
  <1>3. OneScan(v, r, q) /\ Within(v, t, h)
    BY <1>2 DEF Kept, OneScan, ScanQueued, Within
  <1>4. ListingKept(v, r, q)
    BY <1>2 DEF Kept, ListingKept, Timely, ListQueued, ListRuns, ListDone, Newest
  <1>5. u.excused => v.excused
    BY <1>1
  <1>6. v.org # 0 => v.excused
    BY <1>1, <1>2
  <1>7. Modelled(v, r, q)
    BY <1>2, <1>5, <1>6 DEF Kept, Modelled, Opened, ScansSettled, Late, Anew
  <1>8. Checked(v, r)
    BY <1>2, <1>5, <1>6 DEF Kept, Checked, Looks, Anew
  <1> QED
    BY <1>1, <1>3, <1>4, <1>7, <1>8 DEF Kept, v

\* What the organizer of the vault reads is what there is by now.
LEMMA ReadKeeps ==
  ASSUME NEW u \in Uis, NEW r \in WorkJobs, NEW q \in Seq(WorkResults), NEW t \in Nat, NEW h \in Nat,
         Kept(u, r, q, t, h), Reopens(u, r), r.kind = "scan", r.at = "open"
  PROVE  LET s == [r EXCEPT !.at = "read", !.tag = t, !.home = u.org]
         IN  s \in WorkJobs /\ Kept(u, s, q, t, h) /\ Reopens(u, s)
  <1> DEFINE s == [r EXCEPT !.at = "read", !.tag = t, !.home = u.org]
  <1>0. u.org \in Nat /\ u.owed.model \in Nat
    BY DEF Uis
  <1>1. s \in WorkJobs /\ s.kind = "scan" /\ s.at = "read" /\ s.tag = t /\ s.home = u.org
    BY <1>0 DEF WorkJobs
  <1> HIDE DEF s
  <1>2. ScanRuns(r) /\ ScanRuns(s) /\ ~ListRuns(u, r) /\ ~ListRuns(u, s)
    BY <1>1 DEF ScanRuns, ListRuns, Newest
  <1>3. OneScan(u, s, q) /\ Within(u, t, h)
    BY <1>2 DEF Kept, OneScan
  <1>4. ListingKept(u, s, q)
    BY <1>1, <1>2 DEF Kept, ListingKept, Timely
  <1>5. u.org # 0 /\ (u.reopen => ~ScansSettled(u))
    BY <1>2 DEF Kept, Modelled, Opened, Reopens, Covered, OneScan
  <1>6. Modelled(u, s, q)
    <2>1. ScansSettled(u) => t >= u.owed.model /\ Late(u, u.org)
      BY <1>0, <1>5 DEF Kept, Within, Modelled, Opened, Anew
    <2> QED
      BY <1>1, <1>5, <2>1 DEF Kept, Modelled, Opened
  <1>7. Checked(u, s)
    BY <1>1, <1>2 DEF Kept, Checked
  <1>8. Reopens(u, s)
    BY <1>5 DEF Reopens, Covered
  <1> QED
    BY <1>1, <1>3, <1>4, <1>6, <1>7, <1>8 DEF Kept, s

\* The moves that were interrupted are looked for once.
LEMMA LookKeeps ==
  ASSUME NEW u \in Uis, NEW r \in WorkJobs, NEW q \in Seq(WorkResults), NEW t \in Nat, NEW h \in Nat,
         NEW v, \/ v = u
                \/ v = [u EXCEPT !.checked = TRUE, !.looked = r.home]
                \/ v = [u EXCEPT !.checked = TRUE, !.excused = TRUE],
         Kept(u, r, q, t, h), Reopens(u, r), r.kind = "scan", r.at = "read"
  PROVE  v \in Uis /\ Kept(v, r, q, t, h) /\ (v.reopen => ~ScansSettled(v))
  <1>0. r.home \in Nat /\ ScanRuns(r)
    BY DEF WorkJobs, ScanRuns
  <1>1. v \in Uis
    <2>1. CASE v = u
      BY <2>1
    <2>2. CASE v = [u EXCEPT !.checked = TRUE, !.looked = r.home]
      BY <1>0, <2>2 DEF Uis
    <2>3. CASE v = [u EXCEPT !.checked = TRUE, !.excused = TRUE]
      BY <2>3 DEF Uis
    <2> QED
      BY <2>1, <2>2, <2>3
  <1>2. /\ v.gen = u.gen /\ v.queue = u.queue /\ v.scanning = u.scanning /\ v.pending = u.pending
        /\ v.again = u.again /\ v.listing = u.listing /\ v.reopen = u.reopen
        /\ v.model = u.model /\ v.switched = u.switched /\ v.org = u.org /\ v.owed = u.owed
    BY DEF Uis
  <1>3. /\ u.excused => v.excused
        /\ v.checked => (u.checked /\ v.looked = u.looked) \/ v.looked = r.home \/ v.excused
    BY DEF Uis
  <1>4. OneScan(v, r, q) /\ Within(v, t, h)
    BY <1>2 DEF Kept, OneScan, ScanQueued, Within
  <1>5. ListingKept(v, r, q)
    BY <1>2 DEF Kept, ListingKept, Timely, ListQueued, ListRuns, ListDone, Newest
  <1>6. Modelled(v, r, q)
    BY <1>2, <1>3 DEF Kept, Modelled, Opened, ScansSettled, Late, Anew
  <1>7. Checked(v, r)
    BY <1>0, <1>2, <1>3 DEF Kept, Checked, Looks, Anew
  <1>8. u.reopen => ~ScansSettled(u)
    BY <1>0 DEF Kept, OneScan, Reopens, Covered
  <1> QED
    BY <1>1, <1>2, <1>4, <1>5, <1>6, <1>7, <1>8 DEF Kept, ScansSettled

-----------------------------------------------------------------------------
(* The steps that keep the tabs and the window.                             *)

LEMMA TabsUntouched ==
  ASSUME DesktopTyped, TabsKept, DesktopTyped', UNCHANGED <<ui, running, results>>,
         truth' >= truth, home' >= home
  PROVE  TabsKept'
  BY LaterKeeps DEF DesktopTyped, TabsKept

LEMMA WindowUntouched ==
  ASSUME WindowHolds, UNCHANGED <<frames, window>>, window.at = "gone" => running' = NoJob
  PROVE  WindowHolds'
  BY DEF WindowHolds, Open, ClassicOps, Counted

LEMMA JobRuns ==
  ASSUME DesktopTyped, running.kind \in Tasks
  PROVE  running \in WorkJobs /\ running # NoJob
  BY NoJobIsNone DEF DesktopTyped, Tasks, Writes, Reads

LEMMA ResultIsTyped ==
  ASSUME NEW job \in WorkJobs, NEW status \in Statuses, NEW version \in Nat, NEW h \in Nat
  PROVE  LET x == Result(job, status, version, h)
         IN  /\ x \in WorkResults /\ x.kind = job.kind /\ x.tag = job.tag /\ x.status = status
             /\ x.version = version /\ x.home = h
  BY DEF Result, WorkResults, WorkJobs

\* The owner asks for something that the worker does.
LEMMA OwnerKeeps ==
  ASSUME DesktopInv,
         \/ \E kind \in Writes \cup Reads : StartWork(kind)
         \/ \E record \in {0, 1} : LookAgain(record)
         \/ OnRescan \/ SwitchVault
  PROVE  DesktopInv'
  <1>0. /\ ui \in Uis /\ running \in WorkJobs \cup {NoJob} /\ results \in Seq(WorkResults)
        /\ truth \in Nat /\ home \in Nat \ {0} /\ home \in Nat
        /\ Kept(ui, running, results, truth, home) /\ Reopens(ui, running)
    BY DEF DesktopInv, DesktopTyped, TabsKept
  <1>1. ASSUME NEW kind \in Writes \cup Reads, StartWork(kind)
        PROVE  DesktopInv'
    <2> DEFINE job == Job(kind, FALSE, TRUE, 0, home)
    <2>1. /\ job \in WorkJobs /\ job.kind \notin {"scan", "list"} /\ job.at = "begin"
      <3>1. kind \in Tasks /\ kind \notin {"scan", "list"}
        BY DEF Tasks, Writes, Reads
      <3> QED
        BY <1>0, <3>1 DEF Job, WorkJobs
    <2> HIDE DEF job
    <2>2. ui' = Submit2(ui, job) /\ UNCHANGED <<truth, home, running, results, frames, window>>
      BY <1>1 DEF StartWork, job
    <2>3. ui' \in Uis /\ Kept(ui', running, results, truth, home) /\ Reopens(ui', running)
      BY <1>0, <2>1, <2>2, SubmitKeeps
    <2>4. DesktopTyped' /\ TabsKept'
      BY <2>2, <2>3 DEF DesktopInv, DesktopTyped, TabsKept
    <2>5. WindowHolds'
      BY <2>2, WindowUntouched DEF DesktopInv, WindowHolds
    <2> QED
      BY <2>4, <2>5 DEF DesktopInv
  <1>2. ASSUME NEW record \in {0, 1}, LookAgain(record)
        PROVE  DesktopInv'
    <2>1. ui' = Rescan(ui, record) /\ UNCHANGED <<truth, home, running, results, frames, window>>
      BY <1>2 DEF LookAgain
    <2>2. ui' \in Uis /\ Kept(ui', running, results, truth, home) /\ Reopens(ui', running)
      BY <1>0, <2>1, RescanKeeps
    <2>3. DesktopTyped' /\ TabsKept'
      BY <2>1, <2>2 DEF DesktopInv, DesktopTyped, TabsKept
    <2>4. WindowHolds'
      BY <2>1, WindowUntouched DEF DesktopInv, WindowHolds
    <2> QED
      BY <2>3, <2>4 DEF DesktopInv
  <1>3. ASSUME OnRescan
        PROVE  DesktopInv'
    <2>1. PICK h : h = home + 1
      OBVIOUS
    <2>2. /\ home' = h /\ UNCHANGED <<truth, running, results, frames, window>>
          /\ ui' = Owes(Rescan(SourcesChanged(Refresh(ui, h)), 1), TRUE, TRUE, h)
      BY <1>3, <2>1 DEF OnRescan
    <2>3. h \in Nat \ {0} /\ h \in Nat /\ h >= home /\ h >= ui.owed.home
      BY <1>0, <2>1 DEF Kept, Within, Uis
    <2>4. Kept(ui, running, results, truth, h)
      BY <1>0, <2>3, LaterKeeps
    <2>5. PICK v : v = Refresh(ui, h)
      OBVIOUS
    <2>6. /\ v \in Uis /\ Kept(v, running, results, truth, h) /\ FreshList(v, running, results, h)
          /\ v.owed = ui.owed
      <3>1. PICK u \in Uis : u = ui
        BY <1>0
      <3>2. PICK r \in WorkJobs \cup {NoJob} : r = running
        BY <1>0
      <3>3. PICK q \in Seq(WorkResults) : q = results
        BY <1>0
      <3>4. PICK t \in Nat : t = truth
        BY <1>0
      <3>5. PICK k \in Nat : k = h
        BY <2>3
      <3>6. Kept(u, r, q, t, k) /\ k >= u.owed.home
        BY <2>3, <2>4, <3>1, <3>2, <3>3, <3>4, <3>5
      <3>7. /\ Refresh(u, k) \in Uis /\ Kept(Refresh(u, k), r, q, t, k)
            /\ FreshList(Refresh(u, k), r, q, k) /\ Refresh(u, k).owed = u.owed
        BY <3>6, RefreshKeeps, SMTT(40)
      <3>8. v = Refresh(u, k)
        BY <2>5, <3>1, <3>5
      <3> QED
        BY <3>1, <3>2, <3>3, <3>4, <3>5, <3>7, <3>8
    <2>7. PICK w : w = SourcesChanged(v)
      OBVIOUS
    <2>8. /\ w \in Uis /\ Kept(w, running, results, truth, h) /\ FreshList(w, running, results, h)
          /\ w.owed = ui.owed /\ w.reopen
      <3>1. \A c \in BOOLEAN : (c => v.checked) =>
              LET x == [v EXCEPT !.reopen = TRUE, !.checked = c]
              IN  /\ x \in Uis /\ Kept(x, running, results, truth, h) /\ x.owed = v.owed /\ x.reopen
                  /\ (FreshList(v, running, results, h) => FreshList(x, running, results, h))
        BY <2>6, ReopenKeeps
      <3>2. w = [v EXCEPT !.reopen = TRUE, !.checked = v.checked] /\ v.checked \in BOOLEAN
        BY <2>6, <2>7 DEF SourcesChanged, Uis
      <3> QED
        BY <2>6, <3>1, <3>2
    <2>9. PICK x : x = Rescan(w, 1)
      OBVIOUS
    <2>10. /\ x \in Uis /\ Kept(x, running, results, truth, h) /\ FreshList(x, running, results, h)
           /\ Covered(x, running) /\ x.owed = ui.owed /\ x.reopen
      BY <1>0, <2>3, <2>8, <2>9, RescanKeeps
    <2>11. ui' = [x EXCEPT !.owed = [list |-> truth, model |-> truth, home |-> h]]
      BY <2>2, <2>5, <2>7, <2>9 DEF Owes
    <2>12. LET y == [x EXCEPT !.owed = [list |-> truth, model |-> truth, home |-> h]]
           IN  y \in Uis /\ Kept(y, running, results, truth, h) /\ Reopens(y, running)
      <3>1. h >= x.owed.home /\ h <= h /\ Anew(x)
        BY <2>3, <2>10 DEF Anew
      <3> QED
        BY <1>0, <2>3, <2>10, <3>1, OwesKeeps
    <2>13. DesktopTyped' /\ TabsKept'
      BY <2>2, <2>3, <2>11, <2>12 DEF DesktopInv, DesktopTyped, TabsKept
    <2>14. WindowHolds'
      BY <2>2, WindowUntouched DEF DesktopInv, WindowHolds
    <2> QED
      BY <2>13, <2>14 DEF DesktopInv
  <1>4. ASSUME SwitchVault
        PROVE  DesktopInv'
    <2>1. PICK h : h = home + 1
      OBVIOUS
    <2>2. PICK v : v = VaultChanged(ui, TRUE, h)
      OBVIOUS
    <2>3. PICK e : e = (v.excused \/ (running.kind = "scan" /\ running.at # "begin"))
      OBVIOUS
    <2>4. /\ home' = h /\ UNCHANGED <<truth, running, results, frames, window>>
          /\ ui' = [v EXCEPT !.switched = h,
                             !.excused = v.excused \/ (running.kind = "scan" /\ running.at # "begin")]
      BY <1>4, <2>1, <2>2 DEF SwitchVault
    <2>5. h \in Nat \ {0} /\ h \in Nat /\ h >= home
      BY <1>0, <2>1
    <2>6. Kept(ui, running, results, truth, h)
      BY <1>0, <2>5, LaterKeeps
    <2>7. /\ v \in Uis /\ Kept(v, running, results, truth, h) /\ Reopens(v, running)
          /\ v.reopen /\ ~v.checked
      BY <1>0, <2>2, <2>5, <2>6, VaultChangedKeeps
    <2>8. e \in BOOLEAN /\ (v.excused => e) /\ (ScanRuns(running) /\ running.at # "begin" => e)
      BY <2>3 DEF ScanRuns
    <2>9. LET x == [v EXCEPT !.switched = h, !.excused = e]
          IN  x \in Uis /\ Kept(x, running, results, truth, h) /\ Reopens(x, running)
      BY <1>0, <2>5, <2>7, <2>8, SwitchKeeps
    <2>10. ui' \in Uis /\ Kept(ui', running, results, truth, h) /\ Reopens(ui', running)
      BY <2>3, <2>4, <2>9
    <2>11. DesktopTyped' /\ TabsKept'
      BY <2>4, <2>5, <2>10 DEF DesktopInv, DesktopTyped, TabsKept
    <2>12. WindowHolds'
      BY <2>4, WindowUntouched DEF DesktopInv, WindowHolds
    <2> QED
      BY <2>11, <2>12 DEF DesktopInv
  <1> QED
    BY <1>1, <1>2, <1>3, <1>4

\* The worker takes a job and is done with it.
LEMMA TakesKeeps ==
  ASSUME DesktopInv, WorkerTakes
  PROVE  DesktopInv'
  <1>0. /\ ui \in Uis /\ running = NoJob /\ results \in Seq(WorkResults)
        /\ truth \in Nat /\ home \in Nat
        /\ Kept(ui, NoJob, results, truth, home) /\ Reopens(ui, NoJob)
    BY DEF DesktopInv, DesktopTyped, TabsKept, WorkerTakes
  <1>1. PICK n : n = NextJob(ui.queue)
    OBVIOUS
  <1>2. /\ running' = ui.queue[n] /\ ui' = [ui EXCEPT !.queue = RemoveAt(ui.queue, n)]
        /\ UNCHANGED <<truth, home, results, frames, window>> /\ ui.queue # <<>> /\ Open
    BY <1>1 DEF WorkerTakes
  <1>3. n \in DOMAIN ui.queue
    BY <1>0, <1>1, <1>2, NextIsQueued DEF Uis
  <1>4. /\ ui' \in Uis /\ running' \in WorkJobs
        /\ Kept(ui', running', results, truth, home) /\ Reopens(ui', running')
    BY <1>0, <1>2, <1>3, TakeKeeps
  <1>5. DesktopTyped' /\ TabsKept'
    BY <1>2, <1>4 DEF DesktopInv, DesktopTyped, TabsKept
  <1>6. WindowHolds'
    BY <1>2, WindowUntouched DEF DesktopInv, Open
  <1> QED
    BY <1>5, <1>6 DEF DesktopInv

LEMMA EndsKeeps ==
  ASSUME DesktopInv, NEW x \in WorkResults, Ends(x), UNCHANGED <<frames, window>>,
         ui' \in Uis, truth' \in Nat, home' \in Nat \ {0}, truth' >= truth, home' >= home,
         Kept(ui', NoJob, Append(results, x), truth, home), Reopens(ui', NoJob)
  PROVE  DesktopInv'
  <1>0. results \in Seq(WorkResults) /\ truth \in Nat /\ home \in Nat /\ home' \in Nat
    BY DEF DesktopInv, DesktopTyped
  <1>1. running' = NoJob /\ results' = Append(results, x)
    BY DEF Ends
  <1>2. Append(results, x) \in Seq(WorkResults)
    BY <1>0
  <1>3. Kept(ui', NoJob, Append(results, x), truth', home')
    BY <1>0, LaterKeeps
  <1>4. DesktopTyped' /\ TabsKept'
    BY <1>1, <1>2, <1>3 DEF DesktopInv, DesktopTyped, TabsKept
  <1>5. WindowHolds'
    BY <1>1, WindowUntouched DEF DesktopInv
  <1> QED
    BY <1>4, <1>5 DEF DesktopInv

LEMMA ListWorks ==
  ASSUME DesktopInv, ReadVault
  PROVE  DesktopInv'
  <1>0. /\ ui \in Uis /\ results \in Seq(WorkResults) /\ truth \in Nat /\ home \in Nat \ {0} /\ home \in Nat
        /\ Kept(ui, running, results, truth, home) /\ Reopens(ui, running)
    BY DEF DesktopInv, DesktopTyped, TabsKept
  <1>1. running.kind = "list" /\ running \in WorkJobs
    BY JobRuns DEF ReadVault, DesktopInv, Tasks
  <1>2. PICK status \in Statuses : Ends(Result(running, status, truth, running.home))
    BY DEF ReadVault, Statuses
  <1>3. PICK x : x = Result(running, status, truth, running.home)
    OBVIOUS
  <1>4. /\ x \in WorkResults /\ x.kind = "list" /\ x.tag = running.tag /\ x.version = truth
        /\ x.home = running.home
    BY <1>0, <1>1, <1>3, ResultIsTyped DEF WorkJobs
  <1>5. UNCHANGED <<truth, home, ui, frames, window>>
    BY DEF ReadVault
  <1>6. Kept(ui, NoJob, Append(results, x), truth, home) /\ Reopens(ui, NoJob)
    BY <1>0, <1>1, <1>4, ListEndKeeps
  <1> QED
    BY <1>0, <1>2, <1>3, <1>4, <1>5, <1>6, EndsKeeps

\* A scan that goes on is no end: the job is at its next part.
LEMMA JobGoesOn ==
  ASSUME DesktopInv, UNCHANGED <<truth, home, results, frames, window>>, running # NoJob,
         ui' \in Uis, running' \in WorkJobs,
         Kept(ui', running', results, truth, home), Reopens(ui', running')
  PROVE  DesktopInv'
  <1>1. DesktopTyped' /\ TabsKept'
    BY DEF DesktopInv, DesktopTyped, TabsKept
  <1>2. WindowHolds'
    BY WindowUntouched DEF DesktopInv, WindowHolds
  <1> QED
    BY <1>1, <1>2 DEF DesktopInv

LEMMA ErrorIsTyped ==
  ASSUME NEW job \in WorkJobs, NEW status \in Statuses
  PROVE  LET x == Result(job, status, 0, 0)
         IN  x \in WorkResults /\ x.kind = job.kind /\ x.status = status
  BY ResultIsTyped

LEMMA ScanBegins ==
  ASSUME DesktopInv, ScanOpens
  PROVE  DesktopInv'
  <1>0. /\ ui \in Uis /\ results \in Seq(WorkResults) /\ truth \in Nat /\ home \in Nat \ {0} /\ home \in Nat
        /\ Kept(ui, running, results, truth, home) /\ Reopens(ui, running)
    BY DEF DesktopInv, DesktopTyped, TabsKept
  <1>1. running.kind = "scan" /\ running.at = "begin" /\ running \in WorkJobs /\ running # NoJob
    BY JobRuns DEF ScanOpens, DesktopInv, Tasks
  <1>2. UNCHANGED <<truth, home, frames, window>>
    BY DEF ScanOpens
  <1>3. CASE /\ running' = [running EXCEPT !.at = "open"] /\ results' = results
             /\ ui' = IF Anew(ui) THEN [ui EXCEPT !.org = home, !.reopen = FALSE] ELSE ui
    <2>1. /\ ui' \in Uis /\ running' \in WorkJobs
          /\ Kept(ui', running', results, truth, home) /\ Reopens(ui', running')
      BY <1>0, <1>1, <1>3, OpenKeeps
    <2> QED
      BY <1>1, <1>2, <1>3, <2>1, JobGoesOn
  <1>4. CASE /\ ui' = [ui EXCEPT !.reopen = FALSE, !.excused = ui.excused \/ ui.org # 0]
             /\ Ends(Result(running, "error", 0, 0))
    <2>1. ui' \in Uis /\ Kept(ui', running, results, truth, home) /\ ~ui'.reopen
      BY <1>0, <1>1, <1>4, OpenFailsKeeps
    <2>2. PICK x : x = Result(running, "error", 0, 0)
      OBVIOUS
    <2>3. x \in WorkResults /\ x.kind = "scan" /\ x.status = "error"
      BY <1>1, <2>2, ErrorIsTyped DEF Statuses
    <2>4. Kept(ui', NoJob, Append(results, x), truth, home) /\ Reopens(ui', NoJob)
      BY <1>0, <1>1, <2>1, <2>3, ScanEndKeeps
    <2> QED
      BY <1>0, <1>2, <1>4, <2>1, <2>2, <2>3, <2>4, EndsKeeps
  <1>5. \/ /\ running' = [running EXCEPT !.at = "open"] /\ results' = results
           /\ ui' = IF Anew(ui) THEN [ui EXCEPT !.org = home, !.reopen = FALSE] ELSE ui
        \/ /\ ui' = [ui EXCEPT !.reopen = FALSE, !.excused = ui.excused \/ ui.org # 0]
           /\ Ends(Result(running, "error", 0, 0))
    BY DEF ScanOpens, Anew
  <1> QED
    BY <1>3, <1>4, <1>5

LEMMA ScanGoesOn ==
  ASSUME DesktopInv, ScanReads
  PROVE  DesktopInv'
  <1>0. /\ ui \in Uis /\ results \in Seq(WorkResults) /\ truth \in Nat /\ home \in Nat \ {0} /\ home \in Nat
        /\ Kept(ui, running, results, truth, home) /\ Reopens(ui, running)
    BY DEF DesktopInv, DesktopTyped, TabsKept
  <1>1. running.kind = "scan" /\ running.at = "open" /\ running \in WorkJobs /\ running # NoJob
    BY JobRuns DEF ScanReads, DesktopInv, Tasks
  <1>2. UNCHANGED <<truth, home, ui, frames, window>>
    BY DEF ScanReads
  <1>3. CASE running' = [running EXCEPT !.at = "read", !.tag = truth, !.home = ui.org] /\ results' = results
    <2>1. /\ running' \in WorkJobs
          /\ Kept(ui, running', results, truth, home) /\ Reopens(ui, running')
      BY <1>0, <1>1, <1>3, ReadKeeps
    <2> QED
      BY <1>0, <1>1, <1>2, <1>3, <2>1, JobGoesOn
  <1>4. CASE Ends(Result(running, "error", 0, 0))
    <2>1. PICK x : x = Result(running, "error", 0, 0)
      OBVIOUS
    <2>2. x \in WorkResults /\ x.kind = "scan" /\ x.status = "error"
      BY <1>1, <2>1, ErrorIsTyped DEF Statuses
    <2>3. ui.reopen => ~ScansSettled(ui)
      BY <1>0, <1>1 DEF Kept, OneScan, Reopens, Covered, ScanRuns
    <2>4. Kept(ui, NoJob, Append(results, x), truth, home) /\ Reopens(ui, NoJob)
      BY <1>0, <1>1, <2>2, <2>3, ScanEndKeeps
    <2> QED
      BY <1>0, <1>2, <1>4, <2>1, <2>2, <2>4, EndsKeeps
  <1> QED
    BY <1>3, <1>4 DEF ScanReads

LEMMA ScanEnds ==
  ASSUME DesktopInv, ScanLooks
  PROVE  DesktopInv'
  <1>0. /\ ui \in Uis /\ results \in Seq(WorkResults) /\ truth \in Nat /\ home \in Nat \ {0} /\ home \in Nat
        /\ Kept(ui, running, results, truth, home) /\ Reopens(ui, running)
    BY DEF DesktopInv, DesktopTyped, TabsKept
  <1>1. running.kind = "scan" /\ running.at = "read" /\ running \in WorkJobs
    BY JobRuns DEF ScanLooks, DesktopInv, Tasks
  <1>2. UNCHANGED <<truth, home, frames, window>>
    BY DEF ScanLooks
  <1>3. PICK x : x = Result(running, "done", running.tag, running.home)
    OBVIOUS
  <1>4. /\ x \in WorkResults /\ x.kind = "scan" /\ x.version = running.tag /\ x.home = running.home
    BY <1>1, <1>3, ResultIsTyped DEF WorkJobs, Statuses
  <1>5. ui' \in {ui, [ui EXCEPT !.checked = TRUE, !.looked = running.home],
                 [ui EXCEPT !.checked = TRUE, !.excused = TRUE]}
    BY DEF ScanLooks
  <1>6. ui' \in Uis /\ Kept(ui', running, results, truth, home) /\ (ui'.reopen => ~ScansSettled(ui'))
    <2>1. \/ ui' = ui
          \/ ui' = [ui EXCEPT !.checked = TRUE, !.looked = running.home]
          \/ ui' = [ui EXCEPT !.checked = TRUE, !.excused = TRUE]
      BY <1>5
    <2> QED
      BY <1>0, <1>1, <2>1, LookKeeps
  <1>7. Kept(ui', NoJob, Append(results, x), truth, home) /\ Reopens(ui', NoJob)
    BY <1>0, <1>1, <1>4, <1>6, ScanEndKeeps
  <1>8. Ends(x)
    BY <1>3 DEF ScanLooks
  <1> QED
    BY <1>0, <1>2, <1>4, <1>6, <1>7, <1>8, EndsKeeps

LEMMA OthersWork ==
  ASSUME DesktopInv, WorkReads \/ WorkWrites
  PROVE  DesktopInv'
  <1>0. /\ ui \in Uis /\ results \in Seq(WorkResults) /\ truth \in Nat /\ home \in Nat \ {0} /\ home \in Nat
        /\ Kept(ui, running, results, truth, home) /\ Reopens(ui, running)
    BY DEF DesktopInv, DesktopTyped, TabsKept
  <1>1. running.kind \notin {"scan", "list"} /\ running \in WorkJobs
    <2>1. running.kind \in Reads \cup Writes
      BY DEF WorkReads, WorkWrites
    <2>2. running.kind \in Tasks /\ running.kind \notin {"scan", "list"}
      BY <2>1 DEF Tasks, Writes, Reads
    <2> QED
      BY <2>2, JobRuns DEF DesktopInv
  <1>2. UNCHANGED <<ui, frames, window>>
    BY DEF WorkReads, WorkWrites
  <1>3. PICK status \in Statuses : Ends(Result(running, status, 0, 0))
    BY DEF WorkReads, WorkWrites, Statuses
  <1>4. PICK x : x = Result(running, status, 0, 0)
    OBVIOUS
  <1>5. x \in WorkResults /\ x.kind = running.kind
    BY <1>1, <1>4, ErrorIsTyped
  <1>6. Kept(ui, NoJob, Append(results, x), truth, home) /\ Reopens(ui, NoJob)
    BY <1>0, <1>1, <1>5, OtherEndKeeps
  <1>7. truth' \in {truth, truth + 1} /\ home' \in {home, home + 1}
    BY DEF WorkReads, WorkWrites
  <1>8. truth' \in Nat /\ home' \in Nat \ {0} /\ truth' >= truth /\ home' >= home
    BY <1>0, <1>7
  <1> QED
    BY <1>0, <1>2, <1>3, <1>4, <1>5, <1>6, <1>8, EndsKeeps

\* An answer is delivered.
LEMMA DeliveredKeeps ==
  ASSUME DesktopInv, Delivered2, UNCHANGED <<truth, home, running, frames, window>>,
         ui' \in Uis, Kept(ui', running, Tail(results), truth, home), Reopens(ui', running)
  PROVE  DesktopInv'
  <1>1. results' = Tail(results) /\ results # <<>> /\ results \in Seq(WorkResults)
    BY DEF Delivered2, DesktopInv, DesktopTyped
  <1>2. results' \in Seq(WorkResults)
    BY <1>1, Tails
  <1>3. DesktopTyped' /\ TabsKept'
    BY <1>1, <1>2 DEF DesktopInv, DesktopTyped, TabsKept
  <1>4. WindowHolds'
    BY WindowUntouched DEF DesktopInv, WindowHolds
  <1> QED
    BY <1>3, <1>4 DEF DesktopInv

LEMMA ListingDelivered ==
  ASSUME DesktopInv, ListingReady
  PROVE  DesktopInv'
  <1>0. /\ ui \in Uis /\ running \in WorkJobs \cup {NoJob} /\ results \in Seq(WorkResults)
        /\ truth \in Nat /\ home \in Nat
        /\ Kept(ui, running, results, truth, home) /\ Reopens(ui, running)
    BY DEF DesktopInv, DesktopTyped, TabsKept
  <1>1. /\ Delivered2 /\ UNCHANGED <<truth, home, running, frames, window>> /\ results # <<>>
        /\ Head(results).kind = "list"
    BY DEF ListingReady, Delivered2
  <1>2. CASE Head(results).tag # ui.gen
    <2>1. ui' = ui
      BY <1>2 DEF ListingReady
    <2>2. Kept(ui, running, Tail(results), truth, home)
      BY <1>0, <1>1, <1>2, DeliverKeeps DEF Newest
    <2> QED
      BY <1>0, <1>1, <2>1, <2>2, DeliveredKeeps
  <1>3. CASE Head(results).tag = ui.gen
    <2>1. ui' = [ui EXCEPT !.listing = [ok |-> Head(results).status = "done",
                                        version |-> Head(results).version,
                                        home |-> Head(results).home]]
      BY <1>3 DEF ListingReady
    <2>2. Newest(ui, Head(results))
      BY <1>1, <1>3 DEF Newest
    <2>3. ui' \in Uis /\ Kept(ui', running, Tail(results), truth, home) /\ Reopens(ui', running)
      BY <1>0, <1>1, <2>1, <2>2, ShowListing
    <2> QED
      BY <1>1, <2>3, DeliveredKeeps
  <1> QED
    BY <1>2, <1>3

LEMMA ScanDelivered ==
  ASSUME DesktopInv, Scanned
  PROVE  DesktopInv'
  <1>0. /\ ui \in Uis /\ running \in WorkJobs \cup {NoJob} /\ results \in Seq(WorkResults)
        /\ truth \in Nat /\ home \in Nat
        /\ Kept(ui, running, results, truth, home) /\ Reopens(ui, running)
    BY DEF DesktopInv, DesktopTyped, TabsKept
  <1>1. /\ Delivered2 /\ UNCHANGED <<truth, home, running, frames, window>> /\ results # <<>>
        /\ Head(results).kind = "scan"
    BY DEF Scanned, Delivered2
  <1>2. PICK m : m = IF Head(results).status = "done"
                     THEN [ok |-> TRUE, version |-> Head(results).version, home |-> Head(results).home]
                     ELSE [ui.model EXCEPT !.ok = FALSE]
    OBVIOUS
  <1>3. /\ m \in Tabs
        /\ m.ok => /\ Head(results).status = "done" /\ m.version = Head(results).version
                   /\ m.home = Head(results).home
    <2>1. Head(results) \in WorkResults
      BY <1>0, <1>1, Tails
    <2>2. CASE Head(results).status = "done"
      BY <1>2, <2>1, <2>2 DEF WorkResults, Tabs
    <2>3. CASE Head(results).status # "done"
      BY <1>0, <1>2, <2>3 DEF Uis, Tabs
    <2> QED
      BY <2>2, <2>3
  <1>4. ui' = [ui EXCEPT !.scanning = FALSE, !.pending = "no",
                         !.again = IF ui.pending = "no" THEN ui.again ELSE ui.pending, !.model = m]
    BY <1>0, <1>2 DEF Scanned, ScanOver, Uis
  <1>5. ui' \in Uis /\ Kept(ui', running, Tail(results), truth, home) /\ Reopens(ui', running)
    BY <1>0, <1>1, <1>3, <1>4, ShowScan
  <1> QED
    BY <1>1, <1>5, DeliveredKeeps

LEMMA ScanAsked ==
  ASSUME DesktopInv, ScanAgain
  PROVE  DesktopInv'
  <1>0. /\ ui \in Uis /\ running \in WorkJobs \cup {NoJob} /\ results \in Seq(WorkResults)
        /\ truth \in Nat /\ home \in Nat
        /\ Kept(ui, running, results, truth, home)
    BY DEF DesktopInv, DesktopTyped, TabsKept
  <1>1. PICK record \in {0, 1} : ui' = Rescan([ui EXCEPT !.again = "no"], record)
    BY DEF ScanAgain
  <1>2. UNCHANGED <<truth, home, running, results, frames, window>>
    BY DEF ScanAgain
  <1>3. ui' \in Uis /\ Kept(ui', running, results, truth, home) /\ Reopens(ui', running)
    BY <1>0, <1>1, AgainKeeps
  <1>4. DesktopTyped' /\ TabsKept'
    BY <1>2, <1>3 DEF DesktopInv, DesktopTyped, TabsKept
  <1>5. WindowHolds'
    BY <1>2, WindowUntouched DEF DesktopInv, WindowHolds
  <1> QED
    BY <1>4, <1>5 DEF DesktopInv

LEMMA UndoPlanShown ==
  ASSUME DesktopInv, UndoPlanned \/ LookShown
  PROVE  DesktopInv'
  <1>0. /\ ui \in Uis /\ running \in WorkJobs \cup {NoJob} /\ results \in Seq(WorkResults)
        /\ truth \in Nat /\ home \in Nat
        /\ Kept(ui, running, results, truth, home) /\ Reopens(ui, running)
    BY DEF DesktopInv, DesktopTyped, TabsKept
  <1>1. /\ Delivered2 /\ UNCHANGED <<truth, home, running, frames, window>> /\ results # <<>>
        /\ Head(results).kind \notin {"scan", "list"}
    BY DEF UndoPlanned, LookShown, Delivered2
  <1>2. Kept(ui, running, Tail(results), truth, home)
    BY <1>0, <1>1, DeliverKeeps DEF Newest
  <1>3. CASE ui' = ui
    BY <1>0, <1>1, <1>2, <1>3, DeliveredKeeps
  <1>4. CASE ui' = Submit2(ui, Job("undoing", FALSE, TRUE, 0, home))
    <2>1. PICK job : job = Job("undoing", FALSE, TRUE, 0, home)
      OBVIOUS
    <2>2. job \in WorkJobs /\ job.kind = "undoing" /\ job.at = "begin"
      BY <1>0, <2>1 DEF Job, WorkJobs, Tasks, Writes
    <2>3. ui' \in Uis /\ Kept(ui', running, Tail(results), truth, home) /\ Reopens(ui', running)
      BY <1>0, <1>2, <1>4, <2>1, <2>2, SubmitKeeps
    <2> QED
      BY <1>1, <2>3, DeliveredKeeps
  <1> QED
    BY <1>3, <1>4 DEF UndoPlanned, LookShown

LEMMA WorkDelivered ==
  ASSUME DesktopInv, WorkDone
  PROVE  DesktopInv'
  <1>0. /\ ui \in Uis /\ running \in WorkJobs \cup {NoJob} /\ results \in Seq(WorkResults)
        /\ truth \in Nat /\ home \in Nat /\ ui.owed.home \in Nat
        /\ Kept(ui, running, results, truth, home) /\ Reopens(ui, running)
    BY DEF DesktopInv, DesktopTyped, TabsKept, Uis
  <1>1. /\ Delivered2 /\ UNCHANGED <<truth, home, running, frames, window>> /\ results # <<>>
        /\ Head(results).kind \in Writes
    BY DEF WorkDone, Delivered2
  <1>2. PICK q : q = Tail(results)
    OBVIOUS
  <1>3. q \in Seq(WorkResults) /\ Kept(ui, running, q, truth, home)
    <2>1. Head(results).kind \notin {"scan", "list"}
      BY <1>1 DEF Writes
    <2> QED
      BY <1>0, <1>1, <1>2, <2>1, DeliverKeeps, Tails DEF Newest
  <1> SUFFICES ui' \in Uis /\ Kept(ui', running, q, truth, home) /\ Reopens(ui', running)
    BY <1>1, <1>2, DeliveredKeeps
  <1>4. CASE ui' = ui
    BY <1>0, <1>3, <1>4
  <1>5. CASE ui' = Moved(ui, home)
    BY <1>0, <1>3, <1>5, MovedKeeps
  <1>6. CASE ui' = Owes(Rescan(ui, 1), FALSE, TRUE, ui.owed.home)
    <2>1. PICK v : v = Rescan(ui, 1)
      OBVIOUS
    <2>2. v \in Uis /\ Kept(v, running, q, truth, home) /\ Covered(v, running) /\ v.owed = ui.owed
      BY <1>0, <1>3, <2>1, RescanKeeps
    <2>3. PICK n : n = ui.owed.home
      OBVIOUS
    <2>4. ui' = [v EXCEPT !.owed = [list |-> v.owed.list, model |-> truth, home |-> n]]
      BY <1>6, <2>1, <2>3 DEF Owes
    <2>5. n \in Nat /\ n >= v.owed.home /\ n <= home /\ n = v.owed.home
      BY <1>0, <2>2, <2>3 DEF Kept, Within
    <2>6. LET x == [v EXCEPT !.owed = [list |-> v.owed.list, model |-> truth, home |-> n]]
          IN  x \in Uis /\ Kept(x, running, q, truth, home) /\ Reopens(x, running)
      BY <1>0, <1>3, <2>2, <2>5, OwesKeeps
    <2> QED
      BY <2>4, <2>6
  <1>7. CASE ui' = VaultChanged(ui, FALSE, home)
    BY <1>0, <1>3, <1>7, VaultChangedKeeps
  <1>8. CASE ui' = Submit2(VaultChanged(ui, TRUE, home), Job("look", FALSE, TRUE, 0, home))
    <2>1. PICK job : job = Job("look", FALSE, TRUE, 0, home)
      OBVIOUS
    <2>2. job \in WorkJobs /\ job.kind = "look" /\ job.at = "begin"
      BY <1>0, <2>1 DEF Job, WorkJobs, Tasks, Reads
    <2>3. PICK v : v = VaultChanged(ui, TRUE, home)
      OBVIOUS
    <2>4. v \in Uis /\ Kept(v, running, q, truth, home) /\ Reopens(v, running)
      BY <1>0, <1>3, <2>3, VaultChangedKeeps
    <2> QED
      BY <1>0, <1>3, <1>8, <2>1, <2>2, <2>3, <2>4, SubmitKeeps
  <1>9. \/ ui' = ui \/ ui' = Moved(ui, home)
        \/ ui' = Owes(Rescan(ui, 1), FALSE, TRUE, ui.owed.home)
        \/ ui' = VaultChanged(ui, FALSE, home)
        \/ ui' = Submit2(VaultChanged(ui, TRUE, home), Job("look", FALSE, TRUE, 0, home))
    BY <1>1 DEF WorkDone, Writes
  <1> QED
    BY <1>4, <1>5, <1>6, <1>7, <1>8, <1>9

-----------------------------------------------------------------------------
(* Classic operations and the close.                                        *)

\* A frame may be put in the place of one that counted, or be taken off.
LEMMA FramesKeep ==
  ASSUME DesktopInv, UNCHANGED window, window.at = "gone" => running' = NoJob,
         frames' \in Seq(FrameStates),
         \A i \in DOMAIN frames' : frames'[i].status \in {"invalid", "game"} => frames'[i].kind = "run",
         ClassicOps' => ClassicOps \/ (window.asked # "worker" /\ ~window.finishing) \/ window.late
  PROVE  WindowHolds'
  BY DEF DesktopInv, WindowHolds, Open

LEMMA ClassicStarts ==
  ASSUME DesktopInv, NEW kind \in Classics, StartClassic(kind)
  PROVE  DesktopInv'
  <1> DEFINE f == Frame(kind)
             n == Len(frames) + 1
  <1>1. frames \in Seq(FrameStates) /\ f \in FrameStates /\ f.status = "none"
    BY DEF DesktopInv, DesktopTyped, Frame, FrameStates
  <1>2. /\ frames' = Append(frames, f) /\ Reachable
        /\ UNCHANGED <<truth, home, ui, running, results, window>>
    BY DEF StartClassic
  <1> HIDE DEF f
  <1>3. /\ frames' \in Seq(FrameStates) /\ DOMAIN frames' = DOMAIN frames \cup {n} /\ frames'[n] = f
        /\ \A i \in DOMAIN frames : frames'[i] = frames[i]
    BY <1>1, <1>2, Appends
  <1> HIDE DEF n
  <1>4. \A i \in DOMAIN frames' : frames'[i].status \in {"invalid", "game"} => frames'[i].kind = "run"
    BY <1>1, <1>3 DEF DesktopInv, WindowHolds
  <1>5. window.asked = "no" /\ ~window.finishing
    BY <1>2 DEF Reachable, Grabbed
  <1>6. WindowHolds'
    <2>1. window.at = "gone" => running' = NoJob
      BY <1>2 DEF DesktopInv, WindowHolds
    <2> QED
      BY <1>2, <1>3, <1>4, <1>5, <2>1, FramesKeep
  <1>7. DesktopTyped'
    BY <1>2, <1>3 DEF DesktopInv, DesktopTyped
  <1>8. TabsKept'
    BY <1>2 DEF DesktopInv, TabsKept
  <1> QED
    BY <1>6, <1>7, <1>8 DEF DesktopInv

LEMMA PlannedLate ==
  ASSUME DesktopInv, UndoSlotPlanned
  PROVE  DesktopInv'
  <1>0. /\ ui \in Uis /\ running \in WorkJobs \cup {NoJob} /\ results \in Seq(WorkResults)
        /\ truth \in Nat /\ home \in Nat
        /\ Kept(ui, running, results, truth, home) /\ Reopens(ui, running)
    BY DEF DesktopInv, DesktopTyped, TabsKept
  <1>1. /\ Delivered2 /\ UNCHANGED <<truth, home, ui, running>> /\ results # <<>>
        /\ Head(results).kind \notin {"scan", "list"} /\ results' = Tail(results) /\ Open
    BY DEF UndoSlotPlanned, Delivered2
  <1>2. Kept(ui, running, Tail(results), truth, home) /\ Tail(results) \in Seq(WorkResults)
    BY <1>0, <1>1, DeliverKeeps, Tails DEF Newest
  <1>3. CASE UNCHANGED <<frames, window>>
    BY <1>0, <1>1, <1>2, <1>3, DeliveredKeeps
  <1>4. CASE /\ frames' = Append(frames, Frame("keep"))
             /\ window' = [window EXCEPT !.late = @ \/ window.finishing \/ window.asked = "worker"]
    <2> DEFINE f == Frame("keep")
               n == Len(frames) + 1
               l == window.late \/ window.finishing \/ window.asked = "worker"
    <2>1. frames \in Seq(FrameStates) /\ f \in FrameStates /\ f.status = "none" /\ window \in WindowStates
      BY DEF DesktopInv, DesktopTyped, Frame, FrameStates, Classics
    <2> HIDE DEF f
    <2>2. /\ frames' \in Seq(FrameStates) /\ DOMAIN frames' = DOMAIN frames \cup {n} /\ frames'[n] = f
          /\ \A i \in DOMAIN frames : frames'[i] = frames[i]
      BY <1>4, <2>1, Appends DEF f
    <2> HIDE DEF n
    <2>3. window' \in WindowStates /\ window'.late = l
      BY <1>4, <2>1 DEF WindowStates
    <2>4. /\ window'.at = window.at /\ window'.asked = window.asked /\ window'.finishing = window.finishing
          /\ window'.how = window.how /\ window'.cut = window.cut /\ window'.dropped = window.dropped
      BY <1>4, <2>1 DEF WindowStates
    <2>5. \A i \in DOMAIN frames' : frames'[i].status \in {"invalid", "game"} => frames'[i].kind = "run"
      BY <2>1, <2>2 DEF DesktopInv, WindowHolds
    <2>6. WindowHolds'
      <3>1. ~(window'.asked = "worker" \/ window'.finishing) \/ window'.late
        BY <2>3, <2>4
      <3> QED
        BY <1>1, <2>4, <2>5, <3>1 DEF WindowHolds, Open
    <2>7. DesktopTyped'
      BY <1>1, <1>2, <2>2, <2>3 DEF DesktopInv, DesktopTyped
    <2>8. TabsKept'
      BY <1>0, <1>1, <1>2 DEF TabsKept
    <2> QED
      BY <2>6, <2>7, <2>8 DEF DesktopInv
  <1> QED
    BY <1>3, <1>4 DEF UndoSlotPlanned

LEMMA ThreadEndsKeeps ==
  ASSUME DesktopInv, NEW i \in DOMAIN frames, ThreadEnds(i)
  PROVE  DesktopInv'
  <1>1. PICK status \in {"done", "invalid", "game", "error"} :
          /\ status \in {"invalid", "game"} => frames[i].kind = "run"
          /\ frames' = [frames EXCEPT ![i].at = "over", ![i].status = status]
          /\ truth' \in CASE status \in {"done", "invalid"} -> {truth + 1}
                          [] status = "game"                -> {truth}
                          [] OTHER                          -> {truth, truth + 1}
          /\ home' = IF status = "done" /\ frames[i].kind = "free" THEN home + 1 ELSE home
    BY DEF ThreadEnds
  <1>2. UNCHANGED <<ui, running, results, window>> /\ frames[i].at = "thread"
    BY DEF ThreadEnds, At2
  <1>3. frames \in Seq(FrameStates) /\ truth \in Nat /\ home \in Nat \ {0}
    BY DEF DesktopInv, DesktopTyped
  <1>4. truth' \in {truth, truth + 1} /\ home' \in {home, home + 1}
    BY <1>1
  <1>5. truth' \in Nat /\ home' \in Nat \ {0} /\ truth' >= truth /\ home' >= home
    BY <1>3, <1>4
  <1>6. PICK f : f = [frames[i] EXCEPT !.at = "over", !.status = status]
    OBVIOUS
  <1>7. f \in FrameStates /\ f.status = status /\ f.kind = frames[i].kind /\ f.at = "over"
    <2>1. frames[i] \in FrameStates
      BY <1>3
    <2> QED
      BY <1>6, <2>1 DEF FrameStates, Statuses
  <1>8. frames' = [frames EXCEPT ![i] = f]
    BY <1>1, <1>3, <1>6
  <1>9. /\ frames' \in Seq(FrameStates) /\ DOMAIN frames' = DOMAIN frames
        /\ \A j \in DOMAIN frames : frames'[j] = IF j = i THEN f ELSE frames[j]
    BY <1>3, <1>7, <1>8
  <1>10. \A j \in DOMAIN frames' : frames'[j].status \in {"invalid", "game"} => frames'[j].kind = "run"
    BY <1>1, <1>7, <1>9 DEF DesktopInv, WindowHolds
  <1>11. ClassicOps' => ClassicOps
    BY <1>2, <1>7, <1>9 DEF ClassicOps, Counted
  <1>12. WindowHolds'
    <2>1. window.at = "gone" => running' = NoJob
      BY <1>2 DEF DesktopInv, WindowHolds
    <2> QED
      BY <1>2, <1>9, <1>10, <1>11, <2>1, FramesKeep
  <1>13. DesktopTyped'
    BY <1>2, <1>5, <1>9 DEF DesktopInv, DesktopTyped
  <1>14. TabsKept'
    BY <1>2, <1>5, <1>13, TabsUntouched DEF DesktopInv
  <1> QED
    BY <1>12, <1>13, <1>14 DEF DesktopInv

\* What is announced at the end of a classic operation, and the frame that ends.
LEMMA OverKeeps ==
  ASSUME DesktopInv, Still, NEW mode \in BOOLEAN,
         ui' \in {ui, VaultChanged(ui, mode, home)},
         frames' \in Seq(FrameStates),
         \A i \in DOMAIN frames' : frames'[i].status \in {"invalid", "game"} => frames'[i].kind = "run",
         ClassicOps' => ClassicOps
  PROVE  DesktopInv'
  <1>0. /\ ui \in Uis /\ running \in WorkJobs \cup {NoJob} /\ results \in Seq(WorkResults)
        /\ truth \in Nat /\ home \in Nat
        /\ Kept(ui, running, results, truth, home) /\ Reopens(ui, running)
    BY DEF DesktopInv, DesktopTyped, TabsKept
  <1>1. UNCHANGED <<truth, home, running, results, window>>
    BY DEF Still
  <1>2. ui' \in Uis /\ Kept(ui', running, results, truth, home) /\ Reopens(ui', running)
    <2>1. CASE ui' = ui
      BY <1>0, <2>1
    <2>2. CASE ui' = VaultChanged(ui, mode, home)
      BY <1>0, <2>2, VaultChangedKeeps
    <2> QED
      BY <2>1, <2>2
  <1>3. DesktopTyped' /\ TabsKept'
    BY <1>1, <1>2 DEF DesktopInv, DesktopTyped, TabsKept
  <1>4. WindowHolds'
    <2>1. window.at = "gone" => running' = NoJob
      BY <1>1 DEF DesktopInv, WindowHolds
    <2> QED
      BY <1>1, <2>1, FramesKeep
  <1> QED
    BY <1>3, <1>4 DEF DesktopInv

LEMMA PopKeeps ==
  ASSUME frames \in Seq(FrameStates), frames # <<>>, Pop,
         \A i \in DOMAIN frames : frames[i].status \in {"invalid", "game"} => frames[i].kind = "run"
  PROVE  /\ frames' \in Seq(FrameStates) /\ (ClassicOps' => ClassicOps)
         /\ \A i \in DOMAIN frames' : frames'[i].status \in {"invalid", "game"} => frames'[i].kind = "run"
  <1>1. /\ frames' \in Seq(FrameStates)
        /\ \A i \in DOMAIN frames' : i \in DOMAIN frames /\ frames'[i] = frames[i]
    BY Fronts DEF Pop
  <1> QED
    BY <1>1 DEF ClassicOps, Counted

LEMMA LastKeeps ==
  ASSUME frames \in Seq(FrameStates), frames # <<>>, NEW f \in FrameStates, f.status \notin {"invalid", "game"}
                                                                   \/ f.kind = "run",
         frames' = [frames EXCEPT ![Len(frames)] = f], Counted(Last(frames)),
         \A i \in DOMAIN frames : frames[i].status \in {"invalid", "game"} => frames[i].kind = "run"
  PROVE  /\ frames' \in Seq(FrameStates) /\ (ClassicOps' => ClassicOps)
         /\ \A i \in DOMAIN frames' : frames'[i].status \in {"invalid", "game"} => frames'[i].kind = "run"
  <1>1. Last(frames) = frames[Len(frames)] /\ Len(frames) \in DOMAIN frames
    BY Fronts
  <1>2. /\ frames' \in Seq(FrameStates) /\ DOMAIN frames' = DOMAIN frames
        /\ \A j \in DOMAIN frames : frames'[j] = IF j = Len(frames) THEN f ELSE frames[j]
    BY <1>1
  <1>3. ClassicOps
    BY <1>1 DEF ClassicOps
  <1> QED
    BY <1>2, <1>3

LEMMA ClassicOver ==
  ASSUME DesktopInv, ProceedAnyway \/ RunOver \/ BoxClosed \/ OtherOver
  PROVE  DesktopInv'
  <1>1. /\ Still /\ frames \in Seq(FrameStates) /\ frames # <<>> /\ Last(frames) \in FrameStates
        /\ Last(frames) = frames[Len(frames)] /\ Len(frames) \in DOMAIN frames
        /\ \A i \in DOMAIN frames : frames[i].status \in {"invalid", "game"} => frames[i].kind = "run"
    BY Fronts DEF ProceedAnyway, RunOver, BoxClosed, OtherOver, Top, DesktopInv, DesktopTyped, WindowHolds
  <1>2. ASSUME Pop, NEW mode \in BOOLEAN, ui' \in {ui, VaultChanged(ui, mode, home)}
        PROVE  DesktopInv'
    BY <1>1, <1>2, PopKeeps, OverKeeps
  <1>3. ASSUME NEW f \in FrameStates, f.status \notin {"invalid", "game"} \/ f.kind = "run",
               frames' = [frames EXCEPT ![Len(frames)] = f], Counted(Last(frames)),
               NEW mode \in BOOLEAN, ui' \in {ui, VaultChanged(ui, mode, home)}
        PROVE  DesktopInv'
    BY <1>1, <1>3, LastKeeps, OverKeeps
  <1>4. CASE ProceedAnyway
    <2>1. CASE Pop
      BY <1>2, <1>4, <2>1 DEF ProceedAnyway
    <2>2. CASE frames' = [frames EXCEPT ![Len(frames)] = Frame("run")]
      <3>1. Frame("run") \in FrameStates /\ Frame("run").status = "none"
        BY DEF Frame, FrameStates, Classics
      <3>2. Counted(Last(frames))
        BY <1>1, <1>4 DEF ProceedAnyway, Counted
      <3> QED
        BY <1>3, <1>4, <2>2, <3>1, <3>2 DEF ProceedAnyway
    <2> QED
      BY <1>4, <2>1, <2>2 DEF ProceedAnyway
  <1>5. CASE RunOver
    <2>1. PICK f : f = [Last(frames) EXCEPT !.at = "box"]
      OBVIOUS
    <2>2. f \in FrameStates /\ f.kind = "run"
      BY <1>1, <1>5, <2>1 DEF FrameStates, RunOver
    <2>3. frames' = [frames EXCEPT ![Len(frames)] = f]
      BY <1>1, <1>5, <2>1 DEF RunOver
    <2>4. Counted(Last(frames)) /\ ui' \in {ui, VaultChanged(ui, FALSE, home)}
      BY <1>5 DEF RunOver, Counted
    <2> QED
      BY <1>3, <2>2, <2>3, <2>4
  <1>6. CASE BoxClosed
    BY <1>2, <1>6 DEF BoxClosed
  <1>7. CASE OtherOver
    BY <1>2, <1>7 DEF OtherOver
  <1> QED
    BY <1>4, <1>5, <1>6, <1>7

\* A close ends nothing but what it was said to.
LEMMA CloseKeeps ==
  ASSUME DesktopInv, OnlyWindow,
         \/ RequestClose \/ AnswerClose \/ ClosePoll \/ FinishPoll \/ InstallAndLeave \/ Gone
  PROVE  DesktopInv'
  <1>0. /\ window \in WindowStates /\ ui \in Uis /\ running \in WorkJobs \cup {NoJob}
        /\ frames \in Seq(FrameStates)
    BY DEF DesktopInv, DesktopTyped
  <1>1. UNCHANGED <<truth, home, ui, running, results, frames>>
    BY DEF OnlyWindow
  <1>2. TabsKept' /\ (ClassicOps' <=> ClassicOps)
    BY <1>1 DEF DesktopInv, TabsKept, ClassicOps, Counted
  <1>3. Cut \in SUBSET Classics /\ Dropped \in SUBSET Tasks
    <2>1. \A i \in DOMAIN frames : frames[i].kind \in Classics
      <3>1. \A i \in DOMAIN frames : frames[i] \in FrameStates
        BY <1>0
      <3> QED
        BY <3>1 DEF FrameStates
    <2>2. \A i \in DOMAIN ui.queue : ui.queue[i].kind \in Tasks
      <3>1. ui.queue \in Seq(WorkJobs)
        BY <1>0 DEF Uis
      <3>2. \A i \in DOMAIN ui.queue : ui.queue[i] \in WorkJobs
        BY <3>1
      <3> QED
        BY <3>2 DEF WorkJobs
    <2> QED
      BY <2>1, <2>2 DEF Cut, Dropped
  <1>4. (~ClassicOps => Cut = {}) /\ (~Foreground => Dropped = {})
    BY DEF ClassicOps, Counted, Cut, Foreground, Dropped
  <1>5. RunningWork = "none" => ~ClassicOps /\ ~Foreground
    BY DEF RunningWork
  <1> SUFFICES window' \in WindowStates /\ WindowHolds'
    BY <1>1, <1>2 DEF DesktopInv, DesktopTyped
  <1>6. \A i \in DOMAIN frames' : frames'[i].status \in {"invalid", "game"} => frames'[i].kind = "run"
    BY <1>1 DEF DesktopInv, WindowHolds
  <1>7. ASSUME NEW how \in {"close", "poll", "finish", "update"}, Destroy(how),
               ~window.late => Cut = {}, how # "update" => Dropped = {}
        PROVE  window' \in WindowStates /\ WindowHolds'
    <2>1. window' \in WindowStates
      BY <1>0, <1>3, <1>7 DEF Destroy, WindowStates
    <2>2. /\ window'.at = "leaving" /\ window'.how = how /\ window'.cut = Cut /\ window'.dropped = Dropped
          /\ window'.late = window.late
      BY <1>0, <1>7 DEF Destroy, WindowStates
    <2> QED
      BY <1>6, <1>7, <2>1, <2>2 DEF WindowHolds, Open
  <1>8. ASSUME Refused, Open
        PROVE  window' \in WindowStates /\ WindowHolds'
    <2>1. window' \in WindowStates /\ window'.at = "open" /\ window'.asked = "no" /\ ~window'.finishing
      BY <1>0, <1>8 DEF Refused, WindowStates, Open
    <2> QED
      BY <1>6, <2>1 DEF WindowHolds, Open
  <1>9. CASE RequestClose
    <2>1. CASE RunningWork = "none"
      BY <1>4, <1>5, <1>7, <1>8, <1>9, <2>1 DEF RequestClose
    <2>2. CASE RunningWork # "none"
      <3>1. /\ window' = [window EXCEPT !.asked = RunningWork] /\ Open /\ ~window.finishing
            /\ RunningWork \in {"worker", "classic"} /\ (RunningWork = "worker" => ~ClassicOps)
        BY <1>9, <2>2 DEF RequestClose, RunningWork
      <3>2. /\ window' \in WindowStates /\ window'.at = "open" /\ window'.asked = RunningWork
            /\ window'.finishing = window.finishing
        BY <1>0, <3>1 DEF WindowStates, Open
      <3> QED
        BY <1>2, <1>6, <3>1, <3>2 DEF WindowHolds, Open
    <2> QED
      BY <2>1, <2>2
  <1>10. CASE AnswerClose
    <2>1. CASE Refused
      BY <1>8, <1>10, <2>1 DEF AnswerClose
    <2>2. CASE window' = [window EXCEPT !.asked = "no", !.closing = TRUE]
      <3>1. /\ window' \in WindowStates /\ window'.at = "open" /\ window'.asked = "no"
            /\ window'.finishing = window.finishing /\ window'.late = window.late /\ Open
        BY <1>0, <1>10, <2>2 DEF WindowStates, Open, AnswerClose
      <3> QED
        BY <1>2, <1>6, <3>1 DEF DesktopInv, WindowHolds, Open
    <2>3. CASE window' = [window EXCEPT !.asked = "no", !.finishing = window.asked = "worker"]
      <3>1. /\ window' \in WindowStates /\ window'.at = "open" /\ window'.asked = "no"
            /\ window'.finishing = (window.asked = "worker") /\ window'.late = window.late /\ Open
        BY <1>0, <1>10, <2>3 DEF WindowStates, Open, AnswerClose
      <3> QED
        BY <1>2, <1>6, <3>1 DEF DesktopInv, WindowHolds, Open
    <2> QED
      BY <1>10, <2>1, <2>2, <2>3 DEF AnswerClose
  <1>11. CASE ClosePoll
    BY <1>4, <1>5, <1>7, <1>8, <1>11 DEF ClosePoll
  <1>12. CASE FinishPoll
    <2>1. ~window.late => Cut = {}
      BY <1>4, <1>12 DEF FinishPoll, DesktopInv, WindowHolds
    <2> QED
      BY <1>4, <1>7, <1>8, <1>12, <2>1 DEF FinishPoll
  <1>13. CASE InstallAndLeave
    <2>1. Cut = {} /\ Open
      BY <1>13 DEF InstallAndLeave, Reachable, Grabbed, Cut
    <2> QED
      BY <1>7, <1>8, <1>13, <2>1 DEF InstallAndLeave
  <1>14. CASE Gone
    <2>1. /\ window' \in WindowStates /\ window'.at = "gone" /\ window'.how = window.how
          /\ window'.late = window.late /\ window'.cut = window.cut /\ window'.dropped = window.dropped
          /\ window.at = "leaving" /\ running = NoJob
      BY <1>0, <1>14 DEF Gone, WindowStates
    <2> QED
      BY <1>1, <1>6, <2>1 DEF DesktopInv, WindowHolds, Open
  <1> QED
    BY <1>9, <1>10, <1>11, <1>12, <1>13, <1>14

-----------------------------------------------------------------------------
(* The invariant, and what follows from it.                                 *)

LEMMA DesktopBegins == DesktopInit => DesktopInv
  <1> SUFFICES ASSUME DesktopInit
               PROVE  DesktopInv
    OBVIOUS
  <1> DEFINE job == Job("list", FALSE, FALSE, 1, 1)
             q == <<job>>
  <1>1. job \in WorkJobs /\ job.kind = "list" /\ job.tag = 1 /\ job.home = 1 /\ job.at = "begin"
    BY DEF Job, WorkJobs, Tasks
  <1> HIDE DEF job
  <1>2. q \in Seq(WorkJobs) /\ DOMAIN q = {1} /\ q[1] = job
    BY <1>1
  <1> HIDE DEF q
  <1>3. /\ truth = 0 /\ home = 1 /\ running = NoJob /\ results = <<>> /\ frames = <<>>
        /\ ui = [gen |-> 1, listing |-> Unread, queue |-> q,
                 scanning |-> FALSE, pending |-> "no", again |-> "record", reopen |-> FALSE,
                 checked |-> FALSE, looked |-> 0, org |-> 0, model |-> Unread, switched |-> 1,
                 excused |-> FALSE, owed |-> [list |-> 0, model |-> 0, home |-> 1]]
        /\ window = [at |-> "open", asked |-> "no", closing |-> FALSE, finishing |-> FALSE,
                     how |-> "none", late |-> FALSE, cut |-> {}, dropped |-> {}]
    BY DEF DesktopInit, q, job
  <1>4. Unread \in Tabs
    BY DEF Unread, Tabs
  <1>5. ui \in Uis
    BY <1>2, <1>3, <1>4 DEF Uis, Asks
  <1>6. window \in WindowStates
    BY <1>3 DEF WindowStates
  <1>7. DesktopTyped
    BY <1>3, <1>5, <1>6 DEF DesktopTyped
  <1>8. WindowHolds
    BY <1>3 DEF WindowHolds, Open
  <1>9. /\ ui.gen = 1 /\ ui.queue = q /\ ui.scanning = FALSE /\ ui.pending = "no" /\ ui.again = "record"
        /\ ui.reopen = FALSE /\ ui.checked = FALSE /\ ui.org = 0 /\ ui.switched = 1
        /\ ui.owed.list = 0 /\ ui.owed.model = 0 /\ ui.owed.home = 1
    BY <1>3
  <1>10. OneScan(ui, running, results)
    BY <1>1, <1>2, <1>3, <1>9, NoJobIsNone DEF OneScan, ScanQueued, ScanRuns, ScanDone
  <1>11. ListingKept(ui, running, results)
    <2>1. ListQueued(ui)
      BY <1>1, <1>2, <1>9 DEF ListQueued, Newest
    <2>2. \A i \in DOMAIN ui.queue : Timely(ui, ui.queue[i])
      BY <1>1, <1>2, <1>9 DEF Timely
    <2>3. Timely(ui, running)
      BY <1>3, NoJobIsNone DEF Timely
    <2>4. DOMAIN results = {}
      BY <1>3
    <2> QED
      BY <2>1, <2>2, <2>3, <2>4 DEF ListingKept
  <1>12. Within(ui, truth, home) /\ Modelled(ui, running, results) /\ Checked(ui, running)
    BY <1>3, <1>9, NoJobIsNone DEF Within, Modelled, Opened, Checked, Anew, ScanRuns, ScansSettled
  <1>13. Reopens(ui, running)
    BY <1>9 DEF Reopens
  <1> QED
    BY <1>7, <1>8, <1>10, <1>11, <1>12, <1>13 DEF DesktopInv, TabsKept, Kept

LEMMA DesktopStep ==
  ASSUME DesktopInv, [DesktopNext]_desktopVars
  PROVE  DesktopInv'
  <1>1. CASE UNCHANGED desktopVars
    <2>1. UNCHANGED <<truth, home, ui, running, results, frames, window>>
      BY <1>1 DEF desktopVars
    <2>2. DesktopTyped' /\ TabsKept'
      BY <2>1 DEF DesktopInv, DesktopTyped, TabsKept
    <2>3. WindowHolds'
      BY <2>1, WindowUntouched DEF DesktopInv, WindowHolds
    <2> QED
      BY <2>2, <2>3 DEF DesktopInv
  <1>2. CASE \/ \E kind \in Writes \cup Reads : StartWork(kind)
             \/ \E record \in {0, 1} : LookAgain(record)
             \/ OnRescan \/ SwitchVault
    BY <1>2, OwnerKeeps
  <1>3. CASE \E kind \in Classics : StartClassic(kind)
    BY <1>3, ClassicStarts
  <1>4. CASE WorkerTakes \/ ReadVault \/ ScanOpens \/ ScanReads \/ ScanLooks \/ WorkReads \/ WorkWrites
    BY <1>4, TakesKeeps, ListWorks, ScanBegins, ScanGoesOn, ScanEnds, OthersWork
  <1>5. CASE \/ ListingReady \/ Scanned \/ ScanAgain
             \/ UndoPlanned \/ LookShown \/ WorkDone \/ UndoSlotPlanned
    BY <1>5, ListingDelivered, ScanDelivered, ScanAsked, UndoPlanShown, WorkDelivered, PlannedLate
  <1>6. CASE \/ \E i \in DOMAIN frames : ThreadEnds(i)
             \/ ProceedAnyway \/ RunOver \/ BoxClosed \/ OtherOver
    BY <1>6, ThreadEndsKeeps, ClassicOver
  <1>7. CASE RequestClose \/ AnswerClose \/ ClosePoll \/ FinishPoll \/ InstallAndLeave \/ Gone
    <2>1. OnlyWindow
      BY <1>7 DEF RequestClose, AnswerClose, ClosePoll, FinishPoll, InstallAndLeave, Gone
    <2> QED
      BY <1>7, <2>1, CloseKeeps
  <1> QED
    BY <1>1, <1>2, <1>3, <1>4, <1>5, <1>6, <1>7 DEF DesktopNext

LEMMA DesktopIsInductive == DesktopSpec => []DesktopInv
  BY DesktopBegins, DesktopStep, PTL DEF DesktopSpec

\* The program never ends in the middle of a write, nor drops one that was asked for,
\* however its close is answered and whatever is under way: request_close and the polls.
THEOREM NothingIsEverCut == DesktopSpec => []NothingIsCut
  <1>1. DesktopInv => NothingIsCut
    BY NoJobIsNone DEF DesktopInv, WindowHolds, NothingIsCut, Open
  <1> QED
    BY <1>1, DesktopIsInductive, PTL

\* Once nothing is under way, both tabs show every change that a handler was told of, and
\* what counts as looked for was looked for in the vault that is open: refresh, rescan,
\* _scan_over, vault_changed, switch_vault.
THEOREM ChangesAreShown == DesktopSpec => []ChangesShown
  <1>1. ASSUME DesktopInv, Quiet
        PROVE  ShownInTheEnd /\ (ui.checked /\ ~ui.excused => ui.looked >= ui.switched)
    <2>1. /\ ui.queue = <<>> /\ running = NoJob /\ results = <<>> /\ ui.again = "no"
          /\ Kept(ui, running, results, truth, home)
      BY <1>1 DEF Quiet, DesktopInv, TabsKept
    <2>2. DOMAIN ui.queue = {} /\ DOMAIN results = {}
      BY <2>1
    <2>3. ~ScanQueued(ui) /\ ~ScanRuns(running) /\ ~ScanDone(results)
      BY <2>1, <2>2, NoJobIsNone DEF ScanQueued, ScanRuns, ScanDone
    <2>4. ~ListQueued(ui) /\ ~ListRuns(ui, running) /\ ~ListDone(ui, results)
      BY <2>1, <2>2, NoJobIsNone DEF ListQueued, ListRuns, ListDone, Newest
    <2>5. ~ui.scanning /\ ui.pending = "no"
      BY <2>1, <2>3 DEF Kept, OneScan
    <2>6. ui.listing.ok => ui.listing.version >= ui.owed.list /\ ui.listing.home >= ui.owed.home
      BY <2>1, <2>4 DEF Kept, ListingKept
    <2>7. ui.model.ok => /\ ui.model.version >= ui.owed.model
                         /\ ui.model.home >= ui.owed.home \/ ui.excused
      BY <2>1, <2>5 DEF Kept, Modelled, ScansSettled, Late
    <2>8. ui.checked /\ ~ui.excused => ui.looked >= ui.switched
      BY <2>1 DEF Kept, Checked, Looks
    <2> QED
      BY <2>5, <2>6, <2>7, <2>8 DEF ShownInTheEnd
  <1>2. DesktopInv => ChangesShown
    BY <1>1 DEF ChangesShown, ShownInTheEnd, RecoveryIsOffered
  <1> QED
    BY <1>2, DesktopIsInductive, PTL

-----------------------------------------------------------------------------
(* The dialogs (DialogIsHonest).                                            *)

Ins      == PutIns \cup {None}
Accts    == Accounts \cup {None}
Rows     == SaveSlots \cup {None}
Boxes    == {"box", "repair"}
Plans    == {NoPlan} \cup [pair : Ins, target : Targets, was : Nat, asks : SUBSET {"box"}, blocked : BOOLEAN]
Readout  == [account : Accts, blocked : SUBSET SaveSlots, best : Rows]
Tokens   == {<<>>} \cup (Ins \X Accts \X Rows)
AskJobs  == [what : {"read", "plan", "execute"}, gen : Nat, pair : Ins, target : Accts \X Rows,
             token : Tokens, plan : Plans, ticked : SUBSET Boxes]
Replies  == [job : AskJobs, status : {"done", "error", "damaged", "stale", "failed"}, rows : Readout,
             plan : Plans]
Dialogs  ==
  [kind : {"move", "replace", "plan", "panic"}, open : BOOLEAN, source : Ins, want : Accts, account : Accts,
   slot : Rows, prefer : Rows, fixed : Rows, rows : Readout, stale : BOOLEAN,
   keep : Nat, gen : Nat, busy : BOOLEAN, running : BOOLEAN, plan : Plans, repair : BOOLEAN,
   ticked : SUBSET Boxes, armed : BOOLEAN, in : Ins, at : Accts, mark : Rows, out : Rows]

DialogTyped ==
  /\ content \in [Targets -> Nat] /\ dlg \in Dialogs /\ jobs \in Seq(AskJobs) /\ answers \in Seq(Replies)
  /\ outcomes \in [written : Nat, told : Nat, offered : Nat]

\* What is drawn is what the fields say, and what the button says.
Aligned(d) ==
  /\ d.slot # None => d.mark = d.slot /\ d.out = d.slot /\ d.in = d.source /\ d.at = Asked(d)
  /\ d.kind = "move" /\ d.rows # NoRows => d.in = d.source /\ d.at = Asked(d)
Drawn(d) ==
  /\ Moves(d) => Aligned(d)
  /\ d.kind = "plan" => d.plan # NoPlan /\ d.plan.pair = d.in /\ d.plan.target = <<d.at, d.mark>> /\ d.out = d.mark
  /\ d.kind = "panic" => d.in = d.source /\ <<d.rows.account, d.slot>> \in Targets
  /\ d.kind # "panic" => ~d.repair
  /\ d.kind # "panic" /\ d.armed => d.plan # NoPlan /\ ~d.plan.blocked /\ d.plan.asks \subseteq d.ticked
  /\ d.running => ~d.armed
  /\ Moves(d) /\ d.rows # NoRows => d.rows.account \in Accounts

\* What a dialog has asked for is of its kind; an answer is to what was asked.
Ours(d, job) ==
  /\ job.gen <= d.gen
  /\ d.open /\ d.running /\ job.gen = d.gen => job.what = "execute"
  /\ job.what = "plan" => job.target \in Targets
  /\ Moves(d) /\ job.what = "plan" /\ job.gen = d.gen => job.token = Token(d)
  /\ job.what = "execute" => /\ job.gen = d.gen /\ (d.open => d.running)
                             /\ job.target = job.plan.target
  /\ d.kind = "plan" => /\ job.what = "execute" /\ job.plan # NoPlan
                        /\ job.plan.pair = d.in /\ job.plan.target = <<d.at, d.mark>>
  /\ d.kind = "panic" => job.what # "read"
Replied(a) ==
  /\ a.job.what = "read" /\ a.status # "error" => a.rows.account \in Accounts
  /\ a.job.what = "plan" /\ a.status = "done" => a.plan # NoPlan
  /\ a.job.what = "execute" /\ a.plan # NoPlan =>
       a.plan.pair = a.job.plan.pair /\ a.plan.target = a.job.plan.target

\* d is the dialog, J what the worker still has to do, A what it has answered: all of it is of
\* one generation each, and a dialog that is busy waits for something.
AllOurs(d, J, A) == /\ \A i \in DOMAIN J : Ours(d, J[i])
                    /\ \A i \in DOMAIN A : Ours(d, A[i].job) /\ Replied(A[i])
                    /\ d.open /\ d.running => d.busy
Once(J, A) == /\ \A i, j \in DOMAIN J : J[i].gen = J[j].gen => i = j
              /\ \A i, j \in DOMAIN A : A[i].job.gen = A[j].job.gen => i = j
              /\ \A i \in DOMAIN J : \A j \in DOMAIN A : J[i].gen # A[j].job.gen
Waited(d, J, A) == d.open /\ d.busy => \/ \E i \in DOMAIN J : J[i].gen = d.gen
                                       \/ \E i \in DOMAIN A : A[i].job.gen = d.gen
DialogKept(d, J, A) == Drawn(d) /\ AllOurs(d, J, A) /\ Once(J, A) /\ Waited(d, J, A)

\* Whether the execution was told of.
DoneWaits(A)  == \E i \in DOMAIN A : A[i].job.what = "execute" /\ A[i].status = "done"
AllTold(o, A) == o.written = o.told + (IF DoneWaits(A) THEN 1 ELSE 0)

DialogInv == /\ DialogTyped /\ DialogKept(dlg, jobs, answers) /\ AllTold(outcomes, answers)
             /\ AppliedIsShown

-----------------------------------------------------------------------------
(* What the parts of the handlers do to the fields.                         *)

\* The button is armed for a plan with its boxes ticked, and for nothing that runs.
Sane(d) == d.armed => /\ ~d.running
                      /\ ~d.repair => d.plan # NoPlan /\ ~d.plan.blocked /\ d.plan.asks \subseteq d.ticked

\* What Updated, Settled and Rendered leave alone.
Alike2(d, e) ==
  /\ e.kind = d.kind /\ e.open = d.open /\ e.source = d.source /\ e.want = d.want
  /\ e.account = d.account /\ e.slot = d.slot /\ e.prefer = d.prefer /\ e.fixed = d.fixed
  /\ e.rows = d.rows /\ e.stale = d.stale /\ e.keep = d.keep /\ e.gen = d.gen
  /\ e.running = d.running /\ e.repair = d.repair
  /\ e.in = d.in /\ e.at = d.at /\ e.mark = d.mark /\ e.out = d.out

LEMMA NoPlanIsTyped == NoPlan \in Plans /\ {} \in SUBSET Boxes /\ NoPlan.was = -1
  BY DEF NoPlan, Plans

LEMMA PlanIsTyped ==
  ASSUME NEW p \in Plans
  PROVE  /\ p.asks \in SUBSET {"box"} /\ p.blocked \in BOOLEAN
         /\ p # NoPlan => p.target \in Targets /\ p.pair \in Ins /\ p.was \in Nat
  <1>1. CASE p = NoPlan
    BY <1>1 DEF NoPlan
  <1>2. CASE p \in [pair : Ins, target : Targets, was : Nat, asks : SUBSET {"box"}, blocked : BOOLEAN]
    BY <1>2
  <1> QED
    BY <1>1, <1>2 DEF Plans

LEMMA CanApplyIsBoolean ==
  ASSUME NEW d \in Dialogs
  PROVE  CanApply(d) \in BOOLEAN
  <1>1. d.busy \in BOOLEAN /\ d.running \in BOOLEAN /\ d.repair \in BOOLEAN
    BY DEF Dialogs
  <1> QED
    BY <1>1 DEF CanApply

LEMMA UpdatedFacts ==
  ASSUME NEW d \in Dialogs
  PROVE  /\ Updated(d) \in Dialogs /\ Alike2(d, Updated(d)) /\ Sane(Updated(d))
         /\ Updated(d).busy = d.busy /\ Updated(d).plan = d.plan /\ Updated(d).ticked = d.ticked
         /\ Updated(d).armed = CanApply(d)
  <1> DEFINE c == CanApply(d)
             e == [d EXCEPT !.armed = c]
  <1>1. c \in BOOLEAN
    BY CanApplyIsBoolean
  <1>2. Updated(d) = e
    BY DEF Updated
  <1>3. c => ~d.running /\ (~d.repair => d.plan # NoPlan /\ ~d.plan.blocked /\ d.plan.asks \subseteq d.ticked)
    BY DEF CanApply
  <1> HIDE DEF c
  <1>4. e \in Dialogs /\ Alike2(d, e) /\ e.busy = d.busy /\ e.plan = d.plan /\ e.ticked = d.ticked /\ e.armed = c
    BY <1>1 DEF Dialogs, Alike2
  <1> HIDE DEF e
  <1>5. Sane(e)
    BY <1>3, <1>4 DEF Sane, Alike2
  <1> QED
    BY <1>2, <1>4, <1>5 DEF c

LEMMA SettledFacts ==
  ASSUME NEW d \in Dialogs
  PROVE  /\ Settled(d) \in Dialogs /\ Alike2(d, Settled(d)) /\ Sane(Settled(d))
         /\ Settled(d).busy = FALSE /\ Settled(d).plan = d.plan /\ Settled(d).ticked = d.ticked
  <1> DEFINE e == [d EXCEPT !.busy = FALSE]
  <1>1. e \in Dialogs /\ Alike2(d, e) /\ e.busy = FALSE /\ e.plan = d.plan /\ e.ticked = d.ticked
    BY DEF Dialogs, Alike2
  <1>2. Settled(d) = Updated(e)
    BY DEF Settled
  <1> HIDE DEF e
  <1> QED
    BY <1>1, <1>2, UpdatedFacts DEF Alike2

LEMMA RenderedFacts ==
  ASSUME NEW d \in Dialogs, NEW p \in Plans
  PROVE  /\ Rendered(d, p) \in Dialogs /\ Alike2(d, Rendered(d, p))
         /\ p # NoPlan => Sane(Rendered(d, p))
         /\ p = NoPlan => Rendered(d, p).armed = (IF Moves(d) THEN FALSE ELSE d.armed)
         /\ Rendered(d, p).busy = d.busy /\ Rendered(d, p).plan = p /\ Rendered(d, p).ticked = {}
  <1> DEFINE e == [d EXCEPT !.plan = p, !.ticked = {}]
             a == IF Moves(d) THEN FALSE ELSE d.armed
  <1>1. /\ e \in Dialogs /\ Alike2(d, e) /\ e.busy = d.busy /\ e.plan = p /\ e.ticked = {} /\ e.armed = d.armed
    BY DEF Dialogs, Alike2
  <1>2. a \in BOOLEAN
    BY DEF Dialogs, Moves
  <1>3. /\ p # NoPlan => Rendered(d, p) = Updated(e)
        /\ p = NoPlan => Rendered(d, p) = [e EXCEPT !.armed = a]
    BY <1>1 DEF Rendered, Moves, Alike2
  <1> HIDE DEF e, a
  <1>4. CASE p # NoPlan
    <2>1. /\ Updated(e) \in Dialogs /\ Alike2(e, Updated(e)) /\ Sane(Updated(e))
          /\ Updated(e).busy = e.busy /\ Updated(e).plan = e.plan /\ Updated(e).ticked = e.ticked
      BY <1>1, UpdatedFacts
    <2>2. Rendered(d, p) = Updated(e)
      BY <1>3, <1>4
    <2>3. Alike2(d, Updated(e))
      BY <1>1, <2>1 DEF Alike2
    <2> QED
      BY <1>1, <1>4, <2>1, <2>2, <2>3
  <1>5. CASE p = NoPlan
    <2> DEFINE f == [e EXCEPT !.armed = a]
    <2>1. f \in Dialogs /\ Alike2(e, f) /\ f.busy = e.busy /\ f.plan = e.plan /\ f.ticked = e.ticked /\ f.armed = a
      BY <1>1, <1>2 DEF Dialogs, Alike2
    <2> HIDE DEF f
    <2>2. Rendered(d, p) = f
      BY <1>3, <1>5 DEF f
    <2> QED
      BY <1>1, <1>5, <2>1, <2>2 DEF Alike2, a
  <1> QED
    BY <1>4, <1>5

\* A reading that begins: e is the dialog d that has begun to read the slots of an account.
IsLoading(d, account, e) ==
  /\ e \in Dialogs /\ e.gen = d.gen + 1 /\ e.busy = TRUE /\ e.armed = FALSE
  /\ e.want = (IF account = None THEN d.want ELSE account)
  /\ e.kind = d.kind /\ e.open = d.open /\ e.source = d.source /\ e.account = d.account
  /\ e.slot = d.slot /\ e.rows = d.rows /\ e.running = d.running /\ e.repair = d.repair
  /\ e.in = d.in /\ e.at = d.at /\ e.mark = d.mark /\ e.out = d.out

LEMMA LoadingFacts ==
  ASSUME NEW d \in Dialogs, NEW account \in Accts, NEW keep \in BOOLEAN
  PROVE  IsLoading(d, account, Loading(d, account, keep))
  <1> DEFINE f == IF keep THEN d ELSE Rendered(d, NoPlan)
             k == IF keep THEN d.gen + 1 ELSE 0
             w == IF account = None THEN d.want ELSE account
             e == [f EXCEPT !.gen = f.gen + 1, !.keep = k, !.want = w, !.stale = TRUE, !.busy = TRUE,
                            !.armed = FALSE]
  <1>1. f \in Dialogs /\ Alike2(d, f)
    BY NoPlanIsTyped, RenderedFacts DEF Alike2
  <1> HIDE DEF f
  <1>2. d.gen \in Nat /\ d.want \in Accts
    BY DEF Dialogs
  <1>3. k \in Nat /\ w \in Accts /\ f.gen + 1 \in Nat /\ f.gen + 1 = d.gen + 1
    BY <1>1, <1>2 DEF Alike2
  <1>4. Loading(d, account, keep) = e
    BY <1>1 DEF Loading, f, Dialogs, Alike2
  <1> HIDE DEF k, w
  <1>5. /\ e \in Dialogs /\ e.gen = f.gen + 1 /\ e.busy = TRUE /\ e.armed = FALSE /\ e.want = w
        /\ e.kind = f.kind /\ e.open = f.open /\ e.source = f.source /\ e.account = f.account
        /\ e.slot = f.slot /\ e.rows = f.rows
        /\ e.running = f.running /\ e.repair = f.repair /\ e.in = f.in /\ e.at = f.at
        /\ e.mark = f.mark /\ e.out = f.out
    BY <1>1, <1>3 DEF Dialogs
  <1> HIDE DEF e
  <1>6. IsLoading(d, account, e)
    BY <1>1, <1>3, <1>5 DEF Alike2, IsLoading, w
  <1> QED
    BY <1>4, <1>6

\* A slot that is chosen.
LEMMA ChoosingFacts ==
  ASSUME NEW d \in Dialogs, NEW slot \in SaveSlots
  PROVE  LET e == Choosing(d, slot)
         IN  /\ e \in Dialogs /\ e.gen = d.gen + 1 /\ e.busy = TRUE /\ e.armed = FALSE /\ e.plan = NoPlan
             /\ e.slot = slot /\ e.mark = slot /\ e.out = slot
             /\ e.kind = d.kind /\ e.open = d.open /\ e.source = d.source /\ e.account = d.account
             /\ e.want = d.want /\ e.prefer = d.prefer /\ e.fixed = d.fixed /\ e.rows = d.rows
             /\ e.running = d.running /\ e.repair = d.repair /\ e.in = d.in /\ e.at = d.at
  <1> DEFINE f == Rendered(d, NoPlan)
             e == [f EXCEPT !.slot = slot, !.mark = slot, !.out = slot, !.gen = f.gen + 1,
                            !.keep = 0, !.busy = TRUE, !.armed = FALSE]
  <1>1. f \in Dialogs /\ Alike2(d, f) /\ f.plan = NoPlan
    BY NoPlanIsTyped, RenderedFacts
  <1>2. Choosing(d, slot) = e
    BY <1>1 DEF Choosing, Dialogs
  <1> HIDE DEF f
  <1>3. f.gen + 1 \in Nat /\ slot \in Rows
    BY <1>1 DEF Dialogs, Rows
  <1>4. /\ e \in Dialogs /\ e.gen = f.gen + 1 /\ e.busy = TRUE /\ e.armed = FALSE /\ e.plan = f.plan
        /\ e.slot = slot /\ e.mark = slot /\ e.out = slot
        /\ e.kind = f.kind /\ e.open = f.open /\ e.source = f.source /\ e.account = f.account
        /\ e.want = f.want /\ e.prefer = f.prefer /\ e.fixed = f.fixed /\ e.rows = f.rows
        /\ e.running = f.running /\ e.repair = f.repair /\ e.in = f.in /\ e.at = f.at
    BY <1>1, <1>3 DEF Dialogs
  <1> HIDE DEF e
  <1> QED
    BY <1>1, <1>2, <1>4 DEF Alike2

LEMMA DrawnMoves ==
  ASSUME NEW d \in Dialogs, Moves(d), Aligned(d), ~d.repair, Sane(d),
         d.rows # NoRows => d.rows.account \in Accounts
  PROVE  Drawn(d)
  BY DEF Drawn, Moves, Sane

LEMMA DrawnIsSane ==
  ASSUME NEW d \in Dialogs, Drawn(d), Moves(d)
  PROVE  Aligned(d) /\ ~d.repair /\ Sane(d) /\ (d.rows # NoRows => d.rows.account \in Accounts)
  BY DEF Drawn, Moves, Sane

\* The rows of the answer are drawn, and a slot is chosen or none is.
LEMMA PickedUpFacts ==
  ASSUME NEW d \in Dialogs, Moves(d), Drawn(d), NEW rows \in Readout, rows.account \in Accounts
  PROVE  LET e == PickedUp(d, rows)
         IN  /\ e \in Dialogs /\ Drawn(e) /\ e.kind = d.kind /\ e.open = d.open /\ e.running = d.running
             /\ \/ e.gen = d.gen /\ ~e.busy
                \/ e.gen = d.gen + 1 /\ e.busy /\ <<e.rows.account, e.slot>> \in Targets
  <1> DEFINE f == Shown(d, rows)
             e == PickedUp(d, rows)
  <1>0. /\ rows.account \in Accts /\ rows.blocked \in SUBSET SaveSlots /\ rows.best \in Rows
    BY DEF Readout
  <1>1. /\ f \in Dialogs /\ f.kind = d.kind /\ f.open = d.open /\ f.running = d.running /\ f.repair = d.repair
        /\ f.rows = rows /\ f.account = rows.account /\ f.want = rows.account /\ f.at = rows.account
        /\ f.in = d.source /\ f.source = d.source /\ f.slot = d.slot /\ f.gen = d.gen
        /\ f.plan = d.plan /\ f.ticked = d.ticked
    <2> DEFINE a == rows.account
               s == d.source
               g == [d EXCEPT !.rows = rows, !.account = a, !.want = a, !.in = s]
               h == [g EXCEPT !.at = a, !.mark = None, !.stale = FALSE]
    <2>1. a \in Accts /\ s \in Ins /\ None \in Rows
      BY <1>0 DEF Dialogs, Rows
    <2>2. f = h
      BY DEF Shown
    <2> HIDE DEF a, s
    <2>3. /\ g \in Dialogs /\ g.kind = d.kind /\ g.open = d.open /\ g.running = d.running /\ g.repair = d.repair
          /\ g.rows = rows /\ g.account = a /\ g.want = a /\ g.in = s /\ g.source = d.source
          /\ g.slot = d.slot /\ g.gen = d.gen /\ g.plan = d.plan /\ g.ticked = d.ticked
      BY <2>1 DEF Dialogs
    <2> HIDE DEF g
    <2>4. /\ h \in Dialogs /\ h.kind = g.kind /\ h.open = g.open /\ h.running = g.running /\ h.repair = g.repair
          /\ h.rows = g.rows /\ h.account = g.account /\ h.want = g.want /\ h.at = a /\ h.in = g.in
          /\ h.source = g.source /\ h.slot = g.slot /\ h.gen = g.gen /\ h.plan = g.plan /\ h.ticked = g.ticked
      BY <2>1, <2>3 DEF Dialogs
    <2> HIDE DEF h
    <2> QED
      BY <2>2, <2>3, <2>4 DEF a, s
  <1>2. ~d.repair
    BY DrawnIsSane
  <1> HIDE DEF f
  <1>3. CASE d.keep = d.gen
    <2> DEFINE g == [f EXCEPT !.keep = 0, !.mark = d.slot, !.out = d.slot]
    <2>1. e = Settled(g)
      BY <1>3 DEF PickedUp, f
    <2>2. d.slot \in Rows
      BY DEF Dialogs
    <2>3. /\ g \in Dialogs /\ g.kind = f.kind /\ g.open = f.open /\ g.running = f.running /\ g.repair = f.repair
          /\ g.rows = rows /\ g.account = rows.account /\ g.want = rows.account /\ g.at = rows.account
          /\ g.in = d.source /\ g.source = d.source /\ g.slot = d.slot /\ g.gen = d.gen
          /\ g.mark = d.slot /\ g.out = d.slot
      BY <1>1, <2>2 DEF Dialogs
    <2> HIDE DEF g, e
    <2>4. e \in Dialogs /\ Alike2(g, e) /\ Sane(e) /\ e.busy = FALSE
      BY <2>1, <2>3, SettledFacts
    <2>5. Aligned(e)
      BY <2>3, <2>4 DEF Alike2, Aligned, Asked
    <2>6. Moves(e) /\ ~e.repair /\ e.rows.account \in Accounts
      BY <1>1, <1>2, <2>3, <2>4 DEF Alike2, Moves
    <2> QED
      BY <1>1, <2>3, <2>4, <2>5, <2>6, DrawnMoves DEF Alike2, e
  <1> DEFINE g0 == [f EXCEPT !.slot = None]
             g1 == Rendered(g0, NoPlan)
             g2 == Settled(g1)
  <1>4. /\ g2 \in Dialogs /\ Sane(g2) /\ g2.busy = FALSE /\ g2.slot = None /\ g2.gen = d.gen
        /\ g2.kind = d.kind /\ g2.open = d.open /\ g2.running = d.running /\ ~g2.repair /\ g2.rows = rows
        /\ g2.in = g2.source /\ g2.at = rows.account /\ g2.want = rows.account /\ g2.account = rows.account
    <2>1. /\ g0 \in Dialogs /\ g0.slot = None /\ g0.gen = d.gen
          /\ g0.kind = d.kind /\ g0.open = d.open /\ g0.running = d.running /\ ~g0.repair /\ g0.rows = rows
          /\ g0.in = g0.source /\ g0.at = rows.account /\ g0.want = rows.account /\ g0.account = rows.account
      BY <1>1, <1>2 DEF Dialogs, Rows
    <2> HIDE DEF g0
    <2>2. g1 \in Dialogs /\ Alike2(g0, g1)
      BY <2>1, NoPlanIsTyped, RenderedFacts
    <2> HIDE DEF g1
    <2>3. g2 \in Dialogs /\ Alike2(g1, g2) /\ Sane(g2) /\ g2.busy = FALSE
      BY <2>2, SettledFacts
    <2> HIDE DEF g2
    <2> QED
      BY <2>1, <2>2, <2>3 DEF Alike2
  <1>5. ASSUME NEW x \in Dialogs, Sane(x), x.busy = FALSE, x.slot = None, x.gen = d.gen,
               x.kind = d.kind, x.open = d.open, x.running = d.running, ~x.repair, x.rows = rows, e = x,
               x.in = x.source, x.at = rows.account, x.want = rows.account, x.account = rows.account
        PROVE  /\ e \in Dialogs /\ Drawn(e) /\ e.kind = d.kind /\ e.open = d.open /\ e.running = d.running
               /\ e.gen = d.gen /\ ~e.busy
    <2>1. Aligned(x) /\ Moves(x)
      BY <1>5 DEF Aligned, Asked, Moves
    <2> HIDE DEF e
    <2> QED
      BY <1>5, <2>1, DrawnMoves
  <1>6. CASE d.keep # d.gen /\ d.fixed # None /\ ~Usable(rows, d.fixed)
    <2>1. e = g2
      BY <1>6 DEF PickedUp, f
    <2> QED
      BY <1>4, <1>5, <2>1
  <1>7. CASE /\ d.keep # d.gen /\ d.fixed = None
             /\ \/ d.prefer # None /\ ~Usable(rows, d.prefer)
                \/ Wanted(d, rows) = None
    <2> DEFINE n == [g2 EXCEPT !.prefer = None]
               x == [n EXCEPT !.out = None]
    <2>1. e = x
      BY <1>7 DEF PickedUp, Nothing, f
    <2> HIDE DEF e, g2
    <2>2. /\ n \in Dialogs /\ n.armed = g2.armed /\ n.plan = g2.plan /\ n.ticked = g2.ticked
          /\ n.busy = g2.busy /\ n.slot = g2.slot /\ n.gen = g2.gen /\ n.kind = g2.kind
          /\ n.open = g2.open /\ n.running = g2.running /\ n.repair = g2.repair /\ n.rows = g2.rows
          /\ n.in = g2.in /\ n.source = g2.source /\ n.at = g2.at /\ n.want = g2.want
          /\ n.account = g2.account
      BY <1>4 DEF Dialogs, Rows
    <2> HIDE DEF n
    <2>3. /\ x \in Dialogs /\ x.armed = n.armed /\ x.plan = n.plan /\ x.ticked = n.ticked
          /\ x.busy = n.busy /\ x.slot = n.slot /\ x.gen = n.gen /\ x.kind = n.kind
          /\ x.open = n.open /\ x.running = n.running /\ x.repair = n.repair /\ x.rows = n.rows
          /\ x.in = n.in /\ x.source = n.source /\ x.at = n.at /\ x.want = n.want
          /\ x.account = n.account
      BY <2>2 DEF Dialogs, Rows
    <2> HIDE DEF x
    <2>4. Sane(x)
      BY <1>4, <2>2, <2>3 DEF Sane
    <2> QED
      BY <1>4, <1>5, <2>1, <2>2, <2>3, <2>4 DEF e
  <1>8. CASE /\ d.keep # d.gen /\ ~(d.fixed # None /\ ~Usable(rows, d.fixed))
             /\ ~(/\ d.fixed = None
                  /\ \/ d.prefer # None /\ ~Usable(rows, d.prefer)
                     \/ Wanted(d, rows) = None)
    <2> DEFINE g == [f EXCEPT !.prefer = None]
               s == Wanted(d, rows)
    <2>1. e = Choosing(g, s)
      BY <1>8 DEF PickedUp, f
    <2>2. s \in SaveSlots
      <3>1. CASE d.fixed # None
        BY <1>8, <3>1 DEF Wanted, Usable
      <3>2. CASE d.fixed = None
        <4>1. s # None
          BY <1>8, <3>2
        <4>2. s \in Rows
          BY <1>0, <3>2 DEF Wanted, Usable, Rows
        <4> QED
          BY <4>1, <4>2 DEF Rows
      <3> QED
        BY <3>1, <3>2
    <2>3. /\ g \in Dialogs /\ g.kind = f.kind /\ g.open = f.open /\ g.running = f.running /\ g.repair = f.repair
          /\ g.rows = rows /\ g.account = rows.account /\ g.want = rows.account /\ g.at = rows.account
          /\ g.in = d.source /\ g.source = d.source /\ g.gen = d.gen
      BY <1>1 DEF Dialogs, Rows
    <2> HIDE DEF g, s, e
    <2>4. /\ e \in Dialogs /\ e.gen = g.gen + 1 /\ e.busy = TRUE /\ e.armed = FALSE
          /\ e.slot = s /\ e.mark = s /\ e.out = s
          /\ e.kind = g.kind /\ e.open = g.open /\ e.source = g.source /\ e.account = g.account
          /\ e.want = g.want /\ e.rows = g.rows
          /\ e.running = g.running /\ e.repair = g.repair /\ e.in = g.in /\ e.at = g.at
      BY <2>1, <2>2, <2>3, ChoosingFacts
    <2>5. Aligned(e) /\ Sane(e) /\ Moves(e) /\ ~e.repair
      BY <1>1, <1>2, <2>3, <2>4 DEF Aligned, Asked, Sane, Moves
    <2>6. Drawn(e)
      BY <2>3, <2>4, <2>5, DrawnMoves
    <2>7. <<e.rows.account, e.slot>> \in Targets
      BY <2>2, <2>3, <2>4 DEF Targets
    <2> QED
      BY <1>1, <2>3, <2>4, <2>6, <2>7 DEF e
  <1> HIDE DEF e, f
  <1> QED
    BY <1>3, <1>6, <1>7, <1>8 DEF e

\* Nothing came of it: nothing is planned.
LEMMA PlanFailedFacts ==
  ASSUME NEW d \in Dialogs, Drawn(d), d.kind # "plan", NEW damaged \in BOOLEAN
  PROVE  LET e == PlanFailed(d, damaged)
         IN  /\ e \in Dialogs /\ Drawn(e) /\ e.kind = d.kind /\ e.open = d.open /\ e.running = d.running
             /\ e.gen = d.gen /\ ~e.busy
  <1> DEFINE e == PlanFailed(d, damaged)
  <1>1. CASE Moves(d)
    <2> DEFINE f == [d EXCEPT !.keep = 0, !.stale = FALSE]
               g == Rendered(f, NoPlan)
    <2>1. e = Settled(g)
      BY <1>1 DEF PlanFailed
    <2>2. /\ f \in Dialogs /\ f.kind = d.kind /\ f.open = d.open /\ f.running = d.running /\ f.gen = d.gen
          /\ f.slot = d.slot /\ f.mark = d.mark /\ f.out = d.out /\ f.in = d.in /\ f.source = d.source
          /\ f.at = d.at /\ f.want = d.want /\ f.account = d.account /\ f.rows = d.rows /\ f.repair = d.repair
      BY DEF Dialogs
    <2> HIDE DEF f
    <2>3. g \in Dialogs /\ Alike2(f, g)
      BY <2>2, NoPlanIsTyped, RenderedFacts
    <2> HIDE DEF g, e
    <2>4. e \in Dialogs /\ Alike2(g, e) /\ Sane(e) /\ e.busy = FALSE
      BY <2>1, <2>3, SettledFacts
    <2>5. /\ Aligned(d) /\ ~d.repair /\ (d.rows # NoRows => d.rows.account \in Accounts)
      BY <1>1, DrawnIsSane
    <2>6. Aligned(e) /\ Moves(e) /\ ~e.repair /\ (e.rows # NoRows => e.rows.account \in Accounts)
      BY <1>1, <2>2, <2>3, <2>4, <2>5 DEF Aligned, Asked, Alike2, Moves
    <2> QED
      BY <2>2, <2>3, <2>4, <2>6, DrawnMoves DEF Alike2, e
  <1>2. CASE ~Moves(d) /\ damaged
    <2> DEFINE f == [d EXCEPT !.busy = FALSE, !.repair = TRUE]
    <2>1. e = Updated(f)
      BY <1>2 DEF PlanFailed
    <2>2. /\ f \in Dialogs /\ f.kind = d.kind /\ f.open = d.open /\ f.running = d.running /\ f.gen = d.gen
          /\ f.slot = d.slot /\ f.in = d.in /\ f.source = d.source /\ f.busy = FALSE /\ f.rows = d.rows
      BY DEF Dialogs
    <2> HIDE DEF f, e
    <2>3. e \in Dialogs /\ Alike2(f, e) /\ Sane(e) /\ e.busy = FALSE
      BY <2>1, <2>2, UpdatedFacts
    <2>4. d.kind = "panic"
      BY <1>2 DEF Moves, Dialogs
    <2>5. Drawn(e)
      BY <2>2, <2>3, <2>4 DEF Drawn, Moves, Sane, Alike2
    <2> QED
      BY <2>2, <2>3, <2>5 DEF Alike2, e
  <1>3. CASE ~Moves(d) /\ ~damaged
    <2>1. e = [d EXCEPT !.busy = FALSE]
      BY <1>3 DEF PlanFailed
    <2>2. d.kind = "panic"
      BY <1>3 DEF Moves, Dialogs
    <2> HIDE DEF e
    <2>3. /\ e \in Dialogs /\ e.kind = d.kind /\ e.open = d.open /\ e.running = d.running /\ e.gen = d.gen
          /\ e.slot = d.slot /\ e.in = d.in /\ e.source = d.source /\ e.busy = FALSE /\ e.rows = d.rows
          /\ e.armed = d.armed
      BY <2>1 DEF Dialogs
    <2>4. Drawn(e)
      BY <2>2, <2>3 DEF Drawn, Moves
    <2> QED
      BY <2>3, <2>4 DEF e
  <1> QED
    BY <1>1, <1>2, <1>3

\* A plan is drawn in a dialog that was waiting for it.
LEMMA PlanDrawn ==
  ASSUME NEW d \in Dialogs, Drawn(d), NEW p \in Plans, p # NoPlan,
         d.kind = "plan" => p.pair = d.in /\ p.target = <<d.at, d.mark>>
  PROVE  LET f == [d EXCEPT !.busy = FALSE]
             e == Rendered(f, p)
         IN  /\ e \in Dialogs /\ Drawn(e) /\ e.kind = d.kind /\ e.open = d.open /\ e.running = d.running
             /\ e.gen = d.gen /\ ~e.busy
  <1> DEFINE f == [d EXCEPT !.busy = FALSE]
             e == Rendered(f, p)
  <1>1. f \in Dialogs /\ Alike2(d, f) /\ f.busy = FALSE
    BY DEF Dialogs, Alike2
  <1> HIDE DEF f
  <1>2. e \in Dialogs /\ Alike2(f, e) /\ Sane(e) /\ e.busy = FALSE /\ e.plan = p
    BY <1>1, RenderedFacts
  <1> HIDE DEF e
  <1>3. Aligned(d) => Aligned(e)
    BY <1>1, <1>2 DEF Aligned, Asked, Alike2
  <1>4. Drawn(e)
    BY <1>1, <1>2, <1>3 DEF Drawn, Moves, Sane, Alike2
  <1> QED
    BY <1>1, <1>2, <1>4 DEF Alike2, e, f

-----------------------------------------------------------------------------
(* What is under way.                                                       *)

LEMMA FirstGone ==
  ASSUME NEW S, NEW s \in Seq(S), s # <<>>
  PROVE  /\ Tail(s) \in Seq(S) /\ 1 \in DOMAIN s /\ Head(s) = s[1] /\ Head(s) \in S
         /\ \A i \in DOMAIN Tail(s) : i \in Nat \ {0} /\ i + 1 \in DOMAIN s /\ Tail(s)[i] = s[i + 1]
         /\ \A i \in DOMAIN s : i # 1 => i - 1 \in DOMAIN Tail(s) /\ Tail(s)[i - 1] = s[i]
  <1>1. Len(s) \in Nat \ {0} /\ DOMAIN s = 1 .. Len(s)
    BY EmptySeq
  <1>2. Tail(s) \in Seq(S) /\ Len(Tail(s)) = Len(s) - 1 /\ DOMAIN Tail(s) = 1 .. Len(s) - 1
    BY <1>1, HeadTailProperties
  <1>3. \A i \in 1 .. Len(s) - 1 : Tail(s)[i] = s[i + 1]
    BY <1>1, HeadTailProperties
  <1>4. Head(s) = s[1] /\ s[1] \in S
    BY <1>1
  <1>5. ASSUME NEW i \in DOMAIN s, i # 1
        PROVE  i - 1 \in DOMAIN Tail(s) /\ Tail(s)[i - 1] = s[i]
    <2>1. i - 1 \in 1 .. Len(s) - 1 /\ (i - 1) + 1 = i
      BY <1>1, <1>5
    <2> QED
      BY <1>2, <1>3, <2>1
  <1> QED
    BY <1>1, <1>2, <1>3, <1>4, <1>5

LEMMA OneMore ==
  ASSUME NEW S, NEW s \in Seq(S), NEW x \in S
  PROVE  /\ Append(s, x) \in Seq(S)
         /\ \A i \in DOMAIN s : i \in DOMAIN Append(s, x) /\ Append(s, x)[i] = s[i]
         /\ Len(s) + 1 \in DOMAIN Append(s, x) /\ Append(s, x)[Len(s) + 1] = x
         /\ \A i \in DOMAIN Append(s, x) : i \in DOMAIN s \/ i = Len(s) + 1
  <1>1. Len(s) \in Nat /\ DOMAIN s = 1 .. Len(s)
    OBVIOUS
  <1>2. /\ Append(s, x) \in Seq(S) /\ Len(Append(s, x)) = Len(s) + 1
        /\ \A i \in 1 .. Len(s) : Append(s, x)[i] = s[i]
        /\ Append(s, x)[Len(s) + 1] = x
    BY AppendProperties
  <1>3. DOMAIN Append(s, x) = 1 .. Len(s) + 1
    BY <1>2
  <1> QED
    BY <1>1, <1>2, <1>3

\* What was asked for before stays asked for.
LEMMA Past ==
  ASSUME NEW d \in Dialogs, NEW e \in Dialogs, NEW job \in AskJobs, Ours(d, job), job.gen < e.gen,
         job.what # "execute", e.kind = d.kind
  PROVE  Ours(e, job)
  <1>1. job.gen \in Nat /\ e.gen \in Nat
    BY DEF Dialogs, AskJobs
  <1> QED
    BY <1>1 DEF Ours, Moves

\* No write is under way.
NoWrite(J, A) == /\ \A i \in DOMAIN J : J[i].what # "execute"
                 /\ \A i \in DOMAIN A : A[i].job.what # "execute"
\* Nor anything the dialog waits for.
NoneOf(g, J, A) == /\ \A i \in DOMAIN J : J[i].gen # g
                   /\ \A i \in DOMAIN A : A[i].job.gen # g

LEMMA NobodyWrites ==
  ASSUME NEW d \in Dialogs, NEW J \in Seq(AskJobs), NEW A \in Seq(Replies), AllOurs(d, J, A),
         (d.open /\ ~d.running) \/ NoneOf(d.gen, J, A)
  PROVE  NoWrite(J, A)
  BY DEF AllOurs, Ours, NoneOf, NoWrite

\* An answer is delivered.
LEMMA DeliveredFacts ==
  ASSUME NEW d \in Dialogs, NEW J \in Seq(AskJobs), NEW A \in Seq(Replies), DialogKept(d, J, A), A # <<>>
  PROVE  /\ AllOurs(d, J, Tail(A)) /\ Once(J, Tail(A)) /\ Tail(A) \in Seq(Replies)
         /\ Head(A) \in Replies /\ Ours(d, Head(A).job) /\ Replied(Head(A))
         /\ Head(A).job.gen = d.gen => NoneOf(d.gen, J, Tail(A))
         /\ ~(d.open /\ Head(A).job.gen = d.gen) => DialogKept(d, J, Tail(A))
  <1> DEFINE T == Tail(A)
             a == Head(A)
  <1>1. /\ T \in Seq(Replies) /\ 1 \in DOMAIN A /\ a = A[1] /\ a \in Replies
        /\ \A i \in DOMAIN T : i \in Nat \ {0} /\ i + 1 \in DOMAIN A /\ T[i] = A[i + 1]
        /\ \A i \in DOMAIN A : i # 1 => i - 1 \in DOMAIN T /\ T[i - 1] = A[i]
    BY FirstGone
  <1> HIDE DEF T, a
  <1>2. AllOurs(d, J, A) /\ Once(J, A) /\ Waited(d, J, A) /\ Drawn(d)
    BY DEF DialogKept
  <1>3. Ours(d, a.job) /\ Replied(a)
    BY <1>1, <1>2 DEF AllOurs
  <1>4. AllOurs(d, J, T)
    BY <1>1, <1>2 DEF AllOurs
  <1>5. Once(J, T)
    <2>1. ASSUME NEW i \in DOMAIN T, NEW j \in DOMAIN T, T[i].job.gen = T[j].job.gen
          PROVE  i = j
      <3>1. A[i + 1].job.gen = A[j + 1].job.gen /\ i + 1 \in DOMAIN A /\ j + 1 \in DOMAIN A
        BY <1>1, <2>1
      <3>2. i + 1 = j + 1
        BY <1>2, <3>1 DEF Once
      <3> QED
        BY <1>1, <3>2
    <2>2. \A i \in DOMAIN J : \A j \in DOMAIN T : J[i].gen # T[j].job.gen
      BY <1>1, <1>2 DEF Once
    <2> QED
      BY <1>2, <2>1, <2>2 DEF Once
  <1>6. ASSUME a.job.gen = d.gen
        PROVE  NoneOf(d.gen, J, T)
    <2>1. \A i \in DOMAIN J : J[i].gen # d.gen
      BY <1>1, <1>2, <1>6 DEF Once
    <2>2. ASSUME NEW i \in DOMAIN T, T[i].job.gen = d.gen
          PROVE  FALSE
      <3>1. A[i + 1].job.gen = A[1].job.gen /\ i + 1 \in DOMAIN A
        BY <1>1, <1>6, <2>2
      <3>2. i + 1 = 1
        BY <1>1, <1>2, <3>1 DEF Once
      <3> QED
        BY <1>1, <2>2, <3>2
    <2> QED
      BY <2>1, <2>2 DEF NoneOf
  <1>7. ASSUME ~(d.open /\ a.job.gen = d.gen)
        PROVE  Waited(d, J, T)
    <2> SUFFICES ASSUME d.open, d.busy, NEW i \in DOMAIN A, A[i].job.gen = d.gen
                 PROVE  \E j \in DOMAIN T : T[j].job.gen = d.gen
      BY <1>2 DEF Waited
    <2>1. i # 1
      BY <1>1, <1>7
    <2>2. i - 1 \in DOMAIN T /\ T[i - 1] = A[i]
      BY <1>1, <2>1
    <2> QED
      BY <2>2
  <1> QED
    BY <1>1, <1>2, <1>3, <1>4, <1>5, <1>6, <1>7 DEF DialogKept, T, a

\* The dialog waits for nothing any more.
LEMMA RestsKept ==
  ASSUME NEW d \in Dialogs, NEW e \in Dialogs, NEW J \in Seq(AskJobs), NEW A \in Seq(Replies),
         AllOurs(d, J, A), Once(J, A), NoneOf(d.gen, J, A), Drawn(e), e.kind = d.kind, e.gen = d.gen,
         e.open => ~e.busy /\ ~e.running
  PROVE  DialogKept(e, J, A)
  <1>1. NoWrite(J, A)
    BY NobodyWrites
  <1>2. \A i \in DOMAIN J : Ours(e, J[i])
    <2> TAKE i \in DOMAIN J
    <2>1. J[i] \in AskJobs /\ Ours(d, J[i]) /\ J[i].gen # d.gen /\ J[i].what # "execute"
      BY <1>1 DEF AllOurs, NoneOf, NoWrite
    <2>2. J[i].gen < e.gen
      BY <2>1 DEF Ours, Dialogs, AskJobs
    <2> QED
      BY <2>1, <2>2, Past
  <1>3. \A i \in DOMAIN A : Ours(e, A[i].job) /\ Replied(A[i])
    <2> TAKE i \in DOMAIN A
    <2>1. A[i] \in Replies
      OBVIOUS
    <2>2. A[i].job \in AskJobs /\ Ours(d, A[i].job) /\ A[i].job.gen # d.gen /\ A[i].job.what # "execute"
          /\ Replied(A[i])
      BY <1>1, <2>1 DEF AllOurs, NoneOf, NoWrite, Replies
    <2>3. A[i].job.gen < e.gen
      BY <2>2 DEF Ours, Dialogs, AskJobs
    <2> QED
      BY <2>2, <2>3, Past
  <1> QED
    BY <1>2, <1>3 DEF DialogKept, AllOurs, Waited

\* The dialog asks for something new.
LEMMA SubmitsKept ==
  ASSUME NEW d \in Dialogs, NEW e \in Dialogs, NEW J \in Seq(AskJobs), NEW A \in Seq(Replies),
         AllOurs(d, J, A), Once(J, A), NoWrite(J, A), Drawn(e), e.kind = d.kind, e.gen = d.gen + 1,
         e.open /\ e.running => e.busy,
         NEW job \in AskJobs, job.gen = e.gen, Ours(e, job)
  PROVE  DialogKept(e, Append(J, job), A) /\ Append(J, job) \in Seq(AskJobs)
  <1> DEFINE K == Append(J, job)
             n == Len(J) + 1
  <1>0. d.gen \in Nat
    BY DEF Dialogs
  <1>1. /\ K \in Seq(AskJobs) /\ n \in DOMAIN K /\ K[n] = job
        /\ \A i \in DOMAIN K : i # n => i \in DOMAIN J /\ K[i] = J[i]
    BY OneMore
  <1> HIDE DEF K, n
  <1>2. \A i \in DOMAIN J : J[i].gen < e.gen /\ Ours(e, J[i])
    <2> TAKE i \in DOMAIN J
    <2>1. J[i] \in AskJobs /\ Ours(d, J[i]) /\ J[i].what # "execute"
      BY DEF AllOurs, NoWrite
    <2>2. J[i].gen < e.gen
      BY <1>0, <2>1 DEF Ours, AskJobs
    <2> QED
      BY <2>1, <2>2, Past
  <1>3. \A i \in DOMAIN A : A[i].job.gen < e.gen /\ Ours(e, A[i].job) /\ Replied(A[i])
    <2> TAKE i \in DOMAIN A
    <2>1. A[i] \in Replies
      OBVIOUS
    <2>2. A[i].job \in AskJobs /\ Ours(d, A[i].job) /\ A[i].job.what # "execute" /\ Replied(A[i])
      BY <2>1 DEF AllOurs, NoWrite, Replies
    <2>3. A[i].job.gen < e.gen
      BY <1>0, <2>2 DEF Ours, AskJobs
    <2> QED
      BY <2>2, <2>3, Past
  <1>4. AllOurs(e, K, A)
    BY <1>1, <1>2, <1>3 DEF AllOurs
  <1>5. Once(K, A)
    <2>0. e.gen \in Nat /\ (\A i \in DOMAIN J : J[i].gen # e.gen) /\ (\A i \in DOMAIN A : A[i].job.gen # e.gen)
      BY <1>2, <1>3 DEF Dialogs
    <2>1. \A i, j \in DOMAIN K : K[i].gen = K[j].gen => i = j
      BY <1>1, <2>0 DEF Once
    <2>2. \A i \in DOMAIN K : \A j \in DOMAIN A : K[i].gen # A[j].job.gen
      BY <1>1, <2>0, SMTT(40) DEF Once
    <2> QED
      BY <2>1, <2>2 DEF Once
  <1>6. Waited(e, K, A)
    BY <1>1 DEF Waited
  <1> QED
    BY <1>1, <1>4, <1>5, <1>6 DEF DialogKept, K

\* The dialog goes on waiting for the same.
LEMMA StaysKept ==
  ASSUME NEW d \in Dialogs, NEW e \in Dialogs, NEW J \in Seq(AskJobs), NEW A \in Seq(Replies),
         DialogKept(d, J, A), Drawn(e), e.kind = d.kind, e.gen = d.gen, e.open => d.open,
         e.running = d.running, e.open => e.busy = d.busy,
         Moves(d) => Token(e) = Token(d),
         d.kind = "plan" => e.in = d.in /\ e.at = d.at /\ e.mark = d.mark
  PROVE  DialogKept(e, J, A)
  <1>1. \A job \in AskJobs : Ours(d, job) => Ours(e, job)
    BY DEF Ours, Moves
  <1>2. \A i \in DOMAIN J : J[i] \in AskJobs
    OBVIOUS
  <1>3. \A i \in DOMAIN A : A[i].job \in AskJobs
    <2>1. \A i \in DOMAIN A : A[i] \in Replies
      OBVIOUS
    <2> QED
      BY <2>1 DEF Replies
  <1>4. AllOurs(e, J, A)
    BY <1>1, <1>2, <1>3 DEF DialogKept, AllOurs
  <1> QED
    BY <1>4 DEF DialogKept, Waited

\* The worker answers.
LEMMA RunsKept ==
  ASSUME NEW d \in Dialogs, NEW J \in Seq(AskJobs), NEW A \in Seq(Replies), DialogKept(d, J, A), J # <<>>,
         NEW a \in Replies, a.job = Head(J), Replied(a)
  PROVE  /\ DialogKept(d, Tail(J), Append(A, a)) /\ Tail(J) \in Seq(AskJobs) /\ Append(A, a) \in Seq(Replies)
  <1> DEFINE T == Tail(J)
             B == Append(A, a)
             n == Len(A) + 1
  <1>1. /\ T \in Seq(AskJobs) /\ 1 \in DOMAIN J /\ Head(J) = J[1]
        /\ \A i \in DOMAIN T : i \in Nat \ {0} /\ i + 1 \in DOMAIN J /\ T[i] = J[i + 1]
        /\ \A i \in DOMAIN J : i # 1 => i - 1 \in DOMAIN T /\ T[i - 1] = J[i]
    BY FirstGone
  <1>2. /\ B \in Seq(Replies) /\ n \in DOMAIN B /\ B[n] = a
        /\ \A i \in DOMAIN A : i \in DOMAIN B /\ B[i] = A[i]
        /\ \A i \in DOMAIN B : i # n => i \in DOMAIN A /\ B[i] = A[i]
    BY OneMore
  <1> HIDE DEF T, B, n
  <1>3. AllOurs(d, J, A) /\ Once(J, A) /\ Waited(d, J, A) /\ Drawn(d)
    BY DEF DialogKept
  <1>4. \A i \in DOMAIN T : Ours(d, T[i])
    BY <1>1, <1>3 DEF AllOurs
  <1>5. \A i \in DOMAIN B : Ours(d, B[i].job) /\ Replied(B[i])
    BY <1>1, <1>2, <1>3 DEF AllOurs
  <1>6. AllOurs(d, T, B)
    BY <1>3, <1>4, <1>5 DEF AllOurs
  <1>7. Once(T, B)
    <2>1. ASSUME NEW i \in DOMAIN T, NEW j \in DOMAIN T, T[i].gen = T[j].gen
          PROVE  i = j
      <3>1. J[i + 1].gen = J[j + 1].gen /\ i + 1 \in DOMAIN J /\ j + 1 \in DOMAIN J
        BY <1>1, <2>1
      <3>2. i + 1 = j + 1
        BY <1>3, <3>1 DEF Once
      <3> QED
        BY <1>1, <3>2
    <2>2. \A i \in DOMAIN A : A[i].job.gen # a.job.gen
      BY <1>1, <1>3 DEF Once
    <2>3. \A i, j \in DOMAIN B : B[i].job.gen = B[j].job.gen => i = j
      BY <1>2, <1>3, <2>2 DEF Once
    <2>4. ASSUME NEW i \in DOMAIN T, NEW j \in DOMAIN B, T[i].gen = B[j].job.gen
          PROVE  FALSE
      <3>1. i + 1 \in DOMAIN J /\ J[i + 1].gen = B[j].job.gen /\ i + 1 # 1
        BY <1>1, <2>4
      <3>2. CASE j = n
        <4>1. J[i + 1].gen = J[1].gen /\ i + 1 \in DOMAIN J /\ 1 \in DOMAIN J
          BY <1>1, <1>2, <3>1, <3>2
        <4> QED
          BY <1>3, <3>1, <4>1 DEF Once
      <3>3. CASE j # n
        BY <1>2, <1>3, <3>1, <3>3 DEF Once
      <3> QED
        BY <3>2, <3>3
    <2> QED
      BY <2>1, <2>3, <2>4 DEF Once
  <1>8. Waited(d, T, B)
    <2> SUFFICES ASSUME d.open, d.busy
                 PROVE  \/ \E i \in DOMAIN T : T[i].gen = d.gen
                        \/ \E i \in DOMAIN B : B[i].job.gen = d.gen
      BY DEF Waited
    <2>1. CASE \E i \in DOMAIN A : A[i].job.gen = d.gen
      BY <1>2, <2>1
    <2>2. CASE \E i \in DOMAIN J : J[i].gen = d.gen
      <3>1. PICK i \in DOMAIN J : J[i].gen = d.gen
        BY <2>2
      <3>2. CASE i = 1
        BY <1>1, <1>2, <3>1, <3>2
      <3>3. CASE i # 1
        BY <1>1, <3>1, <3>3
      <3> QED
        BY <3>2, <3>3
    <2> QED
      BY <1>3, <2>1, <2>2 DEF Waited
  <1> QED
    BY <1>1, <1>2, <1>3, <1>6, <1>7, <1>8 DEF DialogKept, T, B

\* A set of slots that is not empty has a greatest one.
LEMMA GreatestExists ==
  ASSUME NEW F \in SUBSET SaveSlots, F # {}
  PROVE  \E i \in F : \A j \in F : i >= j
  <1> DEFINE Above(i) == {j \in F : j >= i}
             B == {Above(i) : i \in F}
  <1>1. IsFiniteSet(F) /\ \A i \in F : i \in Nat
    BY DialogBounds, FS_Subset
  <1>2. B \subseteq SUBSET F /\ B # {}
    OBVIOUS
  <1>3. IsWellFoundedOn(StrictSubsetOrdering(F), FiniteSubsetsOf(F)) /\ FiniteSubsetsOf(F) = SUBSET F
    BY <1>1, FS_StrictSubsetOrderingWellFounded, FS_FiniteSubsetsOfFinite
  <1>4. PICK T \in B : \A U \in B : ~(<<U, T>> \in StrictSubsetOrdering(F))
    <2> HIDE DEF B
    <2> QED
      BY <1>2, <1>3, WFMin
  <1>5. PICK i \in F : T = Above(i)
    BY <1>4
  <1>6. ASSUME NEW j \in F, i < j
        PROVE  FALSE
    <2>0. j \in Nat /\ i \in Nat /\ \A k \in F : k \in Nat
      BY <1>1
    <2>1. Above(j) \subseteq Above(i) /\ i \in Above(i) /\ i \notin Above(j)
      <3>1. \A k \in F : k >= j => k >= i
        BY <1>6, <2>0
      <3>2. ~(i >= j) /\ i >= i
        BY <1>6, <2>0
      <3>3. i \in F /\ j \in F
        BY <1>6
      <3> QED
        BY <3>1, <3>2, <3>3
    <2>2. <<Above(j), Above(i)>> \in StrictSubsetOrdering(F)
      BY <2>1 DEF StrictSubsetOrdering
    <2> QED
      BY <1>4, <1>5, <2>2
  <1>7. \A j \in F : i >= j
    BY <1>1, <1>6
  <1> QED
    BY <1>7

LEMMA BestIsARow ==
  ASSUME NEW b \in SUBSET SaveSlots
  PROVE  Max({None} \cup (SaveSlots \ b)) \in Rows
  <1> DEFINE F == SaveSlots \ b
             S == {None} \cup F
  <1>1. F \in SUBSET SaveSlots /\ \A i \in F : i \in Nat \ {0}
    BY DialogBounds
  <1>2. CASE F = {}
    <2>1. S = {0}
      BY <1>2 DEF None
    <2>2. \E x \in S : \A y \in S : x >= y
      BY <2>1
    <2>3. Max(S) \in S
      BY <2>2 DEF Max
    <2> QED
      BY <1>2, <2>3 DEF Rows
  <1>3. CASE F # {}
    <2>1. PICK m \in F : \A y \in F : m >= y
      BY <1>1, <1>3, GreatestExists
    <2>2. \A y \in S : m >= y
      BY <1>1, <2>1 DEF None
    <2>3. Max(S) \in S
      BY <2>1, <2>2 DEF Max
    <2> QED
      BY <2>3 DEF Rows
  <1> QED
    BY <1>2, <1>3

-----------------------------------------------------------------------------
(* What the owner is told.                                                  *)

IsWrite(a) == a.job.what = "execute" /\ a.status = "done"

LEMMA OneMoreTold ==
  ASSUME NEW A \in Seq(Replies), NEW a \in Replies
  PROVE  DoneWaits(Append(A, a)) <=> DoneWaits(A) \/ IsWrite(a)
  <1> DEFINE B == Append(A, a)
             n == Len(A) + 1
  <1>1. /\ n \in DOMAIN B /\ B[n] = a
        /\ \A i \in DOMAIN A : i \in DOMAIN B /\ B[i] = A[i]
        /\ \A i \in DOMAIN B : i # n => i \in DOMAIN A /\ B[i] = A[i]
    BY OneMore
  <1> HIDE DEF B, n
  <1>2. DoneWaits(B) => DoneWaits(A) \/ IsWrite(a)
    BY <1>1 DEF DoneWaits, IsWrite
  <1>3. DoneWaits(A) => DoneWaits(B)
    BY <1>1 DEF DoneWaits
  <1>4. IsWrite(a) => DoneWaits(B)
    BY <1>1 DEF DoneWaits, IsWrite
  <1> QED
    BY <1>2, <1>3, <1>4 DEF B

LEMMA OneLessTold ==
  ASSUME NEW A \in Seq(Replies), A # <<>>
  PROVE  DoneWaits(A) <=> DoneWaits(Tail(A)) \/ IsWrite(Head(A))
  <1> DEFINE T == Tail(A)
             a == Head(A)
  <1>1. /\ 1 \in DOMAIN A /\ a = A[1]
        /\ \A i \in DOMAIN T : i + 1 \in DOMAIN A /\ T[i] = A[i + 1]
        /\ \A i \in DOMAIN A : i # 1 => i - 1 \in DOMAIN T /\ T[i - 1] = A[i]
    BY FirstGone
  <1> HIDE DEF T, a
  <1>2. DoneWaits(A) => DoneWaits(T) \/ IsWrite(a)
    <2> SUFFICES ASSUME NEW i \in DOMAIN A, A[i].job.what = "execute", A[i].status = "done"
                 PROVE  DoneWaits(T) \/ IsWrite(a)
      BY DEF DoneWaits
    <2>1. CASE i = 1
      BY <1>1, <2>1 DEF IsWrite
    <2>2. CASE i # 1
      BY <1>1, <2>2 DEF DoneWaits
    <2> QED
      BY <2>1, <2>2
  <1>3. DoneWaits(T) => DoneWaits(A)
    BY <1>1 DEF DoneWaits
  <1>4. IsWrite(a) => DoneWaits(A)
    BY <1>1 DEF DoneWaits, IsWrite
  <1> QED
    BY <1>2, <1>3, <1>4 DEF T, a

LEMMA NoWriteNoneTold ==
  ASSUME NEW J, NEW A, NoWrite(J, A)
  PROVE  ~DoneWaits(A)
  BY DEF NoWrite, DoneWaits

\* Only one write is under way.
LEMMA OneWrite ==
  ASSUME NEW d \in Dialogs, NEW J \in Seq(AskJobs), NEW A \in Seq(Replies), DialogKept(d, J, A), J # <<>>,
         Head(J).what = "execute"
  PROVE  ~DoneWaits(A)
  <1>1. 1 \in DOMAIN J /\ Head(J) = J[1]
    BY FirstGone
  <1>2. J[1].gen = d.gen
    BY <1>1 DEF DialogKept, AllOurs, Ours
  <1>3. \A i \in DOMAIN A : A[i].job.what = "execute" => A[i].job.gen = d.gen
    BY DEF DialogKept, AllOurs, Ours
  <1>4. \A i \in DOMAIN A : J[1].gen # A[i].job.gen
    BY <1>1 DEF DialogKept, Once
  <1> QED
    BY <1>2, <1>3, <1>4 DEF DoneWaits

-----------------------------------------------------------------------------
(* The owner.                                                               *)

LEMMA ReadJobFacts ==
  ASSUME NEW e \in Dialogs, NEW account \in Accts
  PROVE  /\ ReadJob(e, account) \in AskJobs /\ ReadJob(e, account).gen = e.gen
         /\ Moves(e) /\ ~(e.open /\ e.running) => Ours(e, ReadJob(e, account))
  <1>1. /\ e.gen \in Nat /\ e.source \in Ins /\ <<account, None>> \in Accts \X Rows /\ <<>> \in Tokens
        /\ NoPlan \in Plans /\ {} \in SUBSET Boxes
    BY NoPlanIsTyped DEF Dialogs, Rows, Tokens
  <1>2. PICK g \in Nat : g = e.gen
    BY <1>1
  <1>3. PICK in \in Ins : in = e.source
    BY <1>1
  <1> DEFINE job == [what |-> "read", gen |-> g, pair |-> in, target |-> <<account, None>>,
                     token |-> <<>>, plan |-> NoPlan, ticked |-> {}]
  <1>4. ReadJob(e, account) = job
    BY <1>2, <1>3 DEF ReadJob
  <1>5. job \in AskJobs /\ job.what = "read" /\ job.gen = e.gen
    BY <1>1, <1>2 DEF AskJobs
  <1> HIDE DEF job
  <1>6. Moves(e) /\ ~(e.open /\ e.running) => Ours(e, job)
    BY <1>1, <1>5 DEF Ours, Moves
  <1> QED
    BY <1>4, <1>5, <1>6

LEMMA PlanJobFacts ==
  ASSUME NEW e \in Dialogs, <<e.rows.account, e.slot>> \in Targets
  PROVE  /\ PlanJob(e) \in AskJobs /\ PlanJob(e).gen = e.gen
         /\ e.kind # "plan" /\ ~(e.open /\ e.running) => Ours(e, PlanJob(e))
  <1>1. /\ e.gen \in Nat /\ e.source \in Ins /\ e.slot \in Rows /\ Asked(e) \in Accts
        /\ NoPlan \in Plans /\ {} \in SUBSET Boxes
    BY NoPlanIsTyped DEF Dialogs, Asked
  <1>2. PICK g \in Nat : g = e.gen
    BY <1>1
  <1>3. PICK in \in Ins : in = e.source
    BY <1>1
  <1>4. PICK t \in Targets : t = <<e.rows.account, e.slot>>
    OBVIOUS
  <1>5. PICK k \in Tokens : k = Token(e)
    BY <1>1 DEF Token, Tokens
  <1>6. t \in Accts \X Rows
    BY <1>4 DEF Targets, Accts, Rows
  <1> DEFINE job == [what |-> "plan", gen |-> g, pair |-> in, target |-> t,
                     token |-> k, plan |-> NoPlan, ticked |-> {}]
  <1>7. PlanJob(e) = job
    BY <1>2, <1>3, <1>4, <1>5 DEF PlanJob
  <1>8. job \in AskJobs /\ job.what = "plan" /\ job.gen = e.gen /\ job.target \in Targets /\ job.token = Token(e)
    BY <1>1, <1>2, <1>5, <1>6 DEF AskJobs
  <1> HIDE DEF job
  <1>9. e.kind # "plan" /\ ~(e.open /\ e.running) => Ours(e, job)
    BY <1>1, <1>8 DEF Ours
  <1> QED
    BY <1>7, <1>8, <1>9

\* The dialog submits something; nothing else changes.
LEMMA AskingKeeps ==
  ASSUME DialogInv, dlg.open, ~dlg.running,
         NEW e \in Dialogs, Drawn(e), e.kind = dlg.kind, e.gen = dlg.gen + 1,
         e.open /\ e.running => e.busy,
         NEW job \in AskJobs, job.gen = e.gen, Ours(e, job),
         dlg' = e, jobs' = Append(jobs, job), UNCHANGED <<content, answers, outcomes>>,
         AppliedIsShown'
  PROVE  DialogInv'
  <1>1. DialogTyped /\ DialogKept(dlg, jobs, answers) /\ AllTold(outcomes, answers)
    BY DEF DialogInv
  <1>2. PICK d \in Dialogs : d = dlg
    BY <1>1 DEF DialogTyped
  <1>3. PICK J \in Seq(AskJobs) : J = jobs
    BY <1>1 DEF DialogTyped
  <1>4. PICK A \in Seq(Replies) : A = answers
    BY <1>1 DEF DialogTyped
  <1>5. AllOurs(d, J, A) /\ Once(J, A)
    BY <1>1, <1>2, <1>3, <1>4 DEF DialogKept
  <1>6. NoWrite(J, A)
    BY <1>2, <1>5, NobodyWrites
  <1>7. DialogKept(e, Append(J, job), A) /\ Append(J, job) \in Seq(AskJobs)
    BY <1>2, <1>5, <1>6, SubmitsKept
  <1>8. DialogKept(dlg', jobs', answers') /\ jobs' \in Seq(AskJobs) /\ dlg' \in Dialogs
    BY <1>3, <1>4, <1>7
  <1>9. DialogTyped'
    BY <1>1, <1>8 DEF DialogTyped
  <1>10. AllTold(outcomes, answers)'
    BY <1>1
  <1> QED
    BY <1>8, <1>9, <1>10 DEF DialogInv

\* The dialog goes on with what it waits for.
LEMMA StayingKeeps ==
  ASSUME DialogInv, NEW e \in Dialogs, Drawn(e), e.kind = dlg.kind, e.gen = dlg.gen,
         e.open => dlg.open, e.running = dlg.running, e.open => e.busy = dlg.busy,
         Moves(dlg) => Token(e) = Token(dlg),
         dlg.kind = "plan" => e.in = dlg.in /\ e.at = dlg.at /\ e.mark = dlg.mark,
         dlg' = e, UNCHANGED <<content, jobs, answers, pressed, outcomes>>
  PROVE  DialogInv'
  <1>1. DialogTyped /\ DialogKept(dlg, jobs, answers) /\ AllTold(outcomes, answers) /\ AppliedIsShown
    BY DEF DialogInv
  <1>2. PICK d \in Dialogs : d = dlg
    BY <1>1 DEF DialogTyped
  <1>3. PICK J \in Seq(AskJobs) : J = jobs
    BY <1>1 DEF DialogTyped
  <1>4. PICK A \in Seq(Replies) : A = answers
    BY <1>1 DEF DialogTyped
  <1>5. DialogKept(e, J, A)
    BY <1>1, <1>2, <1>3, <1>4, StaysKept
  <1>6. DialogKept(dlg', jobs', answers')
    BY <1>3, <1>4, <1>5
  <1>7. DialogTyped'
    BY <1>1 DEF DialogTyped
  <1>8. AllTold(outcomes, answers)' /\ AppliedIsShown'
    BY <1>1 DEF AppliedIsShown
  <1> QED
    BY <1>6, <1>7, <1>8 DEF DialogInv

LEMMA PickVersionKeeps ==
  ASSUME DialogInv, NEW pair \in PutIns, PickVersion(pair)
  PROVE  DialogInv'
  <1>1. dlg \in Dialogs /\ Drawn(dlg) /\ dlg.kind = "replace" /\ dlg.open /\ ~dlg.running /\ AppliedIsShown
    BY DEF DialogInv, DialogTyped, DialogKept, PickVersion, MayPick
  <1>2. PICK d \in Dialogs : d = dlg
    BY <1>1
  <1>3. PICK n \in Rows : n = d.fixed
    BY DEF Dialogs
  <1>4. PICK w \in Accts : w = d.want
    BY DEF Dialogs
  <1> DEFINE f == [d EXCEPT !.source = pair, !.slot = None, !.prefer = n]
             e == Loading(f, w, FALSE)
             job == ReadJob(e, w)
  <1>5. dlg' = e /\ jobs' = Append(jobs, job) /\ UNCHANGED <<content, answers, pressed, outcomes>>
    BY <1>2, <1>3, <1>4 DEF PickVersion, Submit, Same
  <1>6. /\ f \in Dialogs /\ f.kind = d.kind /\ f.open = d.open /\ f.running = d.running /\ f.gen = d.gen
        /\ f.repair = d.repair /\ f.rows = d.rows /\ f.slot = None
    BY DEF Dialogs, Ins, Rows
  <1> HIDE DEF f
  <1>7. /\ e \in Dialogs /\ e.gen = f.gen + 1 /\ e.busy = TRUE /\ e.armed = FALSE /\ e.kind = f.kind
        /\ e.open = f.open /\ e.slot = f.slot /\ e.rows = f.rows /\ e.running = f.running /\ e.repair = f.repair
    <2>1. IsLoading(f, w, e)
      BY <1>6, LoadingFacts
    <2> QED
      BY <2>1 DEF IsLoading
  <1> HIDE DEF e
  <1>8. Moves(d) /\ Moves(e)
    BY <1>1, <1>2, <1>6, <1>7 DEF Moves
  <1>9. ~d.repair /\ (d.rows # NoRows => d.rows.account \in Accounts)
    BY <1>1, <1>2, <1>8, DrawnIsSane
  <1>10. Drawn(e)
    <2>1. Aligned(e) /\ Sane(e)
      BY <1>1, <1>2, <1>6, <1>7 DEF Aligned, Sane
    <2> QED
      BY <1>6, <1>7, <1>8, <1>9, <2>1, DrawnMoves
  <1>11. job \in AskJobs /\ job.gen = e.gen /\ Ours(e, job)
    BY <1>1, <1>2, <1>6, <1>7, <1>8, ReadJobFacts
  <1> HIDE DEF job
  <1>12. AppliedIsShown'
    BY <1>1, <1>5 DEF AppliedIsShown
  <1> QED
    BY <1>1, <1>2, <1>5, <1>6, <1>7, <1>10, <1>11, <1>12, AskingKeeps

LEMMA PickAccountKeeps ==
  ASSUME DialogInv, NEW account \in Accounts, PickAccount(account)
  PROVE  DialogInv'
  <1>1. dlg \in Dialogs /\ Drawn(dlg) /\ dlg.kind = "move" /\ dlg.open /\ ~dlg.running /\ AppliedIsShown
        /\ dlg.rows # NoRows
    BY DEF DialogInv, DialogTyped, DialogKept, PickAccount, MayPick
  <1>2. PICK d \in Dialogs : d = dlg
    BY <1>1
  <1> DEFINE f == [d EXCEPT !.slot = None, !.at = account]
             e == Loading(f, account, FALSE)
             job == ReadJob(e, account)
  <1>5. dlg' = e /\ jobs' = Append(jobs, job) /\ UNCHANGED <<content, answers, pressed, outcomes>>
    BY <1>2 DEF PickAccount, Submit, Same
  <1>6. /\ f \in Dialogs /\ f.kind = d.kind /\ f.open = d.open /\ f.running = d.running /\ f.gen = d.gen
        /\ f.repair = d.repair /\ f.rows = d.rows /\ f.slot = None /\ f.at = account /\ f.in = d.in
        /\ f.source = d.source
    <2>1. account \in Accts /\ None \in Rows
      BY DEF Accts, Rows
    <2>2. f \in Dialogs
      BY <2>1 DEF Dialogs
    <2> QED
      BY <2>2 DEF Dialogs
  <1> HIDE DEF f
  <1>7. /\ e \in Dialogs /\ e.gen = f.gen + 1 /\ e.busy = TRUE /\ e.armed = FALSE /\ e.kind = f.kind
        /\ e.open = f.open /\ e.slot = f.slot /\ e.rows = f.rows /\ e.running = f.running /\ e.repair = f.repair
        /\ e.in = f.in /\ e.source = f.source /\ e.at = f.at
        /\ e.want = (IF account = None THEN f.want ELSE account)
    <2>1. account \in Accts
      BY DEF Accts
    <2>2. IsLoading(f, account, e)
      BY <1>6, <2>1, LoadingFacts
    <2> QED
      BY <2>2 DEF IsLoading
  <1> HIDE DEF e
  <1>8. Moves(d) /\ Moves(e)
    BY <1>1, <1>2, <1>6, <1>7 DEF Moves
  <1>9. Aligned(d) /\ ~d.repair /\ (d.rows # NoRows => d.rows.account \in Accounts)
    BY <1>1, <1>2, <1>8, DrawnIsSane
  <1>10. Drawn(e)
    <2>1. Asked(e) = account
      BY <1>7, DialogBounds DEF Asked
    <2>2. Aligned(e) /\ Sane(e)
      BY <1>1, <1>2, <1>6, <1>7, <1>9, <2>1 DEF Aligned, Sane
    <2> QED
      BY <1>6, <1>7, <1>8, <1>9, <2>2, DrawnMoves
  <1>11. job \in AskJobs /\ job.gen = e.gen /\ Ours(e, job)
    BY <1>1, <1>2, <1>6, <1>7, <1>8, ReadJobFacts DEF Accts
  <1> HIDE DEF job
  <1>12. AppliedIsShown'
    BY <1>1, <1>5 DEF AppliedIsShown
  <1> QED
    BY <1>1, <1>2, <1>5, <1>6, <1>7, <1>10, <1>11, <1>12, AskingKeeps

LEMMA PickRowKeeps ==
  ASSUME DialogInv, NEW slot \in SaveSlots, PickRow(slot)
  PROVE  DialogInv'
  <1>1. dlg \in Dialogs /\ Drawn(dlg) /\ dlg.kind = "move" /\ dlg.open /\ ~dlg.running /\ AppliedIsShown
        /\ dlg.rows # NoRows
    BY DEF DialogInv, DialogTyped, DialogKept, PickRow, MayPick
  <1>2. PICK d \in Dialogs : d = dlg
    BY <1>1
  <1> DEFINE e == Choosing(d, slot)
             job == PlanJob(e)
  <1>3. dlg' = e /\ jobs' = Append(jobs, job) /\ UNCHANGED <<content, answers, pressed, outcomes>>
    BY <1>2 DEF PickRow, Submit, Same
  <1>4. /\ e \in Dialogs /\ e.gen = d.gen + 1 /\ e.busy = TRUE /\ e.armed = FALSE
        /\ e.slot = slot /\ e.mark = slot /\ e.out = slot
        /\ e.kind = d.kind /\ e.open = d.open /\ e.source = d.source /\ e.account = d.account
        /\ e.want = d.want /\ e.rows = d.rows
        /\ e.running = d.running /\ e.repair = d.repair /\ e.in = d.in /\ e.at = d.at
    BY ChoosingFacts
  <1> HIDE DEF e
  <1>5. Moves(d) /\ Moves(e)
    BY <1>1, <1>2, <1>4 DEF Moves
  <1>6. Aligned(d) /\ ~d.repair /\ d.rows.account \in Accounts
    BY <1>1, <1>2, <1>5, DrawnIsSane
  <1>7. Drawn(e)
    <2>1. Aligned(e) /\ Sane(e)
      BY <1>1, <1>2, <1>4, <1>6 DEF Aligned, Asked, Sane
    <2> QED
      BY <1>4, <1>5, <1>6, <2>1, DrawnMoves
  <1>8. <<e.rows.account, e.slot>> \in Targets
    BY <1>4, <1>6 DEF Targets
  <1>9. job \in AskJobs /\ job.gen = e.gen /\ Ours(e, job)
    BY <1>1, <1>2, <1>4, <1>8, PlanJobFacts
  <1> HIDE DEF job
  <1>10. AppliedIsShown'
    BY <1>1, <1>3 DEF AppliedIsShown
  <1> QED
    BY <1>1, <1>2, <1>3, <1>4, <1>7, <1>9, <1>10, AskingKeeps

LEMMA UpdatedIsDrawn ==
  ASSUME NEW d \in Dialogs, NEW f \in Dialogs, Drawn(d), Alike2(d, f), f.plan = d.plan
  PROVE  Drawn(Updated(f))
  <1> DEFINE e == Updated(f)
  <1>1. e \in Dialogs /\ Alike2(f, e) /\ Sane(e) /\ e.plan = f.plan
    BY UpdatedFacts
  <1> HIDE DEF e
  <1>2. Aligned(d) => Aligned(e)
    BY <1>1 DEF Aligned, Asked, Alike2
  <1>3. Drawn(e)
    BY <1>1, <1>2 DEF Drawn, Moves, Sane, Alike2
  <1> QED
    BY <1>3 DEF e

LEMMA PickBackupKeeps ==
  ASSUME DialogInv, NEW pair \in PutIns, PickBackup(pair)
  PROVE  DialogInv'
  <1>1. /\ dlg \in Dialogs /\ Drawn(dlg) /\ dlg.kind = "panic" /\ dlg.open /\ AppliedIsShown
        /\ dlg.running => dlg.busy
    BY DEF DialogInv, DialogTyped, DialogKept, AllOurs, PickBackup, MayPick
  <1>2. PICK d \in Dialogs : d = dlg
    BY <1>1
  <1>3. d.in = d.source /\ <<d.rows.account, d.slot>> \in Targets /\ (d.running => ~d.armed) /\ ~Moves(d)
    BY <1>1, <1>2 DEF Drawn, Moves
  <1> DEFINE f == [d EXCEPT !.source = pair, !.in = pair]
  <1>4. /\ f \in Dialogs /\ f.kind = d.kind /\ f.open = d.open /\ f.running = d.running /\ f.gen = d.gen
        /\ f.source = pair /\ f.in = pair /\ f.rows = d.rows /\ f.slot = d.slot /\ f.armed = d.armed
        /\ f.busy = d.busy
    BY DEF Dialogs, Ins
  <1>5. CASE d.busy
    <2>1. dlg' = f /\ UNCHANGED <<content, jobs, answers, pressed, outcomes>>
      BY <1>2, <1>5 DEF PickBackup, Replanning, Same
    <2> HIDE DEF f
    <2>2. Drawn(f)
      BY <1>1, <1>2, <1>3, <1>4 DEF Drawn, Moves
    <2> QED
      BY <1>1, <1>2, <1>3, <1>4, <2>1, <2>2, StayingKeeps
  <1>6. CASE ~d.busy
    <2> DEFINE g == Rendered(f, NoPlan)
               n == g.gen + 1
               e == [g EXCEPT !.gen = n, !.repair = FALSE]
               job == PlanJob(e)
    <2>0. Replanning(d, pair) = e
      BY <1>6 DEF Replanning
    <2>1. dlg' = e /\ jobs' = Append(jobs, job) /\ UNCHANGED <<content, answers, pressed, outcomes>>
      BY <1>2, <1>6, <2>0 DEF PickBackup, Submit, Same
    <2> HIDE DEF f
    <2>2. g \in Dialogs /\ Alike2(f, g) /\ g.busy = f.busy /\ (~Moves(f) => g.armed = f.armed)
      BY <1>4, NoPlanIsTyped, RenderedFacts
    <2> HIDE DEF g
    <2>3. n \in Nat /\ n = d.gen + 1
      BY <1>4, <2>2 DEF Alike2, Dialogs
    <2> HIDE DEF n
    <2>4. /\ e \in Dialogs /\ e.kind = g.kind /\ e.open = g.open /\ e.running = g.running /\ e.gen = n
          /\ e.source = g.source /\ e.in = g.in /\ e.rows = g.rows /\ e.slot = g.slot /\ e.armed = g.armed
          /\ e.repair = FALSE
      BY <2>2, <2>3 DEF Dialogs
    <2> HIDE DEF e
    <2>5. /\ e.kind = "panic" /\ e.in = e.source /\ e.rows = d.rows /\ e.slot = d.slot /\ e.open = d.open
          /\ e.running = d.running
      BY <1>1, <1>2, <1>4, <2>2, <2>4 DEF Alike2
    <2>6. ~e.running
      BY <1>1, <1>2, <1>6, <2>5
    <2>7. Drawn(e)
      BY <1>3, <2>5, <2>6 DEF Drawn, Moves
    <2>8. job \in AskJobs /\ job.gen = e.gen /\ Ours(e, job)
      BY <1>3, <2>4, <2>5, <2>6, PlanJobFacts
    <2> HIDE DEF job
    <2>9. AppliedIsShown'
      BY <1>1, <2>1 DEF AppliedIsShown
    <2> QED
      BY <1>1, <1>2, <2>1, <2>3, <2>4, <2>5, <2>6, <2>7, <2>8, <2>9, AskingKeeps
  <1> QED
    BY <1>5, <1>6

LEMMA TickBoxKeeps ==
  ASSUME DialogInv, NEW box \in Boxes, TickBox(box)
  PROVE  DialogInv'
  <1>1. dlg \in Dialogs /\ Drawn(dlg)
    BY DEF DialogInv, DialogTyped, DialogKept
  <1>2. PICK d \in Dialogs : d = dlg
    BY <1>1
  <1>3. PICK t \in SUBSET Boxes : t = d.ticked \cup {box}
    <2>1. d.ticked \in SUBSET Boxes
      BY DEF Dialogs
    <2> QED
      BY <2>1
  <1> DEFINE f == [d EXCEPT !.ticked = t]
             e == Updated(f)
  <1>4. dlg' = e /\ UNCHANGED <<content, jobs, answers, pressed, outcomes>>
    BY <1>2, <1>3 DEF TickBox, Same
  <1>5. f \in Dialogs /\ Alike2(d, f) /\ f.busy = d.busy /\ f.plan = d.plan
    BY DEF Dialogs, Alike2
  <1> HIDE DEF f
  <1>6. e \in Dialogs /\ Alike2(f, e) /\ e.busy = f.busy /\ Drawn(e)
    BY <1>1, <1>2, <1>5, UpdatedFacts, UpdatedIsDrawn
  <1> HIDE DEF e
  <1>7. Token(e) = Token(d)
    BY <1>5, <1>6 DEF Token, Asked, Alike2
  <1>8. /\ e.kind = d.kind /\ e.gen = d.gen /\ e.open = d.open /\ e.running = d.running /\ e.busy = d.busy
        /\ e.in = d.in /\ e.at = d.at /\ e.mark = d.mark
    BY <1>5, <1>6 DEF Alike2
  <1> QED
    BY <1>2, <1>4, <1>6, <1>7, <1>8, StayingKeeps

LEMMA ApplyKeeps ==
  ASSUME DialogInv, Apply
  PROVE  DialogInv'
  <1>1. /\ dlg \in Dialogs /\ Drawn(dlg) /\ dlg.open /\ ~dlg.busy /\ dlg.armed /\ AppliedIsShown
        /\ (Moves(dlg) => PlanMatches(dlg, dlg.plan)) /\ jobs \in Seq(AskJobs)
    BY DEF DialogInv, DialogTyped, DialogKept, Apply, MayPick
  <1>2. PICK d \in Dialogs : d = dlg
    BY <1>1
  <1>3. ~d.running
    BY <1>1, <1>2 DEF Drawn
  <1>4. PICK n \in Nat : n = d.gen + 1
    BY DEF Dialogs
  <1>5. PICK p \in Plans : p = d.plan
    BY DEF Dialogs
  <1>6. PICK t \in SUBSET Boxes : t = d.ticked
    BY DEF Dialogs
  <1>7. PICK s \in Ins : s = (IF d.kind = "panic" THEN d.source ELSE p.pair)
    <2>1. d.source \in Ins /\ None \in Ins
      BY DEF Dialogs, Ins
    <2>2. p.pair \in Ins
      BY <2>1, PlanIsTyped DEF NoPlan
    <2> QED
      BY <2>1, <2>2
  <1>8. PICK u \in Accts \X Rows : u = p.target
    <2>1. CASE p = NoPlan
      BY <2>1 DEF NoPlan, Accts, Rows
    <2>2. CASE p # NoPlan
      <3>1. p.target \in Targets
        BY <2>2, PlanIsTyped
      <3> QED
        BY <3>1 DEF Targets, Accts, Rows
    <2> QED
      BY <2>1, <2>2
  <1> DEFINE e == [d EXCEPT !.gen = n, !.busy = TRUE, !.running = TRUE, !.armed = FALSE]
             job == [what |-> "execute", gen |-> n, token |-> <<>>, plan |-> p, pair |-> s,
                     target |-> u, ticked |-> t]
             press == [job |-> job, kind |-> d.kind, in |-> d.in, at |-> d.at, mark |-> d.mark, out |-> d.out]
  <1>9. /\ e \in Dialogs /\ e.kind = d.kind /\ e.open = d.open /\ e.gen = n /\ e.busy = TRUE
        /\ e.running = TRUE /\ e.armed = FALSE /\ e.plan = d.plan /\ e.source = d.source /\ e.slot = d.slot
        /\ e.want = d.want /\ e.account = d.account /\ e.rows = d.rows /\ e.repair = d.repair
        /\ e.in = d.in /\ e.at = d.at /\ e.mark = d.mark /\ e.out = d.out
    BY DEF Dialogs
  <1>10. job \in AskJobs /\ job.what = "execute" /\ job.gen = n /\ job.plan = p /\ job.pair = s
         /\ job.target = u /\ job.ticked = t
    BY DEF AskJobs, Tokens
  <1>11. dlg' = e
    BY <1>2, <1>4 DEF Apply
  <1>12. jobs' = Append(jobs, job) /\ UNCHANGED <<content, answers, outcomes>>
    <2>1. dlg'.gen = n
      BY <1>9, <1>11
    <2> QED
      BY <1>2, <1>5, <1>6, <1>7, <1>8, <2>1 DEF Apply, Submit
  <1>13. pressed' = pressed \cup {press}
    <2> HIDE DEF job
    <2>1. jobs'[Len(jobs')] = job
      BY <1>1, <1>10, <1>12
    <2> QED
      BY <1>2, <2>1 DEF Apply
  <1> HIDE DEF e, job
  <1>14. /\ Moves(d) => Aligned(d)
         /\ d.kind = "plan" => p # NoPlan /\ p.pair = d.in /\ p.target = <<d.at, d.mark>> /\ d.out = d.mark
         /\ d.kind = "panic" => d.in = d.source
         /\ d.kind # "panic" => p # NoPlan /\ ~p.blocked /\ p.asks \subseteq t
    BY <1>1, <1>2, <1>5, <1>6 DEF Drawn
  <1>15. Drawn(e)
    <2>1. Aligned(d) => Aligned(e)
      BY <1>9 DEF Aligned, Asked
    <2> QED
      BY <1>1, <1>2, <1>9, <2>1 DEF Drawn, Moves
  <1>16. Ours(e, job)
    <2>1. e.kind = "plan" => job.plan # NoPlan /\ job.plan.pair = e.in /\ job.plan.target = <<e.at, e.mark>>
      BY <1>9, <1>10, <1>14
    <2>2. job.target = job.plan.target
      BY <1>8, <1>10
    <2> QED
      BY <1>9, <1>10, <2>1, <2>2 DEF Ours
  <1>17. s = d.in
    <2>1. CASE Moves(d)
      <3>1. PlanMatches(d, p)
        BY <1>1, <1>2, <1>5, <2>1
      <3>2. d.in = d.source /\ d.kind # "panic"
        BY <1>14, <2>1, <3>1 DEF Aligned, PlanMatches, Moves
      <3> QED
        BY <1>7, <3>1, <3>2 DEF PlanMatches
    <2>2. CASE ~Moves(d)
      <3>1. d.kind \in {"plan", "panic"}
        BY <2>2 DEF Moves, Dialogs
      <3> QED
        BY <1>7, <1>14, <3>1
    <2> QED
      BY <2>1, <2>2
  <1>18. d.kind # "panic" => u = <<d.at, d.mark>> /\ d.out = d.mark
    <2>1. CASE Moves(d)
      <3>1. PlanMatches(d, p)
        BY <1>1, <1>2, <1>5, <2>1
      <3>2. d.at = Asked(d) /\ d.mark = d.slot /\ d.out = d.slot
        BY <1>14, <2>1, <3>1 DEF Aligned, PlanMatches
      <3> QED
        BY <1>8, <3>1, <3>2 DEF PlanMatches
    <2>2. CASE ~Moves(d)
      <3>1. d.kind \in {"plan", "panic"}
        BY <2>2 DEF Moves, Dialogs
      <3> QED
        BY <1>8, <1>14, <3>1
    <2> QED
      BY <2>1, <2>2
  <1>19. AppliedIsShown'
    <2>1. /\ press.job = job /\ press.kind = d.kind /\ press.in = d.in /\ press.at = d.at
          /\ press.mark = d.mark /\ press.out = d.out
      OBVIOUS
    <2> HIDE DEF press
    <2>2. /\ press.job.pair = press.in
          /\ press.kind # "panic" => /\ press.job.target = <<press.at, press.mark>> /\ press.out = press.mark
                                     /\ press.job.plan.asks \subseteq press.job.ticked
                                     /\ ~press.job.plan.blocked
      BY <1>10, <1>14, <1>17, <1>18, <2>1
    <2> QED
      BY <1>1, <1>13, <2>2 DEF AppliedIsShown
  <1>20. job.gen = e.gen /\ job \in AskJobs
    BY <1>9, <1>10
  <1> QED
    BY <1>1, <1>2, <1>3, <1>4, <1>9, <1>11, <1>12, <1>15, <1>16, <1>19, <1>20, AskingKeeps

LEMMA ClosesKept ==
  ASSUME NEW d \in Dialogs, NEW e \in Dialogs, NEW J \in Seq(AskJobs), NEW A \in Seq(Replies),
         AllOurs(d, J, A), Once(J, A), NoWrite(J, A), Drawn(e), e.kind = d.kind, e.gen = d.gen + 1,
         ~e.open
  PROVE  DialogKept(e, J, A)
  <1>0. d.gen \in Nat
    BY DEF Dialogs
  <1>1. \A i \in DOMAIN J : Ours(e, J[i])
    <2> TAKE i \in DOMAIN J
    <2>1. J[i] \in AskJobs /\ Ours(d, J[i]) /\ J[i].what # "execute"
      BY DEF AllOurs, NoWrite
    <2>2. J[i].gen < e.gen
      BY <1>0, <2>1 DEF Ours, AskJobs
    <2> QED
      BY <2>1, <2>2, Past
  <1>2. \A i \in DOMAIN A : Ours(e, A[i].job) /\ Replied(A[i])
    <2> TAKE i \in DOMAIN A
    <2>1. A[i] \in Replies
      OBVIOUS
    <2>2. A[i].job \in AskJobs /\ Ours(d, A[i].job) /\ A[i].job.what # "execute" /\ Replied(A[i])
      BY <2>1 DEF AllOurs, NoWrite, Replies
    <2>3. A[i].job.gen < e.gen
      BY <1>0, <2>2 DEF Ours, AskJobs
    <2> QED
      BY <2>2, <2>3, Past
  <1> QED
    BY <1>1, <1>2 DEF DialogKept, AllOurs, Waited

LEMMA CancelKeeps ==
  ASSUME DialogInv, Cancel
  PROVE  DialogInv'
  <1>1. /\ DialogTyped /\ DialogKept(dlg, jobs, answers) /\ AllTold(outcomes, answers) /\ AppliedIsShown
        /\ dlg.open /\ ~dlg.running
    BY DEF DialogInv, Cancel
  <1>2. PICK d \in Dialogs : d = dlg
    BY <1>1 DEF DialogTyped
  <1>3. PICK J \in Seq(AskJobs) : J = jobs
    BY <1>1 DEF DialogTyped
  <1>4. PICK A \in Seq(Replies) : A = answers
    BY <1>1 DEF DialogTyped
  <1>5. AllOurs(d, J, A) /\ Once(J, A) /\ Drawn(d)
    BY <1>1, <1>2, <1>3, <1>4 DEF DialogKept
  <1>6. PICK n \in Nat : n = d.gen + 1
    BY DEF Dialogs
  <1> DEFINE e == [d EXCEPT !.open = FALSE, !.gen = n]
  <1>7. dlg' = e /\ UNCHANGED <<content, jobs, answers, pressed, outcomes>>
    BY <1>2, <1>6 DEF Cancel, Same
  <1>8. /\ e \in Dialogs /\ e.kind = d.kind /\ ~e.open /\ e.gen = n /\ e.armed = d.armed
        /\ e.running = d.running /\ e.plan = d.plan /\ e.source = d.source /\ e.slot = d.slot
        /\ e.want = d.want /\ e.account = d.account /\ e.rows = d.rows /\ e.repair = d.repair
        /\ e.in = d.in /\ e.at = d.at /\ e.mark = d.mark /\ e.out = d.out /\ e.ticked = d.ticked
    BY DEF Dialogs
  <1> HIDE DEF e
  <1>9. Drawn(e)
    <2>1. Aligned(d) => Aligned(e)
      BY <1>8 DEF Aligned, Asked
    <2> QED
      BY <1>5, <1>8, <2>1 DEF Drawn, Moves
  <1>10. NoWrite(J, A)
    BY <1>1, <1>2, <1>5, NobodyWrites
  <1>11. DialogKept(e, J, A)
    BY <1>5, <1>6, <1>8, <1>9, <1>10, ClosesKept
  <1>12. DialogKept(dlg', jobs', answers')
    BY <1>3, <1>4, <1>7, <1>11
  <1>13. DialogTyped'
    BY <1>1, <1>7, <1>8 DEF DialogTyped
  <1>14. AllTold(outcomes, answers)' /\ AppliedIsShown'
    BY <1>1, <1>7 DEF AppliedIsShown
  <1> QED
    BY <1>12, <1>13, <1>14 DEF DialogInv

LEMMA ReplacedKeeps ==
  ASSUME DialogInv, Replaced
  PROVE  DialogInv'
  <1>1. dlg \in Dialogs /\ Drawn(dlg) /\ dlg.open
    BY DEF DialogInv, DialogTyped, DialogKept, Replaced
  <1>2. PICK d \in Dialogs : d = dlg
    BY <1>1
  <1> DEFINE e == [d EXCEPT !.open = FALSE]
  <1>3. dlg' = e /\ UNCHANGED <<content, jobs, answers, pressed, outcomes>>
    BY <1>2 DEF Replaced, Same
  <1>4. /\ e \in Dialogs /\ e.kind = d.kind /\ ~e.open /\ e.gen = d.gen /\ e.armed = d.armed
        /\ e.running = d.running /\ e.plan = d.plan /\ e.source = d.source /\ e.slot = d.slot
        /\ e.want = d.want /\ e.account = d.account /\ e.rows = d.rows /\ e.repair = d.repair
        /\ e.in = d.in /\ e.at = d.at /\ e.mark = d.mark /\ e.out = d.out /\ e.ticked = d.ticked
    BY DEF Dialogs
  <1> HIDE DEF e
  <1>5. Drawn(e)
    <2>1. Aligned(d) => Aligned(e)
      BY <1>4 DEF Aligned, Asked
    <2> QED
      BY <1>1, <1>2, <1>4, <2>1 DEF Drawn, Moves
  <1>6. Token(e) = Token(d)
    BY <1>4 DEF Token, Asked
  <1> QED
    BY <1>1, <1>2, <1>3, <1>4, <1>5, <1>6, StayingKeeps

-----------------------------------------------------------------------------
(* The worker.                                                              *)

LEMMA RanKeeps ==
  ASSUME DialogInv, jobs # <<>>, NEW a \in Replies, a.job = Head(jobs), Replied(a), Ran(a),
         content' \in [Targets -> Nat], outcomes' \in [written : Nat, told : Nat, offered : Nat],
         AllTold(outcomes', Append(answers, a))
  PROVE  DialogInv'
  <1>1. DialogTyped /\ DialogKept(dlg, jobs, answers) /\ AppliedIsShown
    BY DEF DialogInv
  <1>2. PICK d \in Dialogs : d = dlg
    BY <1>1 DEF DialogTyped
  <1>3. PICK J \in Seq(AskJobs) : J = jobs
    BY <1>1 DEF DialogTyped
  <1>4. PICK A \in Seq(Replies) : A = answers
    BY <1>1 DEF DialogTyped
  <1>5. DialogKept(d, Tail(J), Append(A, a)) /\ Tail(J) \in Seq(AskJobs) /\ Append(A, a) \in Seq(Replies)
    BY <1>1, <1>2, <1>3, <1>4, RunsKept
  <1>6. dlg' = d /\ jobs' = Tail(J) /\ answers' = Append(A, a) /\ pressed' = pressed
    BY <1>2, <1>3, <1>4 DEF Ran
  <1>7. DialogKept(dlg', jobs', answers') /\ DialogTyped'
    BY <1>5, <1>6 DEF DialogTyped
  <1>8. AllTold(outcomes, answers)'
    BY <1>4, <1>6
  <1>9. AppliedIsShown'
    BY <1>1, <1>6 DEF AppliedIsShown
  <1> QED
    BY <1>7, <1>8, <1>9 DEF DialogInv

\* What is at the head of the queue.
LEMMA HeadIsOurs ==
  ASSUME DialogInv, jobs # <<>>
  PROVE  /\ Head(jobs) \in AskJobs /\ Ours(dlg, Head(jobs)) /\ answers \in Seq(Replies)
         /\ content \in [Targets -> Nat] /\ outcomes \in [written : Nat, told : Nat, offered : Nat]
         /\ AllTold(outcomes, answers)
         /\ Head(jobs).what = "execute" => ~DoneWaits(answers)
  <1>1. DialogTyped /\ DialogKept(dlg, jobs, answers) /\ AllTold(outcomes, answers)
    BY DEF DialogInv
  <1>2. dlg \in Dialogs /\ jobs \in Seq(AskJobs) /\ answers \in Seq(Replies)
    BY <1>1 DEF DialogTyped
  <1>3. 1 \in DOMAIN jobs /\ Head(jobs) = jobs[1] /\ Head(jobs) \in AskJobs
    BY <1>2, FirstGone
  <1>4. Ours(dlg, Head(jobs))
    BY <1>1, <1>3 DEF DialogKept, AllOurs
  <1>5. Head(jobs).what = "execute" => ~DoneWaits(answers)
    BY <1>1, <1>2, OneWrite
  <1> QED
    BY <1>1, <1>2, <1>3, <1>4, <1>5 DEF DialogTyped

LEMMA AnswerFacts ==
  ASSUME NEW job \in AskJobs, NEW status \in {"done", "error", "damaged", "stale", "failed"},
         NEW rows \in Readout, NEW plan \in Plans
  PROVE  LET a == Answer(job, status, rows, plan)
         IN  a \in Replies /\ a.job = job /\ a.status = status /\ a.rows = rows /\ a.plan = plan
  BY DEF Answer, Replies

LEMMA NoRowsIsTyped == NoRows \in Readout
  BY DEF NoRows, Readout, Accts, Rows

LEMMA ReadingIsTyped ==
  ASSUME NEW account \in Accts, NEW rows \in Readings(account)
  PROVE  rows \in Readout /\ rows.account \in Accounts
  <1>1. PICK a \in (IF account = None THEN Accounts ELSE {account}), b \in Blocks :
               rows = [account |-> a, blocked |-> b, best |-> Max({None} \cup (SaveSlots \ b))]
    <2> DEFINE X == IF account = None THEN Accounts ELSE {account}
               ReadOf(a, b) == [account |-> a, blocked |-> b, best |-> Max({None} \cup (SaveSlots \ b))]
    <2>1. Readings(account) = {ReadOf(a, b) : a \in X, b \in Blocks}
      BY DEF Readings
    <2> HIDE DEF X, ReadOf
    <2>2. \E a \in X, b \in Blocks : rows = ReadOf(a, b)
      BY <2>1
    <2> QED
      BY <2>2 DEF X, ReadOf
  <1>2. a \in Accounts /\ b \in SUBSET SaveSlots
    BY DialogBounds DEF Accts
  <1>3. PICK m \in Rows : m = Max({None} \cup (SaveSlots \ b))
    BY <1>2, BestIsARow
  <1> QED
    BY <1>1, <1>2, <1>3 DEF Readout, Accts

LEMMA PlansForFacts ==
  ASSUME content \in [Targets -> Nat], NEW pair \in Ins, NEW target \in Targets, NEW p \in PlansFor(pair, target)
  PROVE  p \in Plans /\ p # NoPlan /\ p.pair = pair /\ p.target = target
  <1>1. PICK n \in Nat : n = content[target]
    OBVIOUS
  <1>2. PICK asks \in SUBSET {"box"}, blocked \in BOOLEAN :
          p = [pair |-> pair, target |-> target, was |-> n, asks |-> asks, blocked |-> blocked]
    <2>1. CASE p \in {PlanOf(pair, target, {}, blocked) : blocked \in BOOLEAN}
      BY <1>1, <2>1 DEF PlanOf
    <2>2. CASE p \in {PlanOf(pair, target, {"box"}, FALSE)}
      BY <1>1, <2>2 DEF PlanOf
    <2> QED
      BY <2>1, <2>2 DEF PlansFor
  <1>3. p.was = n /\ p.pair = pair /\ p.target = target
    BY <1>2
  <1>4. p # NoPlan
    BY <1>3, NoPlanIsTyped
  <1>5. p \in [pair : Ins, target : Targets, was : Nat, asks : SUBSET {"box"}, blocked : BOOLEAN]
    BY <1>2
  <1> QED
    BY <1>3, <1>4, <1>5 DEF Plans

LEMMA ReadSlotsKeeps ==
  ASSUME DialogInv, ReadSlots
  PROVE  DialogInv'
  <1>1. jobs # <<>> /\ Head(jobs).what = "read" /\ UNCHANGED <<content, outcomes>>
    BY DEF ReadSlots
  <1>2. PICK job \in AskJobs : job = Head(jobs)
    BY <1>1, HeadIsOurs
  <1>3. PICK rows \in Readout, status \in {"done", "error"} :
          /\ Ran(Answer(job, status, rows, NoPlan))
          /\ status = "done" => rows.account \in Accounts
    <2>1. CASE \E rows \in Readings(job.target[1]) : Ran(Answer(job, "done", rows, NoPlan))
      <3>1. job.target[1] \in Accts
        BY DEF AskJobs
      <3>2. PICK rows \in Readings(job.target[1]) : Ran(Answer(job, "done", rows, NoPlan))
        BY <2>1
      <3> QED
        BY <3>1, <3>2, ReadingIsTyped
    <2>2. CASE Ran(Answer(job, "error", NoRows, NoPlan))
      BY <2>2, NoRowsIsTyped
    <2> QED
      BY <1>2, <2>1, <2>2 DEF ReadSlots
  <1> DEFINE a == Answer(job, status, rows, NoPlan)
  <1>4. a \in Replies /\ a.job = job /\ a.status = status /\ a.rows = rows /\ a.plan = NoPlan
    BY NoPlanIsTyped, AnswerFacts
  <1> HIDE DEF a
  <1>5. Replied(a) /\ ~IsWrite(a)
    BY <1>1, <1>2, <1>3, <1>4 DEF Replied, IsWrite
  <1>6. AllTold(outcomes', Append(answers, a))
    <2>1. DoneWaits(Append(answers, a)) <=> DoneWaits(answers)
      BY <1>1, <1>4, <1>5, HeadIsOurs, OneMoreTold
    <2> QED
      BY <1>1, <2>1, HeadIsOurs DEF AllTold
  <1>7. Ran(a)
    BY <1>3 DEF a
  <1> QED
    BY <1>1, <1>2, <1>4, <1>5, <1>6, <1>7, HeadIsOurs, RanKeeps

LEMMA MakePlanKeeps ==
  ASSUME DialogInv, MakePlan
  PROVE  DialogInv'
  <1>1. jobs # <<>> /\ Head(jobs).what = "plan" /\ UNCHANGED <<content, outcomes>>
    BY DEF MakePlan
  <1>2. PICK job \in AskJobs : job = Head(jobs)
    BY <1>1, HeadIsOurs
  <1>3. PICK plan \in Plans, status \in {"done", "error", "damaged"} :
          /\ Ran(Answer(job, status, NoRows, plan))
          /\ status = "done" => plan # NoPlan
    <2>1. CASE \E plan \in PlansFor(job.pair, job.target) : Ran(Answer(job, "done", NoRows, plan))
      <3>1. job.pair \in Ins /\ job.target \in Targets /\ content \in [Targets -> Nat]
        BY <1>1, <1>2, HeadIsOurs DEF AskJobs, Ours
      <3>2. PICK plan \in PlansFor(job.pair, job.target) : Ran(Answer(job, "done", NoRows, plan))
        BY <2>1
      <3>3. plan \in Plans /\ plan # NoPlan
        BY <3>1, <3>2, PlansForFacts
      <3> QED
        BY <3>2, <3>3
    <2>2. CASE \E status \in {"error", "damaged"} : Ran(Answer(job, status, NoRows, NoPlan))
      <3>1. PICK status \in {"error", "damaged"} : Ran(Answer(job, status, NoRows, NoPlan))
        BY <2>2
      <3> QED
        BY <3>1, NoPlanIsTyped
    <2> QED
      BY <1>2, <2>1, <2>2 DEF MakePlan
  <1> DEFINE a == Answer(job, status, NoRows, plan)
  <1>4. a \in Replies /\ a.job = job /\ a.status = status /\ a.rows = NoRows /\ a.plan = plan
    BY NoRowsIsTyped, AnswerFacts
  <1> HIDE DEF a
  <1>5. Replied(a) /\ ~IsWrite(a)
    BY <1>1, <1>2, <1>3, <1>4 DEF Replied, IsWrite
  <1>6. AllTold(outcomes', Append(answers, a))
    <2>1. DoneWaits(Append(answers, a)) <=> DoneWaits(answers)
      BY <1>1, <1>4, <1>5, HeadIsOurs, OneMoreTold
    <2> QED
      BY <1>1, <2>1, HeadIsOurs DEF AllTold
  <1>7. Ran(a)
    BY <1>3 DEF a
  <1> QED
    BY <1>1, <1>2, <1>4, <1>5, <1>6, <1>7, HeadIsOurs, RanKeeps

LEMMA ExecuteKeeps ==
  ASSUME DialogInv, Execute
  PROVE  DialogInv'
  <1>1. jobs # <<>> /\ Head(jobs).what = "execute"
    BY DEF Execute
  <1>2. PICK job \in AskJobs : job = Head(jobs)
    BY <1>1, HeadIsOurs
  <1>3. /\ job.what = "execute" /\ job.target = job.plan.target /\ job.plan \in Plans
        /\ answers \in Seq(Replies) /\ content \in [Targets -> Nat]
        /\ outcomes \in [written : Nat, told : Nat, offered : Nat] /\ AllTold(outcomes, answers)
        /\ ~DoneWaits(answers)
    BY <1>1, <1>2, HeadIsOurs DEF Ours, AskJobs
  <1>4. job.plan # NoPlan => job.target \in Targets /\ job.plan.pair \in Ins
    BY <1>3, PlanIsTyped
  <1>5. ASSUME NEW status \in {"done", "error", "stale", "failed"}, NEW plan \in Plans,
               Ran(Answer(job, status, NoRows, plan)),
               plan # NoPlan => plan.pair = job.plan.pair /\ plan.target = job.plan.target,
               content' \in [Targets -> Nat],
               outcomes' = (IF status = "done" THEN [outcomes EXCEPT !.written = @ + 1] ELSE outcomes)
        PROVE  DialogInv'
    <2> DEFINE a == Answer(job, status, NoRows, plan)
    <2>1. a \in Replies /\ a.job = job /\ a.status = status /\ a.rows = NoRows /\ a.plan = plan
      BY NoRowsIsTyped, AnswerFacts
    <2>2. Ran(a)
      BY <1>5
    <2> HIDE DEF a
    <2>3. Replied(a) /\ (IsWrite(a) <=> status = "done")
      BY <1>3, <1>5, <2>1 DEF Replied, IsWrite
    <2>4. /\ outcomes' \in [written : Nat, told : Nat, offered : Nat]
          /\ outcomes'.told = outcomes.told
          /\ outcomes'.written = outcomes.written + (IF status = "done" THEN 1 ELSE 0)
      <3>1. CASE status = "done"
        <4>1. outcomes' = [outcomes EXCEPT !.written = @ + 1]
          BY <1>5, <3>1
        <4>2. outcomes.written + 1 \in Nat
          BY <1>3
        <4> QED
          BY <1>3, <3>1, <4>1, <4>2
      <3>2. CASE status # "done"
        <4>1. outcomes' = outcomes /\ outcomes.written \in Nat
          BY <1>3, <1>5, <3>2
        <4> QED
          BY <1>3, <3>2, <4>1
      <3> QED
        BY <3>1, <3>2
    <2>5. AllTold(outcomes', Append(answers, a))
      <3>1. DoneWaits(Append(answers, a)) <=> status = "done"
        BY <1>3, <2>1, <2>3, OneMoreTold
      <3>2. outcomes.written = outcomes.told /\ outcomes.told \in Nat
        BY <1>3 DEF AllTold
      <3> QED
        BY <2>4, <3>1, <3>2 DEF AllTold
    <2> QED
      BY <1>1, <1>2, <1>5, <2>1, <2>2, <2>3, <2>4, <2>5, RanKeeps
  <1> DEFINE stale == job.plan # NoPlan /\ content[job.target] # job.plan.was
  <1>6. CASE /\ stale
             /\ \E plan \in {NoPlan} \cup PlansFor(job.plan.pair, job.target) :
                  Ran(Answer(job, "stale", NoRows, plan))
             /\ UNCHANGED <<content, outcomes>>
    <2>1. PICK plan \in {NoPlan} \cup PlansFor(job.plan.pair, job.target) :
                  Ran(Answer(job, "stale", NoRows, plan))
      BY <1>6
    <2>2. plan \in Plans /\ (plan # NoPlan => plan.pair = job.plan.pair /\ plan.target = job.plan.target)
      <3>1. CASE plan = NoPlan
        BY <3>1, NoPlanIsTyped
      <3>2. CASE plan # NoPlan
        <4>1. plan \in PlansFor(job.plan.pair, job.target) /\ job.target \in Targets /\ job.plan.pair \in Ins
          BY <1>4, <1>6, <2>1, <3>2
        <4>2. plan \in Plans /\ plan.pair = job.plan.pair /\ plan.target = job.target
          BY <1>3, <4>1, PlansForFacts
        <4> QED
          BY <1>3, <4>2
      <3> QED
        BY <3>1, <3>2
    <2>3. content' \in [Targets -> Nat] /\ outcomes' = outcomes
      BY <1>3, <1>6
    <2> QED
      BY <1>5, <2>1, <2>2, <2>3
  <1>7. CASE /\ ~stale
             /\ content' = IF job.plan = NoPlan THEN content
                           ELSE [content EXCEPT ![job.target] = @ + 1]
             /\ outcomes' = [outcomes EXCEPT !.written = @ + 1]
             /\ Ran(Answer(job, "done", NoRows, NoPlan))
    <2>1. content' \in [Targets -> Nat]
      <3>1. CASE job.plan = NoPlan
        BY <1>3, <1>7, <3>1
      <3>2. CASE job.plan # NoPlan
        <4>1. content[job.target] + 1 \in Nat
          BY <1>3, <1>4, <3>2
        <4> QED
          BY <1>3, <1>7, <3>2, <4>1
      <3> QED
        BY <3>1, <3>2
    <2> QED
      BY <1>5, <1>7, <2>1, NoPlanIsTyped
  <1>8. CASE /\ \E status \in {"failed", "error"} : Ran(Answer(job, status, NoRows, NoPlan))
             /\ UNCHANGED <<content, outcomes>>
    <2>1. PICK status \in {"failed", "error"} : Ran(Answer(job, status, NoRows, NoPlan))
      BY <1>8
    <2>2. content' \in [Targets -> Nat] /\ outcomes' = outcomes
      BY <1>3, <1>8
    <2> QED
      BY <1>5, <2>1, <2>2, NoPlanIsTyped
  <1> QED
    BY <1>2, <1>6, <1>7, <1>8 DEF Execute

LEMMA OutsideKeeps ==
  ASSUME DialogInv, Outside
  PROVE  DialogInv'
  <1>1. UNCHANGED <<dlg, jobs, answers, pressed, outcomes>> /\ content \in [Targets -> Nat]
    BY DEF Outside, DialogInv, DialogTyped
  <1>2. content' \in [Targets -> Nat]
    <2>1. PICK t \in Targets : content' = [content EXCEPT ![t] = @ + 1]
      BY DEF Outside
    <2>2. content[t] + 1 \in Nat
      BY <1>1
    <2> QED
      BY <1>1, <2>1, <2>2
  <1>3. DialogTyped' /\ AppliedIsShown'
    BY <1>1, <1>2 DEF DialogInv, DialogTyped, AppliedIsShown
  <1>4. DialogKept(dlg', jobs', answers') /\ AllTold(outcomes', answers')
    BY <1>1 DEF DialogInv
  <1> QED
    BY <1>3, <1>4 DEF DialogInv

-----------------------------------------------------------------------------
(* Delivery.                                                                *)

LEMMA DeliveryKeeps ==
  ASSUME DialogInv, Delivered, NEW e \in Dialogs, NEW K \in Seq(AskJobs), DialogKept(e, K, Tail(answers)),
         dlg' = e, jobs' = K,
         outcomes' \in [written : Nat, told : Nat, offered : Nat], AllTold(outcomes', Tail(answers))
  PROVE  DialogInv'
  <1>1. DialogTyped /\ AppliedIsShown /\ answers # <<>>
    BY DEF DialogInv, Delivered
  <1>2. answers' = Tail(answers) /\ UNCHANGED <<content, pressed>>
    BY DEF Delivered
  <1>3. Tail(answers) \in Seq(Replies)
    BY <1>1, FirstGone DEF DialogTyped
  <1>4. DialogTyped'
    BY <1>1, <1>2, <1>3 DEF DialogTyped
  <1>5. DialogKept(dlg', jobs', answers') /\ AllTold(outcomes', answers')
    BY <1>2
  <1>6. AppliedIsShown'
    BY <1>1, <1>2 DEF AppliedIsShown
  <1> QED
    BY <1>4, <1>5, <1>6 DEF DialogInv

\* What is known of the answer that is delivered.
LEMMA AnswerIsOurs ==
  ASSUME DialogInv, Delivered
  PROVE  \E d \in Dialogs, J \in Seq(AskJobs), A \in Seq(Replies), a \in Replies :
           /\ d = dlg /\ J = jobs /\ A = answers /\ a = Head(answers)
           /\ Drawn(d) /\ AllOurs(d, J, Tail(A)) /\ Once(J, Tail(A)) /\ Tail(A) \in Seq(Replies)
           /\ Ours(d, a.job) /\ Replied(a) /\ (d.open /\ d.running => d.busy)
           /\ a.job.gen = d.gen => NoneOf(d.gen, J, Tail(A))
           /\ ~(d.open /\ a.job.gen = d.gen) => DialogKept(d, J, Tail(A))
           /\ outcomes \in [written : Nat, told : Nat, offered : Nat]
           /\ outcomes.written = outcomes.told + (IF DoneWaits(Tail(A)) \/ IsWrite(a) THEN 1 ELSE 0)
  <1>1. DialogTyped /\ DialogKept(dlg, jobs, answers) /\ AllTold(outcomes, answers) /\ answers # <<>>
    BY DEF DialogInv, Delivered
  <1>2. PICK d \in Dialogs : d = dlg
    BY <1>1 DEF DialogTyped
  <1>3. PICK J \in Seq(AskJobs) : J = jobs
    BY <1>1 DEF DialogTyped
  <1>4. PICK A \in Seq(Replies) : A = answers
    BY <1>1 DEF DialogTyped
  <1>5. DialogKept(d, J, A) /\ A # <<>>
    BY <1>1, <1>2, <1>3, <1>4
  <1>6. /\ AllOurs(d, J, Tail(A)) /\ Once(J, Tail(A)) /\ Tail(A) \in Seq(Replies)
        /\ Head(A) \in Replies /\ Ours(d, Head(A).job) /\ Replied(Head(A))
        /\ Head(A).job.gen = d.gen => NoneOf(d.gen, J, Tail(A))
        /\ ~(d.open /\ Head(A).job.gen = d.gen) => DialogKept(d, J, Tail(A))
    BY <1>5, DeliveredFacts
  <1>7. Drawn(d) /\ (d.open /\ d.running => d.busy)
    BY <1>5 DEF DialogKept, AllOurs
  <1>8. outcomes.written = outcomes.told + (IF DoneWaits(Tail(A)) \/ IsWrite(Head(A)) THEN 1 ELSE 0)
    <2>1. DoneWaits(A) <=> DoneWaits(Tail(A)) \/ IsWrite(Head(A))
      BY <1>5, OneLessTold
    <2> QED
      BY <1>1, <1>4, <2>1 DEF AllTold
  <1>9. outcomes \in [written : Nat, told : Nat, offered : Nat]
    BY <1>1 DEF DialogTyped
  <1> QED
    BY <1>2, <1>3, <1>4, <1>6, <1>7, <1>8, <1>9

LEMMA ReadDeliveredKeeps ==
  ASSUME DialogInv, ReadDelivered
  PROVE  DialogInv'
  <1>1. Delivered /\ Head(answers).job.what = "read" /\ outcomes' = outcomes
    BY DEF ReadDelivered
  <1>2. PICK d \in Dialogs, J \in Seq(AskJobs), A \in Seq(Replies), a \in Replies :
           /\ d = dlg /\ J = jobs /\ A = answers /\ a = Head(answers)
           /\ Drawn(d) /\ AllOurs(d, J, Tail(A)) /\ Once(J, Tail(A)) /\ Tail(A) \in Seq(Replies)
           /\ Ours(d, a.job) /\ Replied(a) /\ (d.open /\ d.running => d.busy)
           /\ a.job.gen = d.gen => NoneOf(d.gen, J, Tail(A))
           /\ ~(d.open /\ a.job.gen = d.gen) => DialogKept(d, J, Tail(A))
           /\ outcomes \in [written : Nat, told : Nat, offered : Nat]
           /\ outcomes.written = outcomes.told + (IF DoneWaits(Tail(A)) \/ IsWrite(a) THEN 1 ELSE 0)
    BY <1>1, AnswerIsOurs
  <1>3. PICK T \in Seq(Replies) : T = Tail(A)
    BY <1>2
  <1>4. a.job.what = "read" /\ a.rows \in Readout /\ d.gen \in Nat
    BY <1>1, <1>2 DEF Replies, Dialogs
  <1>5. outcomes' \in [written : Nat, told : Nat, offered : Nat] /\ AllTold(outcomes', Tail(answers))
    BY <1>1, <1>2, <1>4 DEF AllTold, IsWrite
  <1>6. /\ dlg' = (IF ~(d.open /\ a.job.gen = d.gen) THEN d
                   ELSE IF a.status = "error" THEN PlanFailed(d, FALSE) ELSE PickedUp(d, a.rows))
        /\ jobs' = (IF dlg'.gen > d.gen THEN Append(J, PlanJob(dlg')) ELSE J)
    BY <1>2 DEF ReadDelivered, ForDialog
  <1>7. CASE ~(d.open /\ a.job.gen = d.gen)
    <2>1. dlg' = d
      BY <1>6, <1>7
    <2>2. jobs' = J
      <3>1. PICK g \in Nat : g = dlg'.gen /\ g = d.gen
        BY <1>4, <2>1
      <3>2. ~(dlg'.gen > d.gen)
        BY <3>1
      <3> QED
        BY <1>6, <3>2
    <2> QED
      BY <1>1, <1>2, <1>5, <1>7, <2>1, <2>2, DeliveryKeeps
  <1>8. CASE d.open /\ a.job.gen = d.gen
    <2>1. ~d.running /\ Moves(d) /\ d.kind # "plan"
      BY <1>2, <1>4, <1>8 DEF Ours, Moves, Dialogs
    <2>2. NoneOf(d.gen, J, T) /\ NoWrite(J, T) /\ AllOurs(d, J, T) /\ Once(J, T)
      BY <1>2, <1>3, <1>8, <2>1, NobodyWrites
    <2>3. CASE a.status = "error"
      <3>1. PICK e : e = PlanFailed(d, FALSE)
        OBVIOUS
      <3>2. /\ e \in Dialogs /\ Drawn(e) /\ e.kind = d.kind /\ e.open = d.open /\ e.running = d.running
            /\ e.gen = d.gen /\ ~e.busy
        BY <1>2, <2>1, <3>1, PlanFailedFacts
      <3>3. dlg' = e
        BY <1>6, <1>8, <2>3, <3>1
      <3>4. jobs' = J
        <4>1. PICK g \in Nat : g = dlg'.gen /\ g = d.gen
          BY <1>4, <3>2, <3>3
        <4>2. ~(dlg'.gen > d.gen)
          BY <4>1
        <4> QED
          BY <1>6, <4>2
      <3>5. DialogKept(e, J, T)
        BY <2>1, <2>2, <3>2, RestsKept
      <3> QED
        BY <1>1, <1>2, <1>3, <1>5, <3>2, <3>3, <3>4, <3>5, DeliveryKeeps
    <2>4. CASE a.status # "error"
      <3>1. PICK e : e = PickedUp(d, a.rows)
        OBVIOUS
      <3>2. a.rows.account \in Accounts
        BY <1>2, <1>4, <2>4 DEF Replied
      <3>3. /\ e \in Dialogs /\ Drawn(e) /\ e.kind = d.kind /\ e.open = d.open /\ e.running = d.running
            /\ \/ e.gen = d.gen /\ ~e.busy
               \/ e.gen = d.gen + 1 /\ e.busy /\ <<e.rows.account, e.slot>> \in Targets
        BY <1>2, <1>4, <2>1, <3>1, <3>2, PickedUpFacts
      <3>4. dlg' = e
        BY <1>6, <1>8, <2>4, <3>1
      <3>5. CASE e.gen = d.gen /\ ~e.busy
        <4>1. jobs' = J
          <5>1. PICK g \in Nat : g = dlg'.gen /\ g = d.gen
            BY <1>4, <3>4, <3>5
          <5>2. ~(dlg'.gen > d.gen)
            BY <5>1
          <5> QED
            BY <1>6, <5>2
        <4>2. DialogKept(e, J, T)
          BY <2>1, <2>2, <3>3, <3>5, RestsKept
        <4> QED
          BY <1>1, <1>2, <1>3, <1>5, <3>3, <3>4, <4>1, <4>2, DeliveryKeeps
      <3>6. CASE e.gen = d.gen + 1 /\ e.busy /\ <<e.rows.account, e.slot>> \in Targets
        <4>1. PICK job : job = PlanJob(e)
          OBVIOUS
        <4>2. jobs' = Append(J, job)
          <5>1. e.gen > d.gen
            BY <1>4, <3>6
          <5> QED
            BY <1>6, <3>4, <4>1, <5>1
        <4>3. job \in AskJobs /\ job.gen = e.gen /\ Ours(e, job)
          BY <2>1, <3>3, <3>6, <4>1, PlanJobFacts
        <4>4. DialogKept(e, Append(J, job), T) /\ Append(J, job) \in Seq(AskJobs)
          BY <2>1, <2>2, <3>3, <3>6, <4>3, SubmitsKept
        <4> QED
          BY <1>1, <1>2, <1>3, <1>5, <3>3, <3>4, <4>2, <4>4, DeliveryKeeps
      <3> QED
        BY <3>3, <3>5, <3>6
    <2> QED
      BY <2>3, <2>4
  <1> QED
    BY <1>7, <1>8

LEMMA PlanDeliveredKeeps ==
  ASSUME DialogInv, PlanDelivered
  PROVE  DialogInv'
  <1>1. Delivered /\ Head(answers).job.what = "plan" /\ outcomes' = outcomes /\ jobs' = jobs
    BY DEF PlanDelivered
  <1>2. PICK d \in Dialogs, J \in Seq(AskJobs), A \in Seq(Replies), a \in Replies :
           /\ d = dlg /\ J = jobs /\ A = answers /\ a = Head(answers)
           /\ Drawn(d) /\ AllOurs(d, J, Tail(A)) /\ Once(J, Tail(A)) /\ Tail(A) \in Seq(Replies)
           /\ Ours(d, a.job) /\ Replied(a) /\ (d.open /\ d.running => d.busy)
           /\ a.job.gen = d.gen => NoneOf(d.gen, J, Tail(A))
           /\ ~(d.open /\ a.job.gen = d.gen) => DialogKept(d, J, Tail(A))
           /\ outcomes \in [written : Nat, told : Nat, offered : Nat]
           /\ outcomes.written = outcomes.told + (IF DoneWaits(Tail(A)) \/ IsWrite(a) THEN 1 ELSE 0)
    BY <1>1, AnswerIsOurs
  <1>3. PICK T \in Seq(Replies) : T = Tail(A)
    BY <1>2
  <1>4. a.job.what = "plan" /\ a.plan \in Plans
    BY <1>1, <1>2 DEF Replies
  <1>5. outcomes' \in [written : Nat, told : Nat, offered : Nat] /\ AllTold(outcomes', Tail(answers))
    BY <1>1, <1>2, <1>4 DEF AllTold, IsWrite
  <1>6. dlg' = CASE ~(d.open /\ a.job.gen = d.gen) -> d
                 [] (d.open /\ a.job.gen = d.gen) /\ a.status = "done" -> Planned(d, a.job.token, a.plan)
                 [] OTHER -> PlanFailed(d, a.status = "damaged")
    BY <1>2 DEF PlanDelivered, ForDialog
  <1>7. CASE ~(d.open /\ a.job.gen = d.gen)
    <2>1. dlg' = d
      BY <1>6, <1>7
    <2> QED
      BY <1>1, <1>2, <1>5, <1>7, <2>1, DeliveryKeeps
  <1>8. CASE d.open /\ a.job.gen = d.gen
    <2>1. ~d.running /\ d.kind # "plan"
      BY <1>2, <1>4, <1>8 DEF Ours
    <2>2. NoneOf(d.gen, J, T) /\ AllOurs(d, J, T) /\ Once(J, T)
      BY <1>2, <1>3, <1>8
    <2>3. PICK e : e = (IF a.status = "done" THEN Planned(d, a.job.token, a.plan)
                        ELSE PlanFailed(d, a.status = "damaged"))
      OBVIOUS
    <2>4. dlg' = e
      BY <1>6, <1>8, <2>3
    <2>5. /\ e \in Dialogs /\ Drawn(e) /\ e.kind = d.kind /\ e.open = d.open /\ e.running = d.running
          /\ e.gen = d.gen /\ ~e.busy
      <3>1. CASE a.status = "done"
        <4>1. a.plan # NoPlan
          BY <1>2, <1>4, <3>1 DEF Replied
        <4>2. Moves(d) => a.job.token = Token(d)
          BY <1>2, <1>4, <1>8 DEF Ours
        <4>3. e = Rendered([d EXCEPT !.busy = FALSE], a.plan)
          BY <2>3, <3>1, <4>2 DEF Planned
        <4> QED
          BY <1>2, <1>4, <2>1, <4>1, <4>3, PlanDrawn
      <3>2. CASE a.status # "done"
        <4>1. PICK damaged \in BOOLEAN : damaged = (a.status = "damaged")
          OBVIOUS
        <4>2. e = PlanFailed(d, damaged)
          BY <2>3, <3>2, <4>1
        <4> QED
          BY <1>2, <2>1, <4>2, PlanFailedFacts
      <3> QED
        BY <3>1, <3>2
    <2>6. DialogKept(e, J, T)
      BY <2>1, <2>2, <2>5, RestsKept
    <2> QED
      BY <1>1, <1>2, <1>3, <1>5, <2>4, <2>5, <2>6, DeliveryKeeps
  <1> QED
    BY <1>7, <1>8

LEMMA StoppedFacts ==
  ASSUME NEW d \in Dialogs
  PROVE  /\ Stopped(d) \in Dialogs /\ Stopped(d).running = FALSE
         /\ Stopped(d).kind = d.kind /\ Stopped(d).open = d.open /\ Stopped(d).source = d.source
         /\ Stopped(d).want = d.want /\ Stopped(d).account = d.account /\ Stopped(d).slot = d.slot
         /\ Stopped(d).rows = d.rows /\ Stopped(d).gen = d.gen /\ Stopped(d).repair = d.repair
         /\ Stopped(d).in = d.in /\ Stopped(d).at = d.at /\ Stopped(d).mark = d.mark
         /\ Stopped(d).out = d.out /\ Stopped(d).plan = d.plan /\ Stopped(d).ticked = d.ticked
         /\ Stopped(d).armed = d.armed /\ Stopped(d).busy = d.busy
         /\ Drawn(d) => Drawn(Stopped(d))
  <1> DEFINE e == [d EXCEPT !.running = FALSE]
  <1>1. e = Stopped(d)
    BY DEF Stopped
  <1>2. /\ e \in Dialogs /\ e.running = FALSE
        /\ e.kind = d.kind /\ e.open = d.open /\ e.source = d.source
        /\ e.want = d.want /\ e.account = d.account /\ e.slot = d.slot
        /\ e.rows = d.rows /\ e.gen = d.gen /\ e.repair = d.repair
        /\ e.in = d.in /\ e.at = d.at /\ e.mark = d.mark
        /\ e.out = d.out /\ e.plan = d.plan /\ e.ticked = d.ticked
        /\ e.armed = d.armed /\ e.busy = d.busy
    BY DEF Dialogs
  <1> HIDE DEF e
  <1>3. Aligned(d) => Aligned(e)
    BY <1>2 DEF Aligned, Asked
  <1>4. Drawn(d) => Drawn(e)
    BY <1>2, <1>3 DEF Drawn, Moves
  <1> QED
    BY <1>1, <1>2, <1>4

\* A stale plan: the slots are read again.
LEMMA ReadAgainFacts ==
  ASSUME NEW d \in Dialogs, Drawn(d), Moves(d), NEW plan \in Plans
  PROVE  LET f == IF plan # NoPlan THEN Rendered(Stopped(d), plan) ELSE Stopped(d)
             e == Loading(f, Asked(d), plan # NoPlan)
         IN  e \in Dialogs /\ Drawn(e) /\ e.kind = d.kind /\ ~e.running /\ e.gen = d.gen + 1 /\ e.busy
  <1> DEFINE g == Stopped(d)
             f == IF plan # NoPlan THEN Rendered(g, plan) ELSE g
             e == Loading(f, Asked(d), plan # NoPlan)
  <1>1. /\ g \in Dialogs /\ g.running = FALSE
        /\ g.kind = d.kind /\ g.open = d.open /\ g.source = d.source
        /\ g.want = d.want /\ g.account = d.account /\ g.slot = d.slot
        /\ g.rows = d.rows /\ g.gen = d.gen /\ g.repair = d.repair
        /\ g.in = d.in /\ g.at = d.at /\ g.mark = d.mark /\ g.out = d.out
    BY StoppedFacts
  <1> HIDE DEF g
  <1>2. f \in Dialogs /\ Alike2(g, f)
    <2>1. CASE plan # NoPlan
      BY <1>1, <2>1, RenderedFacts
    <2>2. CASE plan = NoPlan
      BY <1>1, <2>2 DEF Alike2
    <2> QED
      BY <2>1, <2>2
  <1> HIDE DEF f
  <1>3. Asked(d) \in Accts /\ (plan # NoPlan) \in BOOLEAN
    BY DEF Asked, Dialogs
  <1>4. /\ e \in Dialogs /\ e.gen = f.gen + 1 /\ e.busy = TRUE /\ e.armed = FALSE
        /\ e.want = (IF Asked(d) = None THEN f.want ELSE Asked(d))
        /\ e.kind = f.kind /\ e.source = f.source /\ e.account = f.account /\ e.slot = f.slot
        /\ e.rows = f.rows /\ e.running = f.running /\ e.repair = f.repair
        /\ e.in = f.in /\ e.at = f.at /\ e.mark = f.mark /\ e.out = f.out
    <2>1. PICK k \in Accts : k = Asked(d)
      BY <1>3
    <2>2. PICK keep \in BOOLEAN : keep = (plan # NoPlan)
      BY <1>3
    <2>3. e = Loading(f, k, keep)
      BY <2>1, <2>2
    <2> HIDE DEF e
    <2>4. f \in Dialogs
      BY <1>2
    <2>5. IsLoading(f, k, e)
      BY <2>3, <2>4, LoadingFacts
    <2> QED
      BY <2>1, <2>5 DEF IsLoading
  <1> HIDE DEF e
  <1>5. /\ e.kind = d.kind /\ e.source = d.source /\ e.account = d.account /\ e.slot = d.slot
        /\ e.rows = d.rows /\ e.running = FALSE /\ e.repair = d.repair
        /\ e.in = d.in /\ e.at = d.at /\ e.mark = d.mark /\ e.out = d.out /\ e.gen = d.gen + 1
        /\ e.want = (IF Asked(d) = None THEN d.want ELSE Asked(d))
    BY <1>1, <1>2, <1>4 DEF Alike2
  <1>6. Asked(e) = Asked(d)
    BY <1>5 DEF Asked
  <1>7. Aligned(d) /\ ~d.repair /\ (d.rows # NoRows => d.rows.account \in Accounts)
    BY DrawnIsSane
  <1>8. Aligned(e) /\ Sane(e) /\ Moves(e)
    BY <1>4, <1>5, <1>6, <1>7 DEF Aligned, Sane, Moves
  <1>9. Drawn(e)
    BY <1>4, <1>5, <1>7, <1>8, DrawnMoves
  <1> QED
    BY <1>4, <1>5, <1>9 DEF e, f, g

LEMMA ExecutedKeeps ==
  ASSUME DialogInv, Executed
  PROVE  DialogInv'
  <1>1. Delivered /\ Head(answers).job.what = "execute"
    BY DEF Executed
  <1>2. PICK d \in Dialogs, J \in Seq(AskJobs), A \in Seq(Replies), a \in Replies :
           /\ d = dlg /\ J = jobs /\ A = answers /\ a = Head(answers)
           /\ Drawn(d) /\ AllOurs(d, J, Tail(A)) /\ Once(J, Tail(A)) /\ Tail(A) \in Seq(Replies)
           /\ Ours(d, a.job) /\ Replied(a) /\ (d.open /\ d.running => d.busy)
           /\ a.job.gen = d.gen => NoneOf(d.gen, J, Tail(A))
           /\ ~(d.open /\ a.job.gen = d.gen) => DialogKept(d, J, Tail(A))
           /\ outcomes \in [written : Nat, told : Nat, offered : Nat]
           /\ outcomes.written = outcomes.told + (IF DoneWaits(Tail(A)) \/ IsWrite(a) THEN 1 ELSE 0)
    BY <1>1, AnswerIsOurs
  <1>3. PICK T \in Seq(Replies) : T = Tail(A)
    BY <1>2
  <1>4. a.job.what = "execute" /\ a.job.gen = d.gen /\ (d.open => d.running) /\ a.plan \in Plans
    BY <1>1, <1>2 DEF Ours, Replies
  <1>5. NoneOf(d.gen, J, T) /\ AllOurs(d, J, T) /\ Once(J, T)
    BY <1>2, <1>3, <1>4
  <1>6. NoWrite(J, T) /\ ~DoneWaits(T)
    BY <1>5, NobodyWrites, NoWriteNoneTold
  <1>7. outcomes.written = outcomes.told + (IF a.status = "done" THEN 1 ELSE 0)
    BY <1>2, <1>3, <1>4, <1>6 DEF IsWrite
  <1>8. ASSUME outcomes' = Told(a.status) \/ (a.status # "done" /\ outcomes' = outcomes)
        PROVE  outcomes' \in [written : Nat, told : Nat, offered : Nat] /\ AllTold(outcomes', Tail(answers))
    <2>1. outcomes.written \in Nat /\ outcomes.told \in Nat /\ outcomes.offered \in Nat
      BY <1>2
    <2>2. outcomes' \in [written : Nat, told : Nat, offered : Nat] /\ outcomes'.written = outcomes'.told
      <3>1. CASE a.status = "done"
        <4>1. outcomes' = [outcomes EXCEPT !.told = outcomes.told + 1]
          BY <1>2, <1>8, <3>1 DEF Told
        <4>2. outcomes.told + 1 \in Nat /\ outcomes.written = outcomes.told + 1
          BY <1>7, <2>1, <3>1
        <4> QED
          BY <1>2, <4>1, <4>2
      <3>2. CASE a.status # "done"
        <4>0. outcomes.written = outcomes.told
          BY <1>7, <2>1, <3>2
        <4>1. CASE outcomes' = outcomes
          BY <1>2, <4>0, <4>1
        <4>2. CASE outcomes' = Told(a.status)
          <5>1. PICK m \in Nat : outcomes' = [outcomes EXCEPT !.told = outcomes.told, !.offered = m]
            <6>1. CASE a.status = "failed"
              <7>1. outcomes' = [outcomes EXCEPT !.told = outcomes.told, !.offered = outcomes.offered + 1]
                BY <3>2, <4>2, <6>1 DEF Told
              <7>2. outcomes.offered + 1 \in Nat
                BY <2>1
              <7> WITNESS outcomes.offered + 1 \in Nat
              <7> QED
                BY <7>1
            <6>2. CASE a.status # "failed"
              BY <2>1, <3>2, <4>2, <6>2 DEF Told
            <6> QED
              BY <6>1, <6>2
          <5> QED
            BY <1>2, <2>1, <4>0, <5>1
        <4> QED
          BY <1>8, <4>1, <4>2
      <3> QED
        BY <3>1, <3>2
    <2> QED
      BY <1>2, <1>3, <1>6, <2>1, <2>2 DEF AllTold
  <1>9. CASE ~dlg.open /\ AfterClose(a) /\ UNCHANGED <<dlg, jobs>>
    <2>1. dlg' = d /\ jobs' = J /\ DialogKept(d, J, T)
      BY <1>2, <1>3, <1>9
    <2>2. outcomes' \in [written : Nat, told : Nat, offered : Nat] /\ AllTold(outcomes', Tail(answers))
      BY <1>8, <1>9 DEF AfterClose
    <2> QED
      BY <1>1, <1>2, <1>3, <2>1, <2>2, DeliveryKeeps
  <1>10. CASE /\ dlg.open /\ a.status = "done"
              /\ outcomes' = Told("done") /\ dlg' = [Stopped(dlg) EXCEPT !.open = FALSE]
              /\ UNCHANGED jobs
    <2> DEFINE g == Stopped(d)
               e == [g EXCEPT !.open = FALSE]
    <2>1. dlg' = e /\ jobs' = J
      BY <1>2, <1>10
    <2>2. /\ g \in Dialogs /\ Drawn(g) /\ g.kind = d.kind /\ g.gen = d.gen
      BY <1>2, StoppedFacts
    <2> HIDE DEF g
    <2>3. /\ e \in Dialogs /\ ~e.open /\ e.kind = g.kind /\ e.gen = g.gen /\ e.armed = g.armed
          /\ e.running = g.running /\ e.plan = g.plan /\ e.source = g.source /\ e.slot = g.slot
          /\ e.want = g.want /\ e.account = g.account /\ e.rows = g.rows /\ e.repair = g.repair
          /\ e.in = g.in /\ e.at = g.at /\ e.mark = g.mark /\ e.out = g.out /\ e.ticked = g.ticked
      BY <2>2 DEF Dialogs
    <2> HIDE DEF e
    <2>4. Aligned(g) => Aligned(e)
      BY <2>3 DEF Aligned, Asked
    <2>5. Drawn(e)
      BY <2>2, <2>3, <2>4 DEF Drawn, Moves
    <2>6. DialogKept(e, J, T)
      BY <1>5, <2>2, <2>3, <2>5, RestsKept
    <2>7. outcomes' \in [written : Nat, told : Nat, offered : Nat] /\ AllTold(outcomes', Tail(answers))
      BY <1>8, <1>10
    <2> QED
      BY <1>1, <1>2, <1>3, <2>1, <2>3, <2>6, <2>7, DeliveryKeeps
  <1>11. CASE /\ dlg.open /\ a.status = "stale" /\ Moves(dlg)
              /\ dlg' = Loading(IF a.plan # NoPlan THEN Rendered(Stopped(dlg), a.plan) ELSE Stopped(dlg),
                                Asked(dlg), a.plan # NoPlan)
              /\ jobs' = Append(jobs, ReadJob(dlg', Asked(dlg))) /\ UNCHANGED outcomes
    <2>1. PICK e : e = Loading(IF a.plan # NoPlan THEN Rendered(Stopped(d), a.plan) ELSE Stopped(d),
                               Asked(d), a.plan # NoPlan)
      OBVIOUS
    <2>2. PICK k \in Accts : k = Asked(d)
      <3>1. Asked(d) \in Accts
        BY DEF Asked, Dialogs
      <3> QED
        BY <3>1
    <2>3. PICK job : job = ReadJob(e, k)
      OBVIOUS
    <2>4. dlg' = e
      BY <1>2, <1>11, <2>1
    <2>5. jobs' = Append(J, job)
      BY <1>2, <1>11, <2>2, <2>3, <2>4
    <2>6. e \in Dialogs /\ Drawn(e) /\ e.kind = d.kind /\ ~e.running /\ e.gen = d.gen + 1 /\ e.busy
      BY <1>2, <1>4, <1>11, <2>1, ReadAgainFacts
    <2>7. job \in AskJobs /\ job.gen = e.gen /\ Ours(e, job)
      <3>1. Moves(e)
        BY <1>2, <1>11, <2>6 DEF Moves
      <3> QED
        BY <2>3, <2>6, <3>1, ReadJobFacts
    <2>8. DialogKept(e, Append(J, job), T) /\ Append(J, job) \in Seq(AskJobs)
      BY <1>5, <1>6, <2>6, <2>7, SubmitsKept
    <2>9. outcomes' \in [written : Nat, told : Nat, offered : Nat] /\ AllTold(outcomes', Tail(answers))
      BY <1>8, <1>11
    <2> QED
      BY <1>1, <1>2, <1>3, <2>4, <2>5, <2>6, <2>8, <2>9, DeliveryKeeps
  <1>12. CASE /\ dlg.open /\ (a.status = "stale" => ~Moves(dlg)) /\ a.status # "done"
              /\ dlg' = IF a.plan # NoPlan THEN Rendered([Stopped(dlg) EXCEPT !.busy = FALSE], a.plan)
                        ELSE Settled(Stopped(dlg))
              /\ outcomes' = IF a.status = "failed" THEN Told("failed") ELSE outcomes
              /\ UNCHANGED jobs
    <2>1. PICK g : g = Stopped(d)
      OBVIOUS
    <2>2. /\ g \in Dialogs /\ Drawn(g) /\ g.kind = d.kind /\ g.gen = d.gen /\ g.running = FALSE
          /\ g.in = d.in /\ g.at = d.at /\ g.mark = d.mark
      BY <1>2, <2>1, StoppedFacts
    <2>3. PICK e : e = (IF a.plan # NoPlan THEN Rendered([g EXCEPT !.busy = FALSE], a.plan) ELSE Settled(g))
      OBVIOUS
    <2>4. dlg' = e /\ jobs' = J
      BY <1>2, <1>12, <2>1, <2>3
    <2>5. e \in Dialogs /\ Drawn(e) /\ e.kind = d.kind /\ e.gen = d.gen /\ ~e.busy /\ ~e.running
      <3>1. CASE a.plan # NoPlan
        <4>1. g.kind = "plan" => a.plan.pair = g.in /\ a.plan.target = <<g.at, g.mark>>
          BY <1>2, <1>4, <2>2, <3>1 DEF Ours, Replied
        <4> QED
          BY <1>4, <2>2, <2>3, <3>1, <4>1, PlanDrawn
      <3>2. CASE a.plan = NoPlan
        <4> DEFINE f == [g EXCEPT !.busy = FALSE]
        <4>1. e = Updated(f)
          BY <2>3, <3>2 DEF Settled
        <4>2. f \in Dialogs /\ Alike2(g, f) /\ f.plan = g.plan /\ f.busy = FALSE
          BY <2>2 DEF Dialogs, Alike2
        <4> HIDE DEF f
        <4>3. Drawn(e) /\ e \in Dialogs /\ Alike2(f, e) /\ e.busy = f.busy
          BY <2>2, <4>1, <4>2, UpdatedFacts, UpdatedIsDrawn
        <4> QED
          BY <2>2, <4>2, <4>3 DEF Alike2
      <3> QED
        BY <3>1, <3>2
    <2>6. DialogKept(e, J, T)
      BY <1>5, <2>5, RestsKept
    <2>7. outcomes' \in [written : Nat, told : Nat, offered : Nat] /\ AllTold(outcomes', Tail(answers))
      BY <1>8, <1>12
    <2> QED
      BY <1>1, <1>2, <1>3, <2>4, <2>5, <2>6, <2>7, DeliveryKeeps
  <1> QED
    BY <1>2, <1>9, <1>10, <1>11, <1>12 DEF Executed

-----------------------------------------------------------------------------
(* The dialogs as they open.                                                *)

LEMMA FirstKept ==
  ASSUME NEW e \in Dialogs, NEW job \in AskJobs, Drawn(e), Ours(e, job), job.gen = e.gen,
         e.open /\ e.running => e.busy
  PROVE  /\ DialogKept(e, <<job>>, <<>>) /\ <<job>> \in Seq(AskJobs) /\ <<>> \in Seq(Replies)
  <1>1. /\ DOMAIN <<job>> = {1} /\ <<job>>[1] = job /\ DOMAIN <<>> = {}
        /\ <<job>> \in Seq(AskJobs) /\ <<>> \in Seq(Replies)
    OBVIOUS
  <1>2. AllOurs(e, <<job>>, <<>>)
    BY <1>1 DEF AllOurs
  <1>3. Once(<<job>>, <<>>)
    BY <1>1 DEF Once
  <1>4. Waited(e, <<job>>, <<>>)
    BY <1>1 DEF Waited
  <1> QED
    BY <1>1, <1>2, <1>3, <1>4 DEF DialogKept

LEMMA NothingKept ==
  ASSUME NEW e \in Dialogs, Drawn(e), ~e.busy, ~e.running
  PROVE  /\ DialogKept(e, <<>>, <<>>) /\ <<>> \in Seq(AskJobs) /\ <<>> \in Seq(Replies)
  <1>1. DOMAIN <<>> = {} /\ <<>> \in Seq(AskJobs) /\ <<>> \in Seq(Replies)
    OBVIOUS
  <1>2. AllOurs(e, <<>>, <<>>)
    BY <1>1 DEF AllOurs
  <1>3. Once(<<>>, <<>>)
    BY <1>1 DEF Once
  <1>4. Waited(e, <<>>, <<>>)
    BY DEF Waited
  <1> QED
    BY <1>1, <1>2, <1>3, <1>4 DEF DialogKept

IsBlank(kind, pair, account, e) ==
  /\ e \in Dialogs /\ e.kind = kind /\ e.open = TRUE /\ e.source = pair /\ e.want = account
  /\ e.account = None /\ e.slot = None /\ e.rows = NoRows /\ e.gen = 0 /\ e.busy = FALSE
  /\ e.running = FALSE /\ e.repair = FALSE /\ e.armed = FALSE

LEMMA BlankIs ==
  ASSUME NEW kind \in {"move", "replace", "plan", "panic"}, NEW pair \in Ins, NEW account \in Accts,
         NEW slot \in Rows, NEW e, e = Blank(kind, pair, account, slot, NoPlan)
  PROVE  IsBlank(kind, pair, account, e)
  <1>1. NoPlan \in Plans /\ NoRows \in Readout /\ {} \in SUBSET Boxes /\ None \in Ins /\ None \in Accts
        /\ None \in Rows
    BY NoPlanIsTyped, NoRowsIsTyped DEF Ins, Accts, Rows
  <1> QED
    BY <1>1 DEF Blank, Dialogs, IsBlank

LEMMA FirstIsInv ==
  ASSUME DialogInit, NEW e \in Dialogs, dlg = e, DialogKept(e, jobs, <<>>), jobs \in Seq(AskJobs)
  PROVE  DialogInv
  <1>1. /\ content = [t \in Targets |-> 0] /\ answers = <<>> /\ pressed = {}
        /\ outcomes = [written |-> 0, told |-> 0, offered |-> 0]
    BY DEF DialogInit
  <1>2. content \in [Targets -> Nat] /\ answers \in Seq(Replies)
        /\ outcomes \in [written : Nat, told : Nat, offered : Nat]
    BY <1>1
  <1>3. AllTold(outcomes, answers)
    <2>1. ~DoneWaits(answers)
      BY <1>1 DEF DoneWaits
    <2> QED
      BY <1>1, <2>1 DEF AllTold
  <1>4. AppliedIsShown
    BY <1>1 DEF AppliedIsShown
  <1> QED
    BY <1>1, <1>2, <1>3, <1>4 DEF DialogInv, DialogTyped

LEMMA MoveOpens ==
  ASSUME DialogInit, NEW pair \in PutIns, NEW account \in Accts, NEW slot \in Rows,
         dlg = Loading([Blank("move", pair, account, slot, NoPlan) EXCEPT !.fixed = None], account, FALSE),
         jobs = <<ReadJob(dlg, dlg.want)>>
  PROVE  DialogInv
  <1>1. PICK b : b = Blank("move", pair, account, slot, NoPlan)
    OBVIOUS
  <1>2. /\ b \in Dialogs /\ b.kind = "move" /\ b.open = TRUE /\ b.source = pair /\ b.want = account
        /\ b.account = None /\ b.slot = None /\ b.rows = NoRows /\ b.gen = 0 /\ b.busy = FALSE
        /\ b.running = FALSE /\ b.repair = FALSE
    <2>1. pair \in Ins
      BY DEF Ins
    <2>2. IsBlank("move", pair, account, b)
      BY <1>1, <2>1, BlankIs
    <2> QED
      BY <2>2 DEF IsBlank
  <1>3. PICK f : f = [b EXCEPT !.fixed = None]
    OBVIOUS
  <1>4. /\ f \in Dialogs /\ f.kind = "move" /\ f.open = TRUE /\ f.source = pair /\ f.want = account
        /\ f.account = None /\ f.slot = None /\ f.rows = NoRows /\ f.gen = 0 /\ f.busy = FALSE
        /\ f.running = FALSE /\ f.repair = FALSE
    <2>1. None \in Rows
      BY DEF Rows
    <2> QED
      BY <1>2, <1>3, <2>1 DEF Dialogs
  <1>5. PICK e : e = Loading(f, account, FALSE)
    OBVIOUS
  <1>6. /\ e \in Dialogs /\ e.kind = "move" /\ e.open = TRUE /\ e.slot = None /\ e.rows = NoRows
        /\ e.busy = TRUE /\ e.running = FALSE /\ e.repair = FALSE /\ e.armed = FALSE
    <2>1. IsLoading(f, account, e)
      BY <1>4, <1>5, LoadingFacts
    <2> QED
      BY <1>4, <2>1 DEF IsLoading
  <1>7. Drawn(e)
    BY <1>6 DEF Drawn, Moves, Aligned
  <1>8. dlg = e
    BY <1>1, <1>3, <1>5
  <1>9. PICK k \in Accts : k = e.want
    BY <1>6 DEF Dialogs
  <1>10. PICK job : job = ReadJob(e, k)
    OBVIOUS
  <1>11. job \in AskJobs /\ job.gen = e.gen /\ Ours(e, job)
    <2>1. Moves(e)
      BY <1>6 DEF Moves
    <2> QED
      BY <1>6, <1>10, <2>1, ReadJobFacts
  <1>12. jobs = <<job>>
    BY <1>8, <1>9, <1>10
  <1>13. DialogKept(e, jobs, <<>>) /\ jobs \in Seq(AskJobs)
    BY <1>6, <1>7, <1>11, <1>12, FirstKept
  <1> QED
    BY <1>6, <1>8, <1>13, FirstIsInv

LEMMA ReplaceOpens ==
  ASSUME DialogInit, NEW account \in Accounts, NEW slot \in SaveSlots,
         dlg = Blank("replace", None, account, slot, NoPlan), jobs = <<>>
  PROVE  DialogInv
  <1>1. PICK e : e = Blank("replace", None, account, slot, NoPlan)
    OBVIOUS
  <1>2. /\ e \in Dialogs /\ e.kind = "replace" /\ e.slot = None /\ e.rows = NoRows
        /\ e.busy = FALSE /\ e.running = FALSE /\ e.repair = FALSE /\ e.armed = FALSE
    <2>1. None \in Ins /\ account \in Accts /\ slot \in Rows
      BY DEF Ins, Accts, Rows
    <2>2. IsBlank("replace", None, account, e)
      BY <1>1, <2>1, BlankIs
    <2> QED
      BY <2>2 DEF IsBlank
  <1>3. Drawn(e)
    BY <1>2 DEF Drawn, Moves, Aligned
  <1>4. DialogKept(e, jobs, <<>>) /\ jobs \in Seq(AskJobs)
    BY <1>2, <1>3, NothingKept
  <1> QED
    BY <1>1, <1>2, <1>4, FirstIsInv

LEMMA PlanOpens ==
  ASSUME DialogInit, NEW pair \in PutIns, NEW account \in Accounts, NEW slot \in SaveSlots,
         NEW plan \in PlansFor(pair, <<account, slot>>),
         dlg = [Rendered(Blank("plan", pair, account, None, NoPlan), plan)
                  EXCEPT !.in = pair, !.at = account, !.mark = slot, !.out = slot],
         jobs = <<>>
  PROVE  DialogInv
  <1>1. pair \in Ins /\ account \in Accts /\ slot \in Rows /\ None \in Rows /\ <<account, slot>> \in Targets
    BY DEF Ins, Accts, Rows, Targets
  <1>2. PICK b : b = Blank("plan", pair, account, None, NoPlan)
    OBVIOUS
  <1>3. /\ b \in Dialogs /\ b.kind = "plan" /\ b.busy = FALSE /\ b.running = FALSE /\ b.repair = FALSE
    <2>1. IsBlank("plan", pair, account, b)
      BY <1>1, <1>2, BlankIs
    <2> QED
      BY <2>1 DEF IsBlank
  <1>4. plan \in Plans /\ plan # NoPlan /\ plan.pair = pair /\ plan.target = <<account, slot>>
    <2>1. content \in [Targets -> Nat]
      BY DEF DialogInit
    <2> QED
      BY <1>1, <2>1, PlansForFacts
  <1>5. PICK f : f = Rendered(b, plan)
    OBVIOUS
  <1>6. f \in Dialogs /\ Alike2(b, f) /\ Sane(f) /\ f.busy = FALSE /\ f.plan = plan
    BY <1>3, <1>4, <1>5, RenderedFacts
  <1>7. PICK e : e = [f EXCEPT !.in = pair, !.at = account, !.mark = slot, !.out = slot]
    OBVIOUS
  <1>8. /\ e \in Dialogs /\ e.in = pair /\ e.at = account /\ e.mark = slot /\ e.out = slot
        /\ e.kind = f.kind /\ e.plan = f.plan /\ e.ticked = f.ticked /\ e.armed = f.armed
        /\ e.busy = f.busy /\ e.running = f.running /\ e.repair = f.repair
    BY <1>1, <1>6, <1>7 DEF Dialogs
  <1>9. e.kind = "plan" /\ e.busy = FALSE /\ e.running = FALSE /\ e.repair = FALSE
    BY <1>3, <1>6, <1>8 DEF Alike2
  <1>10. f.kind = "plan" /\ f.repair = FALSE
    BY <1>8, <1>9
  <1>11. e.armed => e.plan # NoPlan /\ ~e.plan.blocked /\ e.plan.asks \subseteq e.ticked
    BY <1>6, <1>8, <1>10 DEF Sane, Moves
  <1>12. Drawn(e)
    BY <1>4, <1>6, <1>8, <1>9, <1>11 DEF Drawn, Moves
  <1>13. dlg = e
    BY <1>2, <1>5, <1>7
  <1>14. DialogKept(e, jobs, <<>>) /\ jobs \in Seq(AskJobs)
    BY <1>8, <1>9, <1>12, NothingKept
  <1> QED
    BY <1>8, <1>13, <1>14, FirstIsInv

LEMMA PanicOpens ==
  ASSUME DialogInit, NEW pair \in PutIns, NEW account \in Accounts, NEW slot \in SaveSlots,
         dlg = [Blank("panic", pair, account, None, NoPlan) EXCEPT !.in = pair, !.gen = 1,
                  !.rows.account = account, !.slot = slot],
         jobs = <<PlanJob(dlg)>>
  PROVE  DialogInv
  <1>1. pair \in Ins /\ account \in Accts /\ slot \in Rows /\ None \in Rows /\ <<account, slot>> \in Targets
    BY DEF Ins, Accts, Rows, Targets
  <1>2. PICK b : b = Blank("panic", pair, account, None, NoPlan)
    OBVIOUS
  <1>3. /\ b \in Dialogs /\ b.kind = "panic" /\ b.busy = FALSE /\ b.running = FALSE /\ b.repair = FALSE
        /\ b.source = pair /\ b.armed = FALSE /\ b.rows = NoRows
    <2>1. IsBlank("panic", pair, account, b)
      BY <1>1, <1>2, BlankIs
    <2> QED
      BY <2>1 DEF IsBlank
  <1>4. PICK r : r = [b.rows EXCEPT !.account = account]
    OBVIOUS
  <1>5. r \in Readout /\ r.account = account
    BY <1>1, <1>3, <1>4, NoRowsIsTyped DEF Readout
  <1>6. PICK e : e = [b EXCEPT !.in = pair, !.gen = 1, !.rows = r, !.slot = slot]
    OBVIOUS
  <1>7. /\ e \in Dialogs /\ e.in = pair /\ e.gen = 1 /\ e.rows = r /\ e.slot = slot
        /\ e.kind = "panic" /\ e.busy = FALSE /\ e.running = FALSE /\ e.source = pair /\ e.armed = FALSE
    BY <1>1, <1>3, <1>5, <1>6 DEF Dialogs
  <1>8. dlg = e
    BY <1>2, <1>4, <1>6
  <1>9. Drawn(e)
    BY <1>1, <1>5, <1>7 DEF Drawn, Moves
  <1>10. PICK job : job = PlanJob(e)
    OBVIOUS
  <1>11. job \in AskJobs /\ job.gen = e.gen /\ Ours(e, job)
    <2>1. <<e.rows.account, e.slot>> \in Targets
      BY <1>1, <1>5, <1>7
    <2> QED
      BY <1>7, <1>10, <2>1, PlanJobFacts
  <1>12. jobs = <<job>>
    BY <1>8, <1>10
  <1>13. DialogKept(e, jobs, <<>>) /\ jobs \in Seq(AskJobs)
    BY <1>7, <1>9, <1>11, <1>12, FirstKept
  <1> QED
    BY <1>7, <1>8, <1>13, FirstIsInv

LEMMA DialogStart ==
  ASSUME DialogInit
  PROVE  DialogInv
  <1>1. PICK kind \in Kinds, pair \in PutIns, account \in Accounts, slot \in SaveSlots,
             asked \in {TRUE, FALSE} :
          CASE kind = "move" ->
                 /\ dlg = Loading([Blank(kind, pair, IF asked THEN account ELSE None,
                                         IF asked THEN slot ELSE None, NoPlan) EXCEPT !.fixed = None],
                                  IF asked THEN account ELSE None, FALSE)
                 /\ jobs = <<ReadJob(dlg, dlg.want)>>
            [] kind = "replace" -> dlg = Blank(kind, None, account, slot, NoPlan) /\ jobs = <<>>
            [] kind = "plan" ->
                 /\ \E plan \in PlansFor(pair, <<account, slot>>) :
                      dlg = [Rendered(Blank(kind, pair, account, None, NoPlan), plan)
                               EXCEPT !.in = pair, !.at = account, !.mark = slot, !.out = slot]
                 /\ jobs = <<>>
            [] kind = "panic" ->
                 /\ dlg = [Blank(kind, pair, account, None, NoPlan) EXCEPT !.in = pair, !.gen = 1,
                             !.rows.account = account, !.slot = slot]
                 /\ jobs = <<PlanJob(dlg)>>
    BY DEF DialogInit
  <1>2. kind \in {"move", "replace", "plan", "panic"}
    BY DialogBounds
  <1>3. CASE kind = "move"
    <2>1. PICK k \in Accts : k = IF asked THEN account ELSE None
      BY DEF Accts
    <2>2. PICK s \in Rows : s = IF asked THEN slot ELSE None
      BY DEF Rows
    <2>3. dlg = Loading([Blank("move", pair, k, s, NoPlan) EXCEPT !.fixed = None], k, FALSE)
          /\ jobs = <<ReadJob(dlg, dlg.want)>>
      BY <1>1, <1>3, <2>1, <2>2
    <2> QED
      BY <2>3, MoveOpens
  <1>4. CASE kind = "replace"
    <2>1. dlg = Blank("replace", None, account, slot, NoPlan) /\ jobs = <<>>
      BY <1>1, <1>4
    <2> QED
      BY <2>1, ReplaceOpens
  <1>5. CASE kind = "plan"
    <2>1. jobs = <<>> /\ \E plan \in PlansFor(pair, <<account, slot>>) :
            dlg = [Rendered(Blank("plan", pair, account, None, NoPlan), plan)
                     EXCEPT !.in = pair, !.at = account, !.mark = slot, !.out = slot]
      BY <1>1, <1>5
    <2> QED
      BY <2>1, PlanOpens
  <1>6. CASE kind = "panic"
    <2>1. /\ dlg = [Blank("panic", pair, account, None, NoPlan) EXCEPT !.in = pair, !.gen = 1,
                      !.rows.account = account, !.slot = slot]
          /\ jobs = <<PlanJob(dlg)>>
      BY <1>1, <1>6
    <2> QED
      BY <2>1, PanicOpens
  <1> QED
    BY <1>2, <1>3, <1>4, <1>5, <1>6

LEMMA DialogStep ==
  ASSUME DialogInv, [DialogNext]_dialogVars
  PROVE  DialogInv'
  <1>1. ASSUME NEW pair \in PutIns, PickVersion(pair)
        PROVE  DialogInv'
    BY <1>1, PickVersionKeeps
  <1>2. ASSUME NEW pair \in PutIns, PickBackup(pair)
        PROVE  DialogInv'
    BY <1>2, PickBackupKeeps
  <1>3. ASSUME NEW account \in Accounts, PickAccount(account)
        PROVE  DialogInv'
    BY <1>3, PickAccountKeeps
  <1>4. ASSUME NEW slot \in SaveSlots, PickRow(slot)
        PROVE  DialogInv'
    BY <1>4, PickRowKeeps
  <1>5. ASSUME NEW box \in {"box", "repair"}, TickBox(box)
        PROVE  DialogInv'
    <2>1. box \in Boxes
      BY DEF Boxes
    <2> QED
      BY <1>5, <2>1, TickBoxKeeps
  <1>6. CASE Apply
    BY <1>6, ApplyKeeps
  <1>7. CASE Cancel
    BY <1>7, CancelKeeps
  <1>8. CASE Replaced
    BY <1>8, ReplacedKeeps
  <1>9. CASE ReadSlots
    BY <1>9, ReadSlotsKeeps
  <1>10. CASE MakePlan
    BY <1>10, MakePlanKeeps
  <1>11. CASE Execute
    BY <1>11, ExecuteKeeps
  <1>12. CASE Outside
    BY <1>12, OutsideKeeps
  <1>13. CASE ReadDelivered
    BY <1>13, ReadDeliveredKeeps
  <1>14. CASE PlanDelivered
    BY <1>14, PlanDeliveredKeeps
  <1>15. CASE Executed
    BY <1>15, ExecutedKeeps
  <1>16. CASE UNCHANGED dialogVars
    BY <1>16 DEF dialogVars, DialogInv, DialogTyped, AllTold, DoneWaits, AppliedIsShown, DialogKept, AllOurs,
                 Once, Waited
  <1> QED
    BY <1>1, <1>2, <1>3, <1>4, <1>5, <1>6, <1>7, <1>8, <1>9, <1>10, <1>11, <1>12, <1>13, <1>14, <1>15,
       <1>16 DEF DialogNext

-----------------------------------------------------------------------------
(* What follows.                                                            *)

\* The executions under way are one at most.
LEMMA OneInFlight ==
  ASSUME DialogInv
  PROVE  Cardinality(InFlight("execute")) <= 1
  <1>1. PICK d \in Dialogs, J \in Seq(AskJobs), A \in Seq(Replies) :
          d = dlg /\ J = jobs /\ A = answers /\ DialogKept(d, J, A)
    BY DEF DialogInv, DialogTyped
  <1>2. \A i \in DOMAIN J : J[i].what = "execute" => J[i].gen = d.gen
    BY <1>1 DEF DialogKept, AllOurs, Ours
  <1>3. \A i \in DOMAIN A : A[i].job.what = "execute" => A[i].job.gen = d.gen
    BY <1>1 DEF DialogKept, AllOurs, Ours
  <1> DEFINE F == InFlight("execute")
  <1>4. \A x, y \in F : x = y
    <2> SUFFICES ASSUME NEW x \in F, NEW y \in F
                 PROVE  x = y
      OBVIOUS
    <2>1. \A z \in F : \/ z \in DOMAIN J /\ J[z].what = "execute"
                       \/ \E j \in DOMAIN A : z = j + Len(J) /\ A[j].job.what = "execute"
      BY <1>1 DEF InFlight
    <2> HIDE DEF F
    <2>2. CASE x \in DOMAIN J /\ J[x].what = "execute"
      <3>1. ~\E j \in DOMAIN A : A[j].job.what = "execute"
        BY <1>1, <1>2, <1>3, <2>2 DEF DialogKept, Once
      <3>2. y \in DOMAIN J /\ J[y].what = "execute"
        BY <2>1, <3>1
      <3> QED
        BY <1>1, <1>2, <2>2, <3>2 DEF DialogKept, Once
    <2>3. ASSUME NEW j \in DOMAIN A, x = j + Len(J), A[j].job.what = "execute"
          PROVE  x = y
      <3>1. ~\E i \in DOMAIN J : J[i].what = "execute"
        BY <1>1, <1>2, <1>3, <2>3 DEF DialogKept, Once
      <3>2. PICK k \in DOMAIN A : y = k + Len(J) /\ A[k].job.what = "execute"
        BY <2>1, <3>1
      <3>3. j = k
        BY <1>1, <1>3, <2>3, <3>2 DEF DialogKept, Once
      <3> QED
        BY <2>3, <3>2, <3>3
    <2> QED
      BY <2>1, <2>2, <2>3
  <1> HIDE DEF F
  <1>5. CASE F = {}
    BY <1>5, FS_EmptySet DEF F
  <1>6. CASE F # {}
    <2>0. PICK x : x \in F
      BY <1>6
    <2>1. F = {x}
      BY <1>4, <2>0
    <2>2. Cardinality(F) = 1
      BY <2>1, FS_Singleton
    <2> QED
      BY <2>2 DEF F
  <1> QED
    BY <1>5, <1>6

\* A write that waits to be told is the only one.
LEMMA WaitsOnce ==
  ASSUME DialogInv
  PROVE  Cardinality({i \in DOMAIN answers : answers[i].job.what = "execute" /\ answers[i].status = "done"})
           = IF DoneWaits(answers) THEN 1 ELSE 0
  <1>1. PICK d \in Dialogs, J \in Seq(AskJobs), A \in Seq(Replies) :
          d = dlg /\ J = jobs /\ A = answers /\ DialogKept(d, J, A)
    BY DEF DialogInv, DialogTyped
  <1>2. \A i \in DOMAIN A : A[i].job.what = "execute" => A[i].job.gen = d.gen
    BY <1>1 DEF DialogKept, AllOurs, Ours
  <1> DEFINE F == {i \in DOMAIN A : A[i].job.what = "execute" /\ A[i].status = "done"}
  <1>3. \A x, y \in F : x = y
    BY <1>1, <1>2 DEF DialogKept, Once
  <1>4. DoneWaits(A) <=> F # {}
    BY DEF DoneWaits
  <1> HIDE DEF F
  <1>5. Cardinality(F) = IF DoneWaits(A) THEN 1 ELSE 0
    <2>1. CASE F = {}
      BY <1>4, <2>1, FS_EmptySet
    <2>2. CASE F # {}
      <3>0. PICK x : x \in F
        BY <2>2
      <3>1. F = {x}
        BY <1>3, <3>0
      <3>2. Cardinality(F) = 1
        BY <3>1, FS_Singleton
      <3> QED
        BY <1>4, <2>2, <3>2
    <2> QED
      BY <2>1, <2>2
  <1> QED
    BY <1>1, <1>5 DEF F

LEMMA InvIsHonest ==
  ASSUME DialogInv
  PROVE  DialogIsHonest
  <1>1. AppliedIsShown
    BY DEF DialogInv
  <1>2. NeverStuck
    BY DEF DialogInv, DialogKept, Waited, NeverStuck
  <1>3. EachIsTold
    <2>1. outcomes.written = outcomes.told + (IF DoneWaits(answers) THEN 1 ELSE 0)
      BY DEF DialogInv, AllTold
    <2> QED
      BY <2>1, OneInFlight, WaitsOnce DEF EachIsTold
  <1> QED
    BY <1>1, <1>2, <1>3 DEF DialogIsHonest

\* Whatever the dialogs, the versions, the slots and the answers of the worker, in whatever order
\* they come: what is applied is what the dialog shows at the press, at most one write is under way
\* and its outcome is told exactly once though the dialog may be gone, and a dialog that is busy
\* waits for an answer that it will take.
THEOREM DialogsAreHonest == DialogSpec => []DialogIsHonest
  <1>1. DialogInit => DialogInv
    BY DialogStart
  <1>2. DialogInv /\ [DialogNext]_dialogVars => DialogInv'
    BY DialogStep
  <1>3. DialogInv => DialogIsHonest
    BY InvIsHonest
  <1> QED
    BY <1>1, <1>2, <1>3, PTL DEF DialogSpec
=============================================================================
