---------------------------- MODULE XboxWriter -----------------------------
(* The pair writer of an Xbox account folder (core/msstore.py) and the use *)
(* core/liveops makes of it: both saves of a slot change with one write of *)
(* containers.index, between their new blobs and the game's second copy    *)
(* (xgs); an interrupted write is finished, put back or left by the owner. *)
(* A crash may come after any step, and the Xbox app syncs at any time; the*)
(* game, which the gates keep closed during a run, plays between runs.     *)
EXTENDS Naturals, Sequences, FiniteSetsExt, SequencesExt

CONSTANTS Members,   \* the two saves of the slot
          Others,    \* the other saves of the folder
          NoRecord,  \* no record of a save in the index
          MaxExt,    \* the last number of a container.<n> file (255 in the code)
          Folders,   \* the account folders of the start
          Times,     \* the pairs of times a write may be stamped with, older first
          Races,     \* the app may write between the look at a container number and its use
          Counts     \* bounds: how many events of each kind a behaviour has

ASSUME Pairs == Cardinality(Members) = 2 /\ Members \cap Others = {} /\ MaxExt \in Nat \ {0}
                /\ Races \in BOOLEAN

VARIABLES index,     \* containers.index: its time, sync state and records
          blobs,     \* the data and meta files: folder, GUID name, body
          conts,     \* the container.<n> files: folder, number, names of the blobs
          xgs,       \* the game's second copies; a body of 0 is no file
          twin,      \* the account has second copies
          cloud,     \* the data the Xbox app has uploaded last, per save
          vault,     \* the data kept in the vault
          dropped,   \* data the game or the app replaced or deleted itself
          made,      \* data made by the owner, the game or the app
          fresh,     \* the next unused GUID
          op,        \* the journal's record of the operation
          run,       \* what the process at work remembers
          offered,   \* the choices shown to the owner
          count      \* what is left of the bounds

folder == <<index, blobs, conts, xgs>>
past   == <<cloud, dropped, made>>
vars   == <<folder, twin, past, vault, fresh, op, run, offered, count>>

Saves   == Members \cup Others
NoCopy  == [dir |-> FALSE, data |-> 0, meta |-> 0]
Idle    == [pc |-> "idle", mode |-> "none", todo |-> <<>>, seen |-> {}]
NoPlan  == [status |-> "none", order |-> <<>>, writes |-> <<>>, pre |-> 0, post |-> 0, old |-> <<>>,
            copies |-> <<>>, touched |-> {}]
Open    == {"preparing", "writing", "validated", "failed"}
IsOpen  == op.status \in Open
Spend(c) == count[c] > 0 /\ count' = [count EXCEPT ![c] = @ - 1]
Parts    == <<"data", "meta">>
Each(m, parts) == [i \in DOMAIN parts |-> <<m, parts[i]>>]

-----------------------------------------------------------------------------
(* Reading the folder *)

\* The container a record names, else the last one whose data is there.
BlobsAt(d, name) == {b \in blobs : b.dir = d /\ b.name = name}
ContsIn(d)       == {c \in conts : c.dir = d}
Container(r) ==
  LET named == {c \in ContsIn(r.dir) : c.n = r.ext}
      whole == {c \in ContsIn(r.dir) : BlobsAt(r.dir, c.data) # {}} IN
  IF named # {} THEN named ELSE {c \in whole : \A d \in whole : d.n <= c.n}

\* What the save of a record holds: a set of at most one pair of bodies.
Held(r) ==
  IF r = NoRecord \/ (r # NoRecord /\ r.sync = "deleted") THEN {}
  ELSE {[data |-> d.body, meta |-> m.body] :
          <<d, m>> \in UNION {BlobsAt(r.dir, c.data) \X BlobsAt(r.dir, c.meta) : c \in Container(r)}}
Now(s)    == Held(index.recs[s])
Vids      == {<<m, h.data>> : <<m, h>> \in UNION {{m} \X Now(m) : m \in Members}}
DataOf(S) == {h.data : h \in UNION {Now(s) : s \in S}}
FilesOf(r) ==
  IF r = NoRecord \/ (r # NoRecord /\ r.sync = "deleted") THEN <<>>
  ELSE LET c == CHOOSE x \in Container(r) : TRUE IN
       IF Container(r) = {} THEN <<>>
       ELSE <<[dir |-> r.dir, part |-> "blob", name |-> c.data],
              [dir |-> r.dir, part |-> "blob", name |-> c.meta],
              [dir |-> r.dir, part |-> "cont", name |-> c.n]>>
IsFile(f) == IF f.part = "blob" THEN BlobsAt(f.dir, f.name) # {}
             ELSE \E c \in ContsIn(f.dir) : c.n = f.name
Unlink(files) ==
  /\ blobs' = {b \in blobs : [dir |-> b.dir, part |-> "blob", name |-> b.name] \notin files}
  /\ conts' = {c \in conts : [dir |-> c.dir, part |-> "cont", name |-> c.n] \notin files}

\* The index and the second copies as the plan's write finds or left them.
Restored(i, p) == [p.pre EXCEPT !.recs = [s \in Saves |-> IF s \in Members THEN p.pre.recs[s]
                                                                           ELSE i.recs[s]]]
IgnoringSync(i) ==
  [i EXCEPT !.sync = "any", !.recs = [s \in Saves |->
     IF s \in Members /\ i.recs[s] # NoRecord THEN [i.recs[s] EXCEPT !.sync = "any"]
                                              ELSE i.recs[s]]]
IndexState ==
  IF index = op.pre THEN "pre"
  ELSE IF Restored(index, op) = op.pre /\ IgnoringSync(index) = IgnoringSync(op.post) THEN "post"
  ELSE "other"

CopyState(m) ==
  LET pre == op.copies[m]  post == op.writes[m].body
      kinds == {IF xgs[m][k] = pre[k] THEN "pre" ELSE IF xgs[m][k] = post[k] THEN "post" ELSE "other" :
                  k \in {p \in {"data", "meta"} : pre[p] # post[p] \/ xgs[m][p] # pre[p]}} IN
  IF "other" \in kinds THEN "other" ELSE IF kinds = {} THEN "post"
  ELSE IF kinds = {"pre"} THEN "pre" ELSE IF kinds = {"post"} THEN "post" ELSE "torn"
CopyStates == IF twin THEN {CopyState(m) : m \in Members} ELSE {}

\* What recovery says of the slot.
State ==
  IF IndexState = "other" \/ "other" \in CopyStates THEN "other"
  ELSE IF IndexState = "pre" THEN (IF CopyStates \subseteq {"pre"} THEN "pre" ELSE "other")
  ELSE IF CopyStates \subseteq {"post"} THEN "post" ELSE "torn"

-----------------------------------------------------------------------------
(* Planning: new names, records and the index, from what the folder holds *)

FreeExt(d, ext) ==
  LET nth(k) == ((ext + k - 1) % MaxExt) + 1
      free   == {k \in 1..MaxExt : \A c \in ContsIn(d) : c.n # nth(k)} IN
  {nth(k) : k \in {i \in free : \A j \in free : i <= j}}

Base(s, g, when) ==
  IF index.recs[s] = NoRecord THEN [dir |-> g, ext |-> 0, sync |-> "created", ft |-> when]
                              ELSE index.recs[s]

Stamp(s, when, prev) ==
  Max({when, prev + 1} \cup {index.recs[x].ft + 1 : x \in {y \in {s} : index.recs[y] # NoRecord}})

Written(s, g, when, ft, ext) ==
  LET b == Base(s, g, when) IN
  [b EXCEPT !.ext = ext, !.ft = ft, !.sync = IF @ = "created" THEN @ ELSE "modified"]

\* Mutant (FolderIsSound): whatever the second copy holds is written over.
Mutant_OnlyCopies(s) == FALSE
OnlyCopies(s) ==
  LET found == [data |-> xgs[s].data, meta |-> xgs[s].meta] IN
  xgs[s].dir /\ found # [data |-> 0, meta |-> 0] /\ found \notin Now(s)

\* Written in the order of their times, the loading save last; g is the first
\* of the GUIDs drawn.
Draw(order, whens, same, ext, g) ==
  LET a == order[1]  b == order[2]
      ft1 == Stamp(a, whens[1], 0)
      ft2 == Stamp(b, whens[2], ft1)
      recs == (a :> Written(a, g, whens[1], ft1, ext[a])) @@ (b :> Written(b, g + 3, whens[2], ft2, ext[b]))
      name(m) == IF m = a THEN g + 1 ELSE g + 4
      body(m) == [data |-> IF same THEN (CHOOSE h \in Now(m) : TRUE).data ELSE name(m),
                   meta |-> name(m) + 1] IN
  [status |-> "writing", order |-> order,
   writes |-> [m \in Members |-> [dir |-> recs[m].dir, data |-> name(m), meta |-> name(m) + 1,
                                 n |-> ext[m], body |-> body(m)]],
   pre    |-> index,
   post   |-> [ft |-> Max({index.ft, ft2}), sync |-> "modified",
               recs |-> [s \in Saves |-> IF s \in Members THEN recs[s] ELSE index.recs[s]]],
   old    |-> SelectSeq(FilesOf(index.recs[a]) \o FilesOf(index.recs[b]), IsFile),
   copies |-> [m \in Members |-> xgs[m]],
   touched |-> {}]

Close(status) == op' = [op EXCEPT !.status = status]
Stop          == run' = Idle
Go(pc, todo)  == run' = [run EXCEPT !.pc = pc, !.todo = todo]

\* The saves of the slot go to the vault before the write is planned.
Begin ==
  /\ run.pc = "idle" /\ ~IsOpen /\ Spend("ops")
  /\ vault' = vault \cup DataOf(Members)
  /\ op' = [NoPlan EXCEPT !.status = "preparing"]
  /\ run' = [Idle EXCEPT !.pc = "plan", !.mode = "execute", !.seen = Vids]
  /\ UNCHANGED <<folder, twin, past, fresh, offered>>

AsPreserved == Vids = run.seen

Prepare(order, whens, same) ==
  /\ run.pc = "plan"
  /\ \/ /\ \/ twin /\ \E m \in Members : OnlyCopies(m)
           \/ ~AsPreserved
           \/ \E m \in Members : FreeExt(Base(m, fresh, 0).dir, Base(m, fresh, 0).ext) = {}
        /\ Close("abandoned") /\ Stop /\ UNCHANGED fresh
     \/ /\ ~(twin /\ \E m \in Members : OnlyCopies(m)) /\ AsPreserved
        /\ same => \A m \in Members : Now(m) # {}
        /\ \E ext \in [Members -> 1..MaxExt] :
             /\ \A i \in {1, 2} : LET b == Base(order[i], fresh + 3 * (i - 1), 0) IN
                                  ext[order[i]] \in FreeExt(b.dir, b.ext)
             /\ op' = Draw(order, whens, same, ext, fresh)
        /\ fresh' = fresh + 6
        /\ Go("apply", <<>>)
  /\ UNCHANGED <<folder, twin, past, vault, offered, count>>

-----------------------------------------------------------------------------
(* The write (apply_pair): blobs, index, second copies *)

Container_(m) == LET w == op.writes[m] IN [dir |-> w.dir, n |-> w.n, data |-> w.data, meta |-> w.meta]
Theirs(m) == {c \in ContsIn(op.writes[m].dir) : c.n = op.writes[m].n /\ c # Container_(m)}

IsOurs(m, c) == c = Container_(m)
RemoveNew ==
  /\ blobs' = {b \in blobs : \A m \in Members : ~(b.dir = op.writes[m].dir /\
                                           b.name \in {op.writes[m].data, op.writes[m].meta})}
  /\ conts' = {c \in conts : \A m \in Members : ~IsOurs(m, c)}

\* Refused before the index is written: nothing to put back.
Refuse == /\ Stop
          /\ IF run.mode = "execute" THEN Close("abandoned") ELSE UNCHANGED op

\* The write failed: what was written is put back; a forward recovery refuses.
Fail == /\ IF run.mode = "execute" THEN Go("back", <<>>) ELSE Stop
        /\ UNCHANGED op

Apply ==
  /\ run.pc = "apply"
  /\ IF \E m \in Members : Theirs(m) # {}
     THEN Refuse
     ELSE /\ Go("stage", Each(op.order[1], Parts \o <<"cont">>) \o Each(op.order[2], Parts \o <<"cont">>))
          /\ UNCHANGED op
  /\ UNCHANGED <<folder, twin, past, vault, fresh, offered, count>>

Stage ==
  LET m == Head(run.todo)[1]  part == Head(run.todo)[2]  w == op.writes[m] IN
  /\ run.pc = "stage"
  /\ IF part = "cont"
     THEN /\ conts' = {c \in conts : c.dir # w.dir \/ c.n # w.n} \cup {Container_(m)}
          /\ UNCHANGED blobs
     ELSE /\ blobs' = blobs \cup {[dir |-> w.dir, name |-> w[part], body |-> w.body[part]]}
          /\ UNCHANGED conts
  /\ Go(IF Len(run.todo) = 1 THEN "index" ELSE "stage", Tail(run.todo))
  /\ UNCHANGED <<index, xgs, twin, past, vault, fresh, op, offered, count>>

StageFails ==
  /\ run.pc \in {"stage", "index"} /\ Spend("faults")
  /\ RemoveNew /\ Fail
  /\ UNCHANGED <<index, xgs, twin, past, vault, fresh, offered>>

\* The order the copies are written in, without those already there.
Copying(S) == LET todo(m) == IF twin /\ m \in S THEN Each(m, Parts) ELSE <<>> IN
              todo(op.order[1]) \o todo(op.order[2])

AsPlanned == index = op.pre
ReplaceIndex ==
  /\ run.pc = "index"
  /\ IF AsPlanned
     THEN /\ index' = op.post
          /\ Go("mirror", Copying(Members)) /\ UNCHANGED <<blobs, conts, op>>
     ELSE RemoveNew /\ Refuse /\ UNCHANGED index
  /\ UNCHANGED <<xgs, twin, past, vault, fresh, offered, count>>

Mirror ==
  /\ run.pc = "mirror"
  /\ IF run.todo = <<>> THEN Go("validate", <<>>) /\ UNCHANGED xgs
     ELSE LET m == Head(run.todo)[1]  part == Head(run.todo)[2] IN
          /\ xgs' = [xgs EXCEPT ![m].dir = TRUE, ![m][part] = op.writes[m].body[part]]
          /\ Go("mirror", Tail(run.todo))
  /\ UNCHANGED <<index, blobs, conts, twin, past, vault, fresh, op, offered, count>>

\* Finishing an interrupted write: only what is not there yet.
Complete ==
  /\ run.pc = "complete"
  /\ IF IndexState = "post" /\ "other" \notin CopyStates
     THEN Go("mirror", Copying({m \in Members : CopyState(m) # "post"})) ELSE Stop
  /\ UNCHANGED <<folder, twin, past, vault, fresh, op, offered, count>>

Newest(i) == CHOOSE m \in Members : \A k \in Members : i.recs[k].ft <= i.recs[m].ft
Valid ==
  /\ IndexState = "post"
  /\ \A m \in Members : LET w == op.writes[m] IN
       /\ \A p \in {"data", "meta"} : {b.body : b \in BlobsAt(w.dir, w[p])} = {w.body[p]}
  /\ Newest(index) = op.order[2]
  /\ CopyStates \subseteq {"post"}
Validate ==
  /\ run.pc = "validate"
  /\ IF Valid THEN Close("validated") /\ Go("finalize", op.old) ELSE Fail
  /\ UNCHANGED <<folder, twin, past, vault, fresh, offered, count>>

WriteFails ==
  /\ run.pc \in {"index", "mirror", "validate"} /\ Spend("faults")
  /\ Fail
  /\ UNCHANGED <<folder, twin, past, vault, fresh, offered>>

\* The replaced blobs go, one by one; a failure leaves the op open.
Finalize ==
  /\ run.pc = "finalize"
  /\ IF run.todo = <<>>
     THEN Close("done") /\ Stop /\ UNCHANGED <<blobs, conts>>
     ELSE Unlink({Head(run.todo)}) /\ Go("finalize", Tail(run.todo)) /\ UNCHANGED op
  /\ UNCHANGED <<index, xgs, twin, past, vault, fresh, offered, count>>

-----------------------------------------------------------------------------
(* Putting the slot back (rollback_pair) *)

OldIsThere == \A i \in DOMAIN op.old : IsFile(op.old[i])
Rebuildable(m) == CopyState(m) = "pre" \/ (op.copies[m].data = 0 /\ op.copies[m].meta = 0)
                  \/ [data |-> op.copies[m].data, meta |-> op.copies[m].meta] \in Held(op.pre.recs[m])
CanGoBack == IndexState # "other" /\ OldIsThere /\ "other" \notin CopyStates
             /\ (twin => \A m \in Members : Rebuildable(m))

FlagForUpload(i) ==
  [i EXCEPT !.sync = "modified",
            !.recs = [s \in Saves |-> IF s \in Members /\ i.recs[s] # NoRecord
                                      THEN [i.recs[s] EXCEPT !.sync = "modified"] ELSE i.recs[s]]]

\* What a listing ended by itself, and could not, it shows with these choices.
Shown(choices) == offered' = IF run.mode = "auto" THEN choices ELSE offered

Uploaded == index # op.post
BackIndex ==
  /\ run.pc = "back"
  /\ IF CanGoBack
     THEN /\ index' = IF IndexState = "pre" THEN index
                      ELSE IF Uploaded THEN FlagForUpload(op.pre) ELSE op.pre
          /\ run' = [run EXCEPT !.pc = "backFiles", !.todo = Copying({m \in Members : CopyState(m) # "pre"})]
          /\ UNCHANGED op
     ELSE /\ Stop /\ UNCHANGED index
          /\ IF run.mode = "execute" THEN Close("failed") ELSE UNCHANGED op
  /\ IF CanGoBack THEN UNCHANGED offered ELSE Shown({"back", "leave"})
  /\ UNCHANGED <<blobs, conts, xgs, twin, past, vault, fresh, count>>

BackFiles ==
  /\ run.pc = "backFiles"
  /\ RemoveNew /\ Go("backCopies", run.todo)
  /\ UNCHANGED <<index, xgs, twin, past, vault, fresh, op, offered, count>>

Copied(m, part) ==
  [xgs[m] EXCEPT ![part] = op.copies[m][part],
                 !.dir = IF part = "meta" THEN op.copies[m].dir ELSE @]
BackCopies ==
  /\ run.pc = "backCopies"
  /\ IF run.todo = <<>>
     THEN /\ Stop /\ UNCHANGED xgs
          /\ Close("rolledBack")
     ELSE LET m == Head(run.todo)[1]  part == Head(run.todo)[2] IN
          /\ xgs' = [xgs EXCEPT ![m] = Copied(m, part)]
          /\ Go("backCopies", Tail(run.todo)) /\ UNCHANGED op
  /\ UNCHANGED <<index, blobs, conts, twin, past, vault, fresh, offered, count>>

BackFails ==
  /\ run.pc \in {"back", "backFiles", "backCopies"} /\ Spend("faults")
  /\ Stop
  /\ IF run.mode = "execute" THEN Close("failed") ELSE UNCHANGED op
  /\ Shown({"back", "leave"})
  /\ UNCHANGED <<folder, twin, past, vault, fresh>>

FinalizeFails ==
  /\ run.pc = "finalize" /\ Spend("faults") /\ Stop
  /\ Shown({"forward"})
  /\ UNCHANGED <<folder, twin, past, vault, fresh, op>>

-----------------------------------------------------------------------------
(* Recovery of an interrupted write *)

\* Mutant (EachCloses): nothing is offered for a slot the app wrote since.
Mutant_WaysOut ==
  IF State = "other" THEN {} ELSE IF op.status = "failed" THEN {"back"}
  ELSE IF State = "pre" THEN {"back"} ELSE {"forward"}
WaysOut ==
  IF State = "other" THEN {"leave"}
  ELSE IF op.status = "failed" THEN {"back", "leave"}
  ELSE IF op.status = "validated" \/ State = "post" THEN {"forward"}
  ELSE IF State = "pre" THEN {"back"} ELSE {"forward", "back"}

List ==
  /\ run.pc = "idle" /\ IsOpen
  /\ \/ op.status = "preparing" /\ Close("abandoned") /\ UNCHANGED <<run, offered>>
     \/ /\ op.status = "validated" /\ State = "post"
        /\ run' = [Idle EXCEPT !.pc = "finalize", !.mode = "auto", !.todo = op.old]
        /\ UNCHANGED <<op, offered>>
     \/ /\ op.status = "writing" /\ State = "pre"
        /\ run' = [Idle EXCEPT !.pc = "back", !.mode = "auto"]
        /\ UNCHANGED <<op, offered>>
     \/ /\ \/ op.status = "failed"
           \/ op.status = "validated" /\ State # "post"
           \/ op.status = "writing" /\ State # "pre"
        /\ offered' = WaysOut /\ UNCHANGED <<op, run>>
  /\ UNCHANGED <<folder, twin, past, vault, fresh, count>>

\* The owner's choice from a listing that may be old; refused, it changes nothing.
Resolve(choice) ==
  /\ run.pc = "idle" /\ IsOpen /\ op.status # "preparing" /\ choice \in offered
  /\ choice # "leave" => State # "other"
  /\ choice = "forward" => op.status # "failed"
  /\ IF choice = "leave"
     THEN vault' = vault \cup DataOf(Members) /\ Close("left") /\ UNCHANGED run
     ELSE /\ run' = [Idle EXCEPT !.mode = choice,
                       !.pc = IF choice = "back" THEN "back" ELSE IF State = "post" THEN "validate"
                              ELSE IF IndexState = "pre" THEN "apply" ELSE "complete"]
          /\ UNCHANGED <<vault, op>>
  /\ UNCHANGED <<folder, twin, past, fresh, offered, count>>

Crash ==
  /\ run.pc # "idle" /\ Spend("crashes") /\ Stop
  /\ UNCHANGED <<folder, twin, past, vault, fresh, op, offered>>

-----------------------------------------------------------------------------
(* The Xbox app and the game *)

Touch(s) == op' = [op EXCEPT !.touched = @ \cup {s}]

\* A new save of s replaces the old one: blobs, container, index, as one step.
\* Nothing in the code keeps it out of the gap between the look at a container number
\* and the write of that container; without Races it does not come there.
Overtakes(s) == ~Races /\ run.pc \in {"stage", "give"} /\ <<s, "cont">> \in ToSet(run.todo)
NewSave(s, sync) ==
  LET r   == index.recs[s]
      new == IF r = NoRecord THEN [dir |-> fresh, ext |-> 1, sync |-> sync, ft |-> index.ft + 1]
             ELSE [r EXCEPT !.ext = (@ % MaxExt) + 1, !.sync = sync, !.ft = @ + 1]
      old == {FilesOf(r)[i] : i \in DOMAIN FilesOf(r)} IN
  /\ ~Overtakes(s)
  /\ index' = [ft |-> Max({index.ft, new.ft}), sync |-> sync, recs |-> [index.recs EXCEPT ![s] = new]]
  /\ blobs' = {b \in blobs : [dir |-> b.dir, part |-> "blob", name |-> b.name] \notin old}
              \cup {[dir |-> new.dir, name |-> fresh + 1, body |-> fresh + 1],
                    [dir |-> new.dir, name |-> fresh + 2, body |-> fresh + 2]}
  /\ conts' = {c \in conts : /\ [dir |-> c.dir, part |-> "cont", name |-> c.n] \notin old
                             /\ c.dir # new.dir \/ c.n # new.ext}
              \cup {[dir |-> new.dir, n |-> new.ext, data |-> fresh + 1, meta |-> fresh + 2]}
  /\ dropped' = dropped \cup DataOf({s})
  /\ made' = made \cup {fresh + 1}
  /\ fresh' = fresh + 3
  /\ Touch(s)
Copy(s) == xgs' = [xgs EXCEPT ![s] = [dir |-> TRUE, data |-> fresh + 1, meta |-> fresh + 2]]

GameSaves(s) ==
  /\ run.pc = "idle" /\ Spend("plays")
  /\ NewSave(s, IF index.recs[s] = NoRecord THEN "created" ELSE "modified")
  /\ IF twin THEN Copy(s) ELSE UNCHANGED xgs
  /\ UNCHANGED <<twin, cloud, vault, run, offered>>

\* The game writes its second copy alone.
GameCopies(s) ==
  /\ run.pc = "idle" /\ twin /\ Spend("plays")
  /\ Copy(s) /\ Touch(s)
  /\ dropped' = dropped \cup ({xgs[s].data} \ DataOf(Saves))
  /\ made' = made \cup {fresh + 1} /\ fresh' = fresh + 3
  /\ UNCHANGED <<index, blobs, conts, twin, cloud, vault, run, offered>>

Download(s) ==
  /\ Spend("syncs") /\ NewSave(s, "synced")
  /\ cloud' = [cloud EXCEPT ![s] = {[data |-> fresh + 1, meta |-> fresh + 2]}]
  /\ UNCHANGED <<xgs, twin, vault, run, offered>>

Upload(s) ==
  /\ index.recs[s] # NoRecord /\ index.recs[s].sync \in {"created", "modified"} /\ Spend("syncs")
  /\ index' = [index EXCEPT !.recs[s].sync = "synced",
                  !.sync = IF \A t \in Saves \ {s} : index.recs[t] # NoRecord =>
                                index.recs[t].sync \notin {"created", "modified"} THEN "synced" ELSE @]
  /\ cloud' = [cloud EXCEPT ![s] = Now(s)]
  /\ UNCHANGED <<blobs, conts, xgs, twin, dropped, made, vault, fresh, op, run, offered>>

AppDeletes(s) ==
  /\ Now(s) # {} /\ Spend("syncs")
  /\ index' = [index EXCEPT !.recs[s].sync = "deleted", !.recs[s].ft = @ + 1,
                            !.ft = Max({@, index.recs[s].ft + 1})]
  /\ blobs' = {b \in blobs : b.dir # index.recs[s].dir}
  /\ conts' = {c \in conts : c.dir # index.recs[s].dir}
  /\ cloud' = [cloud EXCEPT ![s] = {}]
  /\ dropped' = dropped \cup DataOf({s})
  /\ Touch(s)
  /\ UNCHANGED <<xgs, twin, made, vault, fresh, run, offered>>

-----------------------------------------------------------------------------
\* The folder at the start: saves synced, deleted or absent, a container the
\* app left behind, second copies that agree or are not there.
Order == SetToSeq(Saves)
Number(s) == CHOOSE i \in DOMAIN Order : Order[i] = s
Init ==
  \E f \in Folders :
    LET body(s) == [data |-> 10 * Number(s) + 1, meta |-> 10 * Number(s) + 2]
        live    == {s \in Saves : f.kind[s] = "live"} IN
    /\ index = [ft |-> 5, sync |-> "synced", recs |-> [s \in Saves |->
                  IF f.kind[s] = "absent" THEN NoRecord
                  ELSE [dir |-> 10 * Number(s), ext |-> MaxExt, ft |-> 5,
                        sync |-> IF s \in live THEN "synced" ELSE "deleted"]]]
    /\ blobs = UNION {{[dir |-> 10 * Number(s), name |-> x, body |-> x] :
                         x \in {body(s).data, body(s).meta}} : s \in live}
    /\ conts = {[dir |-> 10 * Number(s), n |-> MaxExt, data |-> body(s).data, meta |-> body(s).meta] : s \in live}
               \cup {[dir |-> 10 * Number(s), n |-> 1, data |-> 0, meta |-> 0] : s \in f.stray}
    /\ twin = f.twin
    /\ xgs = [s \in Saves |-> IF f.twin /\ s \in f.copied
                               THEN [dir |-> TRUE, data |-> body(s).data, meta |-> body(s).meta]
                               ELSE NoCopy]
    /\ cloud = [s \in Saves |-> IF s \in live THEN {body(s)} ELSE {}]
    /\ made = {body(s).data : s \in live}
  /\ vault = {} /\ dropped = {} /\ fresh = 100
  /\ op = NoPlan /\ run = Idle /\ offered = {}
  /\ count \in Counts

Work == \/ \E order \in {<<a, b>> \in Members \X Members : a # b}, whens \in Times, same \in BOOLEAN :
              Prepare(order, whens, same)
        \/ Apply \/ Stage \/ ReplaceIndex \/ Mirror \/ Complete \/ Validate \/ Finalize
        \/ BackIndex \/ BackFiles \/ BackCopies
Next ==
  \/ Begin \/ Work \/ List \/ Crash
  \/ StageFails \/ WriteFails \/ BackFails \/ FinalizeFails
  \/ \E choice \in {"forward", "back", "leave"} : Resolve(choice)
  \/ \E s \in Saves : GameSaves(s) \/ GameCopies(s) \/ Download(s) \/ Upload(s) \/ AppDeletes(s)

\* A run goes on until it ends or crashes; an open op is listed when the app
\* is looked at, and the owner takes each choice that keeps being offered.
Spec == Init /\ [][Next]_vars /\ WF_vars(Work) /\ WF_vars(List)
        /\ \A choice \in {"forward", "back", "leave"} : SF_vars(Resolve(choice))

-----------------------------------------------------------------------------
Records == [dir : Nat, ext : 1..MaxExt, sync : {"created", "modified", "synced", "deleted"}, ft : Nat]
TypeOK ==
  /\ index.ft \in Nat /\ index.sync \in {"modified", "synced", "created"}
  /\ \A s \in Saves : index.recs[s] \in Records \cup {NoRecord}
  /\ blobs \subseteq [dir : Nat, name : Nat, body : Nat]
  /\ conts \subseteq [dir : Nat, n : 1..MaxExt, data : Nat, meta : Nat]
  /\ xgs \in [Saves -> [dir : BOOLEAN, data : Nat, meta : Nat]]
  /\ \A c \in conts, d \in conts : c.dir = d.dir /\ c.n = d.n => c = d
  /\ op.status \in Open \cup {"none", "abandoned", "done", "rolledBack", "left"}
  /\ run.mode \in {"none", "execute", "forward", "back", "auto"}

\* At every moment, a crash included, each save of the index has its files:
\* nothing the index names is removed or written over (apply_pair, rollback_pair,
\* finalize_pair), whatever the app wrote in the meantime - except, when it may
\* (Races), in the gap before a container is written.
\* One exception is the code's: a record the app had deleted is marked
\* Modified too when an uploaded write is put back (_flag_for_upload).
Undeleted(s) == /\ s \in Members /\ op.order # <<>> /\ op.pre.recs[s] # NoRecord
                /\ op.pre.recs[s].sync = "deleted"
                /\ index.recs[s] = [op.pre.recs[s] EXCEPT !.sync = "modified"]
RecordsResolve ==
  \A s \in Saves : index.recs[s] # NoRecord /\ index.recs[s].sync # "deleted" =>
                      Now(s) # {} \/ Undeleted(s)

\* No save of the owner, the game or the app is lost: unless they replaced it
\* themselves, it is in the folder, in a second copy or in the vault.
NothingLost ==
  made \ dropped \subseteq vault \cup DataOf(Saves) \cup {xgs[s].data : s \in Saves}

\* A record that says Synced holds what the cloud holds: otherwise the app
\* would take its older copy for the current one and put it back.
CloudAgrees ==
  \A s \in Saves : index.recs[s] # NoRecord /\ index.recs[s].sync = "synced" => Now(s) = cloud[s]

\* A write said to be done is whole: both saves and both second copies are the
\* planned ones, the loading save is the newest, the replaced files are gone.
DoneIsWhole ==
  op.status = "done" /\ op.touched = {} =>
    /\ \A m \in Members : Now(m) = {op.writes[m].body}
    /\ Newest(index) = op.order[2]
    /\ twin => \A m \in Members : xgs[m] = [dir |-> TRUE] @@ op.writes[m].body
    /\ \A i \in DOMAIN op.old : ~IsFile(op.old[i])

\* A write said to be put back left nothing: records (their sync apart), saves
\* and second copies are as before it and none of its files is there.
BackIsBack ==
  op.status = "rolledBack" /\ op.touched = {} =>
    /\ \A m \in Members : IgnoringSync(index).recs[m] = IgnoringSync(op.pre).recs[m]
    /\ \A m \in Members : Undeleted(m) \/ Held(op.pre.recs[m]) = Now(m)
    /\ \A m \in Members, part \in {"data", "meta"} : xgs[m][part] = op.copies[m][part]
    /\ \A m \in Members : ~IsFile([dir |-> op.writes[m].dir, part |-> "blob", name |-> op.writes[m].data])

\* A write moves each record's time forward, whatever times it is stamped
\* with, and the loading save's past the other's.
TimesForward ==
  [][run.pc = "index" /\ run'.pc = "mirror" =>
       /\ \A m \in Members : index.recs[m] # NoRecord => index'.recs[m].ft > index.recs[m].ft
       /\ index'.recs[op.order[2]].ft > index'.recs[op.order[1]].ft
       /\ \A s \in Saves : index'.recs[s] # NoRecord => index'.recs[s].ft <= index'.ft]_vars

\* Every write comes to an end, whatever crashes, failures and syncs come
\* between: it is done, put back, or left as the owner decides.
EachCloses == []<>~IsOpen

\* The Xbox folder at every step of a write: its records name files that are there, no
\* bytes are lost, the cloud flags agree, done is whole and back is back.
FolderIsSound == TypeOK /\ RecordsResolve /\ NothingLost /\ CloudAgrees /\ DoneIsWhole /\ BackIsBack
=============================================================================
