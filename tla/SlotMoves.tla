----------------------------- MODULE SlotMoves -----------------------------
(***************************************************************************)
(* Live operations on the level of whole slots (liveops/planner, undo,     *)
(* panic, verify and their classic adapters): a plan is made and shown,    *)
(* the game plays, Steam's cloud brings old copies back, another window    *)
(* moves saves, and then the plan is run; a move is undone slot by slot or *)
(* with the whole folder, and looked at after the next launch. That one    *)
(* run is all or nothing is LiveOps' subject; here it is one step.         *)
(***************************************************************************)
EXTENDS Naturals, Sequences, FiniteSets

CONSTANTS Slots, Windows,
          Start,                      \* the folder at the start: slot -> pair
          Shelf,                      \* pairs the vault holds at the start
          NoSave,
          Counts                      \* how often each thing may happen

Events == {"sessions", "plays", "deletes", "syncs", "moves", "undos", "steps", "faults"}

ASSUME MoveBounds == Slots \subseteq Nat /\ IsFiniteSet(Slots) /\ Counts \subseteq [Events -> Nat]

VARIABLES slot,       \* what each slot holds: the two members and which is newer
          mtime,      \* its files' times, as far as a fingerprint tells them apart
          game,       \* is it running, and when did it start
          cloud,      \* the copy of each slot the cloud has
          vault,      \* pairs that can be read back from the vault
          ops,        \* the operations journal with each operation's snapshot
          seen,       \* what observers know of a slot: its pair, the operation that wrote it
          known,      \* versions seen so far
          plan,       \* the plan each window shows
          time,
          looked,     \* game-seen.json
          before,     \* the folders as they were before each done operation not yet taken back
          lasted,     \* <<i, s, why>>: the pair that operation i placed in s was there when a later
              \* session ended, or was the cloud's copy since
          count

vars == <<slot, mtime, game, cloud, vault, ops, seen, known, plan, time, looked, before, lasted, count>>

Vids(p)    == <<p.a, p.b>>
Two(v)     == {v[1], v[2]}
Members(p) == {p.a, p.b} \ {NoSave}
Empty      == [a |-> NoSave, b |-> NoSave, newer |-> "a"]
Present(p) == Members(p) # {}
Loads(p)   == IF p.newer = "a" THEN p.a ELSE p.b

\* Saves as a stamp tells them apart: playthrough, play time, and which writing it was.
Pids  == UNION {{m.pid : m \in Members(p)} : p \in {Start[s] : s \in Slots} \cup Shelf}
Saves == [pid : Pids, play : Nat, n : Nat]
Pairs == [a : Saves \cup {NoSave}, b : Saves \cup {NoSave}, newer : {"a", "b"}]

ASSUME SaveBounds ==
  /\ NoSave \notin Saves
  /\ Start \in [Slots -> Pairs] /\ Shelf \subseteq {p \in Pairs : Present(p)}

Spend(c)   == count[c] > 0 /\ count' = [count EXCEPT ![c] = @ - 1]
Targets(o) == DOMAIN o.post
NoPlan     == [kind |-> "none", write |-> <<>>, fp |-> <<>>, asks |-> {}, undoes |-> 0,
               snap |-> 0]
Done(i)    == ops[i].status = "done"

-----------------------------------------------------------------------------
(* The game and the cloud.                                                  *)

\* At a launch the owner takes this PC's copies or the cloud's for each slot.
GameStarts ==
  /\ game = 0 /\ Spend("sessions")
  /\ game' = time + 1 /\ time' = time + 1
  /\ \E back \in SUBSET {s \in Slots : slot[s] # cloud[s]} :
       /\ slot' = [s \in Slots |-> IF s \in back THEN cloud[s] ELSE slot[s]]
       /\ mtime' = [s \in Slots |-> mtime[s] + (IF s \in back THEN 1 ELSE 0)]
  /\ UNCHANGED <<cloud, vault, ops, seen, known, plan, looked, before, lasted>>

GamePlays(s) ==
  /\ game # 0 /\ Present(slot[s]) /\ Loads(slot[s]) # NoSave /\ Spend("plays")
  /\ \E pos \in {"a", "b"} :
       slot' = [slot EXCEPT ![s] = [[@ EXCEPT ![pos] = [pid |-> Loads(slot[s]).pid,
                                      play |-> Loads(slot[s]).play + 1, n |-> count.plays]]
                                    EXCEPT !.newer = pos]]
  /\ mtime' = [mtime EXCEPT ![s] = @ + 1]
  /\ UNCHANGED <<game, cloud, vault, ops, seen, known, plan, time, looked, before, lasted>>

GameDeletes(s) ==
  /\ game # 0 /\ Present(slot[s]) /\ Spend("deletes")
  /\ slot' = [slot EXCEPT ![s] = Empty] /\ mtime' = [mtime EXCEPT ![s] = @ + 1]
  /\ UNCHANGED <<game, cloud, vault, ops, seen, known, plan, time, looked, before, lasted>>

\* The placed pairs of a journal that stand in the slots of a folder.
Standing(journal, folder, why) ==
  {x \in (1..Len(journal)) \X Slots \X {why} :
     /\ journal[x[1]].status = "done" /\ x[2] \in Targets(journal[x[1]])
     /\ folder[x[2]] = journal[x[1]].post[x[2]]}

\* At the end the folder goes up, unless this PC is offline.
GameEnds ==
  /\ game # 0 /\ game' = 0 /\ cloud' \in {slot, cloud}
  /\ lasted' = lasted \cup Standing(ops, slot, "session") \cup Standing(ops, cloud', "cloud")
  /\ UNCHANGED <<slot, mtime, vault, ops, seen, known, plan, time, looked, before, count>>

\* A slot goes up without a session: the store's app is back online, or syncs on its own.
Syncs(s) ==
  /\ cloud[s] # slot[s] /\ Spend("syncs")
  /\ cloud' = [cloud EXCEPT ![s] = slot[s]]
  /\ lasted' = lasted \cup Standing(ops, cloud', "cloud")
  /\ UNCHANGED <<slot, mtime, game, vault, ops, seen, known, plan, time, looked, before>>

-----------------------------------------------------------------------------
(* Plans. What a plan was made of must still be so when it runs.            *)

Prints(ss) == [s \in ss |-> mtime[s]]
Show(w, c, p) ==
  /\ plan[w] = NoPlan /\ game = 0 /\ Spend(c)                      \* GAME_RUNNING blocks
  /\ plan' = [plan EXCEPT ![w] = p]
  /\ UNCHANGED <<slot, mtime, game, cloud, vault, ops, seen, known, time, looked, before, lasted>>
Plan(kind, write, asks, undoes, snap) ==
  [kind |-> kind, write |-> write, fp |-> Prints(DOMAIN write), asks |-> asks, undoes |-> undoes, snap |-> snap]

\* The slot has more play than the version that would replace it.
Ahead(s, p) == /\ Present(slot[s]) /\ Loads(slot[s]).pid = Loads(p).pid
               /\ Loads(slot[s]).play > Loads(p).play
Twin(s, p)  == \E t \in Slots \ {s} : Present(slot[t]) /\ Loads(slot[t]).pid = Loads(p).pid

PlanPlace(w, s, p) ==
  /\ p \in vault /\ Vids(p) # Vids(slot[s])                     \* ALREADY_LIVE
  /\ Show(w, "moves", Plan("place", [t \in {s} |-> p], {c \in {"ahead", "twin"} : IF c = "ahead" THEN Ahead(s, p)
                                                              ELSE Twin(s, p)}, 0, 0))

PlanPromote(w, s) ==
  LET other == IF slot[s].newer = "a" THEN "b" ELSE "a"
  IN /\ Present(slot[s]) /\ slot[s][other] # NoSave
     /\ Show(w, "moves", Plan("promote", [t \in {s} |-> [slot[s] EXCEPT !.newer = other]], {}, 0, 0))

PlanSwap(w, s, t) ==
  /\ s < t /\ Present(slot[s]) /\ Present(slot[t])              \* SWAP_EMPTY_SIDE
  /\ Show(w, "moves", Plan("swap", [x \in {s, t} |-> IF x = s THEN slot[t] ELSE slot[s]], {}, 0, 0))

\* How a target of an operation is now (undo._Entry.state).
Already(cur, o, s) == /\ Vids(cur) = Vids(o.pre[s])
                      /\ Vids(cur) # Vids(o.post[s]) \/ cur.newer = o.pre[s].newer
Progressed(cur, o, s) == /\ Loads(cur).pid = Loads(o.post[s]).pid
                         /\ Loads(cur).play >= Loads(o.post[s]).play
StateOf(o, s) ==
  IF ~Present(slot[s]) THEN "empty"
  ELSE IF Already(slot[s], o, s) THEN "already"
  ELSE IF Vids(slot[s]) = Vids(o.post[s]) THEN "same"
  ELSE IF Progressed(slot[s], o, s) THEN "progressed" ELSE "stale"

\* An undo may not empty a slot, is not needed twice and never goes over another save.
Blocked(o) ==
  \E s \in Targets(o) : \/ ~Present(o.pre[s])
                        \/ StateOf(o, s) \in {"already", "stale"}
                        \/ o.kind = "swap" /\ StateOf(o, s) = "empty"
Other(o, s) == CHOOSE t \in Targets(o) : t # s
\* Each slot gets what was replaced there; of a swap what the other slot holds now.
BackOf(o) == IF o.kind = "swap" THEN [s \in Targets(o) |-> slot[Other(o, s)]] ELSE o.pre
SinceAsked(o) == {c \in {"played"} : \E s \in Targets(o) : StateOf(o, s) = "progressed"}

\* A whole folder: the slots the snapshot holds; the others are left alone.
Recorded(i) == {s \in Slots : Present(ops[i].snap[s])}
\* Mutant (MovesAreSafe): the slots the snapshot does not hold are put back as well.
Mutant_RestoreOf(i) == ops[i].snap
RestoreOf(i) == [s \in Recorded(i) |-> ops[i].snap[s]]

PlanUndo(w, i) ==
  /\ Done(i)
  /\ IF ops[i].kind \in {"restore", "lastundo"}     \* panic_restore: its own snapshot, no question
     THEN Show(w, "undos", Plan("restore", RestoreOf(i), {}, i, i))
     ELSE /\ ~Blocked(ops[i])
          /\ Show(w, "undos", Plan("undo", BackOf(ops[i]), SinceAsked(ops[i]), i, 0))

PlanRestore(w, i) ==
  /\ ops[i].status # "preparing" /\ Recorded(i) # {}
  /\ Show(w, "undos", Plan("restore", RestoreOf(i), {}, 0, i))

\* The whole-folder Undo: the newest snapshot that is not of a move that never wrote, not of an
\* Undo, and was not put back by one.
Mutant_NotTargets == {i \in 1..Len(ops) : ops[i].status \in {"abandoned", "rolled_back"}
                                          \/ ops[i].kind = "lastundo"}   \* Mutant (UndoInTurn): put back is forgotten
NotTargets == {i \in 1..Len(ops) : ops[i].status \in {"abandoned", "rolled_back"}
                                   \/ ops[i].kind = "lastundo"}
              \cup {ops[i].snapback : i \in {j \in 1..Len(ops) : Done(j) /\ ops[j].kind = "lastundo"}}
Candidates == (1..Len(ops)) \ NotTargets
Newest == IF Candidates = {} THEN 0 ELSE CHOOSE i \in Candidates : \A j \in Candidates : j <= i

PlanUndoLast(w) ==
  /\ Newest # 0 /\ Recorded(Newest) # {}
  /\ Show(w, "steps", Plan("lastundo", RestoreOf(Newest), {}, 0, Newest))

Close(w) == /\ plan[w] # NoPlan /\ plan' = [plan EXCEPT ![w] = NoPlan]
            /\ UNCHANGED <<slot, mtime, game, cloud, vault, ops, seen, known, time, looked, before, lasted, count>>

-----------------------------------------------------------------------------
(* Observing (D1) and running a plan.                                       *)

\* What D1 says of the operation that wrote a slot when it sees the slot changed.
Fate(k, cur) ==
  IF Vids(cur) = k.evicted THEN "reverted"
  ELSE IF \E n \in (Members(cur) \ Two(k.pair)) \ known : \E c \in Two(k.pair) \ {NoSave} :
            c.pid = n.pid /\ c.play <= n.play THEN "confirmed"
  ELSE "unexpected"
Changed == {s \in Slots : Vids(slot[s]) # seen[s].pair}
\* The journal and D1's picture after a look at the folder.
Observed == [i \in 1..Len(ops) |->
  [ops[i] EXCEPT !.outcome = [s \in DOMAIN @ |->
     IF s \in Changed /\ seen[s].op = i /\ @[s] = "pending" THEN Fate(seen[s], slot[s]) ELSE @[s]]]]
SeenNow == [s \in Slots |-> IF s \in Changed THEN [pair |-> Vids(slot[s]), op |-> 0, evicted |-> <<>>]
                            ELSE seen[s]]
KnownNow == known \cup UNION {Members(slot[s]) : s \in Slots}

\* Mutant (AskedFirst, OnlyForward): the plan runs as it was shown.
Mutant_Fresh(p) == TRUE
Fresh(p) == \A s \in DOMAIN p.fp : mtime[s] = p.fp[s]

\* The classic Undo is planned again when it runs; the snapshot must be the one shown.
Final(p) == IF p.kind = "lastundo" /\ Newest = p.snap
            THEN [p EXCEPT !.fp = Prints(DOMAIN RestoreOf(p.snap))] ELSE p

Record(p, status) ==
  [kind |-> p.kind, status |-> status, undoes |-> p.undoes, snapback |-> p.snap, snap |-> slot,
   pre |-> [s \in DOMAIN p.write |-> slot[s]], post |-> p.write, ended |-> time + 1,
   verify |-> [s \in DOMAIN p.write |-> "pending"], outcome |-> [s \in DOMAIN p.write |-> "pending"]]

Execute(w) ==
  LET p == Final(plan[w])
  IN /\ plan[w] # NoPlan /\ game = 0
     /\ plan' = [plan EXCEPT ![w] = NoPlan]
     /\ time' = time + 1
     /\ p.kind = "lastundo" => Newest = p.snap
     /\ Fresh(p)
     /\ slot' = [s \in Slots |-> IF s \in DOMAIN p.write THEN p.write[s] ELSE slot[s]]
     /\ mtime' = [s \in Slots |-> mtime[s] + (IF s \in DOMAIN p.write THEN 1 ELSE 0)]
     /\ vault' = vault \cup {slot[s] : s \in {t \in DOMAIN p.write : Present(slot[t])}}
     /\ ops' = Append([i \in 1..Len(ops) |->
                 [Observed[i] EXCEPT !.outcome = [s \in DOMAIN @ |->
                    IF s \in DOMAIN p.write /\ SeenNow[s].op = i /\ @[s] = "pending"
                    THEN "superseded" ELSE @[s]]]], Record(p, "done"))
     /\ seen' = [s \in Slots |-> IF s \in DOMAIN p.write
                   THEN [pair |-> Vids(p.write[s]), op |-> Len(ops) + 1, evicted |-> Vids(slot[s])]
                   ELSE SeenNow[s]]
     /\ known' = KnownNow \cup UNION {Members(p.write[s]) : s \in DOMAIN p.write}
     /\ before' = IF p.kind = "lastundo" THEN SubSeq(before, 1, Len(before) - 1)
                  ELSE Append(before, slot)
     /\ lasted' = lasted \cup Standing(ops', cloud, "cloud")
     /\ UNCHANGED <<game, cloud, looked, count>>

\* It stops before it wrote (a copy fails, the game starts), or its write is taken back.
ExecuteFails(w, status) ==
  LET p == Final(plan[w])
  IN /\ plan[w] # NoPlan /\ game = 0 /\ Spend("faults")
     /\ p.kind = "lastundo" => Newest = p.snap
     /\ Fresh(p)
     /\ plan' = [plan EXCEPT ![w] = NoPlan]
     /\ ops' = Append(Observed, Record(p, status))
     /\ seen' = SeenNow /\ known' = KnownNow
     /\ mtime' = IF status = "abandoned" THEN mtime
                 ELSE [s \in Slots |-> mtime[s] + (IF s \in DOMAIN p.write THEN 1 ELSE 0)]
     /\ UNCHANGED <<slot, game, cloud, vault, time, looked, before, lasted>>

-----------------------------------------------------------------------------
(* Looking again after the next launch (verify.py).                         *)

\* game-seen.json: the last sighting of the game, and the first without it after that.
Noted == IF game # 0 THEN [looked EXCEPT !.run = time]
         ELSE IF looked.run = 0 \/ looked.end >= looked.run THEN looked
         ELSE [looked EXCEPT !.end = time + 1]

\* A session that began after the operation has ended.
SessionAfter(o, l) == l.run > o.ended /\ l.end >= l.run /\ game = 0

EvictedSave(o, s) == /\ Present(o.pre[s]) /\ Present(slot[s])
                     /\ Loads(o.pre[s]).pid # Loads(o.post[s]).pid
                     /\ Loads(slot[s]).pid = Loads(o.pre[s]).pid
\* Steam's or the Xbox app's records say that every file of the slot is up, and on Steam its
\* bytes are those that went up (_uploaded).
Uploaded(s, told) == s \in told /\ cloud[s] = slot[s]
\* A verdict: the state, and for a confirmed one without a new save what confirmed it.
Derive(o, s, l, told) ==
  LET cur == slot[s]
  IN CASE o.outcome[s] \in {"confirmed", "superseded", "reverted"} -> o.outcome[s]
       [] o.outcome[s] = "unexpected" ->
            IF ~Present(cur) THEN "deleted" ELSE IF EvictedSave(o, s) THEN "reverted" ELSE "replaced"
       [] o.outcome[s] = "pending" /\ Vids(cur) = Vids(o.post[s]) ->
            IF cur.newer # o.post[s].newer
            THEN IF Vids(o.post[s]) = Vids(o.pre[s]) THEN "reverted" ELSE "pending"
            ELSE IF Uploaded(s, told) THEN "uploaded"
            ELSE IF SessionAfter(o, l) THEN "unchanged" ELSE "pending"
       [] OTHER ->
            IF ~Present(cur) THEN "deleted"
            ELSE IF Vids(cur) = Vids(o.pre[s]) \/ EvictedSave(o, s) THEN "reverted"
            ELSE "pending"

\* Mutant (EachSettles): nothing ends the waiting.
Mutant_Verified(o, l, old, told, blind, mute) ==
  IF o.status # "done" THEN o
  ELSE [o EXCEPT !.verify = [s \in DOMAIN @ |->
         IF @[s] # "pending" \/ s \in blind \cup mute THEN @[s] ELSE Derive(o, s, l, told)]]

\* What settled stays; a month without evidence ends the waiting. A folder that cannot be read
\* (blind) is no evidence, and a verdict that cannot be journaled (mute) is none.
Verified(o, l, old, told, blind, mute) ==
  IF o.status # "done" THEN o
  ELSE [o EXCEPT !.verify = [s \in DOMAIN @ |->
         LET found == IF s \in blind THEN "pending" ELSE Derive(o, s, l, told) IN
         IF @[s] # "pending" \/ s \in mute THEN @[s]
         ELSE IF found = "pending" /\ old THEN "expired" ELSE found]]

Waiting == \E i \in 1..Len(ops) : Done(i) /\ \E s \in Targets(ops[i]) : ops[i].verify[s] = "pending"

NotesGame == looked' = Noted /\ time' = IF Noted.end # looked.end THEN time + 1 ELSE time

\* Whoever probes the game notes what it saw (recording_probe).
Probes ==
  /\ NotesGame
  /\ UNCHANGED <<slot, mtime, game, cloud, vault, ops, seen, known, plan, before, lasted, count>>

\* A refresh: the game is probed, D1 observes, and what the evidence settles is journaled. A
\* month may have gone by since the last one.
Look(old, told, blind, mute) ==
  /\ NotesGame
  /\ IF blind \cup mute = {} THEN UNCHANGED count ELSE Spend("faults")
  /\ ops' = [i \in 1..Len(ops) |-> Verified(Observed[i], Noted, old, told, blind, mute)]
  /\ seen' = SeenNow /\ known' = KnownNow
  /\ UNCHANGED <<slot, mtime, game, cloud, vault, plan, before, lasted>>

-----------------------------------------------------------------------------
Init ==
  /\ slot = Start /\ cloud = Start /\ mtime = [s \in Slots |-> 0] /\ game = 0
  /\ vault = Shelf /\ ops = <<>>
  /\ seen = [s \in Slots |-> [pair |-> Vids(Start[s]), op |-> 0, evicted |-> <<>>]]
  /\ known = UNION {Members(Start[s]) : s \in Slots}
  /\ plan = [w \in Windows |-> NoPlan]
  /\ time = 0 /\ looked = [run |-> 0, end |-> 0]
  /\ before = <<>> /\ lasted = {}
  /\ count \in Counts

Next ==
  \/ GameStarts \/ GameEnds \/ Probes
  \/ \E s \in Slots : GamePlays(s) \/ GameDeletes(s) \/ Syncs(s)
  \/ \E w \in Windows :
       \/ \E s \in Slots : PlanPromote(w, s) \/ \E p \in vault : PlanPlace(w, s, p)
       \/ \E s, t \in Slots : PlanSwap(w, s, t)
       \/ \E i \in 1..Len(ops) : PlanUndo(w, i) \/ PlanRestore(w, i)
       \/ PlanUndoLast(w) \/ Close(w) \/ Execute(w)
       \/ \E status \in {"abandoned", "rolled_back"} : ExecuteFails(w, status)
  \/ \E old \in BOOLEAN, told, mute \in SUBSET Slots, blind \in {{}, Slots} :
       Look(old, told, blind, mute)

\* The owner keeps opening the app: some look a month later reads and journals.
Spec == Init /\ [][Next]_vars /\ WF_vars(Look(TRUE, {}, {}, {}))

-----------------------------------------------------------------------------
\* Types: pairs, and operations about the slots they wrote.
IsPair(p) == p.newer \in {"a", "b"}
TypeOK ==
  /\ \A s \in Slots : IsPair(slot[s]) /\ mtime[s] \in Nat
  /\ \A i \in 1..Len(ops) : /\ Targets(ops[i]) \subseteq Slots
                            /\ \A s \in Targets(ops[i]) : ops[i].verify[s] \in
                                 {"pending", "confirmed", "uploaded", "unchanged", "superseded", "reverted", "deleted",
                                  "replaced", "expired"}
  /\ \A k \in {"run", "end"} : looked[k] <= time

\* The whole-folder Undo goes back step by step: what it would restore is the folder as it was
\* before the last move nobody took back, however moves, Undos and failures came before
\* (panic.candidates, _not_undo_targets).
UndoInTurn == IF before = <<>> THEN Newest = 0
              ELSE Newest # 0 /\ ops[Newest].snap = before[Len(before)]

\* A run of the plan w shows.
Ran(w) == plan[w] # NoPlan /\ Len(ops') > Len(ops) /\ ops'[Len(ops')].status = "done"
          /\ plan'[w] = NoPlan
\* Play is written over only when that was asked, whatever happened between the plan and its
\* run: by a place, play of the placed save that its version does not have; by an undo, any
\* that came after the move (PLAY_TIME_AHEAD, PLAYED_SINCE, the fingerprint).
Gone(w, s) ==
  LET was == slot[s]
      now == slot'[s]
  IN /\ Present(was)
     /\ \/ /\ plan[w].kind = "place" /\ Loads(was).pid = Loads(now).pid
           /\ Loads(was).play > Loads(now).play
        \/ plan[w].kind = "undo" /\ Vids(was) # Vids(ops[plan[w].undoes].post[s])
AskedFirst == [][\A w \in Windows : Ran(w) =>
  \A s \in DOMAIN plan[w].write : Gone(w, s) => plan[w].asks # {}]_vars

\* An undo of a move never goes over anything but what the move wrote and its own progress.
OnlyForward == [][\A w \in Windows : (Ran(w) /\ plan[w].kind = "undo") =>
  \A s \in DOMAIN plan[w].write :
    LET o == ops[plan[w].undoes] was == slot[s]
    IN Present(was) => \/ Vids(was) = Vids(o.post[s])
                       \/ Loads(was).pid = Loads(o.post[s]).pid /\ Loads(was).play >= Loads(o.post[s]).play]_vars

\* Undoing a swap loses no progress: the two slots exchange what they hold.
ProgressTravels == [][\A w \in Windows : (Ran(w) /\ plan[w].kind = "undo" /\ ops[plan[w].undoes].kind = "swap") =>
  {slot'[s] : s \in DOMAIN plan[w].write} = {slot[s] : s \in DOMAIN plan[w].write}]_vars

\* A move nothing came after can be undone, unless that would empty a slot or it moved nothing.
UndoReady == \A i \in 1..Len(ops) :
  (/\ Done(i) /\ ops[i].kind \in {"place", "promote", "swap", "undo"}
   /\ \A s \in Targets(ops[i]) : /\ slot[s] = ops[i].post[s] /\ Present(ops[i].pre[s])
                                 /\ ops[i].pre[s] # ops[i].post[s])
    => ~Blocked(ops[i])

\* Confirmed without a new save: the placed pair was there when a session that began after the
\* move had ended (_session_ended_after), or the cloud's copy was the placed pair at some time
\* since (_uploaded), also when it is another by now.
ConfirmedLasted == \A i \in 1..Len(ops) : Done(i) =>
  \A s \in Targets(ops[i]) :
    /\ ops[i].verify[s] = "unchanged" => <<i, s, "session">> \in lasted
    /\ ops[i].verify[s] = "uploaded"  => <<i, s, "cloud">> \in lasted

\* A month after the last move nothing waits for a verdict any more (EXPIRE_SECONDS).
EachSettles == []<>(~Waiting)

\* A move never empties a slot, whatever its plan was made from (F8).
NeverEmptied == [][\A w \in Windows : Ran(w) =>
  \A s \in Slots : Present(slot[s]) => Present(slot'[s])]_vars

\* A step back that runs leaves each slot as it was before the last move nobody took back, and
\* a slot that was empty then as it is: whatever was planned, run or failed since it was shown.
StepsBack == [][\A w \in Windows : (Ran(w) /\ plan[w].kind = "lastundo") =>
  /\ before # <<>>
  /\ \A s \in Slots : slot'[s] = IF Present(before[Len(before)][s]) THEN before[Len(before)][s]
                                 ELSE slot[s]]_vars

\* An Undo is offered of the last operation of a slot only, from the state it left, and a
\* move is confirmed by a session that began after it or by what the cloud holds.
UndoIsSound == TypeOK /\ UndoInTurn /\ UndoReady /\ ConfirmedLasted

\* A place asks before it drops play of its own save, an undo of a slot before it drops any, and
\* the undo goes over nothing but what its move wrote and its progress; a step back of the whole
\* folder lands where it should; nothing empties a slot. (A restore and a step back ask nothing
\* about play: they go over whatever their slots hold.)
MovesAreSafe == AskedFirst /\ OnlyForward /\ ProgressTravels /\ NeverEmptied /\ StepsBack
=============================================================================
