--------------------------- MODULE SlotMovesProofs --------------------------
(***************************************************************************)
(* Undo goes back in turn and a verdict without a new save has a session   *)
(* or the cloud's copy behind it (UndoIsSound); a place or an undo takes   *)
(* nothing the owner was not asked about, a step back lands where it       *)
(* should, and nothing empties a slot (MovesAreSafe): for any slots,       *)
(* windows, saves and numbers of events.                                   *)
(*                                                                         *)
(* A plan is made at one time and runs at another.  What it was made from  *)
(* is so still where the time of a slot's files is the one noted: Planned. *)
(* The snapshots not taken back are, in their order, the folders as they   *)
(* were (Stacked).  An operation nothing was observed of has its pair in   *)
(* the slot since the end of a session after it, or has not got it now     *)
(* (Waited); and what the cloud has of an operation's was noted (Clouded). *)
(***************************************************************************)
EXTENDS SlotMoves, TLAPS, SequenceTheorems

Filled   == {p \in Pairs : Present(p)}
Verdicts == {"pending", "confirmed", "superseded", "reverted", "deleted", "replaced", "expired",
             "uploaded", "unchanged"}
Fates    == {"pending", "confirmed", "superseded", "reverted", "unexpected"}
Moves    == {"place", "promote", "swap", "undo", "restore", "lastundo"}
Statuses == {"done", "abandoned", "rolled_back"}

Parts(S)   == UNION {[D -> S] : D \in SUBSET Slots}
Operations == [kind : Moves, status : Statuses, undoes : Nat, snapback : Nat, snap : [Slots -> Pairs],
               pre : Parts(Pairs), post : Parts(Filled), ended : Nat, verify : Parts(Verdicts), outcome : Parts(Fates)]
Plans      == [kind : Moves, write : Parts(Filled), fp : Parts(Nat), asks : SUBSET {"ahead", "twin", "played"},
               undoes : Nat, snap : Nat]

Typed ==
  /\ count \in [Events -> Nat]
  /\ slot \in [Slots -> Pairs] /\ cloud \in [Slots -> Pairs] /\ mtime \in [Slots -> Nat]
  /\ time \in Nat /\ game \in 0..time /\ looked \in [run : 0..time, end : 0..time]
  /\ vault \subseteq Filled
  /\ ops \in Seq(Operations) /\ before \in Seq([Slots -> Pairs])
  /\ plan = [w \in Windows |-> plan[w]] /\ \A w \in Windows : plan[w] = NoPlan \/ plan[w] \in Plans

-----------------------------------------------------------------------------
\* The journal: an operation has the same targets throughout and put back an earlier snapshot, if
\* any; a swap has two targets.
IsSwap(S) == \E s, t \in Slots : s # t /\ S = {s, t}
OpFits(o, i) ==
  /\ DOMAIN o.pre = Targets(o) /\ DOMAIN o.verify = Targets(o) /\ DOMAIN o.outcome = Targets(o)
  /\ o.snapback < i
  /\ o.kind = "swap" => IsSwap(Targets(o))
Journaled == \A i \in 1..Len(ops) : OpFits(ops[i], i)

\* A plan shown: what it was made from is so where the files' time is still the one noted.
PlanFits(p) ==
  /\ DOMAIN p.fp = DOMAIN p.write
  /\ \A s \in DOMAIN p.write : p.fp[s] <= mtime[s]
  /\ p.undoes \in 0..Len(ops) /\ p.snap \in 0..Len(ops)
  /\ p.kind = "swap" => IsSwap(DOMAIN p.write)
  /\ p.kind = "place" => \A s \in DOMAIN p.write : p.fp[s] = mtime[s] /\ Ahead(s, p.write[s]) => p.asks # {}
  /\ p.kind = "lastundo" => p.snap # 0 /\ p.write = RestoreOf(p.snap)
  /\ p.kind = "undo" =>
       /\ p.undoes # 0 /\ DOMAIN p.write = Targets(ops[p.undoes])
       /\ \A s \in DOMAIN p.write : p.fp[s] = mtime[s] /\ Present(slot[s]) =>
            \/ Vids(slot[s]) = Vids(ops[p.undoes].post[s])
            \/ Progressed(slot[s], ops[p.undoes], s) /\ p.asks # {}
       /\ ops[p.undoes].kind = "swap" =>
            \A s, t \in DOMAIN p.write : s # t /\ p.fp[t] = mtime[t] => p.write[s] = slot[t]
Planned == \A w \in Windows : plan[w] # NoPlan => PlanFits(plan[w])

\* The folders as they were before what was not taken back are the snapshots the whole-folder
\* Undo may still go to, in their order.
StackedBy(f) ==
  /\ \A k, l \in 1..Len(before) : k < l => f[k] < f[l]
  /\ \A k \in 1..Len(before) : f[k] \in Candidates /\ ops[f[k]].snap = before[k]
  /\ \A i \in Candidates : \E k \in 1..Len(before) : f[k] = i
Stacked == \E f \in [1..Len(before) -> 1..Len(ops)] : StackedBy(f)

\* Of what an operation placed nothing was observed yet.
Pending(i, s) == Done(i) /\ s \in Targets(ops[i]) /\ ops[i].outcome[s] = "pending"
Watched == \A i \in 1..Len(ops) : \A s \in Slots : Pending(i, s) => seen[s].op = i

\* The game was seen after operation i and is over: the pair was there when a session ended, or
\* is not there now.
SessionOver(i) == game = 0 /\ looked.run > ops[i].ended
Waited == \A i \in 1..Len(ops) : \A s \in Slots : Pending(i, s) /\ SessionOver(i) =>
            <<i, s, "session">> \in lasted \/ slot[s] # ops[i].post[s]

\* What the cloud has of an operation's was noted as it got it, or as the operation placed it.
Placed(i, s) == Done(i) /\ s \in Targets(ops[i])
Clouded == \A i \in 1..Len(ops) : \A s \in Slots : Placed(i, s) /\ cloud[s] = ops[i].post[s] =>
             <<i, s, "cloud">> \in lasted

\* The inductive invariant.
Sure == Typed /\ Journaled /\ Planned /\ Stacked /\ Watched /\ Waited /\ Clouded /\ ConfirmedLasted

-----------------------------------------------------------------------------
\* Functions on some of the slots, pairs, records.

LEMMA PartsAre ==
  ASSUME NEW S, NEW f
  PROVE  f \in Parts(S) <=> f = [s \in DOMAIN f |-> f[s]] /\ DOMAIN f \subseteq Slots /\ \A s \in DOMAIN f : f[s] \in S
<1>1. ASSUME f \in Parts(S) PROVE f = [s \in DOMAIN f |-> f[s]] /\ DOMAIN f \subseteq Slots /\ \A s \in DOMAIN f : f[s] \in S
  <2>1. PICK D \in SUBSET Slots : f \in [D -> S]
    BY <1>1 DEF Parts
  <2> QED
    BY <2>1
<1>2. ASSUME f = [s \in DOMAIN f |-> f[s]], DOMAIN f \subseteq Slots, \A s \in DOMAIN f : f[s] \in S PROVE f \in Parts(S)
  <2>1. f \in [DOMAIN f -> S]
    BY <1>2
  <2> QED
    BY <1>2, <2>1 DEF Parts
<1> QED
  BY <1>1, <1>2

LEMMA PartIs == ASSUME NEW S, NEW D \in SUBSET Slots, NEW f \in [D -> S] PROVE f \in Parts(S)
  BY DEF Parts

LEMMA PairIs ==
  ASSUME NEW p \in Pairs
  PROVE  /\ p.a \in Saves \cup {NoSave} /\ p.b \in Saves \cup {NoSave} /\ p.newer \in {"a", "b"}
         /\ p = [a |-> p.a, b |-> p.b, newer |-> p.newer]
         /\ \A q \in Pairs : Vids(p) = Vids(q) /\ p.newer = q.newer => p = q
         /\ \A q \in Pairs : Vids(p) = Vids(q) <=> p.a = q.a /\ p.b = q.b
  BY DEF Pairs, Vids

LEMMA EmptyIs == Empty \in Pairs
  BY DEF Empty, Pairs

\* An entry of the journal after another look.
Kin(o, q) == /\ q.kind = o.kind /\ q.status = o.status /\ q.undoes = o.undoes /\ q.snapback = o.snapback
             /\ q.snap = o.snap /\ q.pre = o.pre /\ q.post = o.post /\ q.ended = o.ended

LEMMA Judged ==
  ASSUME NEW o \in Operations, NEW f \in Parts(Fates)
  PROVE  /\ [o EXCEPT !.outcome = f] \in Operations /\ Kin(o, [o EXCEPT !.outcome = f])
         /\ [o EXCEPT !.outcome = f].outcome = f /\ [o EXCEPT !.outcome = f].verify = o.verify
  BY DEF Operations, Kin

LEMMA Decided ==
  ASSUME NEW o \in Operations, NEW f \in Parts(Verdicts)
  PROVE  /\ [o EXCEPT !.verify = f] \in Operations /\ Kin(o, [o EXCEPT !.verify = f])
         /\ [o EXCEPT !.verify = f].verify = f /\ [o EXCEPT !.verify = f].outcome = o.outcome
  BY DEF Operations, Kin

LEMMA KinOfKin == ASSUME NEW o, NEW q, NEW r, Kin(o, q), Kin(q, r) PROVE Kin(o, r)
  BY DEF Kin

\* What a look at the folder makes of the journal.
LEMMA ObservedIs ==
  ASSUME Typed, Journaled, NEW i \in 1..Len(ops)
  PROVE  /\ Observed[i] \in Operations /\ Kin(ops[i], Observed[i]) /\ Observed[i].verify = ops[i].verify
         /\ DOMAIN Observed[i].outcome = DOMAIN ops[i].outcome
         /\ \A s \in DOMAIN ops[i].outcome : Observed[i].outcome[s] = "pending" =>
              ops[i].outcome[s] = "pending" /\ ~(s \in Changed /\ seen[s].op = i)
<1> DEFINE o == ops[i]
           g(s) == IF s \in Changed /\ seen[s].op = i /\ o.outcome[s] = "pending" THEN Fate(seen[s], slot[s]) ELSE o.outcome[s]
           f == [s \in DOMAIN o.outcome |-> g(s)]
<1>1. o \in Operations
  BY DEF Typed
<1>2. o.outcome \in Parts(Fates)
  BY <1>1 DEF Operations
<1>3. \A k, p : Fate(k, p) \in {"reverted", "confirmed", "unexpected"}
  BY DEF Fate
<1>4. DOMAIN o.outcome \subseteq Slots /\ \A s \in DOMAIN o.outcome : o.outcome[s] \in Fates
  BY <1>2, PartsAre
<1>5. \A s \in DOMAIN o.outcome : g(s) \in Fates
  BY <1>3, <1>4 DEF Fates
<1>6. f \in Parts(Fates)
  <2> HIDE DEF g
  <2>1. f \in [DOMAIN o.outcome -> Fates]
    BY <1>5
  <2> QED
    BY <1>4, <2>1, PartIs
<1>7. \A s \in DOMAIN o.outcome : f[s] = "pending" => o.outcome[s] = "pending" /\ ~(s \in Changed /\ seen[s].op = i)
  BY <1>3
<1>8. Observed[i] = [o EXCEPT !.outcome = f]
  BY DEF Observed
<1>9. DOMAIN f = DOMAIN o.outcome
  OBVIOUS
<1> HIDE DEF f, o
<1>10. Observed[i] \in Operations /\ Kin(o, Observed[i]) /\ Observed[i].verify = o.verify /\ Observed[i].outcome = f
  BY <1>1, <1>6, <1>8, Judged
<1> QED
  BY <1>7, <1>9, <1>10 DEF o

-----------------------------------------------------------------------------
\* Plans.

LEMMA PlanIs ==
  ASSUME NEW kind, NEW write, NEW asks, NEW undoes, NEW snap
  PROVE  Plan(kind, write, asks, undoes, snap) = [kind |-> kind, write |-> write, fp |-> [s \in DOMAIN write |-> mtime[s]],
                                                  asks |-> asks, undoes |-> undoes, snap |-> snap]
  BY DEF Plan, Prints

\* What every plan has.
LEMMA PlanHas ==
  ASSUME Typed, NEW kind \in Moves, NEW write \in Parts(Filled), NEW asks \in SUBSET {"ahead", "twin", "played"},
         NEW undoes \in 0..Len(ops), NEW snap \in 0..Len(ops),
         NEW p, p = [kind |-> kind, write |-> write, fp |-> [s \in DOMAIN write |-> mtime[s]], asks |-> asks,
                     undoes |-> undoes, snap |-> snap]
  PROVE  /\ p \in Plans /\ DOMAIN p.fp = DOMAIN p.write
         /\ \A s \in DOMAIN p.write : p.fp[s] = mtime[s] /\ p.fp[s] <= mtime[s]
         /\ p.undoes \in 0..Len(ops) /\ p.snap \in 0..Len(ops)
<1> DEFINE fp == [s \in DOMAIN write |-> mtime[s]]
<1>1. DOMAIN write \in SUBSET Slots /\ \A s \in Slots : mtime[s] \in Nat
  BY PartsAre DEF Typed
<1>2. fp \in [DOMAIN write -> Nat]
  BY <1>1
<1>3. fp \in Parts(Nat)
  <2> HIDE DEF fp
  <2> QED
    BY <1>1, <1>2, PartIs
<1>4. \A s \in DOMAIN write : fp[s] = mtime[s] /\ fp[s] <= mtime[s]
  BY <1>1
<1>5. DOMAIN fp = DOMAIN write /\ Len(ops) \in Nat
  BY DEF Typed
<1>6. p = [kind |-> kind, write |-> write, fp |-> fp, asks |-> asks, undoes |-> undoes, snap |-> snap]
  OBVIOUS
<1> HIDE DEF fp
<1>7. /\ p.kind = kind /\ p.write = write /\ p.fp = fp /\ p.asks = asks /\ p.undoes = undoes /\ p.snap = snap
  BY <1>6
<1>8. undoes \in Nat /\ snap \in Nat
  BY <1>5
<1>9. p \in Plans
  BY <1>3, <1>6, <1>8 DEF Plans
<1> QED
  BY <1>4, <1>5, <1>7, <1>9

\* A plan somebody may show.
Shown(p) == p \in Plans /\ PlanFits(p)

LEMMA OneSlot == ASSUME NEW s \in Slots, NEW p \in Filled
                 PROVE  /\ [t \in {s} |-> p] \in Parts(Filled) /\ DOMAIN [t \in {s} |-> p] = {s}
                        /\ [t \in {s} |-> p][s] = p
<1>1. [t \in {s} |-> p] \in [{s} -> Filled]
  OBVIOUS
<1> QED
  BY <1>1, PartIs

LEMMA PlaceShown ==
  ASSUME Typed, NEW s \in Slots, NEW v \in vault
  PROVE  Shown(Plan("place", [t \in {s} |-> v], {c \in {"ahead", "twin"} : IF c = "ahead" THEN Ahead(s, v) ELSE Twin(s, v)}, 0, 0))
<1> DEFINE w == [t \in {s} |-> v]
           asks == {c \in {"ahead", "twin"} : IF c = "ahead" THEN Ahead(s, v) ELSE Twin(s, v)}
           p == Plan("place", w, asks, 0, 0)
<1>1. v \in Filled
  BY DEF Typed
<1>2. w \in Parts(Filled) /\ DOMAIN w = {s} /\ w[s] = v
  BY <1>1, OneSlot
<1> HIDE DEF w
<1>3. asks \in SUBSET {"ahead", "twin", "played"} /\ (Ahead(s, v) => asks # {})
  BY DEF Moves
<1> HIDE DEF asks
<1>4. p = [kind |-> "place", write |-> w, fp |-> [x \in DOMAIN w |-> mtime[x]], asks |-> asks, undoes |-> 0,
           snap |-> 0]
  BY PlanIs
<1>5. "place" \in Moves /\ 0 \in 0..Len(ops)
  BY DEF Typed, Moves
<1> HIDE DEF p
<1>6. /\ p \in Plans /\ DOMAIN p.fp = DOMAIN p.write
      /\ \A x \in DOMAIN p.write : p.fp[x] = mtime[x] /\ p.fp[x] <= mtime[x]
      /\ p.undoes \in 0..Len(ops) /\ p.snap \in 0..Len(ops)
  BY <1>2, <1>3, <1>4, <1>5, PlanHas
<1>7. p.kind = "place" /\ p.write = w /\ p.asks = asks
  BY <1>4
<1>8. PlanFits(p)
  BY <1>2, <1>3, <1>6, <1>7 DEF PlanFits
<1> QED
  BY <1>6, <1>8 DEF Shown, p, asks, w

LEMMA PromoteShown ==
  ASSUME Typed, NEW s \in Slots, NEW x \in {"a", "b"}, Present(slot[s])
  PROVE  Shown(Plan("promote", [t \in {s} |-> [slot[s] EXCEPT !.newer = x]], {}, 0, 0))
<1> DEFINE v == [slot[s] EXCEPT !.newer = x]
           w == [t \in {s} |-> v]
           p == Plan("promote", w, {}, 0, 0)
<1>1. slot[s] \in Pairs
  BY DEF Typed
<1>2. v \in Pairs /\ Members(v) = Members(slot[s])
  BY <1>1 DEF Pairs, Members
<1> HIDE DEF v
<1>3. v \in Filled
  BY <1>2 DEF Filled, Present
<1>4. w \in Parts(Filled) /\ DOMAIN w = {s} /\ w[s] = v
  BY <1>3, OneSlot
<1> HIDE DEF w
<1>5. p = [kind |-> "promote", write |-> w, fp |-> [y \in DOMAIN w |-> mtime[y]], asks |-> {}, undoes |-> 0,
           snap |-> 0]
  BY PlanIs
<1>6. "promote" \in Moves /\ 0 \in 0..Len(ops) /\ {} \in SUBSET {"ahead", "twin", "played"}
  BY DEF Typed, Moves
<1> HIDE DEF p
<1>7. /\ p \in Plans /\ DOMAIN p.fp = DOMAIN p.write
      /\ \A y \in DOMAIN p.write : p.fp[y] = mtime[y] /\ p.fp[y] <= mtime[y]
      /\ p.undoes \in 0..Len(ops) /\ p.snap \in 0..Len(ops)
  BY <1>4, <1>5, <1>6, PlanHas
<1>8. p.kind = "promote" /\ p.write = w
  BY <1>5
<1>9. PlanFits(p)
  BY <1>7, <1>8 DEF PlanFits
<1> QED
  BY <1>7, <1>9 DEF Shown, p, v, w

LEMMA SwapShown ==
  ASSUME Typed, NEW s \in Slots, NEW t \in Slots, s < t, Present(slot[s]), Present(slot[t])
  PROVE  Shown(Plan("swap", [x \in {s, t} |-> IF x = s THEN slot[t] ELSE slot[s]], {}, 0, 0))
<1> DEFINE v == [x \in {s, t} |-> IF x = s THEN slot[t] ELSE slot[s]]
           p == Plan("swap", v, {}, 0, 0)
<1>1. slot[s] \in Filled /\ slot[t] \in Filled
  BY DEF Typed, Filled
<1>2. s # t
  BY MoveBounds
<1>3. v = [x \in {s, t} |-> IF x = s THEN slot[t] ELSE slot[s]]
  OBVIOUS
<1> HIDE DEF v
<1>4. v \in [{s, t} -> Filled]
  BY <1>1, <1>3
<1>5. v \in Parts(Filled) /\ DOMAIN v = {s, t}
  BY <1>4, PartIs
<1>6. p = [kind |-> "swap", write |-> v, fp |-> [y \in DOMAIN v |-> mtime[y]], asks |-> {}, undoes |-> 0, snap |-> 0]
  BY PlanIs
<1>7. "swap" \in Moves /\ 0 \in 0..Len(ops) /\ {} \in SUBSET {"ahead", "twin", "played"}
  BY DEF Typed, Moves
<1> HIDE DEF p
<1>8. /\ p \in Plans /\ DOMAIN p.fp = DOMAIN p.write
      /\ \A y \in DOMAIN p.write : p.fp[y] = mtime[y] /\ p.fp[y] <= mtime[y]
      /\ p.undoes \in 0..Len(ops) /\ p.snap \in 0..Len(ops)
  BY <1>5, <1>6, <1>7, PlanHas
<1>9. p.kind = "swap" /\ p.write = v
  BY <1>6
<1>10. PlanFits(p)
  BY <1>2, <1>5, <1>8, <1>9 DEF PlanFits, IsSwap
<1> QED
  BY <1>8, <1>10 DEF Shown, p, v

LEMMA StateIs ==
  ASSUME NEW o, NEW s
  PROVE  /\ StateOf(o, s) \notin {"empty", "already", "stale"} =>
              /\ Present(slot[s])
              /\ Vids(slot[s]) = Vids(o.post[s]) \/ (Progressed(slot[s], o, s) /\ StateOf(o, s) = "progressed")
         /\ StateOf(o, s) # "empty" => Present(slot[s])
         /\ ~Present(slot[s]) => StateOf(o, s) = "empty"
         /\ Present(slot[s]) => StateOf(o, s) # "empty"
         /\ Present(slot[s]) /\ ~Already(slot[s], o, s) /\ Vids(slot[s]) = Vids(o.post[s]) => StateOf(o, s) = "same"
<1> DEFINE now == slot[s]
           a == Already(now, o, s)
           v == Vids(now) = Vids(o.post[s])
           g == Progressed(now, o, s)
<1>1. StateOf(o, s) = IF ~Present(now) THEN "empty" ELSE IF a THEN "already" ELSE IF v THEN "same"
                      ELSE IF g THEN "progressed" ELSE "stale"
  BY DEF StateOf
<1> HIDE DEF a, v, g, now
<1>2. Present(now) /\ ~a /\ v => StateOf(o, s) = "same"
  BY <1>1
<1>3. ~Present(now) <=> StateOf(o, s) = "empty"
  BY <1>1
<1>4. StateOf(o, s) \notin {"empty", "already", "stale"} => v \/ (g /\ StateOf(o, s) = "progressed")
  BY <1>1
<1> QED
  BY <1>2, <1>3, <1>4 DEF a, v, g, now

LEMMA OtherIs ==
  ASSUME NEW o, NEW s, NEW t, s # t, Targets(o) = {s, t}
  PROVE  Other(o, s) = t /\ Other(o, t) = s
  BY DEF Other

LEMMA OpIs ==
  ASSUME Typed, Journaled, NEW i \in 1..Len(ops)
  PROVE  /\ ops[i] \in Operations /\ OpFits(ops[i], i)
         /\ Targets(ops[i]) \subseteq Slots /\ DOMAIN ops[i].pre = Targets(ops[i])
         /\ \A s \in Targets(ops[i]) : ops[i].pre[s] \in Pairs /\ ops[i].post[s] \in Filled
         /\ ops[i].pre \in Parts(Pairs) /\ ops[i].post \in Parts(Filled)
<1>1. ops[i] \in Operations /\ OpFits(ops[i], i)
  BY DEF Typed, Journaled
<1>2. ops[i].pre \in Parts(Pairs) /\ ops[i].post \in Parts(Filled)
  BY <1>1 DEF Operations
<1>3. DOMAIN ops[i].pre = Targets(ops[i])
  BY <1>1 DEF OpFits
<1>4. /\ DOMAIN ops[i].post \subseteq Slots /\ \A s \in DOMAIN ops[i].post : ops[i].post[s] \in Filled
      /\ \A s \in DOMAIN ops[i].pre : ops[i].pre[s] \in Pairs
  BY <1>2, PartsAre
<1> QED
  BY <1>1, <1>2, <1>3, <1>4 DEF Targets

\* What an undo puts back is a pair for each of the operation's slots.
LEMMA BackIs ==
  ASSUME Typed, Journaled, NEW i \in 1..Len(ops), ~Blocked(ops[i])
  PROVE  /\ BackOf(ops[i]) \in Parts(Filled) /\ DOMAIN BackOf(ops[i]) = Targets(ops[i])
         /\ ops[i].kind = "swap" =>
              \A s, t \in Targets(ops[i]) : s # t => BackOf(ops[i])[s] = slot[t]
<1> DEFINE o == ops[i]
<1>1. /\ o \in Operations /\ OpFits(o, i) /\ Targets(o) \subseteq Slots /\ DOMAIN o.pre = Targets(o)
      /\ \A s \in Targets(o) : o.pre[s] \in Pairs
      /\ o.pre \in Parts(Pairs)
  BY OpIs
<1>2. \A s \in Slots : slot[s] \in Pairs
  BY DEF Typed
<1>3. \A s \in Targets(o) : Present(o.pre[s]) /\ (o.kind = "swap" => StateOf(o, s) # "empty")
  BY DEF Blocked
<1> HIDE DEF o
<1>4. CASE o.kind # "swap"
  <2>1. BackOf(o) = o.pre
    BY <1>4 DEF BackOf
  <2>2. o.pre \in [Targets(o) -> Filled]
    <3>1. o.pre = [s \in DOMAIN o.pre |-> o.pre[s]]
      BY <1>1, PartsAre
    <3> QED
      BY <1>1, <1>3, <3>1 DEF Filled
  <2>3. o.pre \in Parts(Filled)
    BY <1>1, <2>2, PartIs
  <2> QED
    BY <1>1, <1>4, <2>1, <2>3 DEF o
<1>5. CASE o.kind = "swap"
  <2>1. PICK s \in Slots, t \in Slots : s # t /\ Targets(o) = {s, t}
    BY <1>1, <1>5 DEF OpFits, IsSwap
  <2>2. Other(o, s) = t /\ Other(o, t) = s
    BY <2>1, OtherIs
  <2>3. BackOf(o) = [x \in {s, t} |-> slot[Other(o, x)]]
    BY <1>5, <2>1 DEF BackOf
  <2>4. Present(slot[s]) /\ Present(slot[t])
    BY <1>3, <1>5, <2>1, StateIs
  <2>5. slot[s] \in Filled /\ slot[t] \in Filled
    BY <1>2, <2>1, <2>4 DEF Filled
  <2>6. BackOf(o)[s] = slot[t] /\ BackOf(o)[t] = slot[s]
    BY <2>2, <2>3
  <2>7. BackOf(o) \in [{s, t} -> Filled]
    BY <2>2, <2>3, <2>5
  <2>8. BackOf(o) \in Parts(Filled) /\ DOMAIN BackOf(o) = {s, t}
    BY <2>7, PartIs
  <2> QED
    BY <1>2, <2>1, <2>6, <2>8 DEF o
<1> QED
  BY <1>4, <1>5

LEMMA UndoShown ==
  ASSUME Typed, Journaled, NEW i \in 1..Len(ops), ~Blocked(ops[i])
  PROVE  Shown(Plan("undo", BackOf(ops[i]), SinceAsked(ops[i]), i, 0))
<1> DEFINE o == ops[i]
           w == BackOf(o)
           asks == SinceAsked(o)
           p == Plan("undo", w, asks, i, 0)
<1>1. /\ w \in Parts(Filled) /\ DOMAIN w = Targets(o)
      /\ o.kind = "swap" => \A s, t \in Targets(o) : s # t => w[s] = slot[t]
  BY BackIs
<1>2. asks \in SUBSET {"ahead", "twin", "played"} /\ \A s \in Targets(o) : StateOf(o, s) = "progressed" => asks # {}
  BY DEF SinceAsked
<1>3. \A s \in Targets(o) : StateOf(o, s) \notin {"already", "stale"}
  BY DEF Blocked
<1> HIDE DEF asks, w
<1>5. p = [kind |-> "undo", write |-> w, fp |-> [y \in DOMAIN w |-> mtime[y]], asks |-> asks, undoes |-> i, snap |-> 0]
  BY PlanIs
<1>6. "undo" \in Moves /\ 0 \in 0..Len(ops) /\ i \in 0..Len(ops) /\ i # 0
  BY DEF Typed, Moves
<1> HIDE DEF p
<1>7. /\ p \in Plans /\ DOMAIN p.fp = DOMAIN p.write
      /\ \A y \in DOMAIN p.write : p.fp[y] = mtime[y] /\ p.fp[y] <= mtime[y]
      /\ p.undoes \in 0..Len(ops) /\ p.snap \in 0..Len(ops)
  BY <1>1, <1>2, <1>5, <1>6, PlanHas
<1>8. p.kind = "undo" /\ p.write = w /\ p.undoes = i /\ p.asks = asks
  BY <1>5
<1>9. ASSUME NEW s \in Targets(o), Present(slot[s])
      PROVE  Vids(slot[s]) = Vids(o.post[s]) \/ (Progressed(slot[s], o, s) /\ asks # {})
  <2>1. StateOf(o, s) \notin {"empty", "already", "stale"}
    BY <1>3, <1>9, StateIs
  <2> QED
    BY <1>2, <2>1, StateIs
<1>10. PlanFits(p)
  BY <1>1, <1>6, <1>7, <1>8, <1>9 DEF PlanFits
<1> QED
  BY <1>7, <1>10 DEF Shown, p, w, asks

LEMMA RestoreIs ==
  ASSUME Typed, NEW i \in 1..Len(ops)
  PROVE  RestoreOf(i) \in Parts(Filled)
<1>1. ops[i] \in Operations
  BY DEF Typed
<1>2. \A s \in Slots : ops[i].snap[s] \in Pairs
  BY <1>1 DEF Operations
<1>3. Recorded(i) \subseteq Slots /\ \A s \in Recorded(i) : ops[i].snap[s] \in Filled
  BY <1>2 DEF Recorded, Filled
<1>4. RestoreOf(i) \in [Recorded(i) -> Filled]
  BY <1>3 DEF RestoreOf
<1> QED
  BY <1>3, <1>4, PartIs

LEMMA RestoreShown ==
  ASSUME Typed, NEW i \in 1..Len(ops), NEW u \in {0, i}, NEW kind \in {"restore", "lastundo"}, NEW p,
         p = [kind |-> kind, write |-> RestoreOf(i), fp |-> [y \in DOMAIN RestoreOf(i) |-> mtime[y]], asks |-> {}, undoes |-> u,
              snap |-> i]
  PROVE  Shown(p)
<1>1. RestoreOf(i) \in Parts(Filled)
  BY RestoreIs
<1>2. kind \in Moves /\ i \in 0..Len(ops) /\ u \in 0..Len(ops) /\ {} \in SUBSET {"ahead", "twin", "played"} /\ i # 0
  BY DEF Typed, Moves
<1>3. /\ p \in Plans /\ DOMAIN p.fp = DOMAIN p.write
      /\ \A y \in DOMAIN p.write : p.fp[y] = mtime[y] /\ p.fp[y] <= mtime[y]
      /\ p.undoes \in 0..Len(ops) /\ p.snap \in 0..Len(ops)
  BY <1>1, <1>2, PlanHas
<1>4. p.kind = kind /\ p.write = RestoreOf(i) /\ p.snap = i
  OBVIOUS
<1>5. PlanFits(p)
  BY <1>2, <1>3, <1>4 DEF PlanFits
<1> QED
  BY <1>3, <1>5 DEF Shown

\* The newest snapshot the whole-folder Undo may go to is of the last move not taken back.
LEMMA NewestIs ==
  ASSUME Typed, Stacked
  PROVE  /\ before = <<>> => Newest = 0
         /\ before # <<>> => /\ Newest \in Candidates /\ Newest \in 1..Len(ops) /\ ops[Newest].snap = before[Len(before)]
                             /\ \A j \in Candidates : j <= Newest
<1> DEFINE n == Len(before)
<1>1. n \in Nat /\ (before = <<>> <=> n = 0) /\ Len(ops) \in Nat
  BY DEF Typed
<1>2. PICK f \in [1..n -> 1..Len(ops)] :
        /\ \A k, l \in 1..n : k < l => f[k] < f[l]
        /\ \A k \in 1..n : f[k] \in Candidates /\ ops[f[k]].snap = before[k]
        /\ \A i \in Candidates : \E k \in 1..n : f[k] = i
  BY DEF Stacked, StackedBy
<1> HIDE DEF n
<1>3. CASE before = <<>>
  <2>1. Candidates = {}
    BY <1>1, <1>2, <1>3
  <2> QED
    BY <1>3, <2>1 DEF Newest
<1>4. CASE before # <<>>
  <2>1. n \in 1..n
    BY <1>1, <1>4
  <2>2. f[n] \in Candidates /\ f[n] \in 1..Len(ops) /\ ops[f[n]].snap = before[n]
    BY <1>2, <2>1
  <2>3. \A j \in Candidates : j <= f[n]
    <3> SUFFICES ASSUME NEW j \in Candidates PROVE j <= f[n]
      OBVIOUS
    <3>1. PICK k \in 1..n : f[k] = j
      BY <1>2
    <3>2. k = n \/ k < n
      BY <1>1, <2>1
    <3>3. f[k] \in 1..Len(ops)
      BY <1>2
    <3> QED
      BY <1>1, <1>2, <2>1, <2>2, <3>1, <3>2, <3>3
  <2>4. Newest = CHOOSE i \in Candidates : \A j \in Candidates : j <= i
    BY <2>2 DEF Newest
  <2>5. Newest \in Candidates /\ \A j \in Candidates : j <= Newest
    BY <2>2, <2>3, <2>4
  <2>6. Newest \in 1..Len(ops)
    BY <2>5 DEF Candidates
  <2>7. Newest = f[n]
    BY <1>1, <2>2, <2>3, <2>5, <2>6
  <2> QED
    BY <1>4, <2>2, <2>5, <2>6, <2>7 DEF n
<1> QED
  BY <1>3, <1>4

-----------------------------------------------------------------------------
\* What a plan was made from stays so where the times of the files do.

Times == \A s \in Slots : mtime'[s] \in Nat /\ mtime[s] <= mtime'[s] /\ (mtime'[s] = mtime[s] => slot'[s] = slot[s])
Continues == /\ ops' \in Seq(Operations) /\ Len(ops) <= Len(ops')
             /\ \A i \in 1..Len(ops) : Kin(ops[i], ops'[i])

LEMMA PlanStays ==
  ASSUME Typed, Times, Continues, NEW w \in Windows, plan[w] # NoPlan, plan'[w] = plan[w], PlanFits(plan[w])
  PROVE  PlanFits(plan[w])'
<1> DEFINE p == plan[w]
<1>1. p \in Plans /\ plan'[w] = p
  BY DEF Typed
<1>2. DOMAIN p.write \subseteq Slots /\ \A s \in DOMAIN p.write : p.fp[s] \in Nat
  <2>1. p.write \in Parts(Filled) /\ p.fp \in Parts(Nat) /\ DOMAIN p.fp = DOMAIN p.write
    BY <1>1 DEF Plans, PlanFits
  <2> QED
    BY <2>1, PartsAre
<1>3. /\ DOMAIN p.fp = DOMAIN p.write /\ \A s \in DOMAIN p.write : p.fp[s] <= mtime[s]
      /\ p.undoes \in 0..Len(ops) /\ p.snap \in 0..Len(ops)
      /\ p.kind = "swap" => IsSwap(DOMAIN p.write)
      /\ p.kind = "place" => \A s \in DOMAIN p.write : p.fp[s] = mtime[s] /\ Ahead(s, p.write[s]) => p.asks # {}
      /\ p.kind = "lastundo" => p.snap # 0 /\ p.write = RestoreOf(p.snap)
      /\ p.kind = "undo" =>
           /\ p.undoes # 0 /\ DOMAIN p.write = Targets(ops[p.undoes])
           /\ \A s \in DOMAIN p.write : p.fp[s] = mtime[s] /\ Present(slot[s]) =>
                \/ Vids(slot[s]) = Vids(ops[p.undoes].post[s])
                \/ Progressed(slot[s], ops[p.undoes], s) /\ p.asks # {}
           /\ ops[p.undoes].kind = "swap" =>
                \A s, t \in DOMAIN p.write : s # t /\ p.fp[t] = mtime[t] => p.write[s] = slot[t]
  BY DEF PlanFits
<1> HIDE DEF p
<1>4. \A s \in DOMAIN p.write : mtime[s] \in Nat /\ mtime'[s] \in Nat /\ mtime[s] <= mtime'[s]
                                /\ (mtime'[s] = mtime[s] => slot'[s] = slot[s])
  BY <1>2 DEF Typed, Times
<1>5. \A s \in DOMAIN p.write : p.fp[s] <= mtime'[s] /\ (p.fp[s] = mtime'[s] => p.fp[s] = mtime[s] /\ slot'[s] = slot[s])
  BY <1>2, <1>3, <1>4
<1>6. Len(ops) \in Nat /\ Len(ops') \in Nat /\ Len(ops) <= Len(ops')
  BY DEF Typed, Continues
<1>7. p.undoes \in 0..Len(ops') /\ p.snap \in 0..Len(ops')
  BY <1>3, <1>6
<1>8. p.kind = "place" => \A s \in DOMAIN p.write :
         /\ p.fp[s] = mtime'[s] /\ Present(slot'[s]) /\ Loads(slot'[s]).pid = Loads(p.write[s]).pid
         /\ Loads(slot'[s]).play > Loads(p.write[s]).play
         => p.asks # {}
  BY <1>1, <1>3, <1>5 DEF Ahead
<1>9. p.kind = "undo" =>
       /\ p.undoes # 0 /\ DOMAIN p.write = Targets(ops'[p.undoes])
       /\ \A s \in DOMAIN p.write : p.fp[s] = mtime'[s] /\ Present(slot'[s]) =>
            \/ Vids(slot'[s]) = Vids(ops'[p.undoes].post[s])
            \/ Progressed(slot'[s], ops'[p.undoes], s) /\ p.asks # {}
       /\ ops'[p.undoes].kind = "swap" =>
            \A s, t \in DOMAIN p.write : s # t /\ p.fp[t] = mtime'[t] => p.write[s] = slot'[t]
  <2> SUFFICES ASSUME p.kind = "undo" PROVE
       /\ p.undoes # 0 /\ DOMAIN p.write = Targets(ops'[p.undoes])
       /\ \A s \in DOMAIN p.write : p.fp[s] = mtime'[s] /\ Present(slot'[s]) =>
            \/ Vids(slot'[s]) = Vids(ops'[p.undoes].post[s])
            \/ Progressed(slot'[s], ops'[p.undoes], s) /\ p.asks # {}
       /\ ops'[p.undoes].kind = "swap" =>
            \A s, t \in DOMAIN p.write : s # t /\ p.fp[t] = mtime'[t] => p.write[s] = slot'[t]
    OBVIOUS
  <2>1. p.undoes \in 1..Len(ops)
    BY <1>3, <1>6
  <2>2. ops'[p.undoes].kind = ops[p.undoes].kind /\ ops'[p.undoes].post = ops[p.undoes].post
    BY <2>1 DEF Continues, Kin
  <2>3. Targets(ops'[p.undoes]) = Targets(ops[p.undoes])
    BY <2>2 DEF Targets
  <2>4. \A q, s : Progressed(q, ops'[p.undoes], s) <=> Progressed(q, ops[p.undoes], s)
    BY <2>2 DEF Progressed
  <2> QED
    BY <1>3, <1>5, <2>2, <2>3, <2>4
<1>10. plan'[w] = p
  BY <1>1
<1>11. ASSUME p.kind = "lastundo" PROVE p.snap # 0 /\ p.write = RestoreOf(p.snap)'
  <2>1. p.snap \in 1..Len(ops)
    BY <1>3, <1>6, <1>11
  <2>2. ops'[p.snap].snap = ops[p.snap].snap
    BY <2>1 DEF Continues, Kin
  <2> QED
    BY <1>3, <1>10, <1>11, <2>2 DEF RestoreOf, Recorded, p
<1> QED
  BY <1>3, <1>5, <1>7, <1>8, <1>9, <1>10, <1>11 DEF PlanFits, Ahead, p

LEMMA PlansStay ==
  ASSUME Typed, Planned, Times, Continues, \A w \in Windows : plan'[w] = plan[w] \/ plan'[w] = NoPlan
  PROVE  Planned'
<1> SUFFICES ASSUME NEW w \in Windows, plan'[w] # NoPlan PROVE PlanFits(plan[w])'
  BY DEF Planned
<1>1. plan'[w] = plan[w] /\ plan[w] # NoPlan
  OBVIOUS
<1> QED
  BY <1>1, PlanStays DEF Planned

\* What nothing happens to.
LEMMA JournalStays ==
  ASSUME Typed, Journaled, Stacked, Watched, ConfirmedLasted, UNCHANGED <<ops, before, seen>>, lasted \subseteq lasted'
  PROVE  Journaled' /\ Stacked' /\ Watched' /\ ConfirmedLasted' /\ Continues
<1>1. Candidates' = Candidates
  BY DEF Candidates, NotTargets, Done
<1>2. Stacked'
  <2>1. PICK f \in [1..Len(before) -> 1..Len(ops)] : StackedBy(f)
    BY DEF Stacked
  <2>2. StackedBy(f)'
    BY <1>1, <2>1 DEF StackedBy
  <2> QED
    BY <2>1, <2>2 DEF Stacked
<1>3. Journaled' /\ Watched' /\ ConfirmedLasted'
  BY DEF Journaled, OpFits, Targets, Watched, Pending, Done, ConfirmedLasted
<1>4. Continues
  BY DEF Continues, Kin, Typed
<1> QED
  BY <1>2, <1>3, <1>4

\* What the cloud has of an operation's: where neither changes, and where it is noted.
LEMMA CloudStays ==
  ASSUME Clouded, Continues, Len(ops') = Len(ops), cloud' = cloud, lasted \subseteq lasted'
  PROVE  Clouded'
<1> SUFFICES ASSUME NEW i \in 1..Len(ops), NEW s \in Slots, Placed(i, s)', cloud[s] = ops'[i].post[s]
             PROVE  <<i, s, "cloud">> \in lasted'
  BY DEF Clouded
<1>1. Kin(ops[i], ops'[i])
  BY DEF Continues
<1>2. Placed(i, s) /\ cloud[s] = ops[i].post[s]
  BY <1>1 DEF Kin, Placed, Done, Targets
<1> QED
  BY <1>2 DEF Clouded

LEMMA StandingHas ==
  ASSUME NEW journal, NEW folder, NEW why, NEW i \in 1..Len(journal), NEW s \in Slots, journal[i].status = "done",
         s \in Targets(journal[i]), folder[s] = journal[i].post[s]
  PROVE  <<i, s, why>> \in Standing(journal, folder, why)
<1>1. <<i, s, why>> \in (1..Len(journal)) \X Slots \X {why} /\ <<i, s, why>>[1] = i /\ <<i, s, why>>[2] = s
  OBVIOUS
<1> QED
  BY <1>1 DEF Standing

LEMMA CloudNoted ==
  ASSUME Standing(ops', cloud', "cloud") \subseteq lasted'
  PROVE  Clouded'
<1> SUFFICES ASSUME NEW i \in 1..Len(ops'), NEW s \in Slots, Placed(i, s)', cloud'[s] = ops'[i].post[s]
             PROVE  <<i, s, "cloud">> \in lasted'
  BY DEF Clouded
<1>1. ops'[i].status = "done" /\ s \in Targets(ops'[i])
  BY DEF Placed, Done, Targets
<1> QED
  BY <1>1, StandingHas

\* The bounds on events.
LEMMA Spent == ASSUME Typed, NEW c \in Events, Spend(c) PROVE count' \in [Events -> Nat]
<1>1. count \in [Events -> Nat] /\ count[c] > 0 /\ count' = [count EXCEPT ![c] = @ - 1]
  BY DEF Typed, Spend
<1>2. count[c] - 1 \in Nat
  BY <1>1
<1> QED
  BY <1>1, <1>2

LEMMA ShowKeeps ==
  ASSUME Sure, NEW w \in Windows, NEW c \in Events, NEW p, Shown(p), Show(w, c, p)
  PROVE  Sure'
<1>1. /\ plan' = [plan EXCEPT ![w] = p] /\ Spend(c)
      /\ UNCHANGED <<slot, mtime, game, cloud, vault, ops, seen, known, time, looked, before, lasted>>
  BY DEF Show
<1>2. Typed /\ Journaled /\ Planned /\ Stacked /\ Watched /\ Waited /\ Clouded /\ ConfirmedLasted
  BY DEF Sure
<1>3. count' \in [Events -> Nat]
  BY <1>1, <1>2, Spent
<1>4. p \in Plans /\ PlanFits(p)
  BY DEF Shown
<1>5. plan'[w] = p /\ \A x \in Windows \ {w} : plan'[x] = plan[x]
  BY <1>1, <1>2 DEF Typed
<1>6. Typed'
  <2>1. plan' = [x \in Windows |-> plan'[x]] /\ \A x \in Windows : plan'[x] = NoPlan \/ plan'[x] \in Plans
    BY <1>1, <1>2, <1>4, <1>5 DEF Typed
  <2> QED
    BY <1>1, <1>2, <1>3, <2>1 DEF Typed
<1>7. Journaled' /\ Stacked' /\ Watched' /\ ConfirmedLasted' /\ Continues
  BY <1>1, <1>2, JournalStays
<1>8. Waited' /\ Clouded'
  BY <1>1, <1>2 DEF Done, Waited, Pending, Targets, SessionOver, Clouded, Placed
<1>9. Planned'
  <2> SUFFICES ASSUME NEW x \in Windows, plan'[x] # NoPlan PROVE PlanFits(plan[x])'
    BY DEF Planned
  <2>1. CASE x = w
    <3>1. plan'[x] = p
      BY <1>5, <2>1
    <3> QED
      BY <1>1, <1>4, <3>1 DEF PlanFits, Ahead, RestoreOf, Recorded
  <2>2. CASE x # w
    <3>1. plan'[x] = plan[x]
      BY <1>5, <2>2
    <3>2. Times
      BY <1>1, <1>2 DEF Times, Typed
    <3> QED
      BY <1>2, <1>7, <3>1, <3>2, PlanStays DEF Planned
  <2> QED
    BY <2>1, <2>2
<1> QED
  BY <1>6, <1>7, <1>8, <1>9 DEF Sure

LEMMA ShowsKeep ==
  ASSUME Sure, NEW w \in Windows,
         \/ \E s \in Slots : PlanPromote(w, s) \/ \E p \in vault : PlanPlace(w, s, p)
         \/ \E s, t \in Slots : PlanSwap(w, s, t)
         \/ \E i \in 1..Len(ops) : PlanUndo(w, i) \/ PlanRestore(w, i)
         \/ PlanUndoLast(w)
  PROVE  Sure'
<1>1. Typed /\ Journaled /\ Stacked
  BY DEF Sure
<1>2. "moves" \in Events /\ "undos" \in Events /\ "steps" \in Events
  BY DEF Events
<1>3. ASSUME NEW s \in Slots, NEW p \in vault, PlanPlace(w, s, p) PROVE Sure'
  BY <1>1, <1>2, <1>3, PlaceShown, ShowKeeps DEF PlanPlace
<1>4. ASSUME NEW s \in Slots, PlanPromote(w, s) PROVE Sure'
  <2> DEFINE other == IF slot[s].newer = "a" THEN "b" ELSE "a"
  <2>1. other \in {"a", "b"} /\ Present(slot[s]) /\ Show(w, "moves", Plan("promote", [t \in {s} |-> [slot[s] EXCEPT !.newer = other]], {}, 0, 0))
    BY <1>4 DEF PlanPromote
  <2> HIDE DEF other
  <2> QED
    BY <1>1, <1>2, <2>1, PromoteShown, ShowKeeps
<1>5. ASSUME NEW s \in Slots, NEW t \in Slots, PlanSwap(w, s, t) PROVE Sure'
  BY <1>1, <1>2, <1>5, SwapShown, ShowKeeps DEF PlanSwap
<1>6. ASSUME NEW i \in 1..Len(ops), NEW c \in {"undos", "steps"}, NEW u \in {0, i}, NEW kind \in {"restore", "lastundo"},
             Show(w, c, Plan(kind, RestoreOf(i), {}, u, i))
      PROVE  Sure'
  <2> DEFINE p == Plan(kind, RestoreOf(i), {}, u, i)
  <2>1. Shown(p)
    BY <1>1, PlanIs, RestoreShown
  <2>2. Show(w, c, p) /\ c \in Events
    BY <1>2, <1>6
  <2> HIDE DEF p
  <2> QED
    BY <2>1, <2>2, ShowKeeps
<1>8. ASSUME NEW i \in 1..Len(ops), PlanUndo(w, i) PROVE Sure'
  <2>1. CASE ops[i].kind \in {"restore", "lastundo"}
    BY <1>6, <1>8, <2>1 DEF PlanUndo
  <2>2. CASE ops[i].kind \notin {"restore", "lastundo"}
    <3> DEFINE p == Plan("undo", BackOf(ops[i]), SinceAsked(ops[i]), i, 0)
    <3>1. ~Blocked(ops[i]) /\ Show(w, "undos", p)
      BY <1>8, <2>2 DEF PlanUndo
    <3>2. Shown(p)
      BY <1>1, <3>1, UndoShown
    <3> HIDE DEF p
    <3> QED
      BY <1>2, <3>1, <3>2, ShowKeeps
  <2> QED
    BY <2>1, <2>2
<1>9. ASSUME NEW i \in 1..Len(ops), PlanRestore(w, i) PROVE Sure'
  BY <1>6, <1>9 DEF PlanRestore
<1>10. ASSUME PlanUndoLast(w) PROVE Sure'
  <2>1. Newest \in 1..Len(ops)
    BY <1>1, <1>10, NewestIs DEF PlanUndoLast
  <2>2. Show(w, "steps", Plan("lastundo", RestoreOf(Newest), {}, 0, Newest))
    BY <1>10 DEF PlanUndoLast
  <2>3. PICK i \in 1..Len(ops) : i = Newest
    BY <2>1
  <2> QED
    BY <1>6, <2>2, <2>3
<1> QED
  BY <1>3, <1>4, <1>5, <1>8, <1>9, <1>10

LEMMA CloseKeeps == ASSUME Sure, NEW w \in Windows, Close(w) PROVE Sure'
<1>1. /\ plan' = [plan EXCEPT ![w] = NoPlan]
      /\ UNCHANGED <<slot, mtime, game, cloud, vault, ops, seen, known, time, looked, before, lasted, count>>
  BY DEF Close
<1>2. Typed /\ Journaled /\ Planned /\ Stacked /\ Watched /\ Waited /\ Clouded /\ ConfirmedLasted
  BY DEF Sure
<1>3. plan' = [x \in Windows |-> plan'[x]] /\ \A x \in Windows : plan'[x] = plan[x] \/ plan'[x] = NoPlan
  BY <1>1, <1>2 DEF Typed
<1>4. Typed'
  BY <1>1, <1>2, <1>3 DEF Typed
<1>5. Journaled' /\ Stacked' /\ Watched' /\ ConfirmedLasted' /\ Continues
  BY <1>1, <1>2, JournalStays
<1>6. Waited' /\ Clouded'
  BY <1>1, <1>2 DEF Done, Waited, Pending, Targets, SessionOver, Clouded, Placed
<1>7. Planned'
  <2>1. Times
    BY <1>1, <1>2 DEF Times, Typed
  <2> QED
    BY <1>2, <1>3, <1>5, <2>1, PlansStay
<1> QED
  BY <1>4, <1>5, <1>6, <1>7 DEF Sure

-----------------------------------------------------------------------------
\* The game and the cloud.

LEMMA GameStartsKeeps == ASSUME Sure, GameStarts PROVE Sure'
<1>1. PICK back \in SUBSET {s \in Slots : slot[s] # cloud[s]} :
        /\ slot' = [s \in Slots |-> IF s \in back THEN cloud[s] ELSE slot[s]]
        /\ mtime' = [s \in Slots |-> mtime[s] + (IF s \in back THEN 1 ELSE 0)]
  BY DEF GameStarts
<1>2. /\ game = 0 /\ Spend("sessions") /\ game' = time + 1 /\ time' = time + 1
      /\ UNCHANGED <<cloud, vault, ops, seen, known, plan, looked, before, lasted>>
  BY DEF GameStarts
<1>3. Typed /\ Journaled /\ Planned /\ Stacked /\ Watched /\ Waited /\ Clouded /\ ConfirmedLasted
  BY DEF Sure
<1>4. count' \in [Events -> Nat]
  BY <1>2, <1>3, Spent DEF Events
<1>5. Times
  BY <1>1, <1>3 DEF Times, Typed
<1>6. Typed'
  <2>1. slot' \in [Slots -> Pairs] /\ mtime' \in [Slots -> Nat]
    BY <1>1, <1>3 DEF Typed
  <2>2. time' \in Nat /\ game' \in 0..time' /\ looked' \in [run : 0..time', end : 0..time']
    BY <1>2, <1>3 DEF Typed
  <2> QED
    BY <1>2, <1>3, <1>4, <2>1, <2>2 DEF Typed
<1>7. Journaled' /\ Stacked' /\ Watched' /\ ConfirmedLasted' /\ Continues
  BY <1>2, <1>3, JournalStays
<1>8. Planned'
  BY <1>2, <1>3, <1>5, <1>7, PlansStay
<1>9. Waited'
  <2>1. game' # 0
    BY <1>2, <1>3 DEF Typed
  <2> QED
    BY <2>1 DEF Waited, SessionOver
<1>10. Clouded'
  BY <1>2, <1>3, <1>7, CloudStays
<1> QED
  BY <1>6, <1>7, <1>8, <1>9, <1>10 DEF Sure

\* A slot the game writes or deletes.
LEMMA GameWrites ==
  ASSUME Sure, NEW s \in Slots, NEW c \in {"plays", "deletes"}, Spend(c), game # 0, NEW v \in Pairs,
         slot' = [slot EXCEPT ![s] = v], mtime' = [mtime EXCEPT ![s] = @ + 1],
         UNCHANGED <<game, cloud, vault, ops, seen, known, plan, time, looked, before, lasted>>
  PROVE  Sure'
<1>1. Typed /\ Journaled /\ Planned /\ Stacked /\ Watched /\ Waited /\ Clouded /\ ConfirmedLasted
  BY DEF Sure
<1>2. count' \in [Events -> Nat]
  BY <1>1, Spent DEF Events
<1>3. slot'[s] = v /\ \A t \in Slots \ {s} : slot'[t] = slot[t]
  BY <1>1 DEF Typed
<1>4. Times
  BY <1>1, <1>3 DEF Times, Typed
<1>5. Typed'
  BY <1>1, <1>2 DEF Typed
<1>6. Journaled' /\ Stacked' /\ Watched' /\ ConfirmedLasted' /\ Continues
  BY <1>1, JournalStays
<1>7. Planned'
  BY <1>1, <1>4, <1>6, PlansStay
<1>8. Waited'
  BY DEF Waited, SessionOver
<1>9. Clouded'
  BY <1>1, <1>6, CloudStays
<1> QED
  BY <1>5, <1>6, <1>7, <1>8, <1>9 DEF Sure

\* A save written over one of a pair's two.
LEMMA Written ==
  ASSUME NEW p \in Pairs, NEW m \in Saves, NEW pos \in {"a", "b"}, NEW v, v = [[p EXCEPT ![pos] = m] EXCEPT !.newer = pos]
  PROVE  v \in Pairs
<1>1. p \in [a : Saves \cup {NoSave}, b : Saves \cup {NoSave}, newer : {"a", "b"}]
  BY DEF Pairs
<1>2. CASE pos = "a"
  <2>1. v = [[p EXCEPT !["a"] = m] EXCEPT !["newer"] = "a"]
    BY <1>2
  <2>2. v = [[p EXCEPT !.a = m] EXCEPT !.newer = "a"]
    BY <2>1
  <2>3. v = [a |-> m, b |-> p.b, newer |-> "a"]
    BY <1>1, <2>2
  <2> QED
    BY <1>1, <2>3 DEF Pairs
<1>3. CASE pos = "b"
  <2>1. v = [[p EXCEPT !["b"] = m] EXCEPT !["newer"] = "b"]
    BY <1>3
  <2>2. v = [[p EXCEPT !.b = m] EXCEPT !.newer = "b"]
    BY <2>1
  <2>3. v = [a |-> p.a, b |-> m, newer |-> "b"]
    BY <1>1, <2>2
  <2> QED
    BY <1>1, <2>3 DEF Pairs
<1> QED
  BY <1>2, <1>3

LEMMA GamePlaysKeeps == ASSUME Sure, NEW s \in Slots, GamePlays(s) PROVE Sure'
<1>1. Typed
  BY DEF Sure
<1> DEFINE m == [pid |-> Loads(slot[s]).pid, play |-> Loads(slot[s]).play + 1, n |-> count.plays]
<1>2. /\ game # 0 /\ Loads(slot[s]) # NoSave /\ Spend("plays") /\ mtime' = [mtime EXCEPT ![s] = @ + 1]
      /\ UNCHANGED <<game, cloud, vault, ops, seen, known, plan, time, looked, before, lasted>>
  BY DEF GamePlays
<1>3. PICK pos \in {"a", "b"} : slot' = [slot EXCEPT ![s] = [[@ EXCEPT ![pos] = m] EXCEPT !.newer = pos]]
  BY DEF GamePlays
<1>4. m \in Saves
  <2>1. count.plays \in Nat
    BY <1>1 DEF Typed, Events
  <2>2. Loads(slot[s]) \in Saves
    BY <1>1, <1>2 DEF Typed, Loads, Pairs
  <2> QED
    BY <2>1, <2>2 DEF Saves
<1> HIDE DEF m
<1> DEFINE v == [[slot[s] EXCEPT ![pos] = m] EXCEPT !.newer = pos]
<1>5. v \in Pairs
  <2>1. slot[s] \in Pairs
    BY <1>1 DEF Typed
  <2> QED
    BY <1>4, <2>1, Written
<1>6. slot' = [slot EXCEPT ![s] = v]
  BY <1>3
<1> HIDE DEF v
<1> QED
  BY <1>2, <1>5, <1>6, GameWrites

LEMMA GameDeletesKeeps == ASSUME Sure, NEW s \in Slots, GameDeletes(s) PROVE Sure'
<1>1. /\ game # 0 /\ Spend("deletes") /\ slot' = [slot EXCEPT ![s] = Empty] /\ mtime' = [mtime EXCEPT ![s] = @ + 1]
      /\ UNCHANGED <<game, cloud, vault, ops, seen, known, plan, time, looked, before, lasted>>
  BY DEF GameDeletes
<1>2. PICK v \in Pairs : v = Empty
  BY EmptyIs
<1> QED
  BY <1>1, <1>2, GameWrites

LEMMA GameEndsKeeps == ASSUME Sure, GameEnds PROVE Sure'
<1>1. /\ game # 0 /\ game' = 0 /\ cloud' \in {slot, cloud}
      /\ Standing(ops, slot, "session") \subseteq lasted' /\ Standing(ops, cloud', "cloud") \subseteq lasted'
      /\ lasted \subseteq lasted'
      /\ UNCHANGED <<slot, mtime, vault, ops, seen, known, plan, time, looked, before, count>>
  BY DEF GameEnds
<1>2. Typed /\ Journaled /\ Planned /\ Stacked /\ Watched /\ Waited /\ Clouded /\ ConfirmedLasted
  BY DEF Sure
<1>3. Typed'
  BY <1>1, <1>2 DEF Typed
<1>4. Journaled' /\ Stacked' /\ Watched' /\ ConfirmedLasted' /\ Continues
  BY <1>1, <1>2, JournalStays
<1>5. Planned'
  <2>1. Times
    BY <1>1, <1>2 DEF Times, Typed
  <2> QED
    BY <1>1, <1>2, <1>4, <2>1, PlansStay
<1>6. Waited'
  <2> SUFFICES ASSUME NEW i \in 1..Len(ops), NEW s \in Slots, Pending(i, s), slot[s] = ops[i].post[s]
               PROVE  <<i, s, "session">> \in lasted'
    BY <1>1 DEF Waited, Pending, Done, Targets
  <2>1. ops[i].status = "done" /\ s \in Targets(ops[i])
    BY DEF Pending, Done
  <2> QED
    BY <1>1, <2>1, StandingHas
<1>7. Clouded'
  BY <1>1, CloudNoted
<1> QED
  BY <1>3, <1>4, <1>5, <1>6, <1>7 DEF Sure

LEMMA SyncsKeeps == ASSUME Sure, NEW s \in Slots, Syncs(s) PROVE Sure'
<1>1. /\ Spend("syncs") /\ cloud' = [cloud EXCEPT ![s] = slot[s]]
      /\ lasted' = lasted \cup Standing(ops, cloud', "cloud")
      /\ UNCHANGED <<slot, mtime, game, vault, ops, seen, known, plan, time, looked, before>>
  BY DEF Syncs
<1>2. Typed /\ Journaled /\ Planned /\ Stacked /\ Watched /\ Waited /\ Clouded /\ ConfirmedLasted
  BY DEF Sure
<1>3. lasted \subseteq lasted' /\ Standing(ops', cloud', "cloud") \subseteq lasted'
  BY <1>1
<1>4. count' \in [Events -> Nat]
  BY <1>1, <1>2, Spent DEF Events
<1>5. Typed'
  <2>1. cloud' \in [Slots -> Pairs]
    BY <1>1, <1>2 DEF Typed
  <2> QED
    BY <1>1, <1>2, <1>4, <2>1 DEF Typed
<1>6. Journaled' /\ Stacked' /\ Watched' /\ ConfirmedLasted' /\ Continues
  BY <1>1, <1>2, <1>3, JournalStays
<1>7. Planned'
  <2>1. Times
    BY <1>1, <1>2 DEF Times, Typed
  <2> QED
    BY <1>1, <1>2, <1>6, <2>1, PlansStay
<1>8. Waited'
  <2> SUFFICES ASSUME NEW i \in 1..Len(ops), NEW t \in Slots, Pending(i, t), SessionOver(i)
               PROVE  <<i, t, "session">> \in lasted' \/ slot[t] # ops[i].post[t]
    BY <1>1 DEF Waited, Pending, Done, Targets, SessionOver
  <2> QED
    BY <1>2, <1>3 DEF Waited
<1>9. Clouded'
  BY <1>3, CloudNoted
<1> QED
  BY <1>5, <1>6, <1>7, <1>8, <1>9 DEF Sure

-----------------------------------------------------------------------------
\* Running a plan.

\* What an entry of the journal is after a look at the folder.
Follows(i, q) == /\ q \in Operations /\ Kin(ops[i], q) /\ q.verify = ops[i].verify /\ DOMAIN q.outcome = DOMAIN ops[i].outcome
                 /\ \A s \in DOMAIN q.outcome : q.outcome[s] = "pending" =>
                      ops[i].outcome[s] = "pending" /\ ~(s \in Changed /\ seen[s].op = i)

LEMMA ObservedFollows == ASSUME Typed, Journaled, NEW i \in 1..Len(ops) PROVE Follows(i, Observed[i])
  BY ObservedIs DEF Follows

\* What it is once operation i has been written over in the slots W.
Superseded(i, W) == [Observed[i] EXCEPT !.outcome = [s \in DOMAIN @ |->
                      IF s \in W /\ SeenNow[s].op = i /\ @[s] = "pending" THEN "superseded" ELSE @[s]]]

LEMMA SupersededFollows ==
  ASSUME Typed, Journaled, NEW i \in 1..Len(ops), NEW W
  PROVE  /\ Follows(i, Superseded(i, W))
         /\ \A s \in DOMAIN Superseded(i, W).outcome :
              Superseded(i, W).outcome[s] = "pending" => ~(s \in W /\ SeenNow[s].op = i)
<1> DEFINE o == Observed[i]
           g(s) == IF s \in W /\ SeenNow[s].op = i /\ o.outcome[s] = "pending" THEN "superseded" ELSE o.outcome[s]
           f == [s \in DOMAIN o.outcome |-> g(s)]
           q == Superseded(i, W)
<1>1. Follows(i, o)
  BY ObservedFollows
<1>2. o \in Operations /\ o.outcome \in Parts(Fates)
  BY <1>1 DEF Follows, Operations
<1>3. DOMAIN o.outcome \subseteq Slots /\ \A s \in DOMAIN o.outcome : o.outcome[s] \in Fates
  BY <1>2, PartsAre
<1>4. \A s \in DOMAIN o.outcome : g(s) \in Fates
  BY <1>3 DEF Fates
<1>5. f \in Parts(Fates)
  <2> HIDE DEF g
  <2>1. f \in [DOMAIN o.outcome -> Fates]
    BY <1>4
  <2> QED
    BY <1>3, <2>1, PartIs
<1>6. \A s \in DOMAIN o.outcome : f[s] = "pending" => o.outcome[s] = "pending" /\ ~(s \in W /\ SeenNow[s].op = i)
  OBVIOUS
<1>7. q = [o EXCEPT !.outcome = f] /\ DOMAIN f = DOMAIN o.outcome
  BY DEF Superseded
<1> HIDE DEF f, o, q
<1>8. q \in Operations /\ Kin(o, q) /\ q.verify = o.verify /\ q.outcome = f
  BY <1>2, <1>5, <1>7, Judged
<1>9. Kin(ops[i], q)
  BY <1>1, <1>8, KinOfKin DEF Follows
<1> QED
  BY <1>1, <1>6, <1>7, <1>8, <1>9 DEF Follows, q

\* The plan that runs is the plan shown; only the noted times are read again.
LEMMA FinalIs ==
  ASSUME Typed, Planned, NEW w \in Windows, plan[w] # NoPlan, NEW p, p = Final(plan[w])
  PROVE  /\ p.kind = plan[w].kind /\ p.write = plan[w].write /\ p.undoes = plan[w].undoes /\ p.snap = plan[w].snap
         /\ p.asks = plan[w].asks
         /\ p.kind # "lastundo" => p = plan[w]
         /\ p.kind \in Moves /\ p.write \in Parts(Filled) /\ p.undoes \in Nat /\ p.snap \in 0..Len(ops)
         /\ p.kind = "swap" => IsSwap(DOMAIN p.write)
         /\ DOMAIN p.write \subseteq Slots
         /\ \A s \in DOMAIN p.write : p.write[s] \in Filled
<1> DEFINE q == plan[w]
<1>1. q \in Plans /\ q.snap \in 0..Len(ops) /\ (q.kind = "swap" => IsSwap(DOMAIN q.write))
  BY DEF Typed, Planned, PlanFits
<1>2. q.kind \in Moves /\ q.write \in Parts(Filled) /\ q.undoes \in Nat
  BY <1>1 DEF Plans
<1>3. /\ p.kind = q.kind /\ p.write = q.write /\ p.undoes = q.undoes /\ p.snap = q.snap /\ p.asks = q.asks
      /\ p.kind # "lastundo" => p = q
  BY <1>1 DEF Final, Plans
<1>4. DOMAIN q.write \subseteq Slots /\ \A s \in DOMAIN q.write : q.write[s] \in Filled
  BY <1>2, PartsAre
<1> HIDE DEF q
<1>5. q.kind = plan[w].kind /\ q.write = plan[w].write /\ q.undoes = plan[w].undoes /\ q.snap = plan[w].snap /\ q.asks = plan[w].asks
      /\ q = plan[w]
  BY DEF q
<1> QED
  BY <1>1, <1>2, <1>3, <1>4, <1>5

LEMMA RecordIs ==
  ASSUME Typed, NEW p, NEW status \in Statuses, p.kind \in Moves, p.write \in Parts(Filled), p.undoes \in Nat, p.snap \in Nat,
         NEW r, r = Record(p, status)
  PROVE  /\ r \in Operations
         /\ r.kind = p.kind /\ r.status = status /\ r.undoes = p.undoes /\ r.snapback = p.snap /\ r.snap = slot
         /\ r.post = p.write /\ r.ended = time + 1
         /\ DOMAIN r.pre = DOMAIN p.write /\ \A s \in DOMAIN p.write : r.pre[s] = slot[s]
         /\ DOMAIN r.verify = DOMAIN p.write /\ \A s \in DOMAIN p.write : r.verify[s] = "pending"
         /\ DOMAIN r.outcome = DOMAIN p.write /\ \A s \in DOMAIN p.write : r.outcome[s] = "pending"
<1> DEFINE D == DOMAIN p.write
           pre == [s \in D |-> slot[s]]
           wait == [s \in D |-> "pending"]
<1>1. D \in SUBSET Slots
  BY PartsAre
<1>2. pre \in Parts(Pairs)
  <2>1. pre \in [D -> Pairs]
    BY <1>1 DEF Typed
  <2> HIDE DEF pre, D
  <2> QED
    BY <1>1, <2>1, PartIs
<1>3. wait \in Parts(Verdicts) /\ wait \in Parts(Fates)
  <2>1. wait \in [D -> Verdicts] /\ wait \in [D -> Fates]
    BY DEF Verdicts, Fates
  <2> HIDE DEF wait, D
  <2> QED
    BY <1>1, <2>1, PartIs
<1>4. DOMAIN pre = D /\ DOMAIN wait = D /\ \A s \in D : pre[s] = slot[s] /\ wait[s] = "pending"
  OBVIOUS
<1>5. r = [kind |-> p.kind, status |-> status, undoes |-> p.undoes, snapback |-> p.snap, snap |-> slot,
           pre |-> pre, post |-> p.write, ended |-> time + 1, verify |-> wait, outcome |-> wait]
  BY DEF Record
<1> HIDE DEF pre, wait
<1>6. r \in Operations
  BY <1>2, <1>3, <1>5 DEF Operations, Typed
<1> QED
  BY <1>4, <1>5, <1>6
\* The journal has one entry more.
Grown(r) == /\ ops' \in Seq(Operations) /\ Len(ops') = Len(ops) + 1 /\ ops'[Len(ops) + 1] = r
            /\ \A i \in 1..Len(ops) : Follows(i, ops'[i])

LEMMA AppendGrows ==
  ASSUME Typed, NEW e, e = [i \in 1..Len(ops) |-> e[i]], \A i \in 1..Len(ops) : Follows(i, e[i]), NEW r \in Operations,
         ops' = Append(e, r)
  PROVE  Grown(r) /\ \A i \in 1..Len(ops) : ops'[i] = e[i]
<1>1. Len(ops) \in Nat /\ \A i \in 1..Len(ops) : e[i] \in Operations
  BY DEF Typed, Follows
<1>2. e \in Seq(Operations) /\ Len(e) = Len(ops)
  BY <1>1
<1>3. ops' \in Seq(Operations) /\ Len(ops') = Len(ops) + 1 /\ ops'[Len(ops) + 1] = r /\ \A i \in 1..Len(ops) : ops'[i] = e[i]
  BY <1>2
<1> QED
  BY <1>3 DEF Grown

LEMMA GrownContinues ==
  ASSUME Typed, NEW r, Grown(r)
  PROVE  Continues /\ Len(ops) \in Nat /\ \A i \in 1..Len(ops') : i \in 1..Len(ops) \/ i = Len(ops) + 1
<1>1. Len(ops) \in Nat
  BY DEF Typed
<1> QED
  BY <1>1 DEF Grown, Continues, Follows

\* A plan that may run.
Ready(p) == /\ p.kind \in Moves /\ p.write \in Parts(Filled) /\ p.undoes \in Nat /\ p.snap \in 0..Len(ops)
            /\ p.kind = "swap" => IsSwap(DOMAIN p.write)

LEMMA JournalGrows ==
  ASSUME Typed, Journaled, ConfirmedLasted, NEW p, Ready(p), NEW status \in Statuses, Grown(Record(p, status)),
         lasted \subseteq lasted'
  PROVE  Journaled' /\ ConfirmedLasted'
<1> DEFINE n == Len(ops)
           r == Record(p, status)
<1>1. n \in Nat /\ \A i \in 1..Len(ops') : i \in 1..n \/ i = n + 1
  BY GrownContinues
<1>2. /\ r.kind = p.kind /\ r.status = status /\ r.snapback = p.snap /\ r.post = p.write
      /\ DOMAIN r.pre = DOMAIN p.write
      /\ DOMAIN r.verify = DOMAIN p.write /\ \A s \in DOMAIN p.write : r.verify[s] = "pending"
      /\ DOMAIN r.outcome = DOMAIN p.write
  BY RecordIs DEF Ready
<1>3. ops'[n + 1] = r /\ \A i \in 1..n : Follows(i, ops'[i])
  BY DEF Grown
<1> HIDE DEF r
<1>4. Targets(r) = DOMAIN p.write /\ \A i \in 1..n : Targets(ops'[i]) = Targets(ops[i])
  BY <1>2, <1>3 DEF Targets, Follows, Kin
<1>5. OpFits(r, n + 1)
  BY <1>1, <1>2, <1>4 DEF OpFits, Ready
<1>6. \A i \in 1..n : OpFits(ops'[i], i)
  <2> SUFFICES ASSUME NEW i \in 1..n PROVE OpFits(ops'[i], i)
    OBVIOUS
  <2>1. OpFits(ops[i], i) /\ Follows(i, ops'[i]) /\ Targets(ops'[i]) = Targets(ops[i])
    BY <1>3, <1>4 DEF Journaled
  <2> QED
    BY <2>1 DEF OpFits, Follows, Kin
<1>7. Journaled'
  <2>1. \A i \in 1..Len(ops') : OpFits(ops'[i], i)
    BY <1>1, <1>3, <1>5, <1>6
  <2> QED
    BY <2>1 DEF Journaled, OpFits, Targets
<1>8. ConfirmedLasted'
  <2> SUFFICES ASSUME NEW i \in 1..Len(ops'), ops'[i].status = "done", NEW s \in Targets(ops'[i])
               PROVE  /\ ops'[i].verify[s] = "unchanged" => <<i, s, "session">> \in lasted'
                      /\ ops'[i].verify[s] = "uploaded"  => <<i, s, "cloud">> \in lasted'
    BY DEF ConfirmedLasted, Done, Targets
  <2>1. CASE i = n + 1
    BY <1>2, <1>3, <1>4, <2>1
  <2>2. CASE i \in 1..n
    <3>1. ops[i].status = "done" /\ s \in Targets(ops[i]) /\ ops'[i].verify = ops[i].verify
      BY <1>3, <1>4, <2>2 DEF Follows, Kin
    <3> QED
      BY <2>2, <3>1 DEF ConfirmedLasted, Done
  <2> QED
    BY <1>1, <2>1, <2>2
<1> QED
  BY <1>7, <1>8

\* What the whole-folder Undo may go to afterwards.
LEMMA CandidatesGrow ==
  ASSUME Typed, Journaled, NEW r, Grown(r), r.snapback \in 0..Len(ops)
  PROVE  /\ \A i \in 1..Len(ops) : i \in Candidates' <=>
              i \in Candidates /\ ~(r.status = "done" /\ r.kind = "lastundo" /\ r.snapback = i)
         /\ Len(ops) + 1 \in Candidates' <=> r.status \notin {"abandoned", "rolled_back"} /\ r.kind # "lastundo"
         /\ Candidates' \subseteq 1..(Len(ops) + 1)
<1> DEFINE n == Len(ops)
<1>1. n \in Nat /\ Len(ops') = n + 1 /\ ops'[n + 1] = r
  BY DEF Typed, Grown
<1>2. \A i \in 1..n : ops'[i].status = ops[i].status /\ ops'[i].kind = ops[i].kind /\ ops'[i].snapback = ops[i].snapback
  BY DEF Grown, Follows, Kin
<1>3. \A i \in 1..n : ops[i].snapback < i /\ ops[i].snapback \in Nat
  <2>1. \A i \in 1..n : ops[i] \in Operations
    BY DEF Typed
  <2> QED
    BY <2>1 DEF Journaled, OpFits, Operations
<1>4. \A i : i \in NotTargets' <=>
        \/ i \in 1..(n + 1) /\ (ops'[i].status \in {"abandoned", "rolled_back"} \/ ops'[i].kind = "lastundo")
        \/ \E j \in 1..(n + 1) : ops'[j].status = "done" /\ ops'[j].kind = "lastundo" /\ i = ops'[j].snapback
  BY <1>1 DEF NotTargets, Done
<1>5. \A i : i \in NotTargets <=>
        \/ i \in 1..n /\ (ops[i].status \in {"abandoned", "rolled_back"} \/ ops[i].kind = "lastundo")
        \/ \E j \in 1..n : ops[j].status = "done" /\ ops[j].kind = "lastundo" /\ i = ops[j].snapback
  BY DEF NotTargets, Done
<1>6. Candidates' = (1..(n + 1)) \ NotTargets' /\ Candidates = (1..n) \ NotTargets
  BY <1>1 DEF Candidates
<1> HIDE DEF n
<1>7. \A i \in 1..n : i \in NotTargets' <=> i \in NotTargets \/ (r.status = "done" /\ r.kind = "lastundo" /\ r.snapback = i)
  <2> SUFFICES ASSUME NEW i \in 1..n
               PROVE  i \in NotTargets' <=> i \in NotTargets \/ (r.status = "done" /\ r.kind = "lastundo" /\ r.snapback = i)
    OBVIOUS
  <2>1. (\E j \in 1..(n + 1) : ops'[j].status = "done" /\ ops'[j].kind = "lastundo" /\ i = ops'[j].snapback)
        <=> \/ \E j \in 1..n : ops[j].status = "done" /\ ops[j].kind = "lastundo" /\ i = ops[j].snapback
            \/ r.status = "done" /\ r.kind = "lastundo" /\ r.snapback = i
    BY <1>1, <1>2
  <2>2. i \in 1..(n + 1)
    BY <1>1
  <2> QED
    BY <1>2, <1>4, <1>5, <2>1, <2>2
<1>8. n + 1 \in NotTargets' <=> r.status \in {"abandoned", "rolled_back"} \/ r.kind = "lastundo"
  <2>1. \A j \in 1..(n + 1) : ops'[j].snapback # n + 1
    <3> SUFFICES ASSUME NEW j \in 1..(n + 1) PROVE ops'[j].snapback # n + 1
      OBVIOUS
    <3>1. CASE j = n + 1
      BY <1>1, <3>1 DEF n
    <3>2. CASE j # n + 1
      BY <1>1, <1>2, <1>3, <3>2
    <3> QED
      BY <3>1, <3>2
  <2>2. n + 1 \in 1..(n + 1)
    BY <1>1
  <2> QED
    BY <1>1, <1>4, <2>1, <2>2
<1>9. \A i \in 1..n : i \in 1..(n + 1)
  BY <1>1
<1>10. n + 1 \in 1..(n + 1)
  BY <1>1
<1> QED
  BY <1>6, <1>7, <1>8, <1>9, <1>10 DEF n
\* The snapshots not taken back, after a run that failed, a run and a step back.
LEMMA StackKept ==
  ASSUME Typed, Journaled, Stacked, NEW r, Grown(r), r.snapback \in 0..Len(ops), r.status \in {"abandoned", "rolled_back"},
         before' = before
  PROVE  Stacked'
<1> DEFINE n == Len(ops)
           m == Len(before)
<1>1. n \in Nat /\ Len(ops') = n + 1 /\ \A i \in 1..n : ops'[i].snap = ops[i].snap
  BY DEF Typed, Grown, Follows, Kin
<1>2. /\ \A i \in 1..n : i \in Candidates' <=> i \in Candidates
      /\ n + 1 \notin Candidates' /\ Candidates' \subseteq 1..(n + 1) /\ Candidates \subseteq 1..n
  BY CandidatesGrow DEF Candidates
<1>3. PICK f \in [1..m -> 1..n] :
        /\ \A k, l \in 1..m : k < l => f[k] < f[l]
        /\ \A k \in 1..m : f[k] \in Candidates /\ ops[f[k]].snap = before[k]
        /\ \A i \in Candidates : \E k \in 1..m : f[k] = i
  BY DEF Stacked, StackedBy
<1> HIDE DEF n, m
<1>4. f \in [1..m -> 1..(n + 1)]
  BY <1>1, <1>3
<1>5. \A k \in 1..m : f[k] \in Candidates' /\ ops'[f[k]].snap = before[k]
  BY <1>1, <1>2, <1>3
<1>6. \A i \in Candidates' : \E k \in 1..m : f[k] = i
  <2>1. Candidates' \subseteq Candidates
    BY <1>1, <1>2
  <2> QED
    BY <1>3, <2>1
<1>7. Len(before') = m /\ \A k \in 1..m : before'[k] = before[k]
  BY DEF m
<1>8. StackedBy(f)'
  BY <1>3, <1>5, <1>6, <1>7 DEF StackedBy
<1>9. f \in [1..Len(before') -> 1..Len(ops')]
  BY <1>1, <1>4, <1>7
<1> QED
  BY <1>8, <1>9 DEF Stacked

LEMMA StackPushed ==
  ASSUME Typed, Journaled, Stacked, NEW r, Grown(r), r.snapback \in 0..Len(ops), r.status = "done", r.kind # "lastundo", r.snap = slot,
         before' = Append(before, slot)
  PROVE  Stacked'
<1> DEFINE n == Len(ops)
           m == Len(before)
<1>1. n \in Nat /\ Len(ops') = n + 1 /\ ops'[n + 1] = r /\ \A i \in 1..n : ops'[i].snap = ops[i].snap
  BY DEF Typed, Grown, Follows, Kin
<1>2. /\ \A i \in 1..n : i \in Candidates' <=> i \in Candidates
      /\ n + 1 \in Candidates' /\ Candidates' \subseteq 1..(n + 1) /\ Candidates \subseteq 1..n
  BY CandidatesGrow DEF Candidates
<1>3. m \in Nat /\ Len(before') = m + 1 /\ before'[m + 1] = slot /\ \A k \in 1..m : before'[k] = before[k]
  BY DEF Typed
<1>4. PICK f \in [1..m -> 1..n] :
        /\ \A k, l \in 1..m : k < l => f[k] < f[l]
        /\ \A k \in 1..m : f[k] \in Candidates /\ ops[f[k]].snap = before[k]
        /\ \A i \in Candidates : \E k \in 1..m : f[k] = i
  BY DEF Stacked, StackedBy
<1> HIDE DEF n, m
<1> DEFINE g == [k \in 1..(m + 1) |-> IF k = m + 1 THEN n + 1 ELSE f[k]]
<1>5. g[m + 1] = n + 1 /\ \A k \in 1..m : k \in 1..(m + 1) /\ g[k] = f[k]
  BY <1>3
<1>6. \A k \in 1..(m + 1) : k = m + 1 \/ k \in 1..m
  BY <1>3
<1>7. g \in [1..(m + 1) -> 1..(n + 1)]
  <2>1. \A k \in 1..(m + 1) : g[k] \in 1..(n + 1)
    <3>1. \A k \in 1..m : f[k] \in 1..(n + 1)
      BY <1>1, <1>4
    <3>2. n + 1 \in 1..(n + 1)
      BY <1>1
    <3> QED
      BY <1>5, <1>6, <3>1, <3>2
  <2>2. g = [k \in 1..(m + 1) |-> g[k]]
    OBVIOUS
  <2> HIDE DEF g
  <2> QED
    BY <2>1, <2>2
<1> HIDE DEF g
<1>8. ASSUME NEW k \in 1..(m + 1), NEW l \in 1..(m + 1), k < l PROVE g[k] < g[l]
  <2>1. k \in 1..m
    BY <1>3, <1>8
  <2>2. CASE l = m + 1
    BY <1>1, <1>4, <1>5, <2>1, <2>2
  <2>3. CASE l \in 1..m
    BY <1>4, <1>5, <1>8, <2>1, <2>3
  <2> QED
    BY <1>6, <2>2, <2>3
<1>9. \A k \in 1..(m + 1) : g[k] \in Candidates' /\ ops'[g[k]].snap = before'[k]
  <2> SUFFICES ASSUME NEW k \in 1..(m + 1) PROVE g[k] \in Candidates' /\ ops'[g[k]].snap = before'[k]
    OBVIOUS
  <2>1. CASE k = m + 1
    BY <1>1, <1>2, <1>3, <1>5, <2>1
  <2>2. CASE k \in 1..m
    <3>1. f[k] \in 1..n
      BY <1>4, <2>2
    <3>2. f[k] \in Candidates /\ ops[f[k]].snap = before[k]
      BY <1>4, <2>2
    <3>3. g[k] = f[k] /\ before'[k] = before[k]
      BY <1>3, <1>5, <2>2
    <3> QED
      BY <1>1, <1>2, <3>1, <3>2, <3>3
  <2> QED
    BY <1>6, <2>1, <2>2
<1>10. ASSUME NEW i \in Candidates' PROVE \E k \in 1..(m + 1) : g[k] = i
  <2>1. CASE i = n + 1
    <3>1. m + 1 \in 1..(m + 1)
      BY <1>3
    <3> QED
      BY <1>5, <2>1, <3>1
  <2>2. CASE i # n + 1
    <3>1. i \in 1..n /\ i \in Candidates
      BY <1>1, <1>2, <1>10, <2>2
    <3>2. PICK k \in 1..m : f[k] = i
      BY <1>4, <3>1
    <3> QED
      BY <1>5, <3>2
  <2> QED
    BY <2>1, <2>2
<1>11. PICK h : h = g
  OBVIOUS
<1>12. StackedBy(h)'
  BY <1>3, <1>8, <1>9, <1>10, <1>11 DEF StackedBy
<1>13. h \in [1..Len(before') -> 1..Len(ops')]
  BY <1>1, <1>3, <1>7, <1>11
<1> QED
  BY <1>12, <1>13 DEF Stacked

LEMMA StackPopped ==
  ASSUME Typed, Journaled, Stacked, NEW r, Grown(r), r.snapback = Newest, Newest # 0, r.status = "done", r.kind = "lastundo",
         before' = SubSeq(before, 1, Len(before) - 1)
  PROVE  Stacked'
<1> DEFINE n == Len(ops)
           m == Len(before)
<1>1. n \in Nat /\ Len(ops') = n + 1 /\ ops'[n + 1] = r /\ \A i \in 1..n : ops'[i].snap = ops[i].snap
  BY DEF Typed, Grown, Follows, Kin
<1>2. Newest \in Candidates /\ Newest \in 1..n /\ (\A j \in Candidates : j <= Newest) /\ before # <<>>
  BY NewestIs
<1>3. /\ \A i \in 1..n : i \in Candidates' <=> i \in Candidates /\ i # Newest
      /\ n + 1 \notin Candidates' /\ Candidates' \subseteq 1..(n + 1) /\ Candidates \subseteq 1..n
  <2>1. r.snapback \in 0..Len(ops)
    BY <1>2
  <2> QED
    BY <1>1, <2>1, CandidatesGrow DEF Candidates
<1>4. m \in Nat /\ m > 0 /\ Len(before') = m - 1 /\ \A k \in 1..(m - 1) : before'[k] = before[k]
  <2>1. before \in Seq([Slots -> Pairs]) /\ m \in Nat /\ m > 0
    BY <1>2 DEF Typed
  <2>2. 1 \in Int /\ m - 1 \in Int /\ \A i \in 1..(m - 1) : before[i] \in [Slots -> Pairs]
    BY <2>1
  <2>3. Len(before') = (IF 1 <= m - 1 THEN m - 1 - 1 + 1 ELSE 0) /\ \A i \in 1..(m - 1 - 1 + 1) : before'[i] = before[1 + i - 1]
    BY <2>2, SubSeqProperties
  <2> HIDE DEF m
  <2> QED
    BY <2>1, <2>3
<1>5. PICK f \in [1..m -> 1..n] :
        /\ \A k, l \in 1..m : k < l => f[k] < f[l]
        /\ \A k \in 1..m : f[k] \in Candidates /\ ops[f[k]].snap = before[k]
        /\ \A i \in Candidates : \E k \in 1..m : f[k] = i
  BY DEF Stacked, StackedBy
<1> HIDE DEF n, m
<1>6. f[m] = Newest
  <2>1. m \in 1..m /\ f[m] \in 1..n /\ f[m] \in Candidates
    BY <1>4, <1>5
  <2>2. PICK k \in 1..m : f[k] = Newest
    BY <1>2, <1>5
  <2>3. k = m \/ k < m
    BY <1>4
  <2>4. f[m] <= Newest
    BY <1>2, <2>1
  <2> QED
    BY <1>2, <1>5, <2>1, <2>2, <2>3, <2>4
<1> DEFINE g == [k \in 1..(m - 1) |-> f[k]]
<1>7. \A k \in 1..(m - 1) : k \in 1..m /\ k < m /\ g[k] = f[k] /\ f[k] \in 1..n
  BY <1>4, <1>5
<1>8. g \in [1..(m - 1) -> 1..(n + 1)]
  BY <1>1, <1>7
<1> HIDE DEF g
<1>9. \A k, l \in 1..(m - 1) : k < l => g[k] < g[l]
  BY <1>5, <1>7
<1>10. \A k \in 1..(m - 1) : g[k] \in Candidates' /\ ops'[g[k]].snap = before'[k]
  <2> SUFFICES ASSUME NEW k \in 1..(m - 1) PROVE g[k] \in Candidates' /\ ops'[g[k]].snap = before'[k]
    OBVIOUS
  <2>1. k \in 1..m /\ m \in 1..m /\ k < m /\ g[k] = f[k] /\ f[k] \in 1..n /\ f[m] \in 1..n
    BY <1>4, <1>5, <1>7
  <2>2. f[k] < f[m]
    BY <1>5, <2>1
  <2>3. f[k] # Newest
    BY <1>1, <1>6, <2>1, <2>2
  <2>4. f[k] \in Candidates /\ ops[f[k]].snap = before[k]
    BY <1>5, <2>1
  <2>5. before'[k] = before[k]
    BY <1>4
  <2> QED
    BY <1>1, <1>3, <2>1, <2>3, <2>4, <2>5
<1>11. ASSUME NEW i \in Candidates' PROVE \E k \in 1..(m - 1) : g[k] = i
  <2>1. i \in 1..n /\ i \in Candidates /\ i # Newest
    BY <1>1, <1>3, <1>11
  <2>2. PICK k \in 1..m : f[k] = i
    BY <1>5, <2>1
  <2>3. k \in 1..(m - 1)
    BY <1>4, <1>6, <2>1, <2>2
  <2> QED
    BY <1>7, <2>2, <2>3
<1>12. PICK h : h = g
  OBVIOUS
<1>13. StackedBy(h)'
  BY <1>4, <1>9, <1>10, <1>11, <1>12 DEF StackedBy
<1>14. h \in [1..Len(before') -> 1..Len(ops')]
  BY <1>1, <1>4, <1>8, <1>12
<1> QED
  BY <1>13, <1>14 DEF Stacked
\* What a run does to the rest, whether it is done or not.
Runs(w, p, status) ==
  /\ Ready(p) /\ Grown(Record(p, status))
  /\ plan' = [plan EXCEPT ![w] = NoPlan] /\ game = 0 /\ UNCHANGED <<game, cloud, looked>>
  /\ count' \in [Events -> Nat] /\ lasted \subseteq lasted'
  /\ slot' \in [Slots -> Pairs] /\ mtime' \in [Slots -> Nat] /\ Times
  /\ vault' \subseteq Filled
  /\ before' \in Seq([Slots -> Pairs])
  /\ time' = IF status = "done" THEN time + 1 ELSE time

LEMMA RunKeeps ==
  ASSUME Typed, Journaled, Planned, ConfirmedLasted,
         NEW w \in Windows, NEW p, NEW status \in Statuses, Runs(w, p, status)
  PROVE  Typed' /\ Journaled' /\ Planned' /\ ConfirmedLasted'
<1>1. Grown(Record(p, status)) /\ Continues
  BY GrownContinues DEF Runs
<1>2. plan' = [x \in Windows |-> plan'[x]] /\ \A x \in Windows : plan'[x] = plan[x] \/ plan'[x] = NoPlan
  BY DEF Runs, Typed
<1>3. time \in Nat /\ time' \in Nat /\ time <= time'
  BY DEF Runs, Typed
<1>4. Typed'
  <2>1. game' \in 0..time' /\ looked' \in [run : 0..time', end : 0..time']
    <3>1. game' = 0 /\ looked' = looked /\ looked \in [run : 0..time, end : 0..time]
      BY DEF Runs, Typed
    <3>2. 0..time \subseteq 0..time' /\ 0 \in 0..time'
      BY <1>3
    <3> QED
      BY <3>1, <3>2
  <2>2. \A x \in Windows : plan'[x] = NoPlan \/ plan'[x] \in Plans
    BY <1>2 DEF Typed
  <2>3. /\ count' \in [Events -> Nat] /\ slot' \in [Slots -> Pairs] /\ cloud' \in [Slots -> Pairs] /\ mtime' \in [Slots -> Nat]
        /\ vault' \subseteq Filled /\ before' \in Seq([Slots -> Pairs])
    BY DEF Runs, Typed
  <2>4. ops' \in Seq(Operations)
    BY <1>1 DEF Grown
  <2> QED
    BY <1>2, <1>3, <2>1, <2>2, <2>3, <2>4 DEF Typed
<1>5. Journaled' /\ ConfirmedLasted'
  BY <1>1, JournalGrows DEF Runs
<1>6. Planned'
  BY <1>1, <1>2, PlansStay DEF Runs
<1> QED
  BY <1>4, <1>5, <1>6
\* Where nothing is observed yet of an earlier operation, nothing was before.
LEMMA PendingBefore ==
  ASSUME Typed, Journaled, NEW i \in 1..Len(ops), Follows(i, ops'[i]), NEW s \in Slots, Pending(i, s)'
  PROVE  /\ Pending(i, s) /\ ~(s \in Changed /\ seen[s].op = i)
         /\ ops'[i].ended = ops[i].ended /\ ops'[i].post = ops[i].post
<1>1. ops'[i].status = "done" /\ s \in DOMAIN ops'[i].post /\ ops'[i].outcome[s] = "pending"
  BY DEF Pending, Done, Targets
<1>2. OpFits(ops[i], i)
  BY DEF Journaled
<1>3. /\ ops[i].status = "done" /\ s \in DOMAIN ops[i].post /\ s \in DOMAIN ops'[i].outcome
      /\ ops'[i].ended = ops[i].ended /\ ops'[i].post = ops[i].post
  BY <1>1, <1>2 DEF Follows, Kin, OpFits, Targets
<1> QED
  BY <1>1, <1>3 DEF Follows, Pending, Done, Targets

LEMMA FailKeeps ==
  ASSUME Sure, NEW w \in Windows, NEW status \in {"abandoned", "rolled_back"}, ExecuteFails(w, status)
  PROVE  Sure'
<1> DEFINE p == Final(plan[w])
           r == Record(p, status)
           n == Len(ops)
<1>1. Typed /\ Journaled /\ Planned /\ Stacked /\ Watched /\ Waited /\ Clouded /\ ConfirmedLasted
  BY DEF Sure
<1>2. /\ plan[w] # NoPlan /\ game = 0 /\ Spend("faults") /\ plan' = [plan EXCEPT ![w] = NoPlan]
      /\ ops' = Append(Observed, r) /\ seen' = SeenNow
      /\ mtime' = IF status = "abandoned" THEN mtime ELSE [s \in Slots |-> mtime[s] + (IF s \in DOMAIN p.write THEN 1 ELSE 0)]
      /\ UNCHANGED <<slot, game, cloud, vault, time, looked, before, lasted>>
  BY DEF ExecuteFails
<1>3. Ready(p)
  <2>1. PICK q : q = p
    OBVIOUS
  <2> HIDE DEF p
  <2>2. Ready(q)
    BY <1>1, <1>2, <2>1, FinalIs DEF Ready, p
  <2> QED
    BY <2>1, <2>2
<1> HIDE DEF p
<1>4. status \in Statuses /\ status # "done"
  BY DEF Statuses
<1>5. r \in Operations /\ r.status = status /\ r.snapback \in 0..n
  BY <1>1, <1>3, <1>4, RecordIs DEF Ready
<1> HIDE DEF r
<1>6. Grown(r)
  <2>1. Observed = [i \in 1..Len(ops) |-> Observed[i]]
    BY DEF Observed
  <2>2. \A i \in 1..Len(ops) : Follows(i, Observed[i])
    BY <1>1, ObservedFollows
  <2> QED
    BY <1>1, <1>2, <1>5, <2>1, <2>2, AppendGrows
<1>7. count' \in [Events -> Nat]
  BY <1>1, <1>2, Spent DEF Events
<1>8. mtime' \in [Slots -> Nat] /\ Times
  BY <1>1, <1>2 DEF Typed, Times
<1>9. Runs(w, p, status)
  BY <1>1, <1>2, <1>3, <1>4, <1>6, <1>7, <1>8 DEF Runs, Typed, r
<1>10. Typed' /\ Journaled' /\ Planned' /\ ConfirmedLasted'
  BY <1>1, <1>4, <1>9, RunKeeps
<1>11. Stacked'
  BY <1>1, <1>2, <1>5, <1>6, StackKept
<1>12. ASSUME NEW i \in 1..Len(ops'), NEW s \in Slots, Pending(i, s)'
       PROVE  /\ i \in 1..n /\ Pending(i, s) /\ ~(s \in Changed /\ seen[s].op = i)
              /\ ops'[i].ended = ops[i].ended /\ ops'[i].post = ops[i].post
  <2>1. i \in 1..n \/ i = n + 1
    BY <1>1, <1>6, GrownContinues
  <2>2. i \in 1..n
    BY <1>4, <1>5, <1>6, <1>12, <2>1 DEF Grown, Pending, Done
  <2> QED
    BY <1>1, <1>6, <1>12, <2>2, PendingBefore DEF Grown
<1>13. Watched'
  <2> SUFFICES ASSUME NEW i \in 1..Len(ops'), NEW s \in Slots, Pending(i, s)' PROVE seen'[s].op = i
    BY DEF Watched
  <2>1. i \in 1..Len(ops) /\ Pending(i, s) /\ ~(s \in Changed /\ seen[s].op = i)
    BY <1>12
  <2>2. seen[s].op = i
    BY <1>1, <2>1 DEF Watched
  <2> QED
    BY <1>2, <2>1, <2>2 DEF SeenNow
<1>14. Waited'
  <2> SUFFICES ASSUME NEW i \in 1..Len(ops'), NEW s \in Slots, Pending(i, s)', SessionOver(i)'
               PROVE  <<i, s, "session">> \in lasted' \/ slot'[s] # ops'[i].post[s]
    BY DEF Waited
  <2>1. i \in 1..Len(ops) /\ Pending(i, s) /\ ops'[i].ended = ops[i].ended /\ ops'[i].post = ops[i].post
    BY <1>12
  <2>2. SessionOver(i)
    BY <1>2, <2>1 DEF SessionOver
  <2> QED
    BY <1>1, <1>2, <2>1, <2>2 DEF Waited
<1>15. Clouded'
  <2> SUFFICES ASSUME NEW i \in 1..Len(ops'), NEW s \in Slots, Placed(i, s)', cloud[s] = ops'[i].post[s]
               PROVE  <<i, s, "cloud">> \in lasted
    BY <1>2 DEF Clouded
  <2>1. i \in 1..n \/ i = n + 1
    BY <1>1, <1>6, GrownContinues
  <2>2. i \in 1..n
    BY <1>4, <1>5, <1>6, <2>1 DEF Grown, Placed, Done
  <2>3. Kin(ops[i], ops'[i])
    BY <1>6, <2>2 DEF Grown, Follows
  <2>4. Placed(i, s) /\ cloud[s] = ops[i].post[s]
    BY <2>3 DEF Kin, Placed, Done, Targets
  <2> QED
    BY <1>1, <2>2, <2>4 DEF Clouded
<1> QED
  BY <1>10, <1>11, <1>13, <1>14, <1>15 DEF Sure

LEMMA ExecuteKeeps == ASSUME Sure, NEW w \in Windows, Execute(w) PROVE Sure'
<1> DEFINE p == Final(plan[w])
           D == DOMAIN p.write
           r == Record(p, "done")
           n == Len(ops)
           e == [i \in 1..Len(ops) |-> Superseded(i, D)]
<1>1. Typed /\ Journaled /\ Planned /\ Stacked /\ Watched /\ Waited /\ Clouded /\ ConfirmedLasted
  BY DEF Sure
<1>2. /\ plan[w] # NoPlan /\ game = 0 /\ plan' = [plan EXCEPT ![w] = NoPlan] /\ time' = time + 1
      /\ p.kind = "lastundo" => Newest = p.snap
      /\ slot' = [s \in Slots |-> IF s \in D THEN p.write[s] ELSE slot[s]]
      /\ mtime' = [s \in Slots |-> mtime[s] + (IF s \in D THEN 1 ELSE 0)]
      /\ vault' = vault \cup {slot[s] : s \in {t \in D : Present(slot[t])}}
      /\ seen' = [s \in Slots |-> IF s \in D THEN [pair |-> Vids(p.write[s]), op |-> Len(ops) + 1, evicted |-> Vids(slot[s])]
                                  ELSE SeenNow[s]]
      /\ before' = IF p.kind = "lastundo" THEN SubSeq(before, 1, Len(before) - 1) ELSE Append(before, slot)
      /\ lasted' = lasted \cup Standing(ops', cloud, "cloud")
      /\ UNCHANGED <<game, cloud, looked, count>>
  BY DEF Execute
<1>3. ops' = Append(e, r)
  BY DEF Execute, Superseded
<1>4. Ready(p) /\ D \subseteq Slots /\ \A s \in D : p.write[s] \in Filled
  <2>1. PICK q : q = p
    OBVIOUS
  <2> HIDE DEF p
  <2>2. Ready(q) /\ DOMAIN q.write \subseteq Slots /\ \A s \in DOMAIN q.write : q.write[s] \in Filled
    BY <1>1, <1>2, <2>1, FinalIs DEF Ready, p
  <2> QED
    BY <2>1, <2>2
<1>5. p.kind = "lastundo" => p.snap # 0
  <2>1. plan[w] \in Plans /\ PlanFits(plan[w])
    BY <1>1, <1>2 DEF Typed, Planned
  <2> QED
    BY <2>1 DEF PlanFits, Final, Plans
<1> HIDE DEF p
<1>6. "done" \in Statuses
  BY DEF Statuses
<1>7. /\ r \in Operations /\ r.status = "done" /\ r.snapback = p.snap /\ r.snapback \in 0..n /\ r.kind = p.kind /\ r.snap = slot
      /\ r.post = p.write /\ r.ended = time + 1 /\ DOMAIN r.outcome = D
  BY <1>1, <1>4, <1>6, RecordIs DEF Ready
<1> HIDE DEF r
<1>8. /\ \A i \in 1..Len(ops) : Follows(i, e[i])
      /\ \A i \in 1..Len(ops) : \A s \in DOMAIN e[i].outcome : e[i].outcome[s] = "pending" => ~(s \in D /\ SeenNow[s].op = i)
  BY <1>1, SupersededFollows
<1>9. e = [i \in 1..Len(ops) |-> e[i]]
  OBVIOUS
<1> HIDE DEF e
<1>10. Grown(r) /\ \A i \in 1..n : ops'[i] = e[i]
  BY <1>1, <1>3, <1>7, <1>8, <1>9, AppendGrows
<1>11. slot' \in [Slots -> Pairs]
  <2>1. \A s \in Slots : slot[s] \in Pairs
    BY <1>1 DEF Typed
  <2>2. \A s \in D : p.write[s] \in Pairs
    BY <1>4 DEF Filled
  <2> QED
    BY <1>2, <2>1, <2>2
<1>12. vault' \subseteq Filled
  BY <1>1, <1>2, <1>4 DEF Typed, Filled
<1>13. before' \in Seq([Slots -> Pairs])
  <2>1. before \in Seq([Slots -> Pairs]) /\ slot \in [Slots -> Pairs] /\ Len(before) \in Nat
    BY <1>1 DEF Typed
  <2>2. Append(before, slot) \in Seq([Slots -> Pairs])
    BY <2>1
  <2>3. SubSeq(before, 1, Len(before) - 1) \in Seq([Slots -> Pairs])
    <3>1. 1 \in Int /\ Len(before) - 1 \in Int /\ \A i \in 1..(Len(before) - 1) : before[i] \in [Slots -> Pairs]
      BY <2>1
    <3> QED
      BY <3>1, SubSeqProperties
  <2> QED
    BY <1>2, <2>2, <2>3
<1>14. \A s \in Slots : /\ mtime[s] \in Nat /\ mtime'[s] = mtime[s] + (IF s \in D THEN 1 ELSE 0)
                        /\ s \notin D => slot'[s] = slot[s]
  BY <1>1, <1>2 DEF Typed
<1>15. mtime' \in [Slots -> Nat] /\ Times
  BY <1>2, <1>14 DEF Times
<1>16. count' \in [Events -> Nat] /\ lasted \subseteq lasted'
  BY <1>1, <1>2 DEF Typed
<1>17. Runs(w, p, "done")
  BY <1>2, <1>4, <1>10, <1>11, <1>12, <1>13, <1>15, <1>16 DEF Runs, r
<1>18. Typed' /\ Journaled' /\ Planned' /\ ConfirmedLasted'
  BY <1>1, <1>6, <1>17, RunKeeps
<1>19. Stacked'
  <2>1. CASE p.kind = "lastundo"
    BY <1>1, <1>2, <1>5, <1>7, <1>10, <2>1, StackPopped
  <2>2. CASE p.kind # "lastundo"
    BY <1>1, <1>2, <1>7, <1>10, <2>2, StackPushed
  <2> QED
    BY <2>1, <2>2
<1>20. ASSUME NEW i \in 1..n, NEW s \in Slots, Pending(i, s)'
       PROVE  /\ Pending(i, s) /\ seen[s].op = i /\ SeenNow[s] = seen[s] /\ s \notin D
              /\ ops'[i].ended = ops[i].ended /\ ops'[i].post = ops[i].post
  <2>1. /\ Pending(i, s) /\ ~(s \in Changed /\ seen[s].op = i) /\ ops'[i].ended = ops[i].ended /\ ops'[i].post = ops[i].post
    BY <1>1, <1>10, <1>20, PendingBefore DEF Grown
  <2>2. seen[s].op = i
    BY <1>1, <2>1 DEF Watched
  <2>3. SeenNow[s] = seen[s]
    BY <2>1, <2>2 DEF SeenNow
  <2>4. s \in DOMAIN e[i].outcome /\ e[i].outcome[s] = "pending"
    <3>1. ops'[i] = e[i] /\ OpFits(ops[i], i) /\ Follows(i, e[i])
      BY <1>1, <1>8, <1>10 DEF Journaled
    <3> QED
      BY <1>20, <2>1, <3>1 DEF Pending, OpFits, Follows
  <2> QED
    BY <1>8, <2>1, <2>2, <2>3, <2>4
<1>21. n \in Nat /\ \A i \in 1..Len(ops') : i \in 1..n \/ i = n + 1
  BY <1>1, <1>10, GrownContinues
<1>22. ops'[n + 1] = r
  BY <1>10 DEF Grown
<1>23. Watched'
  <2> SUFFICES ASSUME NEW i \in 1..Len(ops'), NEW s \in Slots, Pending(i, s)' PROVE seen'[s].op = i
    BY DEF Watched
  <2>1. CASE i \in 1..n
    BY <1>2, <1>20, <2>1
  <2>2. CASE i = n + 1
    <3>1. s \in D
      BY <1>7, <1>22, <2>2 DEF Pending, Targets
    <3> QED
      BY <1>2, <2>2, <3>1
  <2> QED
    BY <1>21, <2>1, <2>2
<1>24. Waited'
  <2> SUFFICES ASSUME NEW i \in 1..Len(ops'), NEW s \in Slots, Pending(i, s)', SessionOver(i)'
               PROVE  <<i, s, "session">> \in lasted' \/ slot'[s] # ops'[i].post[s]
    BY DEF Waited
  <2>1. CASE i \in 1..n
    <3>1. Pending(i, s) /\ s \notin D /\ ops'[i].ended = ops[i].ended /\ ops'[i].post = ops[i].post
      BY <1>20, <2>1
    <3>2. SessionOver(i)
      BY <1>2, <3>1 DEF SessionOver
    <3>3. <<i, s, "session">> \in lasted \/ slot[s] # ops[i].post[s]
      BY <1>1, <2>1, <3>1, <3>2 DEF Waited
    <3> QED
      BY <1>14, <1>16, <3>1, <3>3
  <2>2. CASE i = n + 1
    <3>1. looked.run > time + 1
      BY <1>2, <1>7, <1>22, <2>2 DEF SessionOver
    <3>2. looked.run \in 0..time /\ time \in Nat
      BY <1>1 DEF Typed
    <3> QED
      BY <3>1, <3>2
  <2> QED
    BY <1>21, <2>1, <2>2
<1>25. Clouded'
  <2>1. Standing(ops', cloud', "cloud") \subseteq lasted'
    BY <1>2
  <2> QED
    BY <2>1, CloudNoted
<1> QED
  BY <1>18, <1>19, <1>23, <1>24, <1>25 DEF Sure

-----------------------------------------------------------------------------
\* Looking again.

\* What confirmed a pair that is still as it was placed.
Found(o, s, l, why) ==
  /\ Vids(slot[s]) = Vids(o.post[s]) /\ slot[s].newer = o.post[s].newer
  /\ why = "unchanged" => o.outcome[s] = "pending" /\ SessionAfter(o, l)
  /\ why = "uploaded"  => cloud[s] = slot[s]

LEMMA DeriveIs ==
  ASSUME NEW o, NEW s, NEW l, NEW told, o.outcome[s] \in Fates
  PROVE  /\ Derive(o, s, l, told) \in Verdicts
         /\ \A why \in {"unchanged", "uploaded"} : Derive(o, s, l, told) = why => Found(o, s, l, why)
<1> DEFINE v == Vids(slot[s]) = Vids(o.post[s])
           x == slot[s].newer # o.post[s].newer
           y == Vids(o.post[s]) = Vids(o.pre[s])
           z == SessionAfter(o, l)
           u == Uploaded(s, told)
           e == EvictedSave(o, s)
           b == Vids(slot[s]) = Vids(o.pre[s])
           h == Present(slot[s])
           c == o.outcome[s]
           d == Derive(o, s, l, told)
<1>1. d = CASE c \in {"confirmed", "superseded", "reverted"} -> c
            [] c = "unexpected" -> IF ~h THEN "deleted" ELSE IF e THEN "reverted" ELSE "replaced"
            [] c = "pending" /\ v -> IF x THEN IF y THEN "reverted" ELSE "pending"
                                     ELSE IF u THEN "uploaded" ELSE IF z THEN "unchanged" ELSE "pending"
            [] OTHER -> IF ~h THEN "deleted" ELSE IF b \/ e THEN "reverted" ELSE "pending"
  BY DEF Derive
<1>2. c \in {"pending", "confirmed", "superseded", "reverted", "unexpected"}
  BY DEF Fates
<1>3. u => cloud[s] = slot[s]
  BY DEF Uploaded
<1> HIDE DEF c, h, e, z, u, y, x, v, b, d
<1>4. CASE c \in {"confirmed", "superseded", "reverted"}
  BY <1>1, <1>4 DEF Verdicts, c, d
<1>5. CASE c = "unexpected"
  <2>1. d \in {"deleted", "reverted", "replaced"}
    BY <1>1, <1>5
  <2> QED
    BY <2>1 DEF Verdicts, d
<1>6. CASE c = "pending" /\ v
  <2>1. d = IF x THEN IF y THEN "reverted" ELSE "pending" ELSE IF u THEN "uploaded" ELSE IF z THEN "unchanged" ELSE "pending"
    BY <1>1, <1>6
  <2>2. d \in Verdicts /\ (d = "unchanged" => ~x /\ z) /\ (d = "uploaded" => ~x /\ u)
    BY <2>1 DEF Verdicts
  <2> QED
    BY <1>3, <1>6, <2>2 DEF Found, v, x, z, c, d
<1>7. CASE c = "pending" /\ ~v
  <2>1. d \in {"deleted", "reverted", "pending"}
    BY <1>1, <1>7
  <2> QED
    BY <2>1 DEF Verdicts, d
<1> QED
  BY <1>2, <1>4, <1>5, <1>6, <1>7

\* What an entry of the journal is once what the evidence settles is in it.
Judges(i, q, l) ==
  /\ q \in Operations /\ Kin(ops[i], q) /\ q.outcome = Observed[i].outcome
  /\ DOMAIN q.verify = DOMAIN ops[i].verify
  /\ \A s \in DOMAIN ops[i].verify : \A why \in {"unchanged", "uploaded"} :
       q.verify[s] = why /\ ops[i].verify[s] # why => Found(Observed[i], s, l, why)

LEMMA VerifiedIs ==
  ASSUME Typed, Journaled, NEW i \in 1..Len(ops), NEW old \in BOOLEAN, NEW l, NEW told, NEW blind, NEW mute
  PROVE  Judges(i, Verified(Observed[i], l, old, told, blind, mute), l)
<1> DEFINE q == Verified(Observed[i], l, old, told, blind, mute)
           o == Observed[i]
           g(s) == IF s \in blind THEN "pending" ELSE Derive(o, s, l, told)
           d(s) == IF o.verify[s] # "pending" \/ s \in mute THEN o.verify[s]
                   ELSE IF g(s) = "pending" /\ old THEN "expired" ELSE g(s)
           f == [s \in DOMAIN o.verify |-> d(s)]
<1>1. Follows(i, o) /\ OpFits(ops[i], i)
  BY ObservedFollows DEF Journaled
<1>2. o \in Operations /\ o.verify = ops[i].verify /\ DOMAIN o.verify = DOMAIN o.outcome /\ Kin(ops[i], o)
  BY <1>1 DEF Follows, OpFits
<1>3. /\ DOMAIN o.verify \subseteq Slots /\ \A s \in DOMAIN o.verify : o.verify[s] \in Verdicts
      /\ \A s \in DOMAIN o.outcome : o.outcome[s] \in Fates
  <2>1. o.verify \in Parts(Verdicts) /\ o.outcome \in Parts(Fates)
    BY <1>2 DEF Operations
  <2> QED
    BY <2>1, PartsAre
<1>4. ASSUME NEW s \in DOMAIN o.verify
      PROVE  g(s) \in Verdicts /\ \A why \in {"unchanged", "uploaded"} : g(s) = why => Found(o, s, l, why)
  <2>1. /\ Derive(o, s, l, told) \in Verdicts
        /\ \A why \in {"unchanged", "uploaded"} : Derive(o, s, l, told) = why => Found(o, s, l, why)
    BY <1>2, <1>3, DeriveIs
  <2> HIDE DEF o
  <2> QED
    BY <2>1 DEF Verdicts
<1>5. q = IF o.status # "done" THEN o ELSE [o EXCEPT !.verify = f]
  BY DEF Verified
<1> HIDE DEF o, g, q
<1>6. ASSUME NEW s \in DOMAIN o.verify
      PROVE  d(s) \in Verdicts /\ \A why \in {"unchanged", "uploaded"} : d(s) = why /\ o.verify[s] # why => Found(o, s, l, why)
  <2>1. /\ g(s) \in Verdicts /\ \A why \in {"unchanged", "uploaded"} : g(s) = why => Found(o, s, l, why)
    BY <1>4
  <2>2. o.verify[s] \in Verdicts /\ "expired" \in Verdicts
    BY <1>3 DEF Verdicts
  <2>3. d(s) \in {o.verify[s], "expired", g(s)}
    OBVIOUS
  <2> HIDE DEF d
  <2> QED
    BY <2>1, <2>2, <2>3
<1>7. f \in Parts(Verdicts)
  <2> HIDE DEF d
  <2>1. f \in [DOMAIN o.verify -> Verdicts]
    BY <1>6
  <2> QED
    BY <1>3, <2>1, PartIs
<1>8. DOMAIN f = DOMAIN o.verify /\ \A s \in DOMAIN o.verify : f[s] = d(s)
  OBVIOUS
<1> HIDE DEF f, d
<1>9. CASE o.status # "done"
  <2>1. q = o
    BY <1>5, <1>9
  <2>2. q \in Operations /\ Kin(ops[i], q) /\ q.outcome = o.outcome /\ q.verify = ops[i].verify
    BY <1>2, <2>1
  <2> QED
    BY <2>2 DEF Judges, q, o
<1>10. CASE o.status = "done"
  <2>1. q = [o EXCEPT !.verify = f]
    BY <1>5, <1>10
  <2>2. q \in Operations /\ Kin(o, q) /\ q.verify = f /\ q.outcome = o.outcome
    BY <1>2, <1>7, <2>1, Decided
  <2>3. Kin(ops[i], q)
    BY <1>2, <2>2, KinOfKin
  <2>4. DOMAIN q.verify = DOMAIN ops[i].verify
    BY <1>2, <1>8, <2>2
  <2>5. \A s \in DOMAIN ops[i].verify : \A why \in {"unchanged", "uploaded"} :
          q.verify[s] = why /\ ops[i].verify[s] # why => Found(o, s, l, why)
    BY <1>2, <1>6, <1>8, <2>2
  <2> QED
    BY <2>2, <2>3, <2>4, <2>5 DEF Judges, q, o
<1> QED
  BY <1>9, <1>10

LEMMA NotedIs ==
  ASSUME Typed, NotesGame
  PROVE  /\ time' \in Nat /\ time <= time' /\ looked' \in [run : 0..time', end : 0..time']
         /\ game \in 0..time'
         /\ game = 0 => looked'.run = looked.run
<1> DEFINE l == Noted
<1>1. looked' = l /\ time' = IF l.end # looked.end THEN time + 1 ELSE time
  BY DEF NotesGame
<1>2. time \in Nat /\ game \in 0..time /\ looked \in [run : 0..time, end : 0..time]
  BY DEF Typed
<1>3. looked.run \in 0..time /\ looked.end \in 0..time /\ looked = [run |-> looked.run, end |-> looked.end]
  BY <1>2
<1>4. CASE game # 0
  <2>1. l = [run |-> time, end |-> looked.end]
    BY <1>3, <1>4 DEF Noted
  <2> HIDE DEF l
  <2> QED
    BY <1>1, <1>2, <1>3, <1>4, <2>1
<1>5. CASE game = 0 /\ (looked.run = 0 \/ looked.end >= looked.run)
  <2>1. l = looked
    BY <1>5 DEF Noted
  <2> HIDE DEF l
  <2> QED
    BY <1>1, <1>2, <1>3, <1>5, <2>1
<1>6. CASE game = 0 /\ ~(looked.run = 0 \/ looked.end >= looked.run)
  <2>1. l = [run |-> looked.run, end |-> time + 1]
    BY <1>3, <1>6 DEF Noted
  <2> HIDE DEF l
  <2>2. l.end # looked.end
    BY <1>2, <1>3, <2>1
  <2> QED
    BY <1>1, <1>2, <1>3, <1>6, <2>1, <2>2
<1> QED
  BY <1>4, <1>5, <1>6

LEMMA ProbesKeeps == ASSUME Sure, Probes PROVE Sure'
<1>1. Typed /\ Journaled /\ Planned /\ Stacked /\ Watched /\ Waited /\ Clouded /\ ConfirmedLasted
  BY DEF Sure
<1>2. NotesGame /\ UNCHANGED <<slot, mtime, game, cloud, vault, ops, seen, known, plan, before, lasted, count>>
  BY DEF Probes
<1>3. /\ time' \in Nat /\ looked' \in [run : 0..time', end : 0..time'] /\ game \in 0..time'
      /\ game = 0 => looked'.run = looked.run
  BY <1>1, <1>2, NotedIs
<1>4. Typed'
  BY <1>1, <1>2, <1>3 DEF Typed
<1>5. Journaled' /\ Stacked' /\ Watched' /\ ConfirmedLasted' /\ Continues
  BY <1>1, <1>2, JournalStays
<1>6. Planned'
  <2>1. Times
    BY <1>1, <1>2 DEF Times, Typed
  <2> QED
    BY <1>1, <1>2, <1>5, <2>1, PlansStay
<1>7. Waited' /\ Clouded'
  BY <1>1, <1>2, <1>3 DEF Waited, Pending, Done, Targets, SessionOver, Clouded, Placed
<1> QED
  BY <1>4, <1>5, <1>6, <1>7 DEF Sure

LEMMA LookKeeps ==
  ASSUME Sure, NEW old \in BOOLEAN, NEW told, NEW blind, NEW mute, Look(old, told, blind, mute)
  PROVE  Sure'
<1> DEFINE n == Len(ops)
           l == Noted
<1>1. Typed /\ Journaled /\ Planned /\ Stacked /\ Watched /\ Waited /\ Clouded /\ ConfirmedLasted
  BY DEF Sure
<1>2. /\ NotesGame /\ looked' = l
      /\ ops' = [i \in 1..n |-> Verified(Observed[i], l, old, told, blind, mute)] /\ seen' = SeenNow
      /\ UNCHANGED <<slot, mtime, game, cloud, vault, plan, before, lasted>>
  BY DEF Look, NotesGame
<1>3. n \in Nat
  BY <1>1 DEF Typed
<1>4. /\ time' \in Nat /\ looked' \in [run : 0..time', end : 0..time'] /\ game \in 0..time'
      /\ game = 0 => looked'.run = looked.run
  BY <1>1, <1>2, NotedIs
<1>5. Len(ops') = n /\ ops' \in Seq(Operations) /\ Continues
  <2>1. ASSUME NEW i \in 1..n PROVE Judges(i, Verified(Observed[i], l, old, told, blind, mute), l)
    BY <1>1, VerifiedIs
  <2> HIDE DEF l
  <2>2. ops' \in [1..n -> Operations] /\ \A i \in 1..n : Kin(ops[i], ops'[i])
    BY <1>2, <2>1 DEF Judges
  <2>3. Len(ops') = n /\ ops' \in Seq(Operations)
    BY <1>3, <2>2
  <2> QED
    BY <1>3, <2>2, <2>3 DEF Continues
<1>6. ASSUME NEW i \in 1..n
      PROVE  /\ Kin(ops[i], ops'[i]) /\ ops'[i].outcome = Observed[i].outcome /\ DOMAIN ops'[i].verify = DOMAIN ops[i].verify
             /\ DOMAIN ops'[i].outcome = DOMAIN ops[i].outcome
             /\ \A s \in DOMAIN ops[i].verify : \A why \in {"unchanged", "uploaded"} :
                  ops'[i].verify[s] = why /\ ops[i].verify[s] # why => Found(Observed[i], s, l, why)
             /\ \A s \in DOMAIN ops[i].outcome : ops'[i].outcome[s] = "pending" =>
                  ops[i].outcome[s] = "pending" /\ ~(s \in Changed /\ seen[s].op = i)
  <2>1. ops'[i] = Verified(Observed[i], l, old, told, blind, mute)
    BY <1>2
  <2>2. /\ DOMAIN Observed[i].outcome = DOMAIN ops[i].outcome
        /\ \A s \in DOMAIN ops[i].outcome : Observed[i].outcome[s] = "pending" =>
             ops[i].outcome[s] = "pending" /\ ~(s \in Changed /\ seen[s].op = i)
    BY <1>1, ObservedIs
  <2>3. Judges(i, Verified(Observed[i], l, old, told, blind, mute), l)
    BY <1>1, VerifiedIs
  <2> HIDE DEF l
  <2>4. Judges(i, ops'[i], l)
    BY <2>1, <2>3
  <2> QED
    BY <2>2, <2>4 DEF Judges
<1> HIDE DEF l
<1>7. \A i \in 1..n : /\ ops'[i].kind = ops[i].kind /\ ops'[i].status = ops[i].status /\ ops'[i].ended = ops[i].ended
                      /\ ops'[i].snap = ops[i].snap /\ ops'[i].pre = ops[i].pre /\ ops'[i].post = ops[i].post
                      /\ ops'[i].snapback = ops[i].snapback
  BY <1>6 DEF Kin
<1>8. Typed'
  <2>1. count' \in [Events -> Nat]
    <3>1. UNCHANGED count \/ Spend("faults")
      BY DEF Look
    <3>2. ASSUME Spend("faults") PROVE count' \in [Events -> Nat]
      BY <1>1, <3>2, Spent DEF Events
    <3> QED
      BY <1>1, <3>1, <3>2 DEF Typed
  <2> QED
    BY <1>1, <1>2, <1>4, <1>5, <2>1 DEF Typed
<1>9. Journaled'
  <2> SUFFICES ASSUME NEW i \in 1..n PROVE OpFits(ops'[i], i)
    BY <1>5 DEF Journaled, OpFits, Targets
  <2>1. OpFits(ops[i], i)
    BY <1>1 DEF Journaled
  <2> QED
    BY <1>6, <1>7, <2>1 DEF OpFits, Targets
<1>10. Planned'
  <2>1. Times
    BY <1>1, <1>2 DEF Times, Typed
  <2> QED
    BY <1>1, <1>2, <1>5, <2>1, PlansStay
<1>11. Stacked'
  <2>1. Candidates' = Candidates
    BY <1>5, <1>7 DEF Candidates, NotTargets, Done
  <2>2. PICK f \in [1..Len(before) -> 1..Len(ops)] : StackedBy(f)
    BY <1>1 DEF Stacked
  <2>3. StackedBy(f)'
    BY <1>2, <1>7, <2>1, <2>2 DEF StackedBy
  <2> QED
    BY <1>2, <1>5, <2>2, <2>3 DEF Stacked
<1>12. ASSUME NEW i \in 1..n, NEW s \in Slots, Pending(i, s)'
       PROVE  Pending(i, s) /\ seen[s].op = i /\ s \notin Changed /\ s \in Targets(ops[i])
  <2>1. OpFits(ops[i], i)
    BY <1>1 DEF Journaled
  <2>2. Pending(i, s) /\ ~(s \in Changed /\ seen[s].op = i)
    BY <1>6, <1>7, <1>12, <2>1 DEF Pending, Done, Targets, OpFits
  <2>3. seen[s].op = i
    BY <1>1, <2>2 DEF Watched
  <2> QED
    BY <2>2, <2>3 DEF Pending
<1>13. Watched'
  <2> SUFFICES ASSUME NEW i \in 1..n, NEW s \in Slots, Pending(i, s)' PROVE seen'[s].op = i
    BY <1>5 DEF Watched
  <2> QED
    BY <1>2, <1>12 DEF SeenNow
<1>14. Waited'
  <2> SUFFICES ASSUME NEW i \in 1..n, NEW s \in Slots, Pending(i, s)', SessionOver(i)'
               PROVE  <<i, s, "session">> \in lasted' \/ slot'[s] # ops'[i].post[s]
    BY <1>5 DEF Waited
  <2>1. looked'.run > ops[i].ended /\ game = 0
    BY <1>2, <1>7 DEF SessionOver
  <2>2. SessionOver(i)
    BY <1>4, <2>1 DEF SessionOver
  <2> QED
    BY <1>1, <1>2, <1>7, <1>12, <2>2 DEF Waited
<1>15. Clouded'
  BY <1>1, <1>2, <1>5, CloudStays
<1>16. ConfirmedLasted'
  <2> SUFFICES ASSUME NEW i \in 1..n, ops'[i].status = "done", NEW s \in DOMAIN ops'[i].post,
                      NEW why \in {"unchanged", "uploaded"}, ops'[i].verify[s] = why
               PROVE  /\ why = "unchanged" => <<i, s, "session">> \in lasted
                      /\ why = "uploaded"  => <<i, s, "cloud">> \in lasted
    BY <1>2, <1>5 DEF ConfirmedLasted, Done, Targets
  <2>1. /\ OpFits(ops[i], i) /\ ops[i].status = "done" /\ s \in DOMAIN ops[i].post /\ s \in DOMAIN ops[i].verify
        /\ s \in DOMAIN ops[i].outcome /\ s \in Slots /\ ops[i].post[s] \in Filled
    BY <1>1, <1>7, OpIs DEF OpFits, Targets
  <2>2. CASE ops[i].verify[s] = why
    BY <1>1, <2>1, <2>2 DEF ConfirmedLasted, Done, Targets
  <2>3. CASE ops[i].verify[s] # why
    <3>1. Found(Observed[i], s, l, why)
      BY <1>6, <2>1, <2>3
    <3>2. Observed[i].post = ops[i].post /\ Observed[i].ended = ops[i].ended
      BY <1>1, ObservedIs DEF Kin
    <3>3. slot[s] = ops[i].post[s]
      <4>1. slot[s] \in Pairs /\ ops[i].post[s] \in Pairs
        BY <1>1, <2>1 DEF Typed, Filled
      <4> QED
        BY <3>1, <3>2, <4>1, PairIs DEF Found
    <3>4. CASE why = "unchanged"
      <4>1. SessionOver(i)
        BY <1>2, <1>4, <3>1, <3>2, <3>4 DEF Found, SessionAfter, SessionOver
      <4>2. Pending(i, s)
        <5>1. Observed[i].outcome[s] = "pending"
          BY <3>1, <3>4 DEF Found
        <5>2. ops[i].outcome[s] = "pending"
          BY <1>1, <2>1, <5>1, ObservedIs
        <5> QED
          BY <2>1, <5>2 DEF Pending, Done, Targets
      <4> QED
        BY <1>1, <2>1, <3>3, <3>4, <4>1, <4>2 DEF Waited
    <3>5. CASE why = "uploaded"
      <4>1. cloud[s] = ops[i].post[s]
        BY <3>1, <3>3, <3>5 DEF Found
      <4>2. Placed(i, s)
        BY <2>1 DEF Placed, Done, Targets
      <4> QED
        BY <1>1, <2>1, <3>5, <4>1, <4>2 DEF Clouded
    <3> QED
      BY <3>4, <3>5
  <2> QED
    BY <2>2, <2>3
<1> QED
  BY <1>8, <1>9, <1>10, <1>11, <1>13, <1>14, <1>15, <1>16 DEF Sure

-----------------------------------------------------------------------------
\* The start, every step, and what the invariant says.

LEMMA SureAtTheStart == Init => Sure
<1> SUFFICES ASSUME Init PROVE Sure
  OBVIOUS
<1>1. /\ slot = Start /\ cloud = Start /\ mtime = [s \in Slots |-> 0] /\ game = 0 /\ vault = Shelf /\ ops = <<>>
      /\ plan = [w \in Windows |-> NoPlan] /\ time = 0 /\ looked = [run |-> 0, end |-> 0]
      /\ before = <<>> /\ lasted = {} /\ count \in Counts
  BY DEF Init
<1>2. Len(ops) = 0 /\ 1..Len(ops) = {} /\ Len(before) = 0 /\ 1..Len(before) = {}
  BY <1>1
<1>3. Typed
  <2>1. count \in [Events -> Nat] /\ slot \in [Slots -> Pairs] /\ vault \subseteq Filled
    BY <1>1, MoveBounds, SaveBounds DEF Filled
  <2>2. ops \in Seq(Operations) /\ before \in Seq([Slots -> Pairs])
    BY <1>1
  <2>3. game \in 0..time /\ looked \in [run : 0..time, end : 0..time] /\ time \in Nat
    BY <1>1
  <2>4. mtime \in [Slots -> Nat] /\ plan = [w \in Windows |-> plan[w]] /\ \A w \in Windows : plan[w] = NoPlan
    BY <1>1
  <2> QED
    BY <1>1, <2>1, <2>2, <2>3, <2>4 DEF Typed
<1>4. Journaled /\ Watched /\ Waited /\ Clouded /\ ConfirmedLasted
  BY <1>2 DEF Journaled, Watched, Waited, Clouded, ConfirmedLasted
<1>5. Planned
  BY <1>1 DEF Planned
<1>6. Stacked
  <2>1. Candidates = {}
    BY <1>2 DEF Candidates
  <2>2. StackedBy(<<>>)
    BY <1>2, <2>1 DEF StackedBy
  <2>3. <<>> \in [1..Len(before) -> 1..Len(ops)]
    BY <1>2
  <2> QED
    BY <2>2, <2>3 DEF Stacked
<1> QED
  BY <1>3, <1>4, <1>5, <1>6 DEF Sure

LEMMA NothingKeeps == ASSUME Sure, UNCHANGED vars PROVE Sure'
<1>1. Typed /\ Journaled /\ Planned /\ Stacked /\ Watched /\ Waited /\ Clouded /\ ConfirmedLasted
  BY DEF Sure
<1>2. UNCHANGED <<slot, mtime, game, cloud, vault, ops, seen, known, plan, time, looked, before, lasted, count>>
  BY DEF vars
<1>3. Typed'
  BY <1>1, <1>2 DEF Typed
<1>4. Journaled' /\ Stacked' /\ Watched' /\ ConfirmedLasted' /\ Continues
  BY <1>1, <1>2, JournalStays
<1>5. Waited' /\ Clouded'
  BY <1>1, <1>2 DEF Done, Waited, Pending, Targets, SessionOver, Clouded, Placed
<1>6. Planned'
  <2>1. Times
    BY <1>1, <1>2 DEF Times, Typed
  <2> QED
    BY <1>1, <1>2, <1>4, <2>1, PlansStay
<1> QED
  BY <1>3, <1>4, <1>5, <1>6 DEF Sure

LEMMA StepKeeps == ASSUME Sure, [Next]_vars PROVE Sure'
<1>1. CASE UNCHANGED vars
  BY <1>1, NothingKeeps
<1>2. CASE GameStarts \/ GameEnds \/ Probes
  BY <1>2, GameStartsKeeps, GameEndsKeeps, ProbesKeeps
<1>3. CASE \E s \in Slots : GamePlays(s) \/ GameDeletes(s) \/ Syncs(s)
  BY <1>3, GamePlaysKeeps, GameDeletesKeeps, SyncsKeeps
<1>4. ASSUME NEW w \in Windows,
             \/ \E s \in Slots : PlanPromote(w, s) \/ \E p \in vault : PlanPlace(w, s, p)
             \/ \E s, t \in Slots : PlanSwap(w, s, t)
             \/ \E i \in 1..Len(ops) : PlanUndo(w, i) \/ PlanRestore(w, i)
             \/ PlanUndoLast(w)
      PROVE  Sure'
  BY <1>4, ShowsKeep
<1>5. ASSUME NEW w \in Windows, Close(w) \/ Execute(w) PROVE Sure'
  BY <1>5, CloseKeeps, ExecuteKeeps
<1>6. ASSUME NEW w \in Windows, NEW status \in {"abandoned", "rolled_back"}, ExecuteFails(w, status) PROVE Sure'
  BY <1>6, FailKeeps
<1>7. ASSUME NEW old \in BOOLEAN, NEW told, NEW blind, NEW mute, Look(old, told, blind, mute) PROVE Sure'
  BY <1>7, LookKeeps
<1> QED
  BY <1>1, <1>2, <1>3, <1>4, <1>5, <1>6, <1>7 DEF Next

LEMMA AlwaysSure == Spec => []Sure
<1>1. Sure /\ [Next]_vars => Sure'
  BY StepKeeps
<1> QED
  BY <1>1, SureAtTheStart, PTL DEF Spec

\* A move nothing came after is neither in place already nor stale.
LEMMA ReadyWhenSure == ASSUME Typed, Journaled PROVE UndoReady
<1> SUFFICES ASSUME NEW i \in 1..Len(ops),
                    \A s \in Targets(ops[i]) : slot[s] = ops[i].post[s] /\ Present(ops[i].pre[s]) /\ ops[i].pre[s] # ops[i].post[s]
             PROVE  ~Blocked(ops[i])
  BY DEF UndoReady
<1> DEFINE o == ops[i]
<1>1. \A s \in Targets(o) : o.pre[s] \in Pairs /\ o.post[s] \in Filled
  BY OpIs
<1>2. ASSUME NEW s \in Targets(o) PROVE StateOf(o, s) = "same" /\ Present(o.pre[s])
  <2>1. o.post[s] \in Pairs /\ Present(slot[s]) /\ slot[s] = o.post[s] /\ o.pre[s] # o.post[s] /\ o.pre[s] \in Pairs
    BY <1>1 DEF Filled
  <2>2. ~Already(slot[s], o, s)
    BY <2>1, PairIs DEF Already
  <2> QED
    BY <2>1, <2>2, StateIs
<1> HIDE DEF o
<1>3. ~Blocked(o)
  BY <1>2 DEF Blocked
<1> QED
  BY <1>3 DEF o

LEMMA SureIsSound == ASSUME Sure PROVE UndoIsSound
<1>1. Typed /\ Journaled /\ Stacked /\ ConfirmedLasted
  BY DEF Sure
<1>2. TypeOK
  <2>1. \A s \in Slots : IsPair(slot[s]) /\ mtime[s] \in Nat
    BY <1>1 DEF Typed, Pairs, IsPair
  <2>2. ASSUME NEW i \in 1..Len(ops), NEW s \in Targets(ops[i]) PROVE ops[i].verify[s] \in Verdicts
    <3>1. ops[i].verify \in Parts(Verdicts) /\ s \in DOMAIN ops[i].verify
      BY <1>1, OpIs DEF Operations, OpFits
    <3> QED
      BY <3>1, PartsAre
  <2>3. \A i \in 1..Len(ops) : Targets(ops[i]) \subseteq Slots
    BY <1>1, OpIs
  <2>4. \A k \in {"run", "end"} : looked[k] <= time
    BY <1>1 DEF Typed
  <2> QED
    BY <2>1, <2>2, <2>3, <2>4 DEF TypeOK, Verdicts
<1>3. UndoInTurn
  <2>1. before # <<>> => Newest # 0
    BY <1>1, NewestIs
  <2> QED
    BY <1>1, <2>1, NewestIs DEF UndoInTurn
<1>4. UndoReady
  BY <1>1, ReadyWhenSure
<1> QED
  BY <1>1, <1>2, <1>3, <1>4 DEF UndoIsSound

\* The whole-folder Undo goes back in turn, a move nothing came after can be undone, and a
\* placed pair without a new save is confirmed only when a session that began after the move
\* left it there, or when the cloud's copy was that pair at some time since.
THEOREM UndoGoesBack == Spec => []UndoIsSound
<1>1. Sure => UndoIsSound
  BY SureIsSound
<1> QED
  BY <1>1, AlwaysSure, PTL
-----------------------------------------------------------------------------
\* What a run takes.

\* Only a run grows the journal by an operation that is done.
LEMMA RanExecutes == ASSUME Typed, [Next]_vars, NEW w \in Windows, Ran(w) PROVE Execute(w)
<1>1. /\ plan[w] # NoPlan /\ plan'[w] = NoPlan /\ Len(ops') > Len(ops) /\ ops'[Len(ops')].status = "done"
  BY DEF Ran
<1>2. Len(ops) \in Nat /\ ops \in Seq(Operations)
  BY DEF Typed
<1>3. ops' # ops
  BY <1>1, <1>2
<1>4. ASSUME NEW x \in Windows, Execute(x) PROVE Execute(w)
  <2>1. plan' = [plan EXCEPT ![x] = NoPlan]
    BY <1>4 DEF Execute
  <2>2. x = w
    BY <1>1, <2>1 DEF Typed
  <2> QED
    BY <1>4, <2>2
<1>5. ASSUME NEW x \in Windows, NEW status \in {"abandoned", "rolled_back"}, ExecuteFails(x, status) PROVE FALSE
  <2> DEFINE r == Record(Final(plan[x]), status)
  <2>1. ops' = Append(Observed, r) /\ r.status = status
    BY <1>5 DEF ExecuteFails, Record
  <2>2. Observed = [i \in 1..Len(ops) |-> Observed[i]]
    BY DEF Observed
  <2> HIDE DEF r
  <2>3. Observed \in Seq({Observed[i] : i \in 1..Len(ops)}) /\ Len(Observed) = Len(ops)
    BY <1>2, <2>2
  <2>4. ops'[Len(ops')] = r
    BY <1>2, <2>1, <2>3
  <2> QED
    BY <1>1, <2>1, <2>4
<1>6. ASSUME NEW x \in Windows, NEW c, NEW p, Show(x, c, p) PROVE FALSE
  BY <1>3, <1>6 DEF Show
<1>7. ASSUME NEW x \in Windows,
             \/ \E s \in Slots : PlanPromote(x, s) \/ \E p \in vault : PlanPlace(x, s, p)
             \/ \E s, t \in Slots : PlanSwap(x, s, t)
             \/ \E i \in 1..Len(ops) : PlanUndo(x, i) \/ PlanRestore(x, i)
             \/ PlanUndoLast(x)
      PROVE  FALSE
  BY <1>6, <1>7 DEF PlanPromote, PlanPlace, PlanSwap, PlanUndo, PlanRestore, PlanUndoLast
<1>8. ASSUME NEW x \in Windows, Close(x) PROVE FALSE
  BY <1>3, <1>8 DEF Close
<1>9. ASSUME GameStarts \/ GameEnds \/ Probes \/ \E s \in Slots : GamePlays(s) \/ GameDeletes(s) \/ Syncs(s) PROVE FALSE
  BY <1>3, <1>9 DEF GameStarts, GameEnds, GamePlays, GameDeletes, Probes, Syncs
<1>10. ASSUME NEW old \in BOOLEAN, NEW told, NEW blind, NEW mute, Look(old, told, blind, mute) PROVE FALSE
  <2>1. ops' = [i \in 1..Len(ops) |-> Verified(Observed[i], Noted, old, told, blind, mute)]
    BY <1>10 DEF Look
  <2>2. Len(ops') = Len(ops)
    BY <1>2, <2>1
  <2> QED
    BY <1>1, <1>2, <2>2
<1>11. ~UNCHANGED vars
  BY <1>3 DEF vars
<1> QED
  BY <1>4, <1>5, <1>7, <1>8, <1>9, <1>10, <1>11 DEF Next

\* A run writes what its plan shows, made of what is still so.
LEMMA RunIs ==
  ASSUME Sure, NEW w \in Windows, Execute(w)
  PROVE  /\ plan[w] \in Plans /\ PlanFits(plan[w])
         /\ DOMAIN plan[w].write \subseteq Slots
         /\ \A s \in DOMAIN plan[w].write : plan[w].write[s] \in Filled /\ slot'[s] = plan[w].write[s]
         /\ \A s \in Slots \ DOMAIN plan[w].write : slot'[s] = slot[s]
         /\ plan[w].kind = "lastundo" => Newest = plan[w].snap
         /\ plan[w].kind # "lastundo" => \A s \in DOMAIN plan[w].write : plan[w].fp[s] = mtime[s]
<1>1. Typed /\ Planned
  BY DEF Sure
<1> DEFINE p == Final(plan[w])
<1>2. /\ plan[w] # NoPlan /\ Fresh(p) /\ (p.kind = "lastundo" => Newest = p.snap)
      /\ slot' = [s \in Slots |-> IF s \in DOMAIN p.write THEN p.write[s] ELSE slot[s]]
  BY DEF Execute
<1>3. plan[w] \in Plans /\ PlanFits(plan[w])
  BY <1>1, <1>2 DEF Typed, Planned
<1>4. /\ p.write = plan[w].write /\ (p.kind # "lastundo" => p = plan[w]) /\ p.kind = plan[w].kind /\ p.snap = plan[w].snap
      /\ DOMAIN p.write \subseteq Slots /\ \A s \in DOMAIN p.write : p.write[s] \in Filled
  <2>1. PICK q : q = p
    OBVIOUS
  <2> HIDE DEF p
  <2>2. /\ q.write = plan[w].write /\ (q.kind # "lastundo" => q = plan[w]) /\ q.kind = plan[w].kind /\ q.snap = plan[w].snap
        /\ DOMAIN q.write \subseteq Slots /\ \A s \in DOMAIN q.write : q.write[s] \in Filled
    BY <1>1, <1>2, <2>1, FinalIs DEF p
  <2> QED
    BY <2>1, <2>2
<1> HIDE DEF p
<1>5. plan[w].kind # "lastundo" => \A s \in DOMAIN plan[w].write : plan[w].fp[s] = mtime[s]
  BY <1>2, <1>3, <1>4 DEF Fresh, PlanFits
<1> QED
  BY <1>2, <1>3, <1>4, <1>5

\* What was there when an undo runs is what the move wrote, or its progress, and then it was asked.
LEMMA UndoneIs ==
  ASSUME Sure, NEW w \in Windows, Execute(w), plan[w].kind = "undo", NEW s \in DOMAIN plan[w].write, Present(slot[s])
  PROVE  \/ Vids(slot[s]) = Vids(ops[plan[w].undoes].post[s])
         \/ /\ Loads(slot[s]).pid = Loads(ops[plan[w].undoes].post[s]).pid
            /\ Loads(slot[s]).play >= Loads(ops[plan[w].undoes].post[s]).play
            /\ plan[w].asks # {}
<1>1. PlanFits(plan[w]) /\ plan[w].fp[s] = mtime[s]
  BY RunIs
<1> QED
  BY <1>1 DEF PlanFits, Progressed

LEMMA Asked ==
  ASSUME Sure, NEW w \in Windows, Execute(w), NEW s \in DOMAIN plan[w].write, Gone(w, s)
  PROVE  plan[w].asks # {}
<1>1. PlanFits(plan[w]) /\ slot'[s] = plan[w].write[s]
  BY RunIs
<1>2. CASE plan[w].kind = "place" /\ Loads(slot[s]).pid = Loads(slot'[s]).pid /\ Loads(slot[s]).play > Loads(slot'[s]).play
  <2>1. plan[w].fp[s] = mtime[s]
    BY <1>2, RunIs
  <2>2. Ahead(s, plan[w].write[s])
    BY <1>1, <1>2 DEF Ahead, Gone
  <2> QED
    BY <1>1, <1>2, <2>1, <2>2 DEF PlanFits
<1>3. CASE plan[w].kind = "undo" /\ Vids(slot[s]) # Vids(ops[plan[w].undoes].post[s])
  BY <1>3, UndoneIs DEF Gone
<1> QED
  BY <1>2, <1>3 DEF Gone

LEMMA Travels ==
  ASSUME Sure, NEW w \in Windows, Execute(w), plan[w].kind = "undo", ops[plan[w].undoes].kind = "swap"
  PROVE  {slot'[s] : s \in DOMAIN plan[w].write} = {slot[s] : s \in DOMAIN plan[w].write}
<1> DEFINE D == DOMAIN plan[w].write
           o == ops[plan[w].undoes]
<1>1. Typed /\ Journaled
  BY DEF Sure
<1>2. /\ plan[w].undoes # 0 /\ D = Targets(o) /\ plan[w].undoes \in 0..Len(ops)
      /\ \A s, t \in D : s # t /\ plan[w].fp[t] = mtime[t] => plan[w].write[s] = slot[t]
  BY RunIs DEF PlanFits
<1>3. plan[w].undoes \in 1..Len(ops)
  BY <1>1, <1>2 DEF Typed
<1>4. PICK a \in Slots, b \in Slots : a # b /\ D = {a, b}
  <2>1. PICK i \in 1..Len(ops) : i = plan[w].undoes
    BY <1>3
  <2>2. OpFits(ops[i], i)
    BY <1>1 DEF Journaled
  <2>3. IsSwap(Targets(ops[i]))
    BY <2>1, <2>2 DEF OpFits
  <2>4. D = Targets(ops[i])
    BY <1>2, <2>1
  <2> HIDE DEF D
  <2> QED
    BY <2>3, <2>4 DEF IsSwap
<1>5. slot'[a] = slot[b] /\ slot'[b] = slot[a]
  <2>1. \A s \in D : slot'[s] = plan[w].write[s] /\ plan[w].fp[s] = mtime[s]
    BY RunIs
  <2> QED
    BY <1>2, <1>4, <2>1
<1> HIDE DEF D
<1>6. {slot'[s] : s \in D} = {slot'[a], slot'[b]} /\ {slot[s] : s \in D} = {slot[a], slot[b]}
  BY <1>4
<1> QED
  BY <1>5, <1>6 DEF D

LEMMA Kept ==
  ASSUME Sure, NEW w \in Windows, Execute(w), NEW s \in Slots, Present(slot[s])
  PROVE  Present(slot'[s])
  BY RunIs DEF Filled

\* A step back finds the snapshot it was planned from still the newest.
LEMMA Stepped ==
  ASSUME Sure, NEW w \in Windows, Execute(w), plan[w].kind = "lastundo"
  PROVE  /\ before # <<>>
         /\ \A s \in Slots : slot'[s] = IF Present(before[Len(before)][s]) THEN before[Len(before)][s] ELSE slot[s]
<1>1. Typed /\ Stacked
  BY DEF Sure
<1>2. plan[w].snap # 0 /\ plan[w].write = RestoreOf(plan[w].snap) /\ Newest = plan[w].snap
  BY RunIs DEF PlanFits
<1>3. before # <<>> /\ ops[plan[w].snap].snap = before[Len(before)]
  BY <1>1, <1>2, NewestIs
<1>4. DOMAIN plan[w].write = Recorded(plan[w].snap)
      /\ \A s \in Recorded(plan[w].snap) : plan[w].write[s] = ops[plan[w].snap].snap[s]
  BY <1>2 DEF RestoreOf
<1> QED
  BY <1>3, <1>4, RunIs DEF Recorded

\* A place asks before it drops play of its own save, an undo of a slot before it drops any; the
\* undo goes over nothing but what its move wrote and its progress, of a swap it exchanges what
\* the two slots hold; a step back leaves each slot as it was before the last move not taken back;
\* and no run empties a slot: whatever happened between a plan and its run.
THEOREM RunsAreSafe == Spec => MovesAreSafe
<1>1. ASSUME Sure, [Next]_vars, NEW w \in Windows, Ran(w) PROVE Execute(w)
  BY <1>1, RanExecutes DEF Sure
<1>2. Sure /\ [Next]_vars => [\A w \in Windows : Ran(w) => \A s \in DOMAIN plan[w].write : Gone(w, s) => plan[w].asks # {}]_vars
  BY <1>1, Asked
<1>3. Sure /\ [Next]_vars => [\A w \in Windows : (Ran(w) /\ plan[w].kind = "undo") =>
        \A s \in DOMAIN plan[w].write :
          LET o == ops[plan[w].undoes] was == slot[s]
          IN Present(was) => \/ Vids(was) = Vids(o.post[s])
                             \/ Loads(was).pid = Loads(o.post[s]).pid /\ Loads(was).play >= Loads(o.post[s]).play]_vars
  BY <1>1, UndoneIs
<1>4. Sure /\ [Next]_vars => [\A w \in Windows : (Ran(w) /\ plan[w].kind = "undo" /\ ops[plan[w].undoes].kind = "swap") =>
        {slot'[s] : s \in DOMAIN plan[w].write} = {slot[s] : s \in DOMAIN plan[w].write}]_vars
  BY <1>1, Travels
<1>5. Sure /\ [Next]_vars => [\A w \in Windows : Ran(w) => \A s \in Slots : Present(slot[s]) => Present(slot'[s])]_vars
  BY <1>1, Kept
<1>6. Sure /\ [Next]_vars => [\A w \in Windows : (Ran(w) /\ plan[w].kind = "lastundo") =>
        /\ before # <<>>
        /\ \A s \in Slots : slot'[s] = IF Present(before[Len(before)][s]) THEN before[Len(before)][s] ELSE slot[s]]_vars
  BY <1>1, Stepped
<1>7. Spec => AskedFirst
  BY <1>2, AlwaysSure, PTL DEF Spec, AskedFirst
<1>8. Spec => OnlyForward
  BY <1>3, AlwaysSure, PTL DEF Spec, OnlyForward
<1>9. Spec => ProgressTravels
  BY <1>4, AlwaysSure, PTL DEF Spec, ProgressTravels
<1>10. Spec => NeverEmptied
  BY <1>5, AlwaysSure, PTL DEF Spec, NeverEmptied
<1>11. Spec => StepsBack
  BY <1>6, AlwaysSure, PTL DEF Spec, StepsBack
<1> QED
  BY <1>7, <1>8, <1>9, <1>10, <1>11 DEF MovesAreSafe
=============================================================================
