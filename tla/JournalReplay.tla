---------------------------- MODULE JournalReplay ----------------------------
(***************************************************************************)
(* What the organizer reads out of its live journal (core/organizer/       *)
(* journal.py): the records in order, slot by slot - which pair of members *)
(* a slot holds, what became of each operation, which version descends     *)
(* from which, and what happened outside the app.                          *)
(***************************************************************************)
EXTENDS Integers, Sequences, FiniteSets, SequencesExt

CONSTANTS Vids,        \* versions, numbered by save time, then play time, then name
          LineOf,      \* the playthrough (pid) of each
          PlayOf,      \* its play time
          SavedAt,     \* its save time,
          ClockOf,     \* and whose clock that is: the meta's, the index's, the file's (ts_src)
          Slots        \* live slots

ASSUME VersionFacts ==
  /\ Vids \subseteq Nat \ {0} /\ DOMAIN LineOf = Vids /\ DOMAIN ClockOf = Vids
  /\ PlayOf \in [Vids -> Nat] /\ SavedAt \in [Vids -> Nat]
  /\ \A u, v \in Vids : u < v => \/ SavedAt[u] < SavedAt[v]
                                 \/ SavedAt[u] = SavedAt[v] /\ PlayOf[u] <= PlayOf[v]

Empty      == <<0, 0>>                    \* neither member A nor B
NoPair     == <<-1, -1>>                  \* nothing recorded of the slot
Members(p) == {p[1], p[2]} \ {0, -1}
Pairs      == (Vids \cup {0}) \X (Vids \cup {0})

\* obs_fields and op_fields; the store adds seq, and the time unless it is given.
Unstamped == -1
Obs(s, p, src, entry, at) ==
  [t |-> "obs", slot |-> s, pair |-> p, src |-> src, op |-> 0, done |-> TRUE, entry |-> entry, at |-> at, seq |-> 0]
OpOf(o, s, p, was, ok) ==
  [t |-> "op", slot |-> s, pair |-> p, evicted |-> was, src |-> "app", op |-> o, done |-> ok, entry |-> 0,
   at |-> Unstamped, seq |-> 0]

\* The members of S in a strict order: each at the place its predecessors give it.
InOrder(S, Before(_, _)) ==
  [i \in 1..Cardinality(S) |-> CHOOSE x \in S : Cardinality({y \in S : Before(y, x)}) = i - 1]
Earlier(a, b) == a[1] < b[1] \/ (a[1] = b[1] /\ a[2] < b[2])
Order(r)      == <<r.at, r.seq>>

\* (at, seq) order; no two records have one seq.
Ordered(recs) == SortSeq(recs, LAMBDA a, b : Earlier(Order(a), Order(b)))

\* A second op record of one operation and slot binds nothing.
Repeats(kept, r) == r.t = "op" /\ \E i \in 1..Len(kept) : kept[i].t = "op" /\ kept[i].op = r.op
SlotRecords(recs, s) ==
  FoldLeft(LAMBDA kept, r : IF r.slot # s \/ Repeats(kept, r) THEN kept ELSE Append(kept, r), <<>>, Ordered(recs))

\* The pair each slot has by its last observation or finished operation.
LastPair(recs, s) ==
  FoldLeft(LAMBDA pair, r : IF r.slot = s /\ r.done THEN r.pair ELSE pair, NoPair, Ordered(recs))

\* When each version was first seen: in a record, or in a kept entry <<vid, at>>.
SeenBefore(recs, kept, v, o) ==
  \/ \E i \in 1..Len(recs) : v \in Members(recs[i].pair) /\ Earlier(Order(recs[i]), o)
  \/ \E k \in kept : k[1] = v /\ Earlier(<<k[2], -1>>, o)

Compatible(a, b) == LineOf[a] = LineOf[b]
\* Times of two clocks order nothing; two saves of one time are edits of each other.
OneClock(a, b)   == ClockOf[a] = ClockOf[b]
NotLater(a, b)   == PlayOf[a] <= PlayOf[b] /\ (OneClock(a, b) => SavedAt[a] <= SavedAt[b])
EdgeKind(a, b)   ==
  CASE PlayOf[b] > PlayOf[a]                                                 -> "play"
    [] PlayOf[a] = PlayOf[b] /\ OneClock(a, b) /\ SavedAt[b] > SavedAt[a]    -> "touch"
    [] PlayOf[a] = PlayOf[b] /\ OneClock(a, b) /\ SavedAt[b] = SavedAt[a]    -> "edit"
    [] OTHER                                                                 -> "unknown"

Fresh == [known |-> FALSE, pair |-> Empty, order |-> <<0, 0>>, op |-> 0, evicted |-> Empty,
          full |-> NoPair, edges |-> {}, events |-> {}, ops |-> {}]

Happened(acc, kind, r) == acc.events \cup {[kind |-> kind, at |-> r.at, seq |-> r.seq, slot |-> r.slot, op |-> acc.op]}

\* An operation has one outcome: the first.
Outcome(acc, what) ==
  {IF o.op = acc.op /\ o.is = "pending" THEN [o EXCEPT !.is = what] ELSE o : o \in acc.ops}

Holds(acc, r) ==
  [acc EXCEPT !.known = TRUE, !.pair = r.pair, !.order = Order(r), !.op = 0, !.evicted = Empty,
              !.full = IF r.pair = Empty THEN @ ELSE r.pair]

BindOp(acc, r) ==
  IF ~r.done THEN acc
  ELSE [Holds(acc, r) EXCEPT
          !.op = r.op, !.evicted = acc.pair,
          !.ops = Outcome(acc, "superseded") \cup
                    {[op |-> r.op, slot |-> r.slot, pair |-> r.pair, is |-> "pending"]}]

\* Versions that came in and were not in the slot before, nor seen earlier.
NewIn(acc, r, recs, kept) ==
  {v \in Members(r.pair) \ Members(acc.pair) : ~SeenBefore(recs, kept, v, acc.order)}

\* The parent of a new version: of what was there or came in with it before it,
\* the one of its line with the most play not later than it; the later saved of those,
\* the later found.
Parents(acc, new, v) ==
  {c \in Members(acc.pair) \cup {n \in new : n < v} : Compatible(c, v) /\ NotLater(c, v)}
Found(acc, c) == CASE c = acc.pair[1] -> 1 [] c = acc.pair[2] -> 2 [] OTHER -> 2 + c
ParentOf(acc, new, v) ==
  CHOOSE p \in Parents(acc, new, v) : \A c \in Parents(acc, new, v) \ {p} :
    \/ Earlier(<<PlayOf[c], SavedAt[c]>>, <<PlayOf[p], SavedAt[p]>>)
    \/ <<PlayOf[c], SavedAt[c]>> = <<PlayOf[p], SavedAt[p]>> /\ Found(acc, c) < Found(acc, p)

EdgesIn(acc, r, new) ==
  {LET p == ParentOf(acc, new, v)
   IN  [parent |-> p, child |-> v, at |-> r.at, kind |-> EdgeKind(p, v),
        tier |-> IF acc.op # 0 /\ p \in Members(acc.pair) THEN "recorded" ELSE "observed"]
   : v \in {n \in new : Parents(acc, new, n) # {}}}

Changed(acc, r, recs, kept) ==
  LET new    == NewIn(acc, r, recs, kept)
      edges  == EdgesIn(acc, r, new)
      onTop  == \E e \in edges : e.tier = "recorded"
      other  == \E v \in new : Parents(acc, new, v) = {} /\ \E c \in Members(acc.pair) : ~Compatible(c, v)
      named  == {k \in {"partial", "returned", "replaced", "confirmed", "unexpected", "changed"} :
                   CASE k = "partial"    -> Cardinality(Members(r.pair)) = 1 /\ Cardinality(Members(acc.pair)) = 2
                     [] k = "returned"   -> new # Members(r.pair) \ Members(acc.pair)
                     [] k = "replaced"   -> other
                     [] k = "confirmed"  -> acc.op # 0 /\ onTop
                     [] k = "unexpected" -> acc.op # 0 /\ ~onTop
                     [] k = "changed"    -> new # {}}
  IN  [Holds(acc, r) EXCEPT
         !.edges = @ \cup edges,
         !.events = UNION ({acc.events} \cup {Happened(acc, k, r) : k \in named}),
         !.ops = Outcome(acc, IF onTop THEN "confirmed" ELSE "unexpected")]

\* One observation after what the slot held (_Replay.target).
Observe(acc, r, recs, kept) ==
  LET cur == r.pair
      Become(kind, what) == [Holds(acc, r) EXCEPT !.events = Happened(acc, kind, r), !.ops = Outcome(acc, what)]
  IN  IF ~acc.known THEN Become("first-seen", "pending")
      ELSE IF acc.op # 0 /\ cur = acc.evicted /\ cur # acc.pair THEN Become("reverted", "reverted")
      ELSE IF cur = Empty /\ acc.pair # Empty THEN Become("deleted", "unexpected")
      ELSE IF acc.pair = Empty /\ cur # Empty /\ {cur[1], cur[2]} = {acc.full[1], acc.full[2]}
           THEN Become("resurrected", "unexpected")
      ELSE Changed(acc, r, recs, kept)

ReplaySlot(recs, kept, s) ==
  FoldLeft(LAMBDA acc, r : IF r.t = "op" THEN BindOp(acc, r) ELSE Observe(acc, r, recs, kept),
           Fresh, SlotRecords(recs, s))

Edges(recs, kept)  == UNION {ReplaySlot(recs, kept, s).edges : s \in Slots}
Events(recs, kept) == UNION {ReplaySlot(recs, kept, s).events : s \in Slots}
Ops(recs, kept)    == UNION {ReplaySlot(recs, kept, s).ops : s \in Slots}
=============================================================================
