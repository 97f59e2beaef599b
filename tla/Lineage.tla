------------------------------- MODULE Lineage -------------------------------
(***************************************************************************)
(* The lineage graph and the lines of the organizer (core/organizer/       *)
(* lineage.py): one parent per version, from the owner's corrections       *)
(* first, then from the journal's evidence; the owner's Combines and       *)
(* Splits of save files; and the tree the history view draws of them       *)
(* (readmodel.py, history.py).                                             *)
(***************************************************************************)
EXTENDS JournalReplay

\* Step after step from x, as many as there are versions.
Climb(Step(_), x) == FoldLeft(LAMBDA at, n : Step(at), x, [n \in 1..Cardinality(Vids) |-> n])

Lines  == {LineOf[v] : v \in Vids}
Lowest(S) == CHOOSE x \in S : \A y \in S : x <= y

\* A correction: set_parent (parent 0: "no known parent") or not_related.
Correction(kind, child, parent, seq) == [kind |-> kind, child |-> child, parent |-> parent, seq |-> seq]
Highest(S) == IF S = {} THEN 0 ELSE CHOOSE x \in S : \A y \in S : x >= y
NextSeq(cors) == 1 + Highest({cors[i].seq : i \in 1..Len(cors)})

\* start is target or has it among its ancestors; a loop ends where it repeats.
Above(parent, start) == Climb(LAMBDA up : up \cup ({parent[v] : v \in up} \ {0}), {start})
Reaches(parent, start, target) == target \in Above(parent, start)

\* Not related drops every journal edge between the two.
Unrelated(cors) == {{cors[i].child, cors[i].parent} : i \in {j \in 1..Len(cors) : cors[j].kind = "not_related"}}

\* The journal's best evidence of each version's parent: recorded over
\* observed, the later within a tier.
Rank(e) == IF e.tier = "recorded" THEN 2 ELSE 1
Better(e, f) == Rank(e) > Rank(f) \/ (Rank(e) = Rank(f) /\ e.at >= f.at)
Evidence(edges, cors, v) == {e \in edges : e.child = v /\ {e.parent, v} \notin Unrelated(cors)}
BestEdge(edges, cors, v) ==
  CHOOSE e \in Evidence(edges, cors, v) : \A f \in Evidence(edges, cors, v) : Better(e, f)
Recorded(edges, cors) ==
  [v \in Vids |-> IF Evidence(edges, cors, v) = {} THEN 0 ELSE BestEdge(edges, cors, v).parent]

\* One owner correction: it is left out when it would close a cycle.
Apply(parent, c) ==
  IF c.kind # "set_parent" \/ (c.parent # 0 /\ Reaches(parent, c.parent, c.child)) THEN parent
  ELSE [parent EXCEPT ![c.child] = c.parent]

Graph(edges, cors) == FoldLeft(Apply, Recorded(edges, cors), cors)

\* --- the save file a version belongs to --------------------------------------

\* Combine: "into" names for each pid the one it was combined into, or itself.
Canonical(into, pid) == Climb(LAMBDA p : into[p], pid)

\* Split: a version named in a split begins its line; one without follows its
\* drawn parent when that is a split of the same pid.
Seeds(splits, v) == {sp \in splits : v \in sp.vids}
SeedOf(splits, v) == CHOOSE sp \in Seeds(splits, v) : \A o \in Seeds(splits, v) : sp.n >= o.n

SplitOf(parent, splits, v) ==
  LET Own(u) == IF u # 0 /\ LineOf[u] = LineOf[v] THEN u ELSE 0
      top == Climb(LAMBDA u : IF u = 0 \/ Seeds(splits, u) # {} THEN u ELSE Own(parent[u]), v)
  IN  IF top = 0 \/ Seeds(splits, top) = {} THEN 0 ELSE SeedOf(splits, top).n

\* The effective pid: the split line, else the raw pid after the Combines.
EffectivePid(parent, into, splits, v) ==
  IF SplitOf(parent, splits, v) # 0 THEN <<LineOf[v], SplitOf(parent, splits, v)>>
  ELSE <<Canonical(into, LineOf[v]), 0>>

\* --- the tree drawn of the lines (default mode) --------------------------------

\* A version is the head of its pair: the member that was saved last, A of two of one time.
HeadOf(p)    == IF p[1] # 0 /\ (p[2] = 0 \/ SavedAt[p[1]] >= SavedAt[p[2]]) THEN p[1] ELSE p[2]
Heads(pairs) == {HeadOf(p) : p \in pairs} \ {0}
Children(parent, v) == {c \in DOMAIN parent : parent[c] = v}
\* Shown: heads, and fork points that are only a partner in some pair.
Candidates(pairs, parent) ==
  Heads(pairs) \cup {v \in UNION {Members(p) : p \in pairs} : Cardinality(Children(parent, v)) > 1}

\* The nearest ancestor that is shown.
DisplayParent(parent, shown, v) ==
  LET p == Climb(LAMBDA u : IF u = 0 \/ u \in shown THEN u ELSE parent[u], parent[v])
  IN  IF p \in shown THEN p ELSE 0

\* An edge the owner drew says nothing of what happened between the two; one that was
\* left out says nothing at all.
TakenAt(edges, cors, i) ==
  /\ cors[i].kind = "set_parent"
  /\ cors[i].parent # 0 => ~Reaches(Graph(edges, SubSeq(cors, 1, i - 1)), cors[i].parent, cors[i].child)
KindOf(edges, cors, v) ==
  IF Evidence(edges, cors, v) = {} \/ \E i \in 1..Len(cors) : cors[i].child = v /\ TakenAt(edges, cors, i)
  THEN "unknown" ELSE BestEdge(edges, cors, v).kind

\* Everything a line's tree is drawn from; marked: placed or evicted by an operation,
\* alive: in a live slot.  An edge that leaves its line is a link, not a branch.
Picture(pairs, edges, lin, marked, alive) ==
  LET parent  == Graph(edges, lin.cors)
      shown   == Candidates(pairs, parent)
      pid     == [v \in Vids |-> EffectivePid(parent, lin.into, lin.splits, v)]
      near    == [v \in shown |-> DisplayParent(parent, shown, v)]
      links   == {v \in shown : near[v] # 0 /\ pid[near[v]] # pid[v]}
      crossed == links \cup {near[v] : v \in links}
      display == [v \in shown |-> IF v \in links THEN 0 ELSE near[v]]
  IN  [heads |-> Heads(pairs), shown |-> shown, pid |-> pid, display |-> display,
       kind |-> [v \in shown |-> IF parent[v] = display[v] THEN KindOf(edges, lin.cors, v) ELSE "unknown"],
       tree |-> {v \in shown : display[v] # 0 \/ Children(display, v) # {} \/ v \in marked \cup crossed},
       plain |-> {v \in shown : v \notin alive},
       still |-> {v \in shown : v \notin marked /\ Cardinality(Children(parent, v)) <= 1}]

\* A re-save without play, or an edit, without anything of its own folds into its parent;
\* a dated row into the next older one of its line with the same play time.
FoldsInto(g, v) ==
  LET older == {o \in g.heads \ g.tree : o < v /\ g.pid[o] = g.pid[v]} IN
  IF v \in g.tree
  THEN IF /\ v \in g.plain \cap g.still /\ g.kind[v] \in {"touch", "edit"} /\ g.display[v] \in g.heads
          /\ Cardinality(Children(g.display, v)) <= 1
       THEN g.display[v] ELSE 0
  ELSE IF v \in g.plain /\ older # {} /\ PlayOf[Highest(older)] = PlayOf[v] THEN Highest(older) ELSE 0

Folding(g) == [v \in g.heads |-> FoldsInto(g, v)]
Final(fold, v) == Climb(LAMBDA u : IF fold[u] = 0 THEN u ELSE fold[u], v)

\* project: the nodes kept, and climb: the nearest kept ancestor of each.
Drawn(g, fold) == {v \in g.shown : IF v \in g.heads THEN v \in g.tree /\ fold[v] = 0 ELSE TRUE}
DrawnParent(g, drawn, v) == Climb(LAMBDA u : IF u = 0 \/ u \in drawn THEN u ELSE g.display[u], g.display[v])

\* --- lanes (_lanes): every branch of the drawn tree gets the first lane free
\* over all the rows it spans. Row 0 is the newest; up: each drawn node's parent.
Row(up, v) == Cardinality({d \in DOMAIN up : d > v})
LatestUnder(up, v) == Highest({d \in DOMAIN up : Reaches(up, d, v)})
MainChild(up, v) ==
  LET kids == Children(up, v)
  IN  IF kids = {} THEN 0 ELSE CHOOSE c \in kids : \A k \in kids : LatestUnder(up, c) >= LatestUnder(up, k)
Mains(up) == [v \in DOMAIN up |-> MainChild(up, v)]

\* A branch is the chain of main children below a node that is no main child.
BranchTops(up, main) == {v \in DOMAIN up : up[v] = 0 \/ main[up[v]] # v}
Branch(main, top)    == Climb(LAMBDA down : down \cup ({main[v] : v \in down} \ {0}), {top})
Between(rows, all)   == {r \in all : (\E x \in rows : x <= r) /\ (\E y \in rows : y >= r)}
Span(up, main, top)  ==
  Between({Row(up, v) : v \in Branch(main, top) \cup ({up[top]} \ {0})}, 0..Cardinality(DOMAIN up))
Spans(up, main)      == [top \in BranchTops(up, main) |-> Span(up, main, top)]

\* The branches are placed in the order of their newest ends.
Placing(up, span) == InOrder(DOMAIN span, LAMBDA a, b : LatestUnder(up, a) > LatestUnder(up, b))
Free(lane, span, top) ==
  {l \in 0..Cardinality(DOMAIN span) : \A o \in DOMAIN lane : lane[o] # l \/ span[o] \cap span[top] = {}}
Place(lane, span, top) ==
  [v \in DOMAIN lane \cup {top} |-> IF v = top THEN Lowest(Free(lane, span, top)) ELSE lane[v]]
Lanes(up, span) == FoldLeft(LAMBDA lane, top : Place(lane, span, top), [v \in {} |-> 0], Placing(up, span))
=============================================================================
