------------------------- MODULE ContentIndexProofs -------------------------
(***************************************************************************)
(* The pool loses no work, does none twice and keeps its bounds            *)
(* (WorkIsKept), and what the index answers is what is stored              *)
(* (AnswersAreCurrent), for any versions, sizes, budgets, workers and      *)
(* numbers of events.                                                      *)
(*                                                                         *)
(* The first rests on where the dispatcher is: a key it holds outside the  *)
(* lock is still listed as read or held, unless a cancel or a rebuild fell *)
(* in between (StepFits), and a worker's token is no other's (TokensFit).  *)
(* The second on the writer: between its operations every copy of a        *)
(* version's facts is the row, and during one only the copies of the       *)
(* version at hand, or of a cache being cleared, are behind (CopiesAt).    *)
(***************************************************************************)
EXTENDS ContentIndex, TLAPS, FiniteSetTheorems, SequenceTheorems, WellFoundedInduction

-----------------------------------------------------------------------------
\* Types.

Items   == [key : Keys, tier : Tiers]
Waiting == [key : Keys, tier : Tiers, alone : BOOLEAN]
Procs   == [token : Nat, key : Keys, is : {"live", "hung", "dead"}]
Ends    == [token : Nat, result : Outcomes \cup {"crash"}]
Plain   == [op : {"gc", "warm", "touch", "clear", "end"}, key : Keys \cup {"all"}]
Asks    == [op : {"compare"}, key : Vids \X Vids]
Fails   == [op : {"failure"}, key : Keys]
Gives   == [op : {"result"}, key : Keys, result : Outcomes]
Operations == Plain \cup Asks \cup Fails \cup Gives
Readers == [vid : Vids, got : Ages \cup {"?"}, same : BOOLEAN]
WriterAts == {"idle", "forget", "view", "known", "wipe", "unknow", "unview", "check", "leave", "closing", "gone"}

PoolTyped ==
  /\ pending \subseteq Items /\ opening \subseteq Items /\ held \subseteq Waiting /\ running \subseteq Jobs
  /\ procs \subseteq Procs /\ finished \subseteq Ends
  /\ IsFiniteSet(running) /\ IsFiniteSet(procs) /\ IsFiniteSet(finished)
  /\ alone \subseteq Keys /\ retried \subseteq Keys
  /\ writes \in Seq(Operations)
  /\ pool \in [paused : BOOLEAN, stopped : BOOLEAN, playing : BOOLEAN, closed : BOOLEAN, inline : BOOLEAN]
  /\ scanned \in BOOLEAN /\ raced \in BOOLEAN
  /\ step.at \in {"idle", "open", "opened", "submit"}

CallsTyped ==
  /\ asked \subseteq Keys /\ calls \subseteq Items /\ compare \subseteq Vids \X Vids
  /\ rebuild \in [at : {"no", "wait", "queue"}, todo : SUBSET Items]
  /\ close \in [at : {"open", "stopping", "joining", "done"}, abandon : BOOLEAN, closed : BOOLEAN]
  /\ unfinished \in BOOLEAN

CacheTyped ==
  /\ db \in [Vids -> Ages] /\ lru \in [Vids -> Ages] /\ known \in [Vids -> Ages] /\ views \in [Vids -> Ages]
  /\ strikes \in [Vids -> Nat] /\ warmed \in BOOLEAN
  /\ writer \in [at : WriterAts, vid : SUBSET Vids]
  /\ reader \subseteq Readers

-----------------------------------------------------------------------------
\* The pool.

\* What the dispatcher has in hand is still listed as read or held, or a cancel or
\* a rebuild took it from the list.
StepFits ==
  /\ step.at = "idle" => opening = {} /\ step.job = {}
  /\ step.at = "open" => held = {} /\ step.job = {} /\ \E e \in Items : opening = {e}
  /\ step.at = "opened" => \E j \in step.job :
       /\ j \in Waiting /\ step.job = {j}
       /\ \/ opening = {} /\ (held = {} => raced) /\ \A h \in held : h.key = j.key
          \/ held = {} /\ \E e \in opening : opening = {e} /\ e.key = j.key
  /\ step.at = "submit" => /\ opening = {} /\ held = {}
                           /\ \E r \in step.job : r \in Jobs /\ step.job = {r} /\ (~raced => r \in running)
  /\ held # {} => \E h \in held : held = {h}

\* A job too large for the others is marked to run alone.
Marked(S) == \A j \in S : Size[j.key] > Budget \div 2 => j.alone
Large == Marked(held) /\ Marked(running) /\ (step.at \in {"opened", "submit"} => Marked(step.job))

\* A token is of one job, and of one worker or one result that was not collected.
TokensFit ==
  /\ \A r, q \in running : r.token = q.token => r = q
  /\ \A p, q \in procs : p.token = q.token => p = q
  /\ \A p \in procs, f \in finished : p.token # f.token
  /\ step.at = "submit" => \A r \in step.job : r.token \notin {p.token : p \in procs} \cup {f.token : f \in finished}
  /\ ~raced => {p.token : p \in procs} \subseteq Tokens

\* A key is in one place, once.
Once ==
  /\ \A e, f \in pending : e.key = f.key => e = f
  /\ \A r, q \in running : r.key = q.key => r = q
  /\ KeysOf(pending) \cap KeysOf(opening \cup held \cup running) = {}
  /\ KeysOf(opening) \cap KeysOf(held \cup running) = {}
  /\ KeysOf(held) \cap KeysOf(running) = {}

Bounded ==
  /\ \A r, q \in running : r.alone => q = r
  /\ Cardinality(running) <= MaxWorkers
  /\ (\A r \in running : ~r.alone) => Load(running) <= Budget
  /\ Reserves => Cardinality({r \in running : r.tier # INTERACTIVE}) < MaxWorkers

\* Nothing has been read before the organizer has scanned.
Unscanned == ~scanned => /\ running = {} /\ held = {} /\ step.at \in {"idle", "open"} /\ ~unfinished
                         /\ \A i \in DOMAIN writes : writes[i].op # "result"

\* The pool is stopped with the closing, and then nobody waits.
StoppedLast == (pool.stopped <=> Closed) /\ (Closed => asked = {}) /\ (close.abandon => Closed)

\* Where the jobs are.
Placed == PoolTyped /\ StepFits /\ Large /\ TokensFit /\ (~raced => Once) /\ Bounded /\ Unscanned

Pooled == Placed /\ CallsTyped /\ StoppedLast /\ NothingForgotten /\ QuietIsFinished

-----------------------------------------------------------------------------
\* The copies of the facts.

\* Between operations all copies are the row; within one, those of the version at hand, or
\* all of a cache that is being cleared, may not be yet.
RestsAt(at) == at \in {"idle", "check", "leave", "closing", "gone"}

CopiesAt ==
  /\ RestsAt(writer.at) => known = db /\ views = IF warmed THEN db ELSE None
  /\ ~RestsAt(writer.at) => warmed
  /\ writer.at \in {"forget", "view", "known"} =>
       /\ \A v \in Vids \ writer.vid : known[v] = db[v] /\ views[v] = db[v]
       /\ \A v \in writer.vid : db[v] = "now" /\ (writer.at # "known" => views[v] = known[v])
       /\ writer.at = "known" => \A v \in writer.vid : views[v] = "now"
  /\ writer.at \in {"wipe", "unknow", "unview"} => db = None
  /\ writer.at \in {"wipe", "unknow"} => views = known
  /\ writer.at = "unview" => known = None

\* What was read last, and what is being read.
ReadAt ==
  /\ writer.at # "wipe" =>
       \A v \in Vids : (writer.at = "forget" /\ v \in writer.vid) \/ lru[v] \in {"none", db[v]}
  /\ \A r \in reader : r.same /\ r.got # "?" /\ writer.at # "wipe" =>
       (writer.at = "forget" /\ r.vid \in writer.vid) \/ r.got = db[r.vid]

AnswersAt == (~warmed => answers = {}) /\ AnswersCurrent /\ \A a \in answers : DOMAIN a.from \subseteq Vids

\* The garbage collection and the warming come first, and once, or the writer is given up.
Opening(i) == writes[i].op \in {"gc", "warm"}
StartsOnce ==
  /\ warmed => \A i \in DOMAIN writes : ~Opening(i)
  /\ ~warmed /\ writer.at \notin {"leave", "closing", "gone"} => \E k \in {1, 2} :
       /\ k \in DOMAIN writes /\ writes[k].op = "warm" /\ (k = 2 => writes[1].op = "gc")
       /\ \A i \in DOMAIN writes : i > k => ~Opening(i)

Current == CacheTyped /\ CopiesAt /\ ReadAt /\ AnswersAt /\ StartsOnce /\ ClosedLast

\* The inductive invariant.
Sound == Pooled /\ Current

-----------------------------------------------------------------------------
\* The memory of the jobs is a fold over a set. What it adds up to is shown with smallest
\* counterexamples: the subsets of a finite set are well-founded.

LEMMA Smallest == ASSUME NEW S, IsFiniteSet(S), NEW B, B \subseteq SUBSET S, B # {}
                  PROVE  \E T \in B : \A U \in B : U \subseteq T => U = T
<1>1. IsWellFoundedOn(StrictSubsetOrdering(S), FiniteSubsetsOf(S)) /\ FiniteSubsetsOf(S) = SUBSET S
  BY FS_StrictSubsetOrderingWellFounded, FS_FiniteSubsetsOfFinite
<1>2. \E T \in B : \A U \in B : ~(<<U, T>> \in StrictSubsetOrdering(S))
  BY <1>1, WFMin
<1>3. PICK T \in B : \A U \in B : ~(<<U, T>> \in StrictSubsetOrdering(S))
  BY <1>2
<1>4. ASSUME NEW U \in B, U \subseteq T PROVE U = T
  BY <1>3, <1>4 DEF StrictSubsetOrdering
<1> QED
  BY <1>4

First(s) == CHOOSE x \in s : TRUE
Sums(g, S) == g = [s \in SUBSET S |-> IF s = {} THEN 0 ELSE Size[First(s).key] + g[s \ {First(s)}]]
SumOf(S) == CHOOSE g : Sums(g, S)

LEMMA FirstIsIn == ASSUME NEW s, s # {} PROVE First(s) \in s
  BY DEF First

LEMMA LoadIs == ASSUME NEW S PROVE Load(S) = SumOf(S)[S]
  BY DEF Load, MapThenSumSet, MapThenFoldSet, SumOf, Sums, First

LEMMA SumsAgree ==
  ASSUME NEW S, NEW R, IsFiniteSet(S), NEW f, NEW g, Sums(f, S), Sums(g, R)
  PROVE  \A u \in SUBSET (S \cap R) : f[u] = g[u]
<1> SUFFICES ASSUME NEW u0 \in SUBSET (S \cap R), f[u0] # g[u0] PROVE FALSE
  OBVIOUS
<1> DEFINE B == {u \in SUBSET (S \cap R) : f[u] # g[u]}
<1>1. B \subseteq SUBSET S /\ B # {}
  OBVIOUS
<1> HIDE DEF B
<1>2. PICK t \in B : \A u \in B : u \subseteq t => u = t
  BY <1>1, Smallest
<1>3. t \in SUBSET (S \cap R) /\ f[t] # g[t]
  BY <1>2 DEF B
<1>4. CASE t = {}
  BY <1>3, <1>4 DEF Sums
<1>5. CASE t # {}
  <2> DEFINE x == First(t)
  <2>1. x \in t
    BY <1>5, FirstIsIn
  <2>2. f[t] = Size[x.key] + f[t \ {x}] /\ g[t] = Size[x.key] + g[t \ {x}]
    BY <1>3, <1>5 DEF Sums
  <2>3. t \ {x} \notin B
    BY <2>1, <1>2
  <2>4. f[t \ {x}] = g[t \ {x}]
    BY <2>3, <1>3 DEF B
  <2> QED
    BY <2>2, <2>4, <1>3
<1> QED
  BY <1>4, <1>5

LEMMA SumsExist == ASSUME NEW S, IsFiniteSet(S) PROVE Sums(SumOf(S), S)
<1> SUFFICES ASSUME ~Sums(SumOf(S), S) PROVE FALSE
  OBVIOUS
<1> DEFINE B == {s \in SUBSET S : ~Sums(SumOf(s), s)}
<1>1. B \subseteq SUBSET S /\ B # {}
  OBVIOUS
<1> HIDE DEF B
<1>2. PICK t \in B : \A u \in B : u \subseteq t => u = t
  BY <1>1, Smallest
<1>3. t \in SUBSET S /\ IsFiniteSet(t) /\ ~Sums(SumOf(t), t)
  BY <1>2, FS_Subset DEF B
<1>4. ASSUME NEW s, s \subseteq t, s # t PROVE Sums(SumOf(s), s)
  BY <1>2, <1>3, <1>4 DEF B
<1> DEFINE val(s) == IF s = {} THEN 0 ELSE Size[First(s).key] + SumOf(s \ {First(s)})[s \ {First(s)}]
           g == [s \in SUBSET t |-> val(s)]
<1>5. ASSUME NEW s \in SUBSET t, s # t PROVE SumOf(s)[s] = val(s)
  <2>1. CASE s = {}
    BY <1>4, <1>5, <2>1 DEF Sums
  <2>2. CASE s # {}
    <3> DEFINE x == First(s)
               r == s \ {x}
    <3>1. x \in s /\ r \in SUBSET s /\ r # t /\ r \subseteq t
      BY <2>2, FirstIsIn, <1>5
    <3>2. Sums(SumOf(s), s) /\ Sums(SumOf(r), r)
      BY <1>4, <1>5, <3>1
    <3>3. IsFiniteSet(s)
      BY <1>3, FS_Subset
    <3>4. r \in SUBSET (s \cap r)
      BY <3>1
    <3>5. SumOf(s)[r] = SumOf(r)[r]
      BY <3>2, <3>3, <3>4, SumsAgree
    <3>6. SumOf(s)[s] = Size[x.key] + SumOf(s)[r]
      BY <3>2, <2>2 DEF Sums
    <3> QED
      BY <3>5, <3>6, <2>2
  <2> QED
    BY <2>1, <2>2
<1>6. ASSUME NEW s \in SUBSET t, s # {} PROVE g[s] = Size[First(s).key] + g[s \ {First(s)}]
  <2> DEFINE r == s \ {First(s)}
  <2>1. First(s) \in s
    BY <1>6, FirstIsIn
  <2>2. r \in SUBSET t /\ r # t
    BY <2>1
  <2> HIDE DEF r
  <2>3. SumOf(r)[r] = val(r)
    BY <2>2, <1>5
  <2>4. g[r] = val(r)
    BY <2>2
  <2>5. g[s] = Size[First(s).key] + SumOf(r)[r]
    BY <1>6 DEF r
  <2> QED
    BY <2>3, <2>4, <2>5 DEF r
<1>7. g[{}] = 0
  OBVIOUS
<1>8. Sums(g, t)
  <2>1. g = [s \in SUBSET t |-> g[s]]
    OBVIOUS
  <2> HIDE DEF g
  <2>2. \A s \in SUBSET t : g[s] = IF s = {} THEN 0 ELSE Size[First(s).key] + g[s \ {First(s)}]
    BY <1>6, <1>7
  <2> QED
    BY <2>1, <2>2 DEF Sums
<1>9. Sums(SumOf(t), t)
  BY <1>8 DEF SumOf
<1> QED
  BY <1>9, <1>3

LEMMA LoadOfNone == Load({}) = 0
<1>1. Sums(SumOf({}), {})
  BY SumsExist, FS_EmptySet
<1> QED
  BY <1>1, LoadIs DEF Sums

LEMMA LoadOfFirst == ASSUME NEW S, IsFiniteSet(S), S # {}
                     PROVE  Load(S) = Size[First(S).key] + Load(S \ {First(S)})
<1> DEFINE r == S \ {First(S)}
<1>1. IsFiniteSet(r)
  BY FS_Subset
<1>2. Sums(SumOf(S), S) /\ Sums(SumOf(r), r)
  BY SumsExist, <1>1
<1>3. r \in SUBSET (S \cap r)
  OBVIOUS
<1>4. SumOf(S)[r] = SumOf(r)[r]
  BY SumsAgree, <1>2, <1>3
<1>5. SumOf(S)[S] = Size[First(S).key] + SumOf(S)[r]
  BY <1>2 DEF Sums
<1> QED
  BY <1>4, <1>5, LoadIs

Sized(S) == \A x \in S : Size[x.key] \in Nat

LEMMA LoadIsNat == ASSUME NEW S, IsFiniteSet(S), Sized(S) PROVE Load(S) \in Nat
<1> SUFFICES ASSUME Load(S) \notin Nat PROVE FALSE
  OBVIOUS
<1> DEFINE B == {s \in SUBSET S : Load(s) \notin Nat}
<1>1. B \subseteq SUBSET S /\ B # {}
  OBVIOUS
<1> HIDE DEF B
<1>2. PICK t \in B : \A u \in B : u \subseteq t => u = t
  BY <1>1, Smallest
<1>3. t \in SUBSET S /\ IsFiniteSet(t) /\ Load(t) \notin Nat /\ t # {}
  <2>1. t \in SUBSET S /\ Load(t) \notin Nat
    BY <1>2 DEF B
  <2>2. IsFiniteSet(t)
    BY <2>1, FS_Subset
  <2>3. t # {}
    BY <2>1, LoadOfNone
  <2> QED
    BY <2>1, <2>2, <2>3
<1> DEFINE r == t \ {First(t)}
<1>4. First(t) \in t
  BY <1>3, FirstIsIn
<1>5. r \notin B /\ r \in SUBSET S
  BY <1>2, <1>3, <1>4
<1>6. Load(r) \in Nat
  BY <1>5 DEF B
<1>7. Load(t) = Size[First(t).key] + Load(r)
  BY <1>3, LoadOfFirst
<1>8. Size[First(t).key] \in Nat
  BY <1>3, <1>4 DEF Sized
<1> HIDE DEF r
<1> QED
  BY <1>6, <1>7, <1>8, <1>3

\* Any job of the set may be the one counted first.
LEMMA LoadOfEach == ASSUME NEW S, IsFiniteSet(S), Sized(S), NEW y \in S
                    PROVE  Load(S) = Size[y.key] + Load(S \ {y})
<1> SUFFICES ASSUME Load(S) # Size[y.key] + Load(S \ {y}) PROVE FALSE
  OBVIOUS
<1> DEFINE Bad(s) == \E z \in s : Load(s) # Size[z.key] + Load(s \ {z})
           B == {s \in SUBSET S : Bad(s)}
<1>1. B \subseteq SUBSET S /\ B # {}
  OBVIOUS
<1> HIDE DEF B
<1>2. PICK t \in B : \A u \in B : u \subseteq t => u = t
  BY <1>1, Smallest
<1>3. t \in SUBSET S /\ IsFiniteSet(t)
  BY <1>2, FS_Subset DEF B
<1>4. PICK z \in t : Load(t) # Size[z.key] + Load(t \ {z})
  BY <1>2 DEF B
<1> DEFINE x == First(t)
<1>5. x \in t /\ t # {}
  BY <1>4, FirstIsIn
<1>6. Load(t) = Size[x.key] + Load(t \ {x})
  BY <1>3, <1>5, LoadOfFirst
<1>7. x # z
  BY <1>4, <1>6
<1>8. ASSUME NEW k \in t, NEW w \in t, w # k
      PROVE  Load(t \ {k}) = Size[w.key] + Load(t \ {k, w})
  <2>1. t \ {k} \notin B
    BY <1>2
  <2>2. ~Bad(t \ {k})
    BY <2>1, <1>3 DEF B
  <2>3. w \in t \ {k} /\ (t \ {k}) \ {w} = t \ {k, w}
    BY <1>8
  <2> QED
    BY <2>2, <2>3
<1>9. Load(t) = Size[x.key] + (Size[z.key] + Load(t \ {x, z}))
  BY <1>6, <1>8, <1>7, <1>5, <1>4
<1>10. Load(t \ {z}) = Size[x.key] + Load(t \ {z, x})
  BY <1>8, <1>7, <1>5, <1>4
<1>11. t \ {x, z} = t \ {z, x}
  OBVIOUS
<1>12. Size[x.key] \in Nat /\ Size[z.key] \in Nat /\ Load(t \ {z, x}) \in Nat
  <2>1. IsFiniteSet(t \ {z, x})
    BY <1>3, FS_Subset
  <2>2. Sized(t \ {z, x})
    BY <1>3 DEF Sized
  <2> QED
    BY <2>1, <2>2, LoadIsNat, <1>3, <1>5, <1>4 DEF Sized
<1>13. Load(t) = Size[z.key] + Load(t \ {z})
  <2>1. \A a, b, c \in Nat : a + (b + c) = b + (a + c)
    OBVIOUS
  <2>2. Load(t \ {x, z}) = Load(t \ {z, x})
    BY <1>11
  <2> HIDE DEF x
  <2> DEFINE a == Size[x.key]
             b == Size[z.key]
             c == Load(t \ {z, x})
  <2>3. a \in Nat /\ b \in Nat /\ c \in Nat
    BY <1>12
  <2>4. Load(t) = a + (b + c)
    BY <1>9, <2>2
  <2>5. Load(t \ {z}) = a + c
    BY <1>10
  <2> HIDE DEF a, b, c
  <2>6. Load(t) = b + Load(t \ {z})
    BY <2>1, <2>3, <2>4, <2>5
  <2> QED
    BY <2>6 DEF b
<1> QED
  BY <1>13, <1>4
-----------------------------------------------------------------------------
\* The queue of the writer.

\* Operations of S were put behind what the writer has to do.
Grows(S) ==
  /\ writes' \in Seq(Operations) /\ Len(writes) <= Len(writes')
  /\ \A i \in 1..Len(writes) : writes'[i] = writes[i]
  /\ \A i \in 1..Len(writes') : i > Len(writes) => writes'[i] \in S

LEMMA NothingPut == ASSUME writes \in Seq(Operations), writes' = writes, NEW S PROVE Grows(S)
  BY DEF Grows

LEMMA OnePut == ASSUME writes \in Seq(Operations), NEW S, S \subseteq Operations, NEW o \in S, writes' = Append(writes, o)
                PROVE  Grows(S) /\ Len(writes') = Len(writes) + 1 /\ writes'[Len(writes')] = o
<1>1. o \in Operations
  OBVIOUS
<1>2. /\ Append(writes, o) \in Seq(Operations) /\ Len(Append(writes, o)) = Len(writes) + 1
      /\ \A i \in 1..(Len(writes) + 1) : Append(writes, o)[i] = IF i <= Len(writes) THEN writes[i] ELSE o
  BY <1>1
<1> QED
  BY <1>2 DEF Grows

\* The failures of Tell: each once, in some order.
LEMMA AllTold ==
  ASSUME writes \in Seq(Operations), NEW F, F \subseteq Keys, IsFiniteSet(F), Tell(F)
  PROVE  /\ Grows(Fails)
         /\ \A k \in F : \E i \in 1..Len(writes') : i > Len(writes) /\ writes'[i] \in Fails /\ writes'[i].key = k
<1> DEFINE G == [op : {"failure"}, key : F]
           q == SetToSeq(G)
<1>1. G \subseteq Fails /\ G \subseteq Operations
  BY DEF Fails, Operations
<1>2. IsFiniteSet(G)
  <2>1. PICK n \in Nat : ExistsSurjection(1..n, F)
    BY FS_NatSurjection
  <2>2. PICK f \in Surjection(1..n, F) : TRUE
    BY <2>1 DEF ExistsSurjection
  <2> DEFINE g == [i \in 1..n |-> [op |-> "failure", key |-> f[i]]]
  <2>3. (\A i \in 1..n : f[i] \in F) /\ (\A k \in F : \E i \in 1..n : f[i] = k)
    BY <2>2 DEF Surjection
  <2>4. \A i \in 1..n : g[i] \in G
    BY <2>3
  <2>5. ASSUME NEW x \in G PROVE \E i \in 1..n : g[i] = x
    <3>1. x = [op |-> "failure", key |-> x.key] /\ x.key \in F
      OBVIOUS
    <3> QED
      BY <2>3, <3>1
  <2>6. g \in Surjection(1..n, G)
    BY <2>4, <2>5, Zenon DEF Surjection
  <2> QED
    BY <2>6, FS_NatSurjection DEF ExistsSurjection
<1>3. Cardinality(G) \in Nat /\ \E f \in Bijection(1..Cardinality(G), G) : TRUE
  BY <1>2, FS_CardinalityType DEF ExistsBijection
<1> DEFINE n == Cardinality(G)
<1> HIDE DEF G
<1>4. \E f \in [1..n -> G] : IsInjective(f)
  BY <1>3 DEF Bijection, Injection, IsInjective
<1>5. q \in [1..n -> G] /\ IsInjective(q)
  BY <1>4 DEF SetToSeq
<1>6. q \in Injection(1..n, G)
  BY <1>5 DEF Injection, IsInjective
<1>7. IsFiniteSet(1..n) /\ Cardinality(1..n) = n
  BY <1>3, FS_Interval
<1>8. q \in Surjection(1..n, G)
  BY <1>6, <1>7, <1>2, FS_Injection
<1>9. \A x \in G : \E i \in 1..n : q[i] = x
  BY <1>8 DEF Surjection
<1> HIDE DEF q
<1>10. q \in Seq(Operations) /\ Len(q) = n
  BY <1>1, <1>3, <1>5
<1>11. writes' = writes \o q
  BY DEF Tell, G, q
<1>12. /\ writes \o q \in Seq(Operations) /\ Len(writes \o q) = Len(writes) + n
       /\ \A i \in 1..(Len(writes) + n) : (writes \o q)[i] = IF i <= Len(writes) THEN writes[i] ELSE q[i - Len(writes)]
  BY <1>10
<1>13. Grows(Fails)
  <2>1. ASSUME NEW i \in 1..Len(writes'), i > Len(writes) PROVE writes'[i] \in Fails
    <3>1. writes'[i] = q[i - Len(writes)] /\ i - Len(writes) \in 1..n
      BY <2>1, <1>11, <1>12, <1>3
    <3> QED
      BY <3>1, <1>5, <1>1
  <2> QED
    BY <2>1, <1>11, <1>12, <1>3 DEF Grows
<1>14. ASSUME NEW k \in F PROVE \E i \in 1..Len(writes') : i > Len(writes) /\ writes'[i] \in Fails /\ writes'[i].key = k
  <2> DEFINE x == [op |-> "failure", key |-> k]
  <2>1. x \in G /\ x.key = k
    BY DEF G
  <2>2. PICK i \in 1..n : q[i] = x
    BY <2>1, <1>9
  <2>3. Len(writes) + i \in 1..(Len(writes) + n) /\ (Len(writes) + i) - Len(writes) = i /\ Len(writes) + i > Len(writes)
    BY <1>3, <2>2
  <2>4. writes'[Len(writes) + i] = x
    BY <2>2, <2>3, <1>11, <1>12
  <2>5. Len(writes') = Len(writes) + n
    BY <1>11, <1>12
  <2> QED
    BY <2>1, <2>3, <2>4, <2>5, <1>1
<1> QED
  BY <1>13, <1>14

LEMMA KeysAreFinite == ASSUME NEW S, IsFiniteSet(S) PROVE IsFiniteSet(KeysOf(S))
<1>1. PICK n \in Nat : ExistsSurjection(1..n, S)
  BY FS_NatSurjection
<1>2. PICK f \in Surjection(1..n, S) : TRUE
  BY <1>1 DEF ExistsSurjection
<1> DEFINE g == [i \in 1..n |-> f[i].key]
<1>3. (\A i \in 1..n : f[i] \in S) /\ (\A s \in S : \E i \in 1..n : f[i] = s)
  BY <1>2 DEF Surjection
<1>4. g \in Surjection(1..n, KeysOf(S))
  BY <1>3, Zenon DEF Surjection, KeysOf
<1> QED
  BY <1>4, FS_NatSurjection DEF ExistsSurjection

-----------------------------------------------------------------------------
\* What the pool's steps do to the queue and to the writer's operations.

Settled == UNION {Settles(writes[i]) : i \in 1..Len(writes)}
Work == KeysOf(pending \cup opening \cup held \cup running) \cup Settled

LEMMA KeysIn == ASSUME NEW S, NEW e \in S PROVE e.key \in KeysOf(S)
  BY DEF KeysOf

LEMMA KeysOut == ASSUME NEW S, NEW k \in KeysOf(S) PROVE \E e \in S : e.key = k
  BY DEF KeysOf

LEMMA KeysOfBoth == ASSUME NEW S, NEW R PROVE KeysOf(S \cup R) = KeysOf(S) \cup KeysOf(R)
  BY DEF KeysOf

LEMMA KeysOfAll == ASSUME NEW A, NEW B, NEW C, NEW D
                   PROVE  KeysOf(A \cup B \cup C \cup D) = KeysOf(A) \cup KeysOf(B) \cup KeysOf(C) \cup KeysOf(D)
  BY DEF KeysOf

LEMMA KeysOfThree == ASSUME NEW A, NEW B, NEW C PROVE KeysOf(A \cup B \cup C) = KeysOf(A) \cup KeysOf(B) \cup KeysOf(C)
  BY DEF KeysOf

LEMMA NoKeyNoEntry == ASSUME NEW S, KeysOf(S) = {} PROVE S = {}
  BY DEF KeysOf

LEMMA KeysOfNone == KeysOf({}) = {}
  BY DEF KeysOf

LEMMA KeysOfOne == ASSUME NEW e PROVE KeysOf({e}) = {e.key}
  BY DEF KeysOf

LEMMA SettledIn == ASSUME NEW i \in 1..Len(writes'), writes'[i].op \in {"result", "failure"}
                   PROVE  writes'[i].key \in Settled'
  BY DEF Settled, Settles

LEMMA SettledStays == ASSUME writes \in Seq(Operations), NEW S, Grows(S) PROVE Settled \subseteq Settled'
<1>1. ASSUME NEW i \in 1..Len(writes) PROVE i \in 1..Len(writes') /\ Settles(writes[i]) = Settles(writes'[i])
  BY <1>1 DEF Grows
<1> QED
  BY <1>1 DEF Settled

\* The jobs or keys of S go back to the queue or are reported to the writer; the queue loses none.
Back(e, S) == e.key \notin KeysOf(pending) /\ \E r \in S : e = [key |-> r.key, tier |-> r.tier]
Returns(S) ==
  /\ pending \subseteq pending' /\ \A e \in pending' : e \in pending \/ Back(e, S)
  /\ alone' \subseteq Keys /\ retried' \subseteq Keys
  /\ Grows(Fails \cup Gives)
  /\ KeysOf(S) \subseteq KeysOf(pending') \cup Settled'

LEMMA MoreGrows == ASSUME NEW S, NEW R, S \subseteq R, Grows(S) PROVE Grows(R)
  BY DEF Grows

LEMMA RetryGives ==
  ASSUME PoolTyped, NEW R, NEW back, R \subseteq Jobs, IsFiniteSet(R), back \subseteq Jobs, RetryOrFail(R, back)
  PROVE  Returns(R \cup back)
<1> DEFINE again == {r \in R : r.key \notin retried}
           F == KeysOf(R \ again)
           more == {r \in again \cup back : r.key \notin KeysOf(pending)}
<1>1. /\ retried' = retried \cup KeysOf(again) /\ alone' = alone \cup KeysOf(again)
      /\ pending' = pending \cup {[key |-> r.key, tier |-> r.tier] : r \in more}
      /\ Tell(F)
  BY DEF RetryOrFail
<1>2. F \subseteq Keys /\ KeysOf(again) \subseteq Keys
  BY DEF KeysOf, Jobs
<1>3. IsFiniteSet(R \ again)
  BY FS_Subset
<1> HIDE DEF again
<1>4. IsFiniteSet(F)
  BY <1>3, KeysAreFinite
<1>5. /\ Grows(Fails)
      /\ \A k \in F : \E i \in 1..Len(writes') : i > Len(writes) /\ writes'[i] \in Fails /\ writes'[i].key = k
  BY <1>1, <1>2, <1>4, AllTold DEF PoolTyped
<1>6. F \subseteq Settled'
  BY <1>5, SettledIn DEF Fails
<1>7. ASSUME NEW r \in again \cup back PROVE r.key \in KeysOf(pending')
  <2>1. CASE r.key \in KeysOf(pending)
    BY <2>1, <1>1 DEF KeysOf
  <2>2. CASE r.key \notin KeysOf(pending)
    <3> DEFINE e == [key |-> r.key, tier |-> r.tier]
    <3>1. e \in pending' /\ e.key = r.key
      BY <2>2, <1>1
    <3> QED
      BY <3>1, KeysIn
  <2> QED
    BY <2>1, <2>2
<1>8. KeysOf(R \cup back) \subseteq KeysOf(pending') \cup Settled'
  BY <1>6, <1>7 DEF KeysOf
<1>9. again \subseteq R
  BY DEF again
<1>10. \A e \in pending' : e \in pending \/ Back(e, R \cup back)
  BY <1>1, <1>9 DEF Back
<1> QED
  BY <1>1, <1>2, <1>5, <1>8, <1>10, MoreGrows DEF Returns, PoolTyped

LEMMA ReportGives ==
  ASSUME PoolTyped, NEW r \in Jobs, NEW result \in Outcomes \cup {"crash"}, Report(r, result)
  PROVE  Returns({r})
<1>1. CASE result = "crash" \/ (result = "memory" /\ r.key \notin retried)
  <2>1. RetryOrFail({r}, {})
    BY <1>1 DEF Report
  <2>2. IsFiniteSet({r}) /\ {r} \subseteq Jobs /\ {r} \cup {} = {r}
    BY FS_Singleton
  <2>3. Returns({r} \cup {})
    BY <2>1, <2>2, RetryGives
  <2> QED
    BY <2>2, <2>3
<1>2. CASE ~(result = "crash" \/ (result = "memory" /\ r.key \notin retried))
  <2> DEFINE o == [op |-> "result", key |-> r.key, result |-> result]
  <2>1. writes' = Append(writes, o) /\ UNCHANGED <<pending, alone, retried>>
    BY <1>2 DEF Report
  <2>2. o \in Gives /\ o \in Fails \cup Gives /\ Fails \cup Gives \subseteq Operations
    BY <1>2 DEF Gives, Jobs, Operations
  <2> HIDE DEF o
  <2>3. Grows(Fails \cup Gives) /\ Len(writes') = Len(writes) + 1 /\ writes'[Len(writes')] = o
    BY <2>1, <2>2, OnePut DEF PoolTyped
  <2>4. o.key = r.key /\ o.op = "result"
    BY DEF o
  <2>5. Len(writes) \in Nat
    BY DEF PoolTyped
  <2>6. r.key \in Settled'
    BY <2>3, <2>4, <2>5, SettledIn
  <2>7. KeysOf({r}) = {r.key}
    BY KeysOfOne
  <2> QED
    BY <2>1, <2>3, <2>6, <2>7 DEF Returns, PoolTyped
<1> QED
  BY <1>1, <1>2

LEMMA WorkIs == /\ Work = KeysOf(pending) \cup KeysOf(opening) \cup KeysOf(held) \cup KeysOf(running) \cup Settled
                /\ Work' = KeysOf(pending') \cup KeysOf(opening') \cup KeysOf(held') \cup KeysOf(running') \cup Settled'
  BY KeysOfAll DEF Work

LEMMA WorkStays == ASSUME NEW S, writes \in Seq(Operations), Returns(S),
                          KeysOf(opening) \cup KeysOf(held) \cup KeysOf(running)
                            \subseteq KeysOf(opening') \cup KeysOf(held') \cup KeysOf(running') \cup KeysOf(S)
                   PROVE  Work \subseteq Work'
<1>1. Settled \subseteq Settled' /\ KeysOf(pending) \subseteq KeysOf(pending')
  BY SettledStays DEF Returns, KeysOf
<1>3. KeysOf(S) \subseteq KeysOf(pending') \cup Settled'
  BY DEF Returns
<1> QED
  BY <1>1, <1>3, WorkIs

\* What a step of the pool or of a caller has to keep for the work: no key leaves it.
LEMMA WorkIsDone ==
  ASSUME Pooled, Work \subseteq Work' \/ (Closed' /\ asked = {}), Len(writes) <= Len(writes'), writes' \in Seq(Operations),
         asked' \subseteq asked, unfinished' = unfinished, writer' = writer, close' = close
  PROVE  NothingForgotten' /\ QuietIsFinished'
<1>1. NothingForgotten' <=> asked' \subseteq Work'
  BY DEF NothingForgotten, Work, Settled
<1>2. NothingForgotten <=> asked \subseteq Work
  BY DEF NothingForgotten, Work, Settled
<1>3. NothingForgotten'
  BY <1>1, <1>2 DEF Pooled
<1>4. ASSUME Active', IsIdle', writes' = <<>>, writer'.at = "idle", unfinished' PROVE FALSE
  <2>1. writes = <<>>
    BY <1>4 DEF Pooled, Placed, PoolTyped
  <2>2. Settled' = {} /\ KeysOf((pending \cup opening \cup held \cup running)') = {}
    <3>1. (pending \cup opening \cup held \cup running)' = {} /\ 1..Len(writes') = {}
      BY <1>4 DEF IsIdle
    <3> QED
      BY <3>1, KeysOfNone DEF Settled
  <2>3. Work' = {}
    BY <2>2 DEF Work
  <2>4. Work = {}
    BY <2>3, <1>4 DEF Active
  <2>5. pending \cup opening \cup held \cup running = {}
    BY <2>4 DEF Work, KeysOf
  <2> QED
    BY <2>1, <2>5, <1>4 DEF Pooled, QuietIsFinished, IsIdle, Closed, Active
<1> QED
  BY <1>3, <1>4 DEF QuietIsFinished

LEMMA ReturnsOnce ==
  ASSUME NEW S, \A e, f \in pending : e.key = f.key => e = f, \A r, q \in S : r.key = q.key => r.tier = q.tier, Returns(S)
  PROVE  /\ \A e, f \in pending' : e.key = f.key => e = f
         /\ KeysOf(pending') \subseteq KeysOf(pending) \cup KeysOf(S)
<1>1. ASSUME NEW e \in pending', NEW f \in pending', e.key = f.key PROVE e = f
  <2>1. CASE e \in pending /\ f \in pending
    BY <1>1, <2>1
  <2>2. CASE e \in pending /\ Back(f, S)
    BY <1>1, <2>2, KeysIn DEF Back
  <2>3. CASE Back(e, S) /\ f \in pending
    BY <1>1, <2>3, KeysIn DEF Back
  <2>4. CASE Back(e, S) /\ Back(f, S)
    <3>1. PICK r \in S, q \in S : e = [key |-> r.key, tier |-> r.tier] /\ f = [key |-> q.key, tier |-> q.tier]
      BY <2>4 DEF Back
    <3>2. r.key = q.key
      BY <3>1, <1>1
    <3> QED
      BY <3>1, <3>2
  <2> QED
    BY <2>1, <2>2, <2>3, <2>4 DEF Returns
<1>2. ASSUME NEW e \in pending' PROVE e.key \in KeysOf(pending) \cup KeysOf(S)
  BY KeysIn DEF Returns, Back
<1> QED
  BY <1>1, <1>2, KeysOut

LEMMA ItemsReturn == ASSUME PoolTyped, NEW S, Returns(S), S \subseteq Items \cup Waiting \cup Jobs PROVE pending' \subseteq Items
<1>1. ASSUME NEW e \in pending' PROVE e \in Items
  BY DEF Returns, Back, PoolTyped, Items, Waiting, Jobs
<1> QED
  BY <1>1

-----------------------------------------------------------------------------
\* Queueing keys, and the token of a new job.

LEMMA LowerIsOne == ASSUME NEW s \in Tiers, NEW t \in Tiers PROVE Lower(s, t) \in Tiers
  BY DEF Lower

Raised(e, K, t) == [e EXCEPT !.tier = IF e.key \in K THEN Lower(@, t) ELSE @]

LEMMA RaisedIs == ASSUME NEW K, NEW t \in Tiers, NEW e \in Items \cup Waiting
                  PROVE  /\ Raised(e, K, t).key = e.key
                         /\ e \in Items => Raised(e, K, t) \in Items
                         /\ e \in Waiting => Raised(e, K, t) \in Waiting /\ Raised(e, K, t).alone = e.alone
<1>1. CASE e \in Items
  <2>1. e.tier \in Tiers /\ e.key \in Keys /\ e = [key |-> e.key, tier |-> e.tier]
    BY <1>1 DEF Items
  <2>2. (IF e.key \in K THEN Lower(e.tier, t) ELSE e.tier) \in Tiers
    BY <2>1, LowerIsOne
  <2>3. Raised(e, K, t) = [key |-> e.key, tier |-> IF e.key \in K THEN Lower(e.tier, t) ELSE e.tier]
    BY <2>1 DEF Raised
  <2>4. e \notin Waiting
    BY <2>1 DEF Waiting
  <2> QED
    BY <2>1, <2>2, <2>3, <2>4 DEF Items
<1>2. CASE e \in Waiting
  <2>1. e.tier \in Tiers /\ e.key \in Keys /\ e.alone \in BOOLEAN /\ e = [key |-> e.key, tier |-> e.tier, alone |-> e.alone]
    BY <1>2 DEF Waiting
  <2>2. (IF e.key \in K THEN Lower(e.tier, t) ELSE e.tier) \in Tiers
    BY <2>1, LowerIsOne
  <2>3. Raised(e, K, t) = [key |-> e.key, tier |-> IF e.key \in K THEN Lower(e.tier, t) ELSE e.tier, alone |-> e.alone]
    BY <2>1 DEF Raised
  <2>4. e \notin Items
    BY <2>1 DEF Items
  <2> QED
    BY <2>1, <2>2, <2>3, <2>4 DEF Waiting
<1> QED
  BY <1>1, <1>2

LEMMA SubmitGives ==
  ASSUME PoolTyped, NEW K, K \subseteq Keys, NEW t \in Tiers, Submit(K, t)
  PROVE  /\ pending' \subseteq Items
         /\ opening' = {Raised(e, K, t) : e \in opening} /\ held' = {Raised(e, K, t) : e \in held}
         /\ KeysOf(pending) \subseteq KeysOf(pending')
         /\ KeysOf(pending') \subseteq KeysOf(pending) \cup (K \ KeysOf(running \cup opening \cup held))
         /\ K \subseteq KeysOf(pending') \cup KeysOf(running \cup opening \cup held)
         /\ (\A e, f \in pending : e.key = f.key => e = f) => \A e, f \in pending' : e.key = f.key => e = f
<1> DEFINE busy == KeysOf(running \cup opening \cup held)
           moved == {k \in K \ busy : \A e \in pending : e.key = k => e.tier > t}
<1>1. /\ pending' = {e \in pending : e.key \notin moved} \cup [key : moved, tier : {t}]
      /\ opening' = {Raised(e, K, t) : e \in opening} /\ held' = {Raised(e, K, t) : e \in held}
  BY Zenon DEF Submit, Raised
<1>2. moved \subseteq Keys /\ moved \subseteq K \ busy
  OBVIOUS
<1>3. ASSUME NEW k \in (K \ busy) \ moved PROVE k \in KeysOf(pending)
  BY <1>3 DEF KeysOf
<1> HIDE DEF moved
<1> DEFINE New(k) == [key |-> k, tier |-> t]
<1>4. \A x \in [key : moved, tier : {t}] : x = New(x.key) /\ x.key \in moved
  OBVIOUS
<1>5. \A k \in moved : New(k) \in [key : moved, tier : {t}] /\ New(k).key = k
  OBVIOUS
<1>6. pending' \subseteq Items
  BY <1>1, <1>2 DEF Items, PoolTyped
<1>7. KeysOf(pending') = KeysOf(pending) \cup moved
  <2>1. ASSUME NEW k \in KeysOf(pending') PROVE k \in KeysOf(pending) \cup moved
    BY <1>1, <1>4 DEF KeysOf
  <2>2. ASSUME NEW k \in moved PROVE k \in KeysOf(pending')
    BY <1>1, <1>5, KeysIn
  <2>3. ASSUME NEW e \in pending, e.key \notin moved PROVE e.key \in KeysOf(pending')
    <3>1. e \in pending'
      BY <1>1, <2>3
    <3> QED
      BY <3>1, KeysIn
  <2> QED
    BY <2>1, <2>2, <2>3, KeysOut
<1>8. ASSUME \A e, f \in pending : e.key = f.key => e = f, NEW e \in pending', NEW f \in pending', e.key = f.key
      PROVE  e = f
  BY <1>8, <1>1, <1>4
<1> QED
  BY <1>1, <1>2, <1>3, <1>6, <1>7, <1>8

LEMMA SubmitFits ==
  ASSUME PoolTyped, StepFits, Large, NEW K, K \subseteq Keys, NEW t \in Tiers, Submit(K, t), UNCHANGED <<step, raced, running>>
  PROVE  /\ opening' \subseteq Items /\ held' \subseteq Waiting /\ StepFits' /\ Large'
         /\ KeysOf(opening') = KeysOf(opening) /\ KeysOf(held') = KeysOf(held)
<1>1. opening' = {Raised(e, K, t) : e \in opening} /\ held' = {Raised(e, K, t) : e \in held}
  BY Zenon DEF Submit, Raised
<1>2. \A e \in opening : Raised(e, K, t) \in Items /\ Raised(e, K, t).key = e.key
  BY RaisedIs DEF PoolTyped
<1>3. \A h \in held : Raised(h, K, t) \in Waiting /\ Raised(h, K, t).key = h.key /\ Raised(h, K, t).alone = h.alone
  BY RaisedIs DEF PoolTyped
<1>4. opening' \subseteq Items /\ held' \subseteq Waiting
  BY <1>1, <1>2, <1>3
<1>5. /\ opening = {} => opening' = {}
      /\ held = {} => held' = {}
      /\ held' = {} => held = {}
      /\ \A e : opening = {e} => opening' = {Raised(e, K, t)}
      /\ \A h : held = {h} => held' = {Raised(h, K, t)}
  BY <1>1
<1>6. KeysOf(opening') = KeysOf(opening) /\ KeysOf(held') = KeysOf(held)
  BY <1>1, <1>2, <1>3 DEF KeysOf
<1>7. Marked(held') /\ Large'
  BY <1>1, <1>3 DEF Large, Marked
<1>8. held' # {} => \E h \in held' : held' = {h}
  BY <1>5 DEF StepFits
<1>9. step.at = "open" => held' = {} /\ \E e \in Items : opening' = {e}
  BY <1>5, <1>2 DEF StepFits
<1>10. ASSUME step.at = "opened", NEW j \in step.job, j \in Waiting /\ step.job = {j},
              \/ opening = {} /\ (held = {} => raced) /\ \A h \in held : h.key = j.key
              \/ held = {} /\ \E e \in opening : opening = {e} /\ e.key = j.key
       PROVE  \/ opening' = {} /\ (held' = {} => raced) /\ \A h \in held' : h.key = j.key
              \/ held' = {} /\ \E e \in opening' : opening' = {e} /\ e.key = j.key
  <2>1. CASE opening = {} /\ (held = {} => raced) /\ \A h \in held : h.key = j.key
    BY <2>1, <1>1, <1>3, <1>5
  <2>2. CASE held = {} /\ \E e \in opening : opening = {e} /\ e.key = j.key
    BY <2>2, <1>2, <1>5
  <2> QED
    BY <1>10, <2>1, <2>2
<1>11. StepFits'
  <2>1. step.at = "opened" => \E j \in step.job :
          /\ j \in Waiting /\ step.job = {j}
          /\ \/ opening' = {} /\ (held' = {} => raced) /\ \A h \in held' : h.key = j.key
             \/ held' = {} /\ \E e \in opening' : opening' = {e} /\ e.key = j.key
    BY <1>10 DEF StepFits
  <2> QED
    BY <2>1, <1>5, <1>8, <1>9 DEF StepFits
<1> QED
  BY <1>4, <1>6, <1>7, <1>11

LEMMA UnionIsSmall == ASSUME NEW S, NEW T, IsFiniteSet(S), IsFiniteSet(T)
                      PROVE  IsFiniteSet(S \cup T) /\ Cardinality(S \cup T) <= Cardinality(S) + Cardinality(T)
<1>1. /\ IsFiniteSet(S \cup T) /\ IsFiniteSet(S \cap T)
      /\ Cardinality(S \cup T) = Cardinality(S) + Cardinality(T) - Cardinality(S \cap T)
  BY FS_Union, FS_Intersection
<1>2. Cardinality(S) \in Nat /\ Cardinality(T) \in Nat /\ Cardinality(S \cap T) \in Nat
  BY <1>1, FS_CardinalityType
<1> QED
  BY <1>1, <1>2

\* The token of a new job is nobody else's: there are more numbers than tokens in use.
LEMMA TokenIsNew ==
  ASSUME IsFiniteSet(running), IsFiniteSet(procs), IsFiniteSet(finished)
  PROVE  NextToken \in Nat /\ NextToken \notin Tokens \cup {p.token : p \in procs} \cup {f.token : f \in finished}
<1> DEFINE n == Cardinality(running) + Cardinality(procs) + Cardinality(finished) + 1
           P == {p.token : p \in procs}
           Q == {f.token : f \in finished}
<1>1. /\ IsFiniteSet(Tokens) /\ Cardinality(Tokens) <= Cardinality(running)
      /\ IsFiniteSet(P) /\ Cardinality(P) <= Cardinality(procs)
      /\ IsFiniteSet(Q) /\ Cardinality(Q) <= Cardinality(finished)
  <2>1. ASSUME NEW S, IsFiniteSet(S) PROVE IsFiniteSet({x.token : x \in S}) /\ Cardinality({x.token : x \in S}) <= Cardinality(S)
    <3> DEFINE g == [x \in S |-> x.token]
    <3>1. g \in Surjection(S, {x.token : x \in S})
      BY Zenon DEF Surjection
    <3> HIDE DEF g
    <3> QED
      BY <2>1, <3>1, FS_Surjection
  <2> QED
    BY <2>1 DEF Tokens
<1>2. /\ Cardinality(running) \in Nat /\ Cardinality(procs) \in Nat /\ Cardinality(finished) \in Nat
      /\ Cardinality(Tokens) \in Nat /\ Cardinality(P) \in Nat /\ Cardinality(Q) \in Nat
  BY <1>1, FS_CardinalityType
<1> DEFINE U == Tokens \cup P \cup Q
<1> HIDE DEF P, Q
<1>3. IsFiniteSet(U) /\ Cardinality(U) <= Cardinality(Tokens) + Cardinality(P) + Cardinality(Q)
  <2>1. IsFiniteSet(Tokens \cup P) /\ Cardinality(Tokens \cup P) <= Cardinality(Tokens) + Cardinality(P)
    BY <1>1, UnionIsSmall
  <2>2. IsFiniteSet(U) /\ Cardinality(U) <= Cardinality(Tokens \cup P) + Cardinality(Q)
    BY <1>1, <2>1, UnionIsSmall
  <2>3. Cardinality(U) \in Nat /\ Cardinality(Tokens \cup P) \in Nat
    BY <2>1, <2>2, FS_CardinalityType
  <2> HIDE DEF U
  <2> QED
    BY <1>2, <2>1, <2>2, <2>3
<1>4. n \in Nat /\ IsFiniteSet(1..n) /\ Cardinality(1..n) = n
  <2>1. n \in Nat /\ n > 0
    BY <1>2
  <2> HIDE DEF n
  <2> QED
    BY <2>1, FS_Interval
<1>5. \E k \in 1..n : k \notin U
  <2> SUFFICES ASSUME 1..n \subseteq U PROVE FALSE
    OBVIOUS
  <2>1. n <= Cardinality(U) /\ Cardinality(U) \in Nat
    BY <1>3, <1>4, FS_Subset, FS_CardinalityType
  <2> QED
    BY <2>1, <1>1, <1>2, <1>3
<1>6. NextToken = CHOOSE k \in 1..n : k \notin U
  BY DEF NextToken, P, Q
<1>7. NextToken \in 1..n /\ NextToken \notin U
  BY <1>5, <1>6
<1> QED
  BY <1>7, <1>4 DEF P, Q

-----------------------------------------------------------------------------
\* The bounds of what runs.

LEMMA LoadOfFewer == ASSUME NEW S, IsFiniteSet(S), Sized(S), NEW R \in SUBSET S PROVE Load(R) <= Load(S)
<1> SUFFICES ASSUME ~(Load(R) <= Load(S)) PROVE FALSE
  OBVIOUS
<1> DEFINE B == {u \in SUBSET S : ~(Load(S \ u) <= Load(S))}
<1>1. B \subseteq SUBSET S /\ S \ R \in B
  <2>1. S \ (S \ R) = R
    OBVIOUS
  <2> QED
    BY <2>1
<1> HIDE DEF B
<1>2. PICK u \in B : \A w \in B : w \subseteq u => w = u
  BY <1>1, Smallest
<1>3. u \in SUBSET S /\ ~(Load(S \ u) <= Load(S))
  BY <1>2 DEF B
<1>4. \A s \in SUBSET S : IsFiniteSet(s) /\ Sized(s) /\ Load(s) \in Nat
  BY FS_Subset, LoadIsNat DEF Sized
<1>5. u # {}
  <2>1. S \ {} = S /\ Load(S) \in Nat
    BY <1>4
  <2> QED
    BY <1>3, <2>1
<1>6. PICK x \in u : TRUE
  BY <1>5
<1> DEFINE s == S \ (u \ {x})
<1>7. u \ {x} \notin B
  BY <1>2, <1>6
<1>8. Load(s) <= Load(S)
  BY <1>7, <1>3 DEF B
<1>9. x \in s /\ s \ {x} = S \ u /\ s \in SUBSET S
  BY <1>3, <1>6
<1> HIDE DEF s
<1>10. Load(s) = Size[x.key] + Load(S \ u)
  BY <1>9, <1>4, LoadOfEach
<1>11. Size[x.key] \in Nat /\ Load(s) \in Nat /\ Load(S \ u) \in Nat /\ Load(S) \in Nat
  BY <1>4, <1>9, <1>3 DEF Sized
<1> QED
  BY <1>3, <1>8, <1>10, <1>11

LEMMA JobsAreSized == ASSUME NEW S \in SUBSET Jobs PROVE Sized(S)
  BY PoolBounds DEF Sized, Jobs

Background(S) == {r \in S : r.tier # INTERACTIVE}

LEMMA FewerFit == ASSUME IsFiniteSet(running), running \subseteq Jobs, Bounded, running' \subseteq running, pool'.inline = pool.inline
                  PROVE  Bounded' /\ IsFiniteSet(running') /\ running' \subseteq Jobs
<1>1. IsFiniteSet(running') /\ Cardinality(running') <= Cardinality(running) /\ running' \in SUBSET running
  BY FS_Subset
<1>2. /\ IsFiniteSet(Background(running)) /\ Background(running') \subseteq Background(running)
      /\ Background(running) \subseteq running /\ Background(running') \subseteq running'
  BY FS_Subset DEF Background
<1>3. Cardinality(Background(running')) <= Cardinality(Background(running))
  BY <1>2, FS_Subset
<1>4. /\ Cardinality(running') \in Nat /\ Cardinality(running) \in Nat
      /\ Cardinality(Background(running')) \in Nat /\ Cardinality(Background(running)) \in Nat
  BY <1>1, <1>2, FS_CardinalityType, FS_Subset
<1>5. ASSUME \A r \in running' : ~r.alone PROVE Load(running') <= Budget
  <2>1. CASE \A r \in running : ~r.alone
    <3>1. Load(running) <= Budget
      BY <2>1 DEF Bounded
    <3>2. Load(running') <= Load(running)
      BY <1>1, LoadOfFewer, JobsAreSized
    <3>3. Load(running) \in Nat /\ Load(running') \in Nat
      BY <1>1, LoadIsNat, JobsAreSized
    <3> QED
      BY <3>1, <3>2, <3>3, PoolBounds
  <2>2. CASE \E r \in running : r.alone
    <3>1. running' = {}
      BY <2>2, <1>5, <1>1 DEF Bounded
    <3> QED
      BY <3>1, LoadOfNone, PoolBounds
  <2> QED
    BY <2>1, <2>2
<1>6. Cardinality(running') <= MaxWorkers
  BY <1>1, <1>4, PoolBounds DEF Bounded
<1>7. Reserves' => Cardinality(Background(running')) < MaxWorkers
  <2>1. Reserves' <=> Reserves
    BY DEF Reserves
  <2>2. Reserves => Cardinality(Background(running)) < MaxWorkers
    BY DEF Bounded, Background
  <2> QED
    BY <2>1, <2>2, <1>3, <1>4, PoolBounds
<1> QED
  BY <1>1, <1>5, <1>6, <1>7 DEF Bounded, Background

LEMMA OneMoreFits ==
  ASSUME PoolTyped, Bounded, NEW job \in Waiting, Fits(job), NEW n \in Nat, n \notin Tokens,
         running' = running \cup {[token |-> n, key |-> job.key, tier |-> job.tier, alone |-> job.alone]}, pool' = pool
  PROVE  Bounded' /\ IsFiniteSet(running') /\ running' \subseteq Jobs
<1> DEFINE r == [token |-> n, key |-> job.key, tier |-> job.tier, alone |-> job.alone]
           W == Workers
<1>1. r \in Jobs /\ r \notin running /\ r.key = job.key /\ r.tier = job.tier /\ r.alone = job.alone
  BY DEF Jobs, Waiting, Tokens
<1> HIDE DEF r
<1>2. running' = running \cup {r}
  BY DEF r
<1>3. /\ IsFiniteSet(running') /\ running' \subseteq Jobs
      /\ Cardinality(running') = Cardinality(running) + 1 /\ Cardinality(running) \in Nat
  BY <1>1, <1>2, FS_AddElement, FS_CardinalityType DEF PoolTyped
<1>4. W \in Nat /\ 1 <= W /\ W <= MaxWorkers /\ (pool.playing => W = 1) /\ (~pool.playing /\ ~pool.inline => W = MaxWorkers)
  BY PoolBounds DEF Workers
<1> HIDE DEF W
<1>5. /\ \A q \in running : ~q.alone
      /\ job.alone => running = {}
      /\ ~job.alone => /\ Cardinality(running) < W /\ Load(running) + Size[job.key] <= Budget
                       /\ ~(Reserves /\ ~pool.playing /\ job.tier # INTERACTIVE /\ Cardinality(Background(running)) >= W - 1)
  BY DEF Fits, Background, W
<1>6. running = {} => Cardinality(running) = 0
  BY FS_EmptySet
<1>7. \A p, q \in running' : p.alone => q = p
  BY <1>1, <1>2, <1>5
<1>8. Cardinality(running') <= MaxWorkers
  BY <1>3, <1>4, <1>5, <1>6, PoolBounds
<1>9. ASSUME \A q \in running' : ~q.alone PROVE Load(running') <= Budget
  <2>1. ~job.alone
    BY <1>9, <1>1, <1>2
  <2>2. Load(running') = Size[r.key] + Load(running' \ {r})
    BY <1>2, <1>3, LoadOfEach, JobsAreSized
  <2>3. running' \ {r} = running
    BY <1>1, <1>2
  <2>4. Load(running) \in Nat /\ Size[job.key] \in Nat
    BY LoadIsNat, JobsAreSized, PoolBounds DEF PoolTyped, Waiting
  <2>5. Load(running) + Size[job.key] <= Budget
    BY <2>1, <1>5
  <2>6. Load(running') = Size[job.key] + Load(running)
    BY <2>2, <2>3, <1>1
  <2> QED
    BY <2>4, <2>5, <2>6
<1>10. ASSUME Reserves PROVE Cardinality(Background(running')) < MaxWorkers
  <2>1. MaxWorkers >= 3 /\ ~pool.inline
    BY <1>10 DEF Reserves
  <2>2. CASE job.tier = INTERACTIVE
    <3>1. Background(running') = Background(running)
      BY <2>2, <1>1, <1>2 DEF Background
    <3> QED
      BY <3>1, <1>10 DEF Bounded, Background
  <2>3. CASE job.tier # INTERACTIVE
    <3>1. Background(running') = Background(running) \cup {r} /\ r \notin Background(running)
      BY <2>3, <1>1, <1>2 DEF Background
    <3>2. IsFiniteSet(Background(running)) /\ Cardinality(Background(running)) <= Cardinality(running)
      BY FS_Subset DEF Background, PoolTyped
    <3>3. Cardinality(Background(running')) = Cardinality(Background(running)) + 1 /\ Cardinality(Background(running)) \in Nat
      BY <3>1, <3>2, FS_AddElement, FS_CardinalityType
    <3>4. CASE job.alone \/ pool.playing
      <4>1. Cardinality(running) = 0
        BY <3>4, <1>3, <1>4, <1>5, <1>6
      <4> QED
        BY <4>1, <3>2, <3>3, <2>1, PoolBounds
    <3>5. CASE ~job.alone /\ ~pool.playing
      BY <3>5, <3>3, <2>1, <2>3, <1>4, <1>5, <1>10, PoolBounds
    <3> QED
      BY <3>4, <3>5
  <2> QED
    BY <2>2, <2>3
<1>11. Reserves' <=> Reserves
  BY DEF Reserves
<1> QED
  BY <1>3, <1>7, <1>8, <1>9, <1>10, <1>11 DEF Bounded, Background

LEMMA FitsIsKept == ASSUME PoolTyped, Bounded, Large, TokensFit PROVE CapacityKept
<1>1. ASSUME NEW r \in running, r.alone \/ Size[r.key] > Budget \div 2 PROVE running = {r} /\ r.alone
  BY <1>1 DEF Bounded, Large, Marked
<1>2. \A r : running = {r} => Cardinality(running) = 1
  BY FS_Singleton
<1>3. Cardinality(running) > 1 => Load(running) <= Budget
  <2>1. CASE \E r \in running : r.alone
    BY <2>1, <1>1, <1>2
  <2>2. CASE \A r \in running : ~r.alone
    BY <2>2 DEF Bounded
  <2> QED
    BY <2>1, <2>2
<1> QED
  BY <1>1, <1>2, <1>3 DEF CapacityKept, Bounded, TokensFit

LEMMA OnceIsOnce == ASSUME PoolTyped, ~raced => Once PROVE NeverTwice
<1> SUFFICES ASSUME ~raced PROVE Cardinality(running) = Cardinality(KeysOf(running))
  BY DEF NeverTwice, Once
<1> DEFINE g == [r \in running |-> r.key]
<1>1. g \in Surjection(running, KeysOf(running))
  BY Zenon DEF Surjection, KeysOf
<1>2. g \in Injection(running, KeysOf(running))
  <2>1. \A r, q \in running : r.key = q.key => r = q
    BY DEF Once
  <2>2. \A r, q \in running : g[r] = g[q] => r = q
    BY <2>1
  <2> HIDE DEF g
  <2>3. g \in [running -> KeysOf(running)] /\ DOMAIN g = running
    BY <1>1 DEF Surjection
  <2> QED
    BY <2>2, <2>3 DEF Injection, IsInjective
<1> HIDE DEF g
<1> QED
  BY <1>1, <1>2, FS_Surjection DEF PoolTyped

-----------------------------------------------------------------------------
\* The steps of the dispatcher and of the workers: where the jobs are, and no work leaves.

LEMMA NothingReturns == ASSUME PoolTyped, UNCHANGED <<pending, alone, retried, writes>> PROVE Returns({})
  BY NothingPut, KeysOfNone DEF Returns, PoolTyped

LEMMA LengthGrows == ASSUME NEW S, Returns(S), PoolTyped PROVE Len(writes) <= Len(writes') /\ writes' \in Seq(Operations)
  BY DEF Returns, Grows

\* A round of the dispatcher, or a job it could not hand over: the jobs of S are no longer running.
LEMMA RoundKeeps ==
  ASSUME Placed, step.at \in {"idle", "submit"}, step'.at = "idle", step'.job = {},
         UNCHANGED <<opening, held, pool, scanned, raced, unfinished>>,
         NEW S \in SUBSET Jobs, ~raced => S \subseteq running, Returns(S), ~scanned => writes' = writes, running' = running \ S,
         procs' \subseteq procs, finished' \subseteq finished, \A p \in procs', r \in S : p.token # r.token
  PROVE  Placed' /\ Work \subseteq Work'
<1>1. PoolTyped /\ running \subseteq Jobs
  BY DEF Placed, PoolTyped
<1>2. Bounded' /\ IsFiniteSet(running') /\ running' \subseteq Jobs
  BY <1>1, FewerFit DEF Placed, PoolTyped
<1>3. PoolTyped'
  <2>1. IsFiniteSet(procs') /\ IsFiniteSet(finished')
    BY <1>1, FS_Subset DEF PoolTyped
  <2>2. S \subseteq Items \cup Waiting \cup Jobs
    BY <1>1
  <2>3. pending' \subseteq Items
    BY <1>1, <2>2, ItemsReturn
  <2> QED
    BY <1>1, <1>2, <2>1, <2>3 DEF PoolTyped, Returns, Grows
<1>4. StepFits'
  BY DEF Placed, StepFits
<1>5. Large'
  BY DEF Placed, Large, Marked
<1>6. TokensFit'
  <2>1. ~raced' => {p.token : p \in procs'} \subseteq Tokens'
    BY DEF Placed, TokensFit, Tokens
  <2> QED
    BY <2>1 DEF Placed, TokensFit
<1>7. ASSUME ~raced' PROVE Once'
  <2>1. Once
    BY <1>7 DEF Placed
  <2>2. \A r, q \in S : r.key = q.key => r.tier = q.tier
    BY <1>7, <2>1 DEF Once
  <2>3. /\ \A e, f \in pending' : e.key = f.key => e = f
        /\ KeysOf(pending') \subseteq KeysOf(pending) \cup KeysOf(S)
    BY <2>1, <2>2, ReturnsOnce DEF Once
  <2>4. opening = {}
    BY DEF Placed, StepFits
  <2>5. KeysOf(S) \cap KeysOf(running') = {}
    <3>1. \A r \in S, q \in running' : r.key # q.key
      BY <1>7, <2>1 DEF Once
    <3> QED
      BY <3>1 DEF KeysOf
  <2>6. /\ KeysOf(S) \cap KeysOf(held) = {} /\ KeysOf(running') \subseteq KeysOf(running)
        /\ KeysOf(pending) \cap (KeysOf(held) \cup KeysOf(running)) = {} /\ KeysOf(held) \cap KeysOf(running) = {}
    BY <1>7, <2>1 DEF Once, KeysOf
  <2>7. KeysOf(pending') \cap (KeysOf(held) \cup KeysOf(running')) = {}
    BY <2>3, <2>5, <2>6
  <2>8. (\A r, q \in running' : r.key = q.key => r = q)
    BY <2>1 DEF Once
  <2>9. /\ KeysOf((opening \cup held \cup running)') = KeysOf(held) \cup KeysOf(running') /\ KeysOf(opening') = {}
        /\ KeysOf(held') = KeysOf(held)
    BY <2>4 DEF KeysOf
  <2> QED
    BY <2>3, <2>6, <2>7, <2>8, <2>9 DEF Once
<1>8. Unscanned'
  BY DEF Placed, Unscanned
<1>9. Work \subseteq Work'
  <2>1. KeysOf(running) \subseteq KeysOf(running') \cup KeysOf(S)
    BY DEF KeysOf
  <2> QED
    BY <1>1, <2>1, WorkStays DEF PoolTyped
<1> QED
  BY <1>2, <1>3, <1>4, <1>5, <1>6, <1>7, <1>8, <1>9 DEF Placed

\* What a step of the pool shows.
Worked == Placed' /\ Work \subseteq Work' /\ Grows(Fails \cup Gives)

LEMMA CollectWorks == ASSUME Placed, Collect, unfinished' = unfinished PROVE Worked
<1>1. PICK f \in finished :
        /\ step.at = "idle"
        /\ finished' = finished \ {f}
        /\ running' = {r \in running : r.token # f.token}
        /\ IF f.token \in Tokens THEN \E r \in running : r.token = f.token /\ Report(r, f.result)
                                 ELSE UNCHANGED <<pending, alone, retried, writes>>
        /\ UNCHANGED <<opening, held, procs, pool, step, scanned, raced, count>>
  BY DEF Collect
<1>0. step'.at = "idle" /\ step'.job = {}
  BY <1>1 DEF Placed, StepFits
<1>2. PoolTyped /\ f \in Ends /\ running \subseteq Jobs
  BY DEF Placed, PoolTyped
<1>3. CASE f.token \notin Tokens
  <2>1. Returns({})
    BY <1>1, <1>2, <1>3, NothingReturns
  <2>2. running' = running \ {} /\ writes' = writes
    BY <1>1, <1>3 DEF Tokens
  <2>3. {} \in SUBSET Jobs /\ {} \subseteq running /\ \A p \in procs', r \in {} : p.token # r.token
    OBVIOUS
  <2>4. Placed' /\ Work \subseteq Work'
    BY <1>0, <1>1, <2>1, <2>2, <2>3, RoundKeeps
  <2> QED
    BY <2>1, <2>4 DEF Worked, Returns
<1>4. CASE f.token \in Tokens
  <2>1. PICK r \in running : r.token = f.token /\ Report(r, f.result)
    BY <1>1, <1>4
  <2>2. Returns({r})
    BY <1>2, <2>1, ReportGives DEF Ends
  <2>3. running' = running \ {r}
    BY <1>1, <2>1 DEF Placed, TokensFit
  <2>4. \A p \in procs', q \in {r} : p.token # q.token
    BY <1>1, <2>1 DEF Placed, TokensFit
  <2>5. scanned /\ {r} \in SUBSET Jobs /\ {r} \subseteq running
    BY <1>2, <2>1 DEF Placed, Unscanned
  <2>6. Placed' /\ Work \subseteq Work'
    BY <1>0, <1>1, <2>2, <2>3, <2>4, <2>5, RoundKeeps
  <2> QED
    BY <2>2, <2>6 DEF Worked, Returns
<1> QED
  BY <1>3, <1>4

LEMMA ReapWorks == ASSUME Placed, Reap, unfinished' = unfinished PROVE Worked
<1>1. PICK r \in running :
        /\ step.at = "idle"
        /\ running' = running \ {r} /\ procs' = {p \in procs : p.token # r.token}
        /\ RetryOrFail({r}, {})
        /\ UNCHANGED <<opening, held, finished, pool, step, scanned, raced, count>>
  BY DEF Reap
<1>2. PoolTyped /\ {r} \subseteq Jobs /\ IsFiniteSet({r})
  BY FS_Singleton DEF Placed, PoolTyped
<1>3. {r} \cup {} = {r} /\ {} \subseteq Jobs
  OBVIOUS
<1>4. Returns({r} \cup {})
  BY <1>1, <1>2, <1>3, RetryGives
<1>5. Returns({r})
  BY <1>3, <1>4
<1>6. step'.at = "idle" /\ step'.job = {} /\ scanned /\ {r} \subseteq running
  BY <1>1 DEF Placed, StepFits, Unscanned
<1>7. Placed' /\ Work \subseteq Work'
  BY <1>1, <1>2, <1>5, <1>6, RoundKeeps
<1> QED
  BY <1>5, <1>7 DEF Worked, Returns

LEMMA WatchdogWorks == ASSUME Placed, NEW late \in SUBSET running, late # {}, Watchdog(late), unfinished' = unfinished PROVE Worked
<1>1. PoolTyped /\ late \subseteq Jobs /\ running \ late \subseteq Jobs /\ IsFiniteSet(late)
  BY FS_Subset DEF Placed, PoolTyped
<1>2. late \cup (running \ late) = running
  OBVIOUS
<1>3. Returns(late \cup (running \ late))
  BY <1>1, RetryGives DEF Watchdog
<1>4. Returns(running)
  BY <1>2, <1>3
<1>5. running' = running \ running /\ running # {} /\ running \in SUBSET running
  BY DEF Watchdog
<1>6. /\ step.at = "idle" /\ step'.at = "idle" /\ step'.job = {} /\ scanned /\ running \in SUBSET Jobs
      /\ procs' = {} /\ finished' = {} /\ UNCHANGED <<opening, held, pool, scanned, raced>>
  BY <1>1, <1>5 DEF Watchdog, Placed, StepFits, Unscanned, PoolTyped
<1>7. Placed' /\ Work \subseteq Work'
  BY <1>4, <1>5, <1>6, RoundKeeps
<1> QED
  BY <1>4, <1>7 DEF Worked, Returns

\* Steps that leave the queue and the writer's operations alone.
LEMMA NothingMoves ==
  ASSUME PoolTyped, UNCHANGED <<pending, opening, held, running, writes>> PROVE Work \subseteq Work' /\ Grows(Fails \cup Gives)
<1>1. Work' = Work
  BY DEF Work, Settled
<1> QED
  BY <1>1, NothingPut DEF PoolTyped

LEMMA CheckGameWorks == ASSUME Placed, CheckGame, unfinished' = unfinished PROVE Worked
<1>1. pool' = [pool EXCEPT !.playing = ~@] /\ UNCHANGED <<pending, alone, retried, opening, held, running, finished, procs, step, writes, scanned, raced>>
  BY DEF CheckGame
<1>2. PoolTyped' /\ pool'.inline = pool.inline
  BY <1>1 DEF Placed, PoolTyped
<1>3. Bounded'
  <2>1. running' \subseteq running
    BY <1>1
  <2> QED
    BY <2>1, <1>2, FewerFit DEF Placed, PoolTyped
<1>4. StepFits' /\ Large' /\ TokensFit' /\ Unscanned'
  BY <1>1 DEF Placed, StepFits, Large, Marked, TokensFit, Tokens, Unscanned
<1>5. ~raced' => Once'
  BY <1>1 DEF Placed, Once
<1> QED
  BY <1>1, <1>2, <1>3, <1>4, <1>5, NothingMoves DEF Worked, Placed

LEMMA TakeHeldWorks == ASSUME Placed, TakeHeld, unfinished' = unfinished PROVE Worked
<1>1. /\ step.at = "idle" /\ held # {} /\ step' = [at |-> "opened", job |-> held]
      /\ UNCHANGED <<pending, alone, retried, opening, held, running, finished, procs, pool, writes, scanned, raced>>
  BY DEF TakeHeld
<1>2. PoolTyped'
  BY <1>1 DEF Placed, PoolTyped
<1>3. Bounded'
  BY <1>1 DEF Placed, Bounded, Reserves
<1>4. TokensFit' /\ Unscanned'
  BY <1>1 DEF Placed, TokensFit, Tokens, Unscanned
<1>5. ~raced' => Once'
  BY <1>1 DEF Placed, Once
<1>6. StepFits'
  <2>1. PICK h \in held : held = {h}
    BY <1>1 DEF Placed, StepFits
  <2>2. h \in Waiting /\ opening = {}
    BY <1>1, <2>1 DEF Placed, PoolTyped, StepFits
  <2> QED
    BY <1>1, <2>1, <2>2 DEF StepFits
<1>7. Large'
  BY <1>1 DEF Placed, Large, Marked
<1> QED
  BY <1>1, <1>2, <1>3, <1>4, <1>5, <1>6, <1>7, NothingMoves DEF Worked, Placed

LEMMA PopWorks == ASSUME Placed, Pop, unfinished' = unfinished PROVE Worked
<1>1. PICK e \in pending :
        /\ step.at = "idle" /\ held = {}
        /\ pending' = pending \ {e} /\ opening' = {e} /\ step' = [at |-> "open", job |-> {}]
        /\ UNCHANGED <<alone, retried, held, running, finished, procs, pool, writes, scanned, raced, count>>
  BY DEF Pop
<1>2. PoolTyped' /\ e \in Items
  BY <1>1 DEF Placed, PoolTyped
<1>3. Bounded'
  BY <1>1 DEF Placed, Bounded, Reserves
<1>4. TokensFit' /\ Unscanned'
  BY <1>1 DEF Placed, TokensFit, Tokens, Unscanned
<1>5. opening = {}
  BY <1>1 DEF Placed, StepFits
<1>6. ASSUME ~raced' PROVE Once'
  <2>1. Once
    BY <1>1, <1>6 DEF Placed
  <2>2. KeysOf(opening') = {e.key} /\ e.key \notin KeysOf(pending') /\ KeysOf(pending') \subseteq KeysOf(pending)
    BY <1>1, <2>1 DEF Once, KeysOf
  <2>3. KeysOf(pending) \cap KeysOf(running) = {} /\ e.key \in KeysOf(pending)
    BY <1>1, <2>1 DEF Once, KeysOf
  <2>4. /\ KeysOf((opening \cup held \cup running)') = KeysOf(opening') \cup KeysOf(running)
        /\ KeysOf((held \cup running)') = KeysOf(running) /\ KeysOf(held') = {}
    BY <1>1 DEF KeysOf
  <2>5. /\ \A a, b \in pending' : a.key = b.key => a = b
        /\ \A a, b \in running' : a.key = b.key => a = b
    BY <1>1, <2>1 DEF Once
  <2> QED
    BY <2>2, <2>3, <2>4, <2>5 DEF Once
<1>7. StepFits'
  BY <1>1, <1>2 DEF StepFits
<1>8. Large'
  BY <1>1 DEF Placed, Large, Marked
<1>9. Work \subseteq Work'
  <2>1. (pending \cup opening \cup held \cup running) = (pending \cup opening \cup held \cup running)'
    BY <1>1, <1>5
  <2> QED
    BY <1>1, <2>1 DEF Work, Settled
<1>10. Grows(Fails \cup Gives)
  BY <1>1, NothingPut DEF Placed, PoolTyped
<1> QED
  BY <1>2, <1>3, <1>4, <1>6, <1>7, <1>8, <1>9, <1>10 DEF Worked, Placed

\* Steps that move workers and results only.
LEMMA WorkersMove ==
  ASSUME Placed, UNCHANGED <<pending, alone, retried, opening, held, running, pool, scanned, raced, writes, unfinished>>,
         PoolTyped', TokensFit', StepFits', Large', step' = step \/ step'.at = "idle"
  PROVE  Worked
<1>1. Bounded'
  BY DEF Placed, Bounded, Reserves
<1>2. ~raced' => Once'
  BY DEF Placed, Once
<1>3. Unscanned'
  BY DEF Placed, Unscanned
<1> QED
  BY <1>1, <1>2, <1>3, NothingMoves DEF Placed, Worked

LEMMA FinishWorks == ASSUME Placed, Finish, unfinished' = unfinished PROVE Worked
<1>1. PICK p \in procs, res \in Outcomes :
        /\ procs' = procs \ {p}
        /\ finished' = finished \cup {[token |-> p.token, result |-> res]}
        /\ UNCHANGED <<pending, alone, retried, opening, held, running, pool, step, writes, scanned, raced>>
  BY DEF Finish
<1> DEFINE f == [token |-> p.token, result |-> res]
<1>2. f \in Ends /\ f.token = p.token
  BY DEF Ends, Placed, PoolTyped, Procs
<1> HIDE DEF f
<1>3. finished' = finished \cup {f}
  BY <1>1 DEF f
<1>4. IsFiniteSet(procs') /\ IsFiniteSet(finished')
  BY <1>1, <1>3, FS_Subset, FS_AddElement DEF Placed, PoolTyped
<1>5. PoolTyped'
  BY <1>1, <1>2, <1>3, <1>4 DEF Placed, PoolTyped
<1>6. TokensFit'
  <2>1. \A r, q \in running' : r.token = q.token => r = q
    BY <1>1 DEF Placed, TokensFit
  <2>2. \A a, b \in procs' : a.token = b.token => a = b
    BY <1>1 DEF Placed, TokensFit
  <2>3. \A a \in procs', b \in finished' : a.token # b.token
    BY <1>1, <1>2, <1>3 DEF Placed, TokensFit
  <2>4. ASSUME step'.at = "submit", NEW r \in step'.job
        PROVE  r.token \notin {a.token : a \in procs'} \cup {b.token : b \in finished'}
    <3>1. r.token \notin {a.token : a \in procs} \cup {b.token : b \in finished}
      BY <1>1, <2>4 DEF Placed, TokensFit
    <3> QED
      BY <3>1, <1>1, <1>2, <1>3
  <2>5. ~raced' => {a.token : a \in procs'} \subseteq Tokens'
    BY <1>1 DEF Placed, TokensFit, Tokens
  <2> QED
    BY <2>1, <2>2, <2>3, <2>4, <2>5 DEF TokensFit
<1>7. StepFits' /\ Large'
  BY <1>1 DEF Placed, StepFits, Large, Marked
<1> QED
  BY <1>1, <1>5, <1>6, <1>7, WorkersMove

LEMMA GoWrongWorks == ASSUME Placed, GoWrong, unfinished' = unfinished PROVE Worked
<1>1. PICK p \in procs, is \in {"hung", "dead"} :
        /\ procs' = (procs \ {p}) \cup {[p EXCEPT !.is = is]}
        /\ UNCHANGED <<pending, alone, retried, opening, held, running, finished, pool, step, writes, scanned, raced>>
  BY DEF GoWrong
<1> DEFINE q == [p EXCEPT !.is = is]
<1>2. q \in Procs /\ q.token = p.token
  BY DEF Placed, PoolTyped, Procs
<1> HIDE DEF q
<1>3. procs' = (procs \ {p}) \cup {q}
  BY <1>1 DEF q
<1>4. IsFiniteSet(procs \ {p})
  BY FS_Subset DEF Placed, PoolTyped
<1>5. IsFiniteSet(procs')
  BY <1>3, <1>4, FS_AddElement
<1>6. PoolTyped'
  BY <1>1, <1>2, <1>3, <1>5 DEF Placed, PoolTyped
<1>7. {a.token : a \in procs'} = {a.token : a \in procs}
  BY <1>2, <1>3
<1>8. TokensFit'
  <2>1. \A a, b \in procs' : a.token = b.token => a = b
    BY <1>2, <1>3 DEF Placed, TokensFit
  <2>2. \A a \in procs', b \in finished' : a.token # b.token
    BY <1>1, <1>2, <1>3 DEF Placed, TokensFit
  <2> QED
    BY <2>1, <2>2, <1>1, <1>7 DEF Placed, TokensFit, Tokens
<1>9. StepFits' /\ Large'
  BY <1>1 DEF Placed, StepFits, Large, Marked
<1> QED
  BY <1>1, <1>6, <1>8, <1>9, WorkersMove

\* What was being read is read no longer: dropped, or a failure.
LEMMA ReadingEnds ==
  ASSUME Placed, step.at = "open", opening' = {}, step' = Idling, Grows(Fails),
         UNCHANGED <<pending, alone, retried, held, running, finished, procs, pool, scanned, raced, unfinished>>
  PROVE  Placed' /\ Work \subseteq Work' \cup KeysOf(opening)
<1>1. PoolTyped'
  BY DEF Placed, PoolTyped, Grows, Idling
<1>2. StepFits' /\ Large' /\ TokensFit'
  BY DEF Placed, StepFits, Large, Marked, TokensFit, Tokens, Idling
<1>3. ASSUME ~raced' PROVE Once'
  <2>1. KeysOf((opening \cup held \cup running)') \subseteq KeysOf(opening \cup held \cup running) /\ KeysOf(opening') = {}
    BY DEF KeysOf
  <2> QED
    BY <1>3, <2>1 DEF Placed, Once
<1>4. Bounded'
  BY DEF Placed, Bounded, Reserves
<1>5. Unscanned'
  <2>1. ASSUME ~scanned, NEW i \in DOMAIN writes' PROVE writes'[i].op # "result"
    <3>1. i \in 1..Len(writes')
      BY DEF Grows
    <3>2. CASE i \in 1..Len(writes)
      <4>1. writes'[i] = writes[i] /\ i \in DOMAIN writes
        BY <3>2 DEF Grows, Placed, PoolTyped
      <4> QED
        BY <2>1, <4>1 DEF Placed, Unscanned
    <3>3. CASE i \notin 1..Len(writes)
      <4>1. writes'[i] \in Fails
        BY <3>1, <3>3 DEF Grows, Placed, PoolTyped
      <4> QED
        BY <4>1 DEF Fails
    <3> QED
      BY <3>2, <3>3
  <2> QED
    BY <2>1 DEF Placed, Unscanned, Idling
<1>6. Work \subseteq Work' \cup KeysOf(opening)
  <2>1. Settled \subseteq Settled'
    BY SettledStays DEF Placed, PoolTyped
  <2> QED
    BY <2>1, WorkIs
<1> QED
  BY <1>1, <1>2, <1>3, <1>4, <1>5, <1>6 DEF Placed

LEMMA OpenWorks ==
  ASSUME Placed, Open, unfinished' = unfinished
  PROVE  \/ Worked
         \/ /\ Placed' /\ Grows(Fails \cup Gives) /\ Work \subseteq Work' \cup KeysOf(opening)
            /\ step.at = "open" /\ step'.at = "idle" /\ ~scanned
<1>1. PICK e \in opening :
        /\ step.at = "open"
        /\ \/ /\ scanned
              /\ step' = [at |-> "opened",
                          job |-> {[key |-> e.key, tier |-> e.tier,
                                    alone |-> e.key \in alone \/ Size[e.key] > Budget \div 2]}]
              /\ alone' = alone \ {e.key}
              /\ UNCHANGED <<opening, writes, count>>
           \/ /\ ~scanned
              /\ opening' = {} /\ step' = Idling /\ UNCHANGED <<alone, writes, count>>
           \/ /\ opening' = {} /\ step' = Idling /\ Tell({e.key}) /\ UNCHANGED alone
        /\ UNCHANGED <<pending, retried, held, running, finished, procs, pool, scanned, raced>>
  BY DEF Open
<1>2. PoolTyped /\ opening = {e} /\ e \in Items /\ held = {} /\ KeysOf(opening) = {e.key} /\ e.key \in Keys
  BY <1>1, KeysOfOne DEF Placed, StepFits, PoolTyped, Items
<1>3. CASE /\ scanned
           /\ step' = [at |-> "opened",
                       job |-> {[key |-> e.key, tier |-> e.tier,
                                 alone |-> e.key \in alone \/ Size[e.key] > Budget \div 2]}]
           /\ alone' = alone \ {e.key}
           /\ UNCHANGED <<opening, writes, count>>
  <2> DEFINE j == [key |-> e.key, tier |-> e.tier, alone |-> e.key \in alone \/ Size[e.key] > Budget \div 2]
  <2>1. j \in Waiting /\ j.key = e.key /\ (Size[j.key] > Budget \div 2 => j.alone)
    BY <1>2 DEF Waiting, Items
  <2> HIDE DEF j
  <2>2. step'.at = "opened" /\ step'.job = {j}
    BY <1>3 DEF j
  <2>3. PoolTyped'
    BY <1>1, <1>2, <1>3, <2>2 DEF PoolTyped
  <2>4. StepFits'
    BY <1>1, <1>2, <1>3, <2>1, <2>2 DEF StepFits
  <2>5. Large'
    BY <1>1, <2>1, <2>2 DEF Placed, Large, Marked
  <2>6. TokensFit' /\ Unscanned'
    BY <1>1, <1>3, <2>2 DEF Placed, TokensFit, Tokens, Unscanned
  <2>7. ~raced' => Once'
    BY <1>1, <1>3 DEF Placed, Once
  <2>8. Bounded'
    BY <1>1 DEF Placed, Bounded, Reserves
  <2> QED
    BY <1>1, <1>2, <1>3, <2>3, <2>4, <2>5, <2>6, <2>7, <2>8, NothingMoves DEF Worked, Placed
<1>4. CASE ~scanned /\ opening' = {} /\ step' = Idling /\ UNCHANGED <<alone, writes, count>>
  <2>1. Grows(Fails) /\ Grows(Fails \cup Gives)
    BY <1>2, <1>4, NothingPut DEF PoolTyped
  <2>2. Placed' /\ Work \subseteq Work' \cup KeysOf(opening)
    BY <1>1, <1>4, <2>1, ReadingEnds
  <2> QED
    BY <1>1, <1>4, <2>1, <2>2 DEF Idling
<1>5. CASE opening' = {} /\ step' = Idling /\ Tell({e.key}) /\ UNCHANGED alone
  <2>1. IsFiniteSet({e.key}) /\ {e.key} \subseteq Keys /\ e.key \in {e.key} /\ writes \in Seq(Operations)
    BY <1>2, FS_Singleton DEF PoolTyped
  <2>2. /\ Grows(Fails)
        /\ \A k \in {e.key} : \E i \in 1..Len(writes') : i > Len(writes) /\ writes'[i] \in Fails /\ writes'[i].key = k
    BY <1>5, <2>1, AllTold
  <2>3. e.key \in Settled'
    BY <2>2, SettledIn DEF Fails
  <2>4. Placed' /\ Work \subseteq Work' \cup KeysOf(opening)
    BY <1>1, <1>5, <2>2, ReadingEnds
  <2>5. KeysOf(opening) \subseteq Work'
    BY <1>2, <2>3 DEF Work
  <2>6. Grows(Fails \cup Gives)
    BY <2>2, MoreGrows
  <2> QED
    BY <2>4, <2>5, <2>6 DEF Worked
<1> QED
  BY <1>1, <1>3, <1>4, <1>5

\* The job in hand, with the tier it was raised to meanwhile.
LEMMA JobInHand ==
  ASSUME Placed, step.at = "opened", NEW j \in step.job,
         NEW raised, raised = {e.tier : e \in {e \in opening \cup held : e.key = j.key}},
         NEW job, job = [j EXCEPT !.tier = IF raised = {} THEN @ ELSE Lower(@, Min(raised))]
  PROVE  /\ job \in Waiting /\ job.key = j.key /\ job.alone = j.alone /\ step.job = {j} /\ scanned
         /\ Size[job.key] > Budget \div 2 => job.alone
         /\ KeysOf(opening) \cup KeysOf(held) \subseteq {job.key}
         /\ ~raced => job.key \in KeysOf(opening) \cup KeysOf(held)
<1>1. /\ j \in Waiting /\ step.job = {j}
      /\ \/ opening = {} /\ (held = {} => raced) /\ \A h \in held : h.key = j.key
         \/ held = {} /\ \E e \in opening : opening = {e} /\ e.key = j.key
      /\ held # {} => \E h \in held : held = {h}
  BY DEF Placed, StepFits
<1>2. /\ KeysOf(opening) \cup KeysOf(held) \subseteq {j.key}
      /\ ~raced => j.key \in KeysOf(opening) \cup KeysOf(held)
  BY <1>1 DEF KeysOf
<1>3. raised = {} \/ \E t \in Tiers : raised = {t}
  <2>1. \A e \in opening \cup held : e.tier \in Tiers
    BY DEF Placed, PoolTyped, Items, Waiting
  <2>2. opening \cup held = {} \/ \E e \in opening \cup held : opening \cup held = {e}
    BY <1>1
  <2> QED
    BY <2>1, <2>2
<1>4. raised # {} => Min(raised) \in Tiers
  <2>1. \A t \in Tiers : Min({t}) = t
    BY DEF Min, Tiers, INTERACTIVE, FRESH, BACKFILL, REFRESH
  <2> QED
    BY <2>1, <1>3
<1> DEFINE t == IF raised = {} THEN j.tier ELSE Lower(j.tier, Min(raised))
<1>5. t \in Tiers
  BY <1>1, <1>4, LowerIsOne DEF Waiting
<1> HIDE DEF t
<1>6. job = [j EXCEPT !.tier = t]
  BY DEF t
<1>7. job \in Waiting /\ job.key = j.key /\ job.alone = j.alone
  BY <1>1, <1>5, <1>6 DEF Waiting
<1>8. scanned /\ (Size[j.key] > Budget \div 2 => j.alone)
  BY <1>1 DEF Placed, Unscanned, Large, Marked
<1> QED
  BY <1>1, <1>2, <1>7, <1>8

\* The job waits: it is held, with what was being read or waited before it.
LEMMA JobWaits ==
  ASSUME Placed, step.at = "opened", NEW job \in Waiting, Size[job.key] > Budget \div 2 => job.alone, scanned,
         KeysOf(opening) \cup KeysOf(held) \subseteq {job.key}, ~raced => job.key \in KeysOf(opening) \cup KeysOf(held),
         opening' = {}, held' = {job}, step' = Idling,
         UNCHANGED <<pending, alone, retried, running, finished, procs, pool, writes, scanned, raced, unfinished>>
  PROVE  Worked
<1>1. PoolTyped'
  BY DEF Placed, PoolTyped, Idling
<1>2. StepFits' /\ Large' /\ TokensFit' /\ Unscanned'
  BY DEF Placed, StepFits, Large, Marked, TokensFit, Tokens, Idling, Unscanned
<1>3. Bounded'
  BY DEF Placed, Bounded, Reserves
<1>4. KeysOf(held') = {job.key} /\ KeysOf(opening') = {}
  BY KeysOfOne, KeysOfNone
<1>5. ASSUME ~raced' PROVE Once'
  <2>1. Once /\ KeysOf(opening) \cup KeysOf(held) = {job.key}
    BY <1>5 DEF Placed
  <2>2. job.key \notin KeysOf(pending) /\ job.key \notin KeysOf(running) /\ KeysOf(pending) \cap KeysOf(running) = {}
    BY <2>1, KeysOfBoth DEF Once
  <2>3. /\ KeysOf((opening \cup held \cup running)') = {job.key} \cup KeysOf(running)
        /\ KeysOf((held \cup running)') = {job.key} \cup KeysOf(running)
    BY <1>4, KeysOfBoth
  <2>4. /\ \A e, f \in pending' : e.key = f.key => e = f
        /\ \A r, q \in running' : r.key = q.key => r = q
        /\ KeysOf(pending') = KeysOf(pending) /\ KeysOf(running') = KeysOf(running)
    BY <2>1 DEF Once
  <2>5. KeysOf(pending') \cap KeysOf((opening \cup held \cup running)') = {}
    BY <2>2, <2>3, <2>4
  <2>6. KeysOf(opening') \cap KeysOf((held \cup running)') = {}
    BY <1>4
  <2>7. KeysOf(held') \cap KeysOf(running') = {}
    <3>1. job.key \notin KeysOf(running')
      BY <2>2, <2>4
    <3> QED
      BY <3>1, <1>4
  <2> QED
    BY <2>4, <2>5, <2>6, <2>7 DEF Once
<1>6. Settled' = Settled
  BY DEF Settled
<1>7. Work \subseteq Work'
  BY <1>4, <1>6, WorkIs
<1>8. Grows(Fails \cup Gives)
  BY NothingPut DEF Placed, PoolTyped
<1> QED
  BY <1>1, <1>2, <1>3, <1>5, <1>7, <1>8 DEF Worked, Placed

\* A more urgent key goes first: the job goes back to the queue.
LEMMA JobGoesBack ==
  ASSUME Placed, step.at = "opened", NEW job \in Waiting, scanned,
         KeysOf(opening) \cup KeysOf(held) \subseteq {job.key}, ~raced => job.key \in KeysOf(opening) \cup KeysOf(held),
         opening' = {}, held' = {}, step' = Idling,
         alone' = IF job.alone THEN alone \cup {job.key} ELSE alone,
         pending' = {e \in pending : e.key # job.key} \cup {[key |-> job.key, tier |-> job.tier]},
         UNCHANGED <<retried, running, finished, procs, pool, writes, scanned, raced, unfinished>>
  PROVE  Worked
<1> DEFINE i == [key |-> job.key, tier |-> job.tier]
<1>1. i \in Items /\ i.key = job.key /\ job.key \in Keys
  BY DEF Items, Waiting
<1> HIDE DEF i
<1>2. pending' = {e \in pending : e.key # job.key} \cup {i}
  BY DEF i
<1>3. PoolTyped'
  BY <1>1, <1>2 DEF Placed, PoolTyped, Idling
<1>4. StepFits' /\ Large' /\ TokensFit' /\ Unscanned'
  BY DEF Placed, StepFits, Large, Marked, TokensFit, Tokens, Idling, Unscanned
<1>5. Bounded'
  BY DEF Placed, Bounded, Reserves
<1>6. KeysOf(held') = {} /\ KeysOf(opening') = {} /\ KeysOf(pending') = KeysOf(pending) \cup {job.key}
  <2>1. ASSUME NEW e \in pending PROVE e.key \in KeysOf(pending')
    BY <1>1, <1>2, <2>1 DEF KeysOf
  <2>2. job.key \in KeysOf(pending')
    BY <1>1, <1>2 DEF KeysOf
  <2>3. KeysOf(pending') \subseteq KeysOf(pending) \cup {job.key}
    BY <1>1, <1>2 DEF KeysOf
  <2>4. KeysOf(pending) \subseteq KeysOf(pending')
    BY <2>1 DEF KeysOf
  <2> QED
    BY <2>2, <2>3, <2>4, KeysOfNone
<1>7. ASSUME ~raced' PROVE Once'
  <2>1. Once /\ KeysOf(opening) \cup KeysOf(held) = {job.key}
    BY <1>7 DEF Placed
  <2>2. job.key \notin KeysOf(running) /\ KeysOf(pending) \cap KeysOf(running) = {}
    BY <2>1, KeysOfBoth DEF Once
  <2>3. (opening \cup held \cup running)' = running /\ (held \cup running)' = running
    OBVIOUS
  <2>4. \A e, f \in pending' : e.key = f.key => e = f
    BY <2>1, <1>1, <1>2 DEF Once
  <2> QED
    BY <2>1, <2>2, <2>3, <2>4, <1>6 DEF Once
<1>8. Settled' = Settled
  BY DEF Settled
<1>9. Work \subseteq Work'
  BY <1>6, <1>8, WorkIs
<1>10. Grows(Fails \cup Gives)
  BY NothingPut DEF Placed, PoolTyped
<1> QED
  BY <1>3, <1>4, <1>5, <1>7, <1>9, <1>10 DEF Worked, Placed

\* There is room: the job runs, under a token of its own.
LEMMA JobRuns ==
  ASSUME Placed, step.at = "opened", NEW job \in Waiting, Size[job.key] > Budget \div 2 => job.alone, scanned,
         KeysOf(opening) \cup KeysOf(held) \subseteq {job.key}, ~raced => job.key \in KeysOf(opening) \cup KeysOf(held),
         Fits(job), opening' = {}, held' = {},
         NEW r, r = [token |-> NextToken, key |-> job.key, tier |-> job.tier, alone |-> job.alone],
         running' = running \cup {r}, step' = [at |-> "submit", job |-> {r}],
         UNCHANGED <<pending, alone, retried, finished, procs, pool, writes, scanned, raced, unfinished>>
  PROVE  Worked
<1>1. NextToken \in Nat /\ NextToken \notin Tokens \cup {p.token : p \in procs} \cup {f.token : f \in finished}
  BY TokenIsNew DEF Placed, PoolTyped
<1>2. r \in Jobs /\ r.token = NextToken /\ r.key = job.key /\ r.alone = job.alone
  BY <1>1 DEF Jobs, Waiting
<1>3. Bounded' /\ IsFiniteSet(running') /\ running' \subseteq Jobs
  BY <1>1, OneMoreFits DEF Placed
<1>4. PoolTyped'
  BY <1>3 DEF Placed, PoolTyped
<1>5. StepFits' /\ Unscanned'
  BY <1>2 DEF StepFits, Unscanned
<1>6. Large'
  <2>1. \A q \in running' : Size[q.key] > Budget \div 2 => q.alone
    BY <1>2 DEF Placed, Large, Marked
  <2> QED
    BY <2>1 DEF Large, Marked
<1>7. TokensFit'
  <2>1. \A q \in running : q.token # r.token
    BY <1>1, <1>2 DEF Tokens
  <2>2. \A p, q \in running' : p.token = q.token => p = q
    BY <2>1 DEF Placed, TokensFit
  <2>3. Tokens \subseteq Tokens'
    BY DEF Tokens
  <2>4. r.token \notin {p.token : p \in procs'} \cup {f.token : f \in finished'}
    BY <1>1, <1>2
  <2> QED
    BY <2>2, <2>3, <2>4 DEF Placed, TokensFit
<1>8. KeysOf(running') = KeysOf(running) \cup {job.key} /\ KeysOf(held') = {} /\ KeysOf(opening') = {}
  <2>1. KeysOf({r}) = {job.key}
    BY <1>2, KeysOfOne
  <2>2. KeysOf(running \cup {r}) = KeysOf(running) \cup KeysOf({r})
    BY KeysOfBoth
  <2> QED
    BY <2>1, <2>2, KeysOfNone
<1>9. ASSUME ~raced' PROVE Once'
  <2>1. Once /\ KeysOf(opening) \cup KeysOf(held) = {job.key}
    BY <1>9 DEF Placed
  <2>2. job.key \notin KeysOf(pending) /\ job.key \notin KeysOf(running) /\ KeysOf(pending) \cap KeysOf(running) = {}
    BY <2>1, KeysOfBoth DEF Once
  <2>3. (opening \cup held \cup running)' = running' /\ (held \cup running)' = running'
    OBVIOUS
  <2>4. \A p, q \in running' : p.key = q.key => p = q
    <3>1. \A q \in running : q.key # r.key
      BY <2>2, <1>2 DEF KeysOf
    <3> QED
      BY <2>1, <3>1 DEF Once
  <2> QED
    BY <2>1, <2>2, <2>3, <2>4, <1>8 DEF Once
<1>10. Settled' = Settled
  BY DEF Settled
<1>11. Work \subseteq Work'
  BY <1>8, <1>10, WorkIs
<1>12. Grows(Fails \cup Gives)
  BY NothingPut DEF Placed, PoolTyped
<1> QED
  BY <1>3, <1>4, <1>5, <1>6, <1>7, <1>9, <1>11, <1>12 DEF Worked, Placed

LEMMA PlaceWorks ==
  ASSUME Placed, Place, unfinished' = unfinished
  PROVE  Worked \/ (Placed' /\ Grows(Fails \cup Gives) /\ pool.stopped)
<1>1. PICK j \in step.job :
        /\ step.at = "opened"
        /\ LET raised == {e.tier : e \in {e \in opening \cup held : e.key = j.key}}
           IN Settle([j EXCEPT !.tier = IF raised = {} THEN @ ELSE Lower(@, Min(raised))])
        /\ opening' = {}
        /\ UNCHANGED <<retried, finished, procs, pool, writes, scanned, raced, count>>
  BY DEF Place
<1> DEFINE raised == {e.tier : e \in {e \in opening \cup held : e.key = j.key}}
           job == [j EXCEPT !.tier = IF raised = {} THEN @ ELSE Lower(@, Min(raised))]
<1>2. Settle(job)
  BY <1>1
<1>3. /\ job \in Waiting /\ scanned
      /\ Size[job.key] > Budget \div 2 => job.alone
      /\ KeysOf(opening) \cup KeysOf(held) \subseteq {job.key}
      /\ ~raced => job.key \in KeysOf(opening) \cup KeysOf(held)
  <2> HIDE DEF raised
  <2>1. raised = {e.tier : e \in {e \in opening \cup held : e.key = j.key}}
    BY DEF raised
  <2> QED
    BY <1>1, <2>1, JobInHand
<1> HIDE DEF job
<1>4. CASE pool.stopped /\ step' = Idling /\ UNCHANGED <<pending, alone, held, running>>
  <2>1. PoolTyped'
    BY <1>1, <1>4 DEF Placed, PoolTyped, Idling
  <2>2. StepFits' /\ Large' /\ TokensFit' /\ Unscanned'
    BY <1>1, <1>4 DEF Placed, StepFits, Large, Marked, TokensFit, Tokens, Idling, Unscanned
  <2>3. Bounded'
    BY <1>1, <1>4 DEF Placed, Bounded, Reserves
  <2>4. ASSUME ~raced' PROVE Once'
    <3>1. Once
      BY <1>1, <2>4 DEF Placed
    <3>2. KeysOf((opening \cup held \cup running)') \subseteq KeysOf(opening \cup held \cup running) /\ KeysOf(opening') = {}
      BY <1>1, <1>4 DEF KeysOf
    <3> QED
      BY <3>1, <3>2, <1>1, <1>4 DEF Once
  <2>5. Grows(Fails \cup Gives)
    BY <1>1, NothingPut DEF Placed, PoolTyped
  <2> QED
    BY <2>1, <2>2, <2>3, <2>4, <2>5, <1>4 DEF Placed
<1>5. CASE held' = {job} /\ step' = Idling /\ UNCHANGED <<pending, alone, running>>
  BY <1>1, <1>3, <1>5, JobWaits
<1>6. CASE /\ step' = Idling /\ UNCHANGED running /\ held' = {}
           /\ alone' = IF job.alone THEN alone \cup {job.key} ELSE alone
           /\ pending' = {e \in pending : e.key # job.key} \cup {[key |-> job.key, tier |-> job.tier]}
  BY <1>1, <1>3, <1>6, JobGoesBack
<1>7. CASE /\ Fits(job) /\ held' = {}
           /\ running' = running \cup {[token |-> NextToken, key |-> job.key, tier |-> job.tier, alone |-> job.alone]}
           /\ step' = [at |-> "submit", job |-> {[token |-> NextToken, key |-> job.key, tier |-> job.tier, alone |-> job.alone]}]
           /\ UNCHANGED <<pending, alone>>
  BY <1>1, <1>3, <1>7, JobRuns
<1> QED
  BY <1>2, <1>4, <1>5, <1>6, <1>7 DEF Settle

LEMMA HandOverWorks == ASSUME Placed, HandOver, unfinished' = unfinished PROVE Worked
<1>1. PICK r \in step.job :
        /\ step.at = "submit" /\ step' = Idling
        /\ \/ /\ procs' = procs \cup {[token |-> r.token, key |-> r.key, is |-> "live"]}
              /\ UNCHANGED <<pending, alone, retried, running, finished, writes, count>>
           \/ /\ \E res \in Outcomes \cup {"crash"} : finished' = finished \cup {[token |-> r.token, result |-> res]}
              /\ UNCHANGED <<pending, alone, retried, running, procs, writes>>
           \/ /\ running' = running \ {r} /\ pending' = Push(pending, r.key, r.tier)
              /\ UNCHANGED <<alone, retried, finished, procs, writes, count>>
           \/ /\ running' = running \ {r}
              /\ IF r \in running THEN RetryOrFail({r}, {}) ELSE UNCHANGED <<pending, alone, retried, writes>>
              /\ UNCHANGED <<finished, procs>>
        /\ UNCHANGED <<opening, held, pool, scanned, raced>>
  BY DEF HandOver
<1>2. /\ PoolTyped /\ opening = {} /\ held = {} /\ r \in Jobs /\ step.job = {r} /\ (~raced => r \in running) /\ scanned
      /\ step'.at = "idle" /\ step'.job = {}
  BY <1>1 DEF Placed, StepFits, Unscanned, Idling
<1>3. /\ \A p \in procs : p.token # r.token
      /\ \A f \in finished : f.token # r.token
      /\ ~raced => r.token \in Tokens
  <2>1. r.token \notin {p.token : p \in procs} \cup {f.token : f \in finished}
    BY <1>1 DEF Placed, TokensFit
  <2> QED
    BY <2>1, <1>2 DEF Tokens
<1>4. r.token \in Nat /\ r.key \in Keys /\ r.tier \in Tiers
  BY <1>2 DEF Jobs
<1>5. CASE /\ procs' = procs \cup {[token |-> r.token, key |-> r.key, is |-> "live"]}
           /\ UNCHANGED <<pending, alone, retried, running, finished, writes, count>>
  <2> DEFINE p == [token |-> r.token, key |-> r.key, is |-> "live"]
  <2>1. p \in Procs /\ p.token = r.token
    BY <1>4 DEF Procs
  <2> HIDE DEF p
  <2>2. procs' = procs \cup {p}
    BY <1>5 DEF p
  <2>3. IsFiniteSet(procs')
    BY <2>2, <1>2, FS_AddElement DEF PoolTyped
  <2>4. PoolTyped'
    BY <1>1, <1>2, <1>5, <2>1, <2>2, <2>3 DEF PoolTyped
  <2>5. TokensFit'
    <3>1. \A a, b \in procs' : a.token = b.token => a = b
      BY <1>3, <2>1, <2>2 DEF Placed, TokensFit
    <3>2. \A a \in procs', b \in finished' : a.token # b.token
      BY <1>3, <1>5, <2>1, <2>2 DEF Placed, TokensFit
    <3>3. ~raced' => {a.token : a \in procs'} \subseteq Tokens'
      BY <1>1, <1>3, <1>5, <2>1, <2>2 DEF Placed, TokensFit, Tokens
    <3> QED
      BY <3>1, <3>2, <3>3, <1>2, <1>5 DEF Placed, TokensFit
  <2>6. StepFits' /\ Large'
    BY <1>1, <1>2, <1>5 DEF Placed, StepFits, Large, Marked
  <2> QED
    BY <1>1, <1>2, <1>5, <2>4, <2>5, <2>6, WorkersMove
<1>6. CASE /\ \E res \in Outcomes \cup {"crash"} : finished' = finished \cup {[token |-> r.token, result |-> res]}
           /\ UNCHANGED <<pending, alone, retried, running, procs, writes>>
  <2>1. PICK res \in Outcomes \cup {"crash"} : finished' = finished \cup {[token |-> r.token, result |-> res]}
    BY <1>6
  <2> DEFINE f == [token |-> r.token, result |-> res]
  <2>2. f \in Ends /\ f.token = r.token
    BY <1>4 DEF Ends
  <2> HIDE DEF f
  <2>3. finished' = finished \cup {f}
    BY <2>1 DEF f
  <2>4. IsFiniteSet(finished')
    BY <2>3, <1>2, FS_AddElement DEF PoolTyped
  <2>5. PoolTyped'
    BY <1>1, <1>2, <1>6, <2>2, <2>3, <2>4 DEF PoolTyped
  <2>6. TokensFit'
    <3>1. \A a \in procs', b \in finished' : a.token # b.token
      BY <1>3, <1>6, <2>2, <2>3 DEF Placed, TokensFit
    <3> QED
      BY <3>1, <1>1, <1>2, <1>6 DEF Placed, TokensFit, Tokens
  <2>7. StepFits' /\ Large'
    BY <1>1, <1>2, <1>6 DEF Placed, StepFits, Large, Marked
  <2> QED
    BY <1>1, <1>2, <1>6, <2>5, <2>6, <2>7, WorkersMove
<1>7. \A p \in procs, q \in {r} : p.token # q.token
  BY <1>3
<1>8. CASE /\ running' = running \ {r} /\ pending' = Push(pending, r.key, r.tier)
           /\ UNCHANGED <<alone, retried, finished, procs, writes, count>>
  <2> DEFINE i == [key |-> r.key, tier |-> r.tier]
  <2>1. IF r.key \in KeysOf(pending) THEN pending' = pending ELSE pending' = pending \cup {i}
    BY <1>8 DEF Push
  <2>2. i.key = r.key
    OBVIOUS
  <2>3. r.key \in KeysOf(pending')
    <3>1. CASE r.key \in KeysOf(pending)
      BY <3>1, <2>1
    <3>2. CASE r.key \notin KeysOf(pending)
      <4>1. i \in pending'
        BY <3>2, <2>1
      <4> QED
        BY <4>1, <2>2, KeysIn
    <3> QED
      BY <3>1, <3>2
  <2>4. KeysOf({r}) = {r.key}
    BY KeysOfOne
  <2>5. pending \subseteq pending' /\ \A e \in pending' : e \in pending \/ Back(e, {r})
    BY <2>1 DEF Back
  <2>6. Grows(Fails \cup Gives)
    BY <1>2, <1>8, NothingPut DEF PoolTyped
  <2>7. Returns({r})
    BY <1>2, <1>8, <2>3, <2>4, <2>5, <2>6 DEF Returns, PoolTyped
  <2>8. {r} \in SUBSET Jobs /\ (~raced => {r} \subseteq running) /\ writes' = writes /\ running' = running \ {r}
        /\ procs' \subseteq procs /\ finished' \subseteq finished /\ \A p \in procs', q \in {r} : p.token # q.token
    BY <1>2, <1>7, <1>8
  <2>9. Placed' /\ Work \subseteq Work'
    BY <1>1, <1>2, <2>7, <2>8, RoundKeeps
  <2> QED
    BY <2>6, <2>9 DEF Worked
<1>9. CASE /\ running' = running \ {r}
           /\ IF r \in running THEN RetryOrFail({r}, {}) ELSE UNCHANGED <<pending, alone, retried, writes>>
           /\ UNCHANGED <<finished, procs>>
  <2>1. CASE r \in running
    <3>1. {r} \cup {} = {r} /\ {} \subseteq Jobs /\ {r} \subseteq Jobs /\ IsFiniteSet({r})
      BY <1>2, FS_Singleton
    <3>2. Returns({r} \cup {})
      BY <1>2, <1>9, <2>1, <3>1, RetryGives
    <3>3. Returns({r})
      BY <3>1, <3>2
    <3>4. {r} \in SUBSET Jobs /\ {r} \subseteq running /\ running' = running \ {r}
          /\ procs' \subseteq procs /\ finished' \subseteq finished /\ \A p \in procs', q \in {r} : p.token # q.token
      BY <1>2, <1>7, <1>9, <2>1
    <3>5. Placed' /\ Work \subseteq Work'
      BY <1>1, <1>2, <3>3, <3>4, RoundKeeps
    <3> QED
      BY <3>3, <3>5 DEF Worked, Returns
  <2>2. CASE r \notin running
    <3>1. running' = running /\ UNCHANGED <<pending, alone, retried, writes, procs, finished>>
      BY <1>9, <2>2
    <3>2. PoolTyped' /\ StepFits' /\ Large' /\ TokensFit'
      BY <1>1, <1>2, <3>1 DEF Placed, PoolTyped, StepFits, Large, Marked, TokensFit, Tokens
    <3> QED
      BY <1>1, <1>2, <3>1, <3>2, WorkersMove
  <2> QED
    BY <2>1, <2>2
<1> QED
  BY <1>1, <1>5, <1>6, <1>8, <1>9

\* Every step of the pool.
LEMMA PoolWorks ==
  ASSUME Placed, PoolNext, unfinished' = unfinished
  PROVE  /\ Placed' /\ Grows(Fails \cup Gives)
         /\ \/ Work \subseteq Work'
            \/ pool.stopped
            \/ step.at = "open" /\ step'.at = "idle" /\ ~scanned /\ Work \subseteq Work' \cup KeysOf(opening)
<1>1. CASE Collect
  BY <1>1, CollectWorks DEF Worked
<1>2. CASE Reap
  BY <1>2, ReapWorks DEF Worked
<1>3. CASE WatchHung
  BY <1>3, WatchdogWorks DEF WatchHung, Worked
<1>4. CASE WatchSlow
  BY <1>4, WatchdogWorks DEF WatchSlow, Worked
<1>5. CASE CheckGame
  BY <1>5, CheckGameWorks DEF Worked
<1>6. CASE TakeHeld
  BY <1>6, TakeHeldWorks DEF Worked
<1>7. CASE Pop
  BY <1>7, PopWorks DEF Worked
<1>8. CASE Open
  BY <1>8, OpenWorks DEF Worked
<1>9. CASE Place
  BY <1>9, PlaceWorks DEF Worked
<1>10. CASE HandOver
  BY <1>10, HandOverWorks DEF Worked
<1>11. CASE Finish
  BY <1>11, FinishWorks DEF Worked
<1>12. CASE GoWrong
  BY <1>12, GoWrongWorks DEF Worked
<1> QED
  BY <1>1, <1>2, <1>3, <1>4, <1>5, <1>6, <1>7, <1>8, <1>9, <1>10, <1>11, <1>12 DEF PoolNext

-----------------------------------------------------------------------------
\* The dispatcher keeps the work.

LEMMA PoolStops == ASSUME PoolTyped, PoolNext PROVE pool'.stopped = pool.stopped
<1>1. CASE CheckGame
  BY <1>1 DEF CheckGame, PoolTyped
<1>2. CASE Collect \/ Reap \/ WatchHung \/ WatchSlow
  BY <1>2 DEF Collect, Reap, WatchHung, WatchSlow, Watchdog
<1>3. CASE TakeHeld \/ Pop \/ Open \/ Place
  BY <1>3 DEF TakeHeld, Pop, Open, Place
<1>4. CASE HandOver \/ Finish \/ GoWrong
  BY <1>4 DEF HandOver, Finish, GoWrong
<1> QED
  BY <1>1, <1>2, <1>3, <1>4 DEF PoolNext

LEMMA DispatchKeeps == ASSUME Pooled, Dispatch PROVE Pooled' /\ Grows(Fails \cup Gives)
<1>1. /\ PoolNext /\ asked' = asked \ Dropped
      /\ UNCHANGED <<reader, requested, compare, calls, rebuild, close, writer, unfinished>>
  BY DEF Dispatch, Step, callVars
<1>2. /\ Placed' /\ Grows(Fails \cup Gives)
      /\ \/ Work \subseteq Work'
         \/ pool.stopped
         \/ step.at = "open" /\ step'.at = "idle" /\ ~scanned /\ Work \subseteq Work' \cup KeysOf(opening)
  BY <1>1, PoolWorks DEF Pooled
<1>3. pool'.stopped = pool.stopped /\ asked' \subseteq asked
  BY <1>1, PoolStops DEF Pooled, Placed
<1>4. CallsTyped' /\ StoppedLast'
  BY <1>1, <1>3 DEF Pooled, CallsTyped, StoppedLast, Closed
<1>5. Len(writes) <= Len(writes') /\ writes' \in Seq(Operations)
  BY <1>2 DEF Grows
<1>6. CASE Work \subseteq Work' \/ pool.stopped
  <2>1. pool.stopped => Closed' /\ asked = {}
    BY <1>1 DEF Pooled, StoppedLast, Closed
  <2>2. NothingForgotten' /\ QuietIsFinished'
    BY <1>1, <1>3, <1>5, <1>6, <2>1, WorkIsDone
  <2> QED
    BY <1>2, <1>4, <2>2 DEF Pooled
<1>7. CASE step.at = "open" /\ step'.at = "idle" /\ ~scanned /\ Work \subseteq Work' \cup KeysOf(opening)
  <2>1. asked' = asked \ KeysOf(opening)
    BY <1>1, <1>7 DEF Dropped
  <2>2. asked \subseteq Work
    BY DEF Pooled, NothingForgotten, Work, Settled
  <2>3. asked' \subseteq Work'
    BY <1>7, <2>1, <2>2
  <2>4. NothingForgotten'
    BY <2>3 DEF NothingForgotten, Work, Settled
  <2>5. QuietIsFinished'
    BY <1>1, <1>7 DEF Pooled, Placed, Unscanned, QuietIsFinished
  <2> QED
    BY <1>2, <1>4, <2>4, <2>5 DEF Pooled
<1> QED
  BY <1>2, <1>6, <1>7

-----------------------------------------------------------------------------
\* The callers keep it.

\* What callers tell the writer.
Later == [op : {"touch", "clear", "end"}, key : Keys \cup {"all"}] \cup Asks

LEMMA PutGrows == ASSUME writes \in Seq(Operations), NEW o \in Later, Put(o)
                  PROVE  Grows(Later) /\ Len(writes') = Len(writes) + 1
<1>1. Later \subseteq Operations
  BY DEF Later, Operations, Plain
<1> QED
  BY <1>1, OnePut DEF Put

LEMMA LaterIsNoResult == ASSUME PoolTyped, Grows(Later), \A i \in DOMAIN writes : writes[i].op # "result"
                         PROVE  \A i \in DOMAIN writes' : writes'[i].op # "result"
<1>1. ASSUME NEW i \in DOMAIN writes' PROVE writes'[i].op # "result"
  <2>1. i \in 1..Len(writes') /\ Len(writes) \in Nat
    BY DEF Grows, PoolTyped
  <2>2. CASE i <= Len(writes)
    <3>1. i \in 1..Len(writes)
      BY <2>1, <2>2
    <3>2. writes'[i] = writes[i] /\ i \in DOMAIN writes
      BY <3>1 DEF Grows, PoolTyped
    <3> QED
      BY <3>2
  <2>3. CASE i > Len(writes)
    <3>1. writes'[i] \in Later
      BY <2>1, <2>3 DEF Grows
    <3> QED
      BY <3>1 DEF Later, Asks
  <2> QED
    BY <2>1, <2>2, <2>3
<1> QED
  BY <1>1

\* The jobs stay where they are.
LEMMA JobsStay ==
  ASSUME Placed, UNCHANGED <<pending, alone, retried, opening, held, running, finished, step, raced, unfinished>>,
         pool' \in [paused : BOOLEAN, stopped : BOOLEAN, playing : BOOLEAN, closed : BOOLEAN, inline : BOOLEAN],
         pool'.inline = pool.inline, procs' \subseteq procs, scanned' \in BOOLEAN, scanned => scanned', Grows(Later)
  PROVE  Placed' /\ Work \subseteq Work'
<1>1. PoolTyped'
  <2>1. IsFiniteSet(procs')
    BY FS_Subset DEF Placed, PoolTyped
  <2> QED
    BY <2>1 DEF Placed, PoolTyped, Grows
<1>2. StepFits' /\ Large' /\ TokensFit'
  BY DEF Placed, StepFits, Large, Marked, TokensFit, Tokens
<1>3. Bounded' /\ (~raced' => Once')
  BY DEF Placed, Bounded, Reserves, Once
<1>4. Unscanned'
  BY LaterIsNoResult DEF Placed, Unscanned
<1>5. Settled \subseteq Settled'
  BY SettledStays DEF Placed, PoolTyped
<1>6. Work \subseteq Work'
  BY <1>5, WorkIs
<1> QED
  BY <1>1, <1>2, <1>3, <1>4, <1>6 DEF Placed

\* A caller's step that leaves the jobs, the closing and what is asked for.
LEMMA CallStays ==
  ASSUME Pooled, UNCHANGED <<pending, alone, retried, opening, held, running, finished, procs, step, raced,
                             unfinished, asked, writer, close>>,
         pool' \in [paused : BOOLEAN, stopped : BOOLEAN, playing : BOOLEAN, closed : BOOLEAN, inline : BOOLEAN],
         pool'.inline = pool.inline, pool'.stopped = pool.stopped, scanned' \in BOOLEAN, scanned => scanned', Grows(Later),
         calls' \subseteq Items, compare' \subseteq Vids \X Vids, rebuild' \in [at : {"no", "wait", "queue"}, todo : SUBSET Items]
  PROVE  Pooled'
<1>1. Placed' /\ Work \subseteq Work'
  BY JobsStay DEF Pooled
<1>2. CallsTyped' /\ StoppedLast'
  BY DEF Pooled, CallsTyped, StoppedLast, Closed
<1>3. NothingForgotten' /\ QuietIsFinished'
  BY <1>1, WorkIsDone DEF Grows
<1> QED
  BY <1>1, <1>2, <1>3 DEF Pooled

LEMMA RequestKeeps == ASSUME Pooled, Request PROVE Pooled' /\ Grows(Later)
<1>1. PICK v \in Vids, t \in Tiers \ {REFRESH} :
        /\ Put([op |-> "touch", key |-> v])
        /\ calls' = IF NeedsWork(v) THEN {[key |-> v, tier |-> t]} ELSE {}
        /\ UNCHANGED <<compare, rebuild, close, writer, unfinished, asked,
                       pending, alone, retried, opening, held, running, finished, procs, pool, step, scanned, raced>>
  BY DEF Request, RequestOne
<1>2. v \in Keys
  BY IndexBounds
<1>3. [op |-> "touch", key |-> v] \in Later
  BY <1>2 DEF Later
<1>4. Grows(Later)
  BY <1>1, <1>3, PutGrows DEF Pooled, Placed, PoolTyped
<1>5. calls' \subseteq Items
  BY <1>1, <1>2 DEF Items
<1>6. /\ compare' \subseteq Vids \X Vids /\ rebuild' \in [at : {"no", "wait", "queue"}, todo : SUBSET Items]
      /\ pool' \in [paused : BOOLEAN, stopped : BOOLEAN, playing : BOOLEAN, closed : BOOLEAN, inline : BOOLEAN]
      /\ scanned' \in BOOLEAN
  BY <1>1 DEF Pooled, Placed, PoolTyped, CallsTyped
<1> QED
  BY <1>1, <1>4, <1>5, <1>6, CallStays

LEMMA RequestDeepKeeps == ASSUME Pooled, RequestDeep PROVE Pooled' /\ Grows(Later)
<1>1. PICK v \in Vids :
        /\ LET unseen == known[v] = "none" /\ strikes[v] = 0 /\ v \notin KeysOf(pending \cup opening \cup held \cup running)
               detail == IF v \in deepDone THEN {} ELSE {[key |-> Deep[v], tier |-> INTERACTIVE]}
           IN IF unseen
              THEN /\ Put([op |-> "touch", key |-> v])
                   /\ calls' = detail \cup IF NeedsWork(v) THEN {[key |-> v, tier |-> INTERACTIVE]} ELSE {}
              ELSE calls' = detail /\ UNCHANGED <<requested, writes>>
        /\ UNCHANGED <<compare, rebuild, close, writer, unfinished, asked,
                       pending, alone, retried, opening, held, running, finished, procs, pool, step, scanned, raced>>
  BY DEF RequestDeep
<1>2. v \in Keys /\ Deep[v] \in Keys /\ INTERACTIVE \in Tiers
  BY IndexBounds DEF Tiers
<1>3. [op |-> "touch", key |-> v] \in Later
  BY <1>2 DEF Later
<1>4. Grows(Later)
  <2>1. writes' = writes \/ Put([op |-> "touch", key |-> v])
    BY <1>1
  <2> QED
    BY <2>1, <1>3, PutGrows, NothingPut DEF Pooled, Placed, PoolTyped
<1>5. calls' \subseteq Items
  <2>1. calls' \subseteq {[key |-> Deep[v], tier |-> INTERACTIVE], [key |-> v, tier |-> INTERACTIVE]}
    BY <1>1
  <2> QED
    BY <2>1, <1>2 DEF Items
<1>6. /\ compare' \subseteq Vids \X Vids /\ rebuild' \in [at : {"no", "wait", "queue"}, todo : SUBSET Items]
      /\ pool' \in [paused : BOOLEAN, stopped : BOOLEAN, playing : BOOLEAN, closed : BOOLEAN, inline : BOOLEAN]
      /\ scanned' \in BOOLEAN
  BY <1>1 DEF Pooled, Placed, PoolTyped, CallsTyped
<1> QED
  BY <1>1, <1>4, <1>5, <1>6, CallStays

LEMMA QueueRefreshKeeps == ASSUME Pooled, QueueRefresh PROVE Pooled' /\ Grows(Later)
<1>1. /\ scanned' = TRUE
      /\ calls' = [key : {v \in Vids : db[v] = "old"}, tier : {REFRESH}]
      /\ UNCHANGED <<compare, rebuild, close, writer, unfinished, asked,
                     pending, alone, retried, opening, held, running, finished, procs, pool, step, writes, raced>>
  BY DEF QueueRefresh
<1>2. calls' \subseteq Items
  BY <1>1, IndexBounds DEF Items, Tiers
<1>3. Grows(Later)
  BY <1>1, NothingPut DEF Pooled, Placed, PoolTyped
<1>4. /\ compare' \subseteq Vids \X Vids /\ rebuild' \in [at : {"no", "wait", "queue"}, todo : SUBSET Items]
      /\ pool' \in [paused : BOOLEAN, stopped : BOOLEAN, playing : BOOLEAN, closed : BOOLEAN, inline : BOOLEAN]
  BY <1>1 DEF Pooled, Placed, PoolTyped, CallsTyped
<1> QED
  BY <1>1, <1>2, <1>3, <1>4, CallStays

LEMMA ChangesKeeps == ASSUME Pooled, Changes PROVE Pooled' /\ Grows(Later)
<1>1. PICK c, p \in Vids :
        /\ LET missing == {v \in {c, p} : views[v] = "none"}
           IN IF missing = {}
              THEN /\ compare' = compare \cup {<<c, p>>}
                   /\ Put([op |-> "compare", key |-> <<c, p>>])
                   /\ UNCHANGED <<requested, calls>>
              ELSE /\ Put([op |-> "touch", key |-> c])
                   /\ calls' = [key : {v \in missing : NeedsWork(v)}, tier : {FRESH}]
                   /\ UNCHANGED compare
        /\ UNCHANGED <<rebuild, close, writer, unfinished, asked,
                       pending, alone, retried, opening, held, running, finished, procs, pool, step, scanned, raced>>
  BY DEF Changes
<1>2. c \in Keys /\ p \in Keys
  BY IndexBounds
<1>3. [op |-> "touch", key |-> c] \in Later /\ [op |-> "compare", key |-> <<c, p>>] \in Later
  BY <1>2 DEF Later, Asks
<1>4. Put([op |-> "compare", key |-> <<c, p>>]) \/ Put([op |-> "touch", key |-> c])
  BY <1>1
<1>5. Grows(Later)
  BY <1>3, <1>4, PutGrows DEF Pooled, Placed, PoolTyped
<1>6. calls' \subseteq Items
  <2>1. calls' = calls \/ calls' = [key : {v \in {v \in {c, p} : views[v] = "none"} : NeedsWork(v)}, tier : {FRESH}]
    BY <1>1
  <2>2. [key : {v \in {v \in {c, p} : views[v] = "none"} : NeedsWork(v)}, tier : {FRESH}] \subseteq Items
    BY <1>2 DEF Items, Tiers
  <2> QED
    BY <2>1, <2>2 DEF Pooled, CallsTyped
<1>7. /\ compare' \subseteq Vids \X Vids /\ rebuild' \in [at : {"no", "wait", "queue"}, todo : SUBSET Items]
      /\ pool' \in [paused : BOOLEAN, stopped : BOOLEAN, playing : BOOLEAN, closed : BOOLEAN, inline : BOOLEAN]
      /\ scanned' \in BOOLEAN
  BY <1>1 DEF Pooled, Placed, PoolTyped, CallsTyped
<1> QED
  BY <1>1, <1>5, <1>6, <1>7, CallStays

LEMMA PauseKeeps == ASSUME Pooled, PauseIndex \/ ResumeIndex PROVE Pooled' /\ Grows(Later)
<1>1. /\ Pause \/ Resume
      /\ UNCHANGED <<compare, calls, rebuild, close, writer, unfinished, asked, pending, alone, retried, opening, held,
                     running, finished, procs, step, writes, scanned, raced>>
  BY DEF PauseIndex, ResumeIndex, Control, svcVars
<1>2. Grows(Later)
  BY <1>1, NothingPut DEF Pooled, Placed, PoolTyped
<1>3. /\ pool' \in [paused : BOOLEAN, stopped : BOOLEAN, playing : BOOLEAN, closed : BOOLEAN, inline : BOOLEAN]
      /\ pool'.inline = pool.inline /\ pool'.stopped = pool.stopped
  BY <1>1 DEF Pause, Resume, Pooled, Placed, PoolTyped
<1>4. /\ calls' \subseteq Items /\ compare' \subseteq Vids \X Vids
      /\ rebuild' \in [at : {"no", "wait", "queue"}, todo : SUBSET Items] /\ scanned' \in BOOLEAN
  BY <1>1 DEF Pooled, Placed, PoolTyped, CallsTyped
<1> QED
  BY <1>1, <1>2, <1>3, <1>4, CallStays

LEMMA AfterClearKeeps == ASSUME Pooled, AfterClear \/ Read PROVE Pooled' /\ Grows(Later)
<1>1. /\ rebuild' = rebuild \/ rebuild' = [at |-> "queue",
              todo |-> {[key |-> v, tier |-> requested[v]] : v \in {v \in Vids : requested[v] \in Tiers}}]
      /\ UNCHANGED <<compare, calls, close, writer, unfinished, asked, pending, alone, retried, opening, held, running,
                     finished, procs, pool, step, writes, scanned, raced>>
  BY DEF AfterClear, Read
<1>2. Grows(Later)
  BY <1>1, NothingPut DEF Pooled, Placed, PoolTyped
<1>3. rebuild' \in [at : {"no", "wait", "queue"}, todo : SUBSET Items]
  BY <1>1, IndexBounds DEF Pooled, CallsTyped, Items
<1>4. /\ calls' \subseteq Items /\ compare' \subseteq Vids \X Vids /\ scanned' \in BOOLEAN
      /\ pool' \in [paused : BOOLEAN, stopped : BOOLEAN, playing : BOOLEAN, closed : BOOLEAN, inline : BOOLEAN]
  BY <1>1 DEF Pooled, Placed, PoolTyped, CallsTyped
<1> QED
  BY <1>1, <1>2, <1>3, <1>4, CallStays

\* A key queued is work, and no other is lost.
LEMMA SubmitKeeps ==
  ASSUME Pooled, NEW K, K \subseteq Keys, NEW t \in Tiers, Submit(K, t),
         asked' = IF pool.stopped THEN asked ELSE asked \cup K,
         UNCHANGED <<compare, close, writer, unfinished, alone, retried, running, finished, procs, pool, step, writes,
                     scanned, raced>>,
         calls' \subseteq Items, rebuild' \in [at : {"no", "wait", "queue"}, todo : SUBSET Items]
  PROVE  Pooled'
<1>1. /\ PoolTyped /\ StepFits /\ Large /\ TokensFit /\ (~raced => Once) /\ Bounded /\ Unscanned
  BY DEF Pooled, Placed
<1>2. /\ opening' \subseteq Items /\ held' \subseteq Waiting /\ StepFits' /\ Large'
      /\ KeysOf(opening') = KeysOf(opening) /\ KeysOf(held') = KeysOf(held)
  BY <1>1, SubmitFits
<1>3. /\ pending' \subseteq Items
      /\ KeysOf(pending) \subseteq KeysOf(pending')
      /\ KeysOf(pending') \subseteq KeysOf(pending) \cup (K \ KeysOf(running \cup opening \cup held))
      /\ K \subseteq KeysOf(pending') \cup KeysOf(running \cup opening \cup held)
      /\ (\A e, f \in pending : e.key = f.key => e = f) => \A e, f \in pending' : e.key = f.key => e = f
  BY <1>1, SubmitGives
<1>4. KeysOf(running \cup opening \cup held) = KeysOf(running) \cup KeysOf(opening) \cup KeysOf(held)
  BY KeysOfThree
<1>5. PoolTyped'
  BY <1>1, <1>2, <1>3 DEF PoolTyped
<1>6. TokensFit' /\ Bounded'
  BY <1>1 DEF TokensFit, Tokens, Bounded, Reserves
<1>7. Unscanned'
  <2>1. held = {} => held' = {}
    BY <1>2 DEF KeysOf
  <2> QED
    BY <1>1, <2>1 DEF Unscanned
<1>8. ASSUME ~raced' PROVE Once'
  <2>1. Once
    BY <1>1, <1>8
  <2>2. /\ KeysOf(opening \cup held \cup running) = KeysOf(opening) \cup KeysOf(held) \cup KeysOf(running)
        /\ KeysOf((opening \cup held \cup running)') = KeysOf(opening) \cup KeysOf(held) \cup KeysOf(running)
        /\ KeysOf(held \cup running) = KeysOf(held) \cup KeysOf(running)
        /\ KeysOf((held \cup running)') = KeysOf(held) \cup KeysOf(running)
    <3>1. KeysOf((held \cup running)') = KeysOf(held') \cup KeysOf(running')
      BY KeysOfBoth
    <3>2. KeysOf((opening \cup held \cup running)') = KeysOf(opening') \cup KeysOf(held') \cup KeysOf(running')
      BY KeysOfThree
    <3>3. KeysOf(running') = KeysOf(running)
      OBVIOUS
    <3>4. /\ KeysOf(opening \cup held \cup running) = KeysOf(opening) \cup KeysOf(held) \cup KeysOf(running)
          /\ KeysOf(held \cup running) = KeysOf(held) \cup KeysOf(running)
      BY KeysOfBoth, KeysOfThree
    <3> QED
      BY <3>1, <3>2, <3>3, <3>4, <1>2
  <2>3. KeysOf(pending) \cap (KeysOf(opening) \cup KeysOf(held) \cup KeysOf(running)) = {}
    BY <2>1, <2>2 DEF Once
  <2>4. KeysOf(pending') \cap KeysOf((opening \cup held \cup running)') = {}
    BY <2>2, <2>3, <1>3, <1>4
  <2>5. KeysOf(opening') \cap KeysOf((held \cup running)') = {}
    BY <2>1, <2>2, <1>2 DEF Once
  <2>6. KeysOf(held') \cap KeysOf(running') = {} /\ \A r, q \in running' : r.key = q.key => r = q
    BY <2>1, <1>2 DEF Once
  <2>7. \A e, f \in pending' : e.key = f.key => e = f
    BY <2>1, <1>3 DEF Once
  <2> QED
    BY <2>4, <2>5, <2>6, <2>7 DEF Once
<1>9. Settled' = Settled
  BY DEF Settled
<1>10. Work \subseteq Work' /\ K \subseteq Work'
  BY <1>2, <1>3, <1>4, <1>9, WorkIs
<1>11. CallsTyped' /\ StoppedLast'
  BY DEF Pooled, CallsTyped, StoppedLast, Closed
<1>12. asked \subseteq Work
  BY DEF Pooled, NothingForgotten, Work, Settled
<1>13. asked' \subseteq Work'
  BY <1>10, <1>12
<1>14. NothingForgotten'
  BY <1>13 DEF NothingForgotten, Work, Settled
<1>15. QuietIsFinished'
  <2>1. IsIdle' => IsIdle
    <3>1. ASSUME IsIdle' PROVE IsIdle
      <4>1. pending' = {} /\ opening' = {} /\ held' = {} /\ running' = {}
        BY <3>1 DEF IsIdle
      <4>2. KeysOf(pending') = {} /\ KeysOf(opening') = {} /\ KeysOf(held') = {} /\ KeysOf(running') = {}
        BY <4>1, KeysOfNone
      <4>3. KeysOf(pending) = {} /\ KeysOf(opening) = {} /\ KeysOf(held) = {} /\ KeysOf(running) = {}
        BY <4>2, <1>2, <1>3
      <4>4. pending = {} /\ opening = {} /\ held = {} /\ running = {}
        BY <4>3, NoKeyNoEntry
      <4> QED
        BY <4>4 DEF IsIdle
    <3> QED
      BY <3>1
  <2> QED
    BY <2>1 DEF Pooled, QuietIsFinished, Active, Closed
<1> QED
  BY <1>2, <1>5, <1>6, <1>7, <1>8, <1>11, <1>14, <1>15 DEF Pooled, Placed

LEMMA QueueKeeps == ASSUME Pooled, Queue PROVE Pooled' /\ Grows(Later)
<1>1. PICK c \in calls :
        /\ calls' = calls \ {c}
        /\ Submit({c.key}, c.tier)
        /\ asked' = IF pool.stopped THEN asked ELSE asked \cup {c.key}
        /\ UNCHANGED <<compare, rebuild, close, writer, unfinished,
                       alone, retried, running, finished, procs, pool, step, writes, scanned, raced>>
  BY DEF Queue
<1>2. {c.key} \subseteq Keys /\ c.tier \in Tiers /\ calls' \subseteq Items
      /\ rebuild' \in [at : {"no", "wait", "queue"}, todo : SUBSET Items]
  BY <1>1 DEF Pooled, CallsTyped, Items
<1>3. Pooled'
  BY <1>1, <1>2, SubmitKeeps
<1>4. Grows(Later)
  BY <1>1, NothingPut DEF Pooled, Placed, PoolTyped
<1> QED
  BY <1>3, <1>4

LEMMA QueueAgainKeeps == ASSUME Pooled, QueueAgain PROVE Pooled' /\ Grows(Later)
<1>1. /\ UNCHANGED <<compare, calls, close, writer, unfinished,
                     alone, retried, running, finished, procs, pool, step, writes, scanned, raced>>
      /\ rebuild \in [at : {"no", "wait", "queue"}, todo : SUBSET Items] /\ calls \subseteq Items
  BY DEF QueueAgain, Pooled, CallsTyped
<1>2. Grows(Later)
  BY <1>1, NothingPut DEF Pooled, Placed, PoolTyped
<1>3. CASE rebuild.todo = {}
  <2>1. rebuild' = [rebuild EXCEPT !.at = "no"] /\ UNCHANGED <<pending, opening, held, asked>>
    BY <1>3 DEF QueueAgain
  <2>2. rebuild' \in [at : {"no", "wait", "queue"}, todo : SUBSET Items]
    BY <1>1, <2>1
  <2>3. /\ compare' \subseteq Vids \X Vids /\ scanned' \in BOOLEAN
        /\ pool' \in [paused : BOOLEAN, stopped : BOOLEAN, playing : BOOLEAN, closed : BOOLEAN, inline : BOOLEAN]
    BY <1>1 DEF Pooled, Placed, PoolTyped, CallsTyped
  <2> QED
    BY <1>1, <1>2, <2>1, <2>2, <2>3, CallStays
<1>4. CASE rebuild.todo # {}
  <2> DEFINE T == {c.tier : c \in rebuild.todo}
             t == Min(T)
             K == {c.key : c \in {c \in rebuild.todo : c.tier = t}}
  <2>1. /\ Submit(K, t) /\ rebuild' = [rebuild EXCEPT !.todo = {c \in @ : c.tier # t}]
        /\ asked' = IF pool.stopped THEN asked ELSE asked \cup K
    BY <1>4 DEF QueueAgain
  <2>2. rebuild.todo \subseteq Items
    BY <1>1
  <2>3. T # {} /\ T \subseteq {0, 3, 4, 5}
    BY <1>4, <2>2 DEF Items, Tiers, INTERACTIVE, FRESH, BACKFILL, REFRESH
  <2> HIDE DEF T
  <2>4. \E x \in T : \A y \in T : x <= y
    <3>1. CASE 0 \in T
      BY <3>1, <2>3
    <3>2. CASE 0 \notin T /\ 3 \in T
      BY <3>2, <2>3
    <3>3. CASE 0 \notin T /\ 3 \notin T /\ 4 \in T
      BY <3>3, <2>3
    <3>4. CASE 0 \notin T /\ 3 \notin T /\ 4 \notin T
      <4>1. T = {5}
        BY <3>4, <2>3
      <4> QED
        BY <4>1
    <3> QED
      BY <3>1, <3>2, <3>3, <3>4
  <2>5. t \in T
    BY <2>4 DEF Min
  <2>6. t \in Tiers
    BY <2>3, <2>5 DEF Tiers, INTERACTIVE, FRESH, BACKFILL, REFRESH
  <2>7. K \subseteq Keys
    BY <2>2 DEF Items
  <2>8. rebuild' \in [at : {"no", "wait", "queue"}, todo : SUBSET Items] /\ calls' \subseteq Items
    BY <1>1, <2>1
  <2> HIDE DEF t, K
  <2>9. Pooled'
    BY <1>1, <2>1, <2>6, <2>7, <2>8, SubmitKeeps
  <2> QED
    BY <1>2, <2>9
<1> QED
  BY <1>3, <1>4

\* A cancel puts the jobs back; what the dispatcher has in hand is then a key twice, and noticed.
LEMMA CancelPlaces ==
  ASSUME Placed, Cancel, UNCHANGED <<alone, retried, opening, step, writes, scanned, unfinished>>
  PROVE  Placed' /\ Work \subseteq Work'
<1>1. /\ pool' = [pool EXCEPT !.paused = TRUE]
      /\ held' = {} /\ running' = {} /\ finished' = {} /\ procs' = {}
      /\ raced' = (raced \/ step.at = "submit" \/ (step.at = "opened" /\ held # {}))
      /\ pending' = pending \cup {[key |-> r.key, tier |-> r.tier] :
                                  r \in {r \in running \cup held : r.key \notin KeysOf(pending)}}
  BY DEF Cancel, Pause
<1>2. PoolTyped /\ running \subseteq Jobs /\ held \subseteq Waiting
  BY DEF Placed, PoolTyped
<1> DEFINE S == running \cup held
<1>3. Returns(S)
  <2>1. pending \subseteq pending' /\ \A e \in pending' : e \in pending \/ Back(e, S)
    BY <1>1 DEF Back
  <2>2. ASSUME NEW r \in S PROVE r.key \in KeysOf(pending')
    <3>1. CASE r.key \in KeysOf(pending)
      BY <2>1, <3>1 DEF KeysOf
    <3>2. CASE r.key \notin KeysOf(pending)
      <4> DEFINE e == [key |-> r.key, tier |-> r.tier]
      <4>1. e \in pending' /\ e.key = r.key
        BY <1>1, <3>2
      <4> QED
        BY <4>1, KeysIn
    <3> QED
      BY <3>1, <3>2
  <2>3. KeysOf(S) \subseteq KeysOf(pending')
    BY <2>2 DEF KeysOf
  <2>4. Grows(Fails \cup Gives)
    BY <1>2, NothingPut DEF PoolTyped
  <2> QED
    BY <1>2, <2>1, <2>3, <2>4 DEF Returns, PoolTyped
<1>4. PoolTyped'
  <2>1. pending' \subseteq Items
    BY <1>2, <1>3, ItemsReturn
  <2>2. pool' \in [paused : BOOLEAN, stopped : BOOLEAN, playing : BOOLEAN, closed : BOOLEAN, inline : BOOLEAN]
    BY <1>1, <1>2 DEF PoolTyped
  <2>3. raced' \in BOOLEAN
    BY <1>1, <1>2 DEF PoolTyped
  <2>4. IsFiniteSet({})
    BY FS_EmptySet
  <2> QED
    BY <1>1, <1>2, <2>1, <2>2, <2>3, <2>4 DEF PoolTyped
<1>5. StepFits'
  BY <1>1 DEF Placed, StepFits
<1>6. Large' /\ TokensFit' /\ Unscanned'
  BY <1>1 DEF Placed, Large, Marked, TokensFit, Unscanned
<1>7. Bounded'
  <2>1. pool'.inline = pool.inline /\ running' \subseteq running
    BY <1>1, <1>2 DEF PoolTyped
  <2> QED
    BY <1>2, <2>1, FewerFit DEF Placed, PoolTyped
<1>8. ASSUME ~raced' PROVE Once'
  <2>1. Once /\ ~(step.at = "opened" /\ held # {})
    BY <1>1, <1>8 DEF Placed
  <2>2. \A r, q \in S : r.key = q.key => r.tier = q.tier
    <3>1. \A r, q \in running : r.key = q.key => r = q
      BY <2>1 DEF Once
    <3>2. \A r, q \in held : r = q
      BY DEF Placed, StepFits
    <3>3. \A r \in running, q \in held : r.key # q.key
      BY <2>1 DEF Once, KeysOf
    <3> QED
      BY <3>1, <3>2, <3>3
  <2>3. /\ \A e, f \in pending' : e.key = f.key => e = f
        /\ KeysOf(pending') \subseteq KeysOf(pending) \cup KeysOf(S)
    <3>1. \A e, f \in pending : e.key = f.key => e = f
      BY <2>1 DEF Once
    <3> QED
      BY <3>1, <2>2, <1>3, ReturnsOnce
  <2>4. (opening \cup held \cup running)' = opening /\ (held \cup running)' = {}
    BY <1>1
  <2>5. KeysOf(pending) \cap KeysOf(opening) = {} /\ KeysOf(S) \cap KeysOf(opening) = {}
    BY <2>1 DEF Once, KeysOf
  <2> QED
    BY <2>3, <2>4, <2>5, <1>1, KeysOfNone DEF Once
<1>9. Work \subseteq Work'
  <2>1. KeysOf(S) = KeysOf(running) \cup KeysOf(held)
    BY KeysOfBoth
  <2> QED
    BY <2>1, <1>2, <1>3, WorkStays DEF PoolTyped
<1> QED
  BY <1>4, <1>5, <1>6, <1>7, <1>8, <1>9 DEF Placed

LEMMA CancelKeeps == ASSUME Pooled, CancelIndex PROVE Pooled' /\ Grows(Later)
<1>1. Cancel /\ UNCHANGED <<svcVars, alone, retried, opening, step, writes, scanned>>
  BY DEF CancelIndex, Control
<1>2. UNCHANGED <<compare, calls, rebuild, close, writer, unfinished, asked>>
  BY <1>1 DEF svcVars
<1>3. Placed' /\ Work \subseteq Work'
  BY <1>1, <1>2, CancelPlaces DEF Pooled
<1>4. pool'.stopped = pool.stopped
  BY <1>1 DEF Cancel, Pause, Pooled, Placed, PoolTyped
<1>5. CallsTyped' /\ StoppedLast'
  BY <1>2, <1>4 DEF Pooled, CallsTyped, StoppedLast, Closed
<1>6. Grows(Later)
  BY <1>1, NothingPut DEF Pooled, Placed, PoolTyped
<1>7. NothingForgotten' /\ QuietIsFinished'
  BY <1>2, <1>3, <1>6, WorkIsDone DEF Grows
<1> QED
  BY <1>3, <1>5, <1>6, <1>7 DEF Pooled

LEMMA StartRebuildKeeps == ASSUME Pooled, StartRebuild PROVE Pooled' /\ Grows(Later)
<1>1. /\ pending' = {} /\ held' = {} /\ Put([op |-> "clear", key |-> "all"])
      /\ raced' = (raced \/ (step.at = "opened" /\ held # {}))
      /\ rebuild' = [rebuild EXCEPT !.at = "wait"]
      /\ asked' = asked \ KeysOf(pending \cup held)
      /\ UNCHANGED <<compare, calls, close, writer, unfinished,
                     alone, retried, opening, running, finished, procs, pool, step, scanned>>
  BY DEF StartRebuild, Clear
<1>2. [op |-> "clear", key |-> "all"] \in Later /\ PoolTyped
  BY DEF Later, Pooled, Placed
<1>3. Grows(Later) /\ Len(writes') = Len(writes) + 1
  BY <1>1, <1>2, PutGrows DEF PoolTyped
<1>4. PoolTyped'
  BY <1>1, <1>2, <1>3 DEF PoolTyped, Grows
<1>5. StepFits'
  BY <1>1 DEF Pooled, Placed, StepFits
<1>6. Large' /\ TokensFit'
  BY <1>1 DEF Pooled, Placed, Large, Marked, TokensFit, Tokens
<1>7. Bounded'
  BY <1>1 DEF Pooled, Placed, Bounded, Reserves
<1>8. Unscanned'
  BY <1>1, <1>2, <1>3, LaterIsNoResult DEF Pooled, Placed, Unscanned
<1>9. ASSUME ~raced' PROVE Once'
  <2>1. Once
    BY <1>1, <1>9 DEF Pooled, Placed
  <2>2. (held \cup running)' = running /\ KeysOf(running) \subseteq KeysOf(held \cup running)
    BY <1>1 DEF KeysOf
  <2>3. KeysOf(pending') = {} /\ KeysOf(held') = {} /\ KeysOf(opening) \cap KeysOf(running) = {}
    BY <1>1, <2>1, <2>2, KeysOfNone DEF Once
  <2> QED
    BY <1>1, <2>1, <2>2, <2>3 DEF Once
<1>10. CallsTyped'
  BY <1>1 DEF Pooled, CallsTyped
<1>11. StoppedLast'
  BY <1>1 DEF Pooled, StoppedLast, Closed
<1>12. asked' \subseteq Work'
  <2>1. Settled \subseteq Settled'
    BY <1>2, <1>3, SettledStays DEF PoolTyped
  <2>2. asked \subseteq Work
    BY DEF Pooled, NothingForgotten, Work, Settled
  <2>3. KeysOf(pending \cup held) = KeysOf(pending) \cup KeysOf(held)
    BY KeysOfBoth
  <2> QED
    BY <1>1, <2>1, <2>2, <2>3, WorkIs
<1>13. NothingForgotten'
  BY <1>12 DEF NothingForgotten, Work, Settled
<1>14. QuietIsFinished'
  BY <1>2, <1>3 DEF QuietIsFinished, PoolTyped
<1> QED
  BY <1>3, <1>4, <1>5, <1>6, <1>7, <1>8, <1>9, <1>10, <1>11, <1>13, <1>14 DEF Pooled, Placed

LEMMA ClosingKeeps == ASSUME Pooled, StartClose \/ EndDispatcher \/ JoinWriter PROVE Pooled' /\ Grows(Later)
<1>1. /\ UNCHANGED <<compare, calls, rebuild, writer, unfinished, pending, alone, retried, opening, held, running, finished,
                     step, scanned, raced>>
      /\ procs' \subseteq procs
  BY DEF StartClose, EndDispatcher, JoinWriter, CloseExecutor
<1>2. [op |-> "end", key |-> "all"] \in Later /\ PoolTyped
  BY DEF Later, Pooled, Placed
<1>3. Grows(Later)
  <2>1. Put([op |-> "end", key |-> "all"]) \/ writes' = writes
    BY DEF StartClose, EndDispatcher, JoinWriter
  <2> QED
    BY <1>2, <2>1, PutGrows, NothingPut DEF PoolTyped
<1>4. pool' \in [paused : BOOLEAN, stopped : BOOLEAN, playing : BOOLEAN, closed : BOOLEAN, inline : BOOLEAN]
      /\ pool'.inline = pool.inline /\ scanned' \in BOOLEAN
  BY <1>1, <1>2 DEF StartClose, EndDispatcher, JoinWriter, Stop, CloseExecutor, PoolTyped
<1>5. Placed' /\ Work \subseteq Work'
  BY <1>1, <1>3, <1>4, JobsStay DEF Pooled
<1>6. /\ close' \in [at : {"open", "stopping", "joining", "done"}, abandon : BOOLEAN, closed : BOOLEAN]
      /\ close'.at # "open" /\ pool'.stopped /\ asked' = {}
  <2>1. CASE StartClose
    BY <2>1, <1>2 DEF StartClose, Stop, Pooled, CallsTyped, PoolTyped
  <2>2. CASE EndDispatcher
    BY <2>2, <1>2 DEF EndDispatcher, CloseExecutor, Pooled, CallsTyped, PoolTyped, StoppedLast, Closed
  <2>3. CASE JoinWriter
    BY <2>3, <1>2 DEF JoinWriter, EndWriter, Pooled, CallsTyped, PoolTyped, StoppedLast, Closed
  <2> QED
    BY <2>1, <2>2, <2>3
<1>7. CallsTyped' /\ StoppedLast'
  BY <1>1, <1>6 DEF Pooled, CallsTyped, StoppedLast, Closed
<1>8. NothingForgotten' /\ QuietIsFinished'
  BY <1>6 DEF NothingForgotten, QuietIsFinished, Active, Closed
<1> QED
  BY <1>3, <1>5, <1>7, <1>8 DEF Pooled

LEMMA CallKeeps == ASSUME Pooled, CallNext PROVE Pooled' /\ Grows(Later)
  BY RequestKeeps, RequestDeepKeeps, QueueRefreshKeeps, QueueKeeps, ChangesKeeps, PauseKeeps, CancelKeeps, StartRebuildKeeps,
     AfterClearKeeps, QueueAgainKeeps, ClosingKeeps DEF CallNext

-----------------------------------------------------------------------------
\* The writer keeps it: an operation leaves the queue with what it settles.

LEMMA TailIs == ASSUME NEW S, NEW q \in Seq(S), q # <<>>
                PROVE  /\ Tail(q) \in Seq(S) /\ Len(Tail(q)) = Len(q) - 1 /\ Len(q) \in Nat \ {0}
                       /\ Head(q) \in S /\ Head(q) = q[1]
                       /\ \A i \in 1..Len(Tail(q)) : Tail(q)[i] = q[i + 1] /\ i + 1 \in 1..Len(q)
<1>1. Len(q) \in Nat /\ Len(q) # 0
  OBVIOUS
<1> QED
  BY <1>1

\* What an operation of the writer may change.
LEMMA ApplyLeaves ==
  ASSUME NEW o, Apply(o) \/ Trouble(o), PoolTyped
  PROVE  /\ compare' \subseteq compare /\ rebuild' = rebuild /\ reader' \in {reader, {[r EXCEPT !.same = FALSE] : r \in reader}}
         /\ writer'.at \in {"forget", "wipe", "check"}
<1>1. CASE StoreResult(o) \/ Failed(o) \/ DeepReady(o)
  BY <1>1 DEF StoreResult, Failed, DeepReady, Goto
<1>2. CASE Compare(o)
  BY <1>2 DEF Compare, Goto
<1>3. CASE CollectGarbage(o)
  BY <1>3 DEF CollectGarbage, Goto, Bump
<1>4. CASE Warm(o) \/ ClearCache(o) \/ Trouble(o)
  BY <1>4 DEF Warm, ClearCache, Trouble, Goto
<1>5. CASE o.op = "touch" /\ Goto("check", {}) /\ UNCHANGED <<cacheVars, reader, compare, rebuild>>
  BY <1>5 DEF Goto
<1> QED
  BY <1>1, <1>2, <1>3, <1>4, <1>5 DEF Apply

\* The jobs, when only the writer's queue is shorter.
LEMMA JobsWait ==
  ASSUME Placed, UNCHANGED <<pending, alone, retried, opening, held, running, finished, procs, step, scanned, raced>>,
         pool' = pool \/ Pause, writes' \in Seq(Operations), ~scanned => ~unfinished' /\ \A i \in DOMAIN writes' : writes'[i].op # "result"
  PROVE  Placed' /\ pool'.stopped = pool.stopped
<1>1. /\ pool' \in [paused : BOOLEAN, stopped : BOOLEAN, playing : BOOLEAN, closed : BOOLEAN, inline : BOOLEAN]
      /\ pool'.inline = pool.inline /\ pool'.stopped = pool.stopped
  BY DEF Pause, Placed, PoolTyped
<1>2. PoolTyped'
  BY <1>1 DEF Placed, PoolTyped
<1>3. StepFits' /\ Large' /\ TokensFit'
  BY DEF Placed, StepFits, Large, Marked, TokensFit, Tokens
<1>4. Bounded' /\ (~raced' => Once') /\ Unscanned'
  BY <1>1 DEF Placed, Bounded, Reserves, Once, Unscanned
<1> QED
  BY <1>1, <1>2, <1>3, <1>4 DEF Placed

LEMMA TakeOpKeeps == ASSUME Pooled, TakeOp PROVE Pooled' /\ writes # <<>> /\ writes' = Tail(writes)
<1> DEFINE o == Head(writes)
<1>1. /\ writer.at = "idle" /\ writes # <<>> /\ writes' = Tail(writes)
      /\ UNCHANGED <<requested, calls, close, pending, alone, retried, opening, held, running, finished,
                     procs, step, scanned, raced>>
      /\ \/ /\ close.abandon \/ o.op = "end"
            /\ Goto("leave", {}) /\ UNCHANGED <<cacheVars, reader, compare, rebuild, unfinished, asked, pool, count>>
         \/ /\ (Apply(o) /\ UNCHANGED <<pool, count>>) \/ Trouble(o)
            /\ unfinished' = (unfinished \/ o.op = "result")
            /\ asked' = IF \E i \in 1..Len(writes') : Settles(writes'[i]) # {} /\ Settles(writes'[i]) = Settles(o)
                        THEN asked ELSE asked \ Settles(o)
  BY DEF TakeOp
<1>2. PoolTyped /\ writes \in Seq(Operations)
  BY DEF Pooled, Placed, PoolTyped
<1>3. /\ writes' \in Seq(Operations) /\ Len(writes') = Len(writes) - 1 /\ Len(writes) \in Nat \ {0}
      /\ o \in Operations /\ o = writes[1]
      /\ \A i \in 1..Len(writes') : writes'[i] = writes[i + 1] /\ i + 1 \in 1..Len(writes)
  BY <1>1, <1>2, TailIs
<1>4. pool' = pool \/ Pause
  BY <1>1 DEF Trouble
<1>5. compare' \subseteq compare /\ rebuild' = rebuild /\ writer'.at # "idle"
  <2>1. CASE Goto("leave", {}) /\ UNCHANGED <<compare, rebuild>>
    BY <2>1 DEF Goto
  <2>2. CASE Apply(o) \/ Trouble(o)
    BY <2>2, <1>2, ApplyLeaves
  <2> QED
    BY <1>1, <2>1, <2>2
<1>6. ASSUME ~scanned PROVE ~unfinished' /\ \A i \in DOMAIN writes' : writes'[i].op # "result"
  <2>1. ~unfinished /\ \A i \in DOMAIN writes : writes[i].op # "result"
    BY <1>6 DEF Pooled, Placed, Unscanned
  <2>2. DOMAIN writes = 1..Len(writes) /\ DOMAIN writes' = 1..Len(writes')
    BY <1>2, <1>3
  <2>3. o.op # "result"
    BY <2>1, <2>2, <1>3
  <2>4. \A i \in DOMAIN writes' : writes'[i].op # "result"
    BY <2>1, <2>2, <1>3
  <2>5. unfinished' = unfinished \/ unfinished' = (unfinished \/ o.op = "result")
    BY <1>1
  <2>6. ~unfinished'
    BY <2>1, <2>3, <2>5
  <2> QED
    BY <2>4, <2>6
<1>7. Placed' /\ pool'.stopped = pool.stopped
  <2>1. Placed
    BY DEF Pooled
  <2> QED
    BY <2>1, <1>1, <1>3, <1>4, <1>6, JobsWait
<1>8. asked' \subseteq asked
  BY <1>1
<1>9. CallsTyped' /\ StoppedLast'
  BY <1>1, <1>5, <1>7, <1>8, <1>1 DEF Pooled, CallsTyped, StoppedLast, Closed, cacheVars, Placed, Unscanned, TakeOp
<1>10. QuietIsFinished'
  BY <1>5 DEF QuietIsFinished
<1>11. ASSUME NEW k \in asked' PROVE k \in Work'
  <2>1. k \in asked /\ k \in Work
    BY <1>8, <1>11 DEF Pooled, NothingForgotten, Work, Settled
  <2>2. CASE k \notin Settled
    BY <2>1, <2>2, <1>1 DEF Work
  <2>3. CASE k \in Settled
    <3>1. PICK i \in 1..Len(writes) : k \in Settles(writes[i])
      BY <2>3 DEF Settled
    <3>2. CASE i # 1
      <4>1. i - 1 \in 1..Len(writes') /\ (i - 1) + 1 = i
        BY <1>3, <3>2
      <4>2. writes'[i - 1] = writes[i]
        BY <4>1, <1>3
      <4>3. k \in Settled'
        BY <3>1, <4>1, <4>2 DEF Settled
      <4> QED
        BY <4>3 DEF Work
    <3>3. CASE i = 1
      <4>1. k \in Settles(o) /\ Settles(o) = {k}
        BY <3>1, <3>3, <1>3 DEF Settles
      <4>2. ~close.abandon
        BY <2>1 DEF Pooled, StoppedLast
      <4>3. o.op # "end"
        BY <4>1 DEF Settles
      <4>4. \E m \in 1..Len(writes') : Settles(writes'[m]) = Settles(o)
        BY <4>1, <4>2, <4>3, <1>1, <1>11
      <4>5. k \in Settled'
        BY <4>1, <4>4 DEF Settled
      <4> QED
        BY <4>5 DEF Work
    <3> QED
      BY <3>2, <3>3
  <2> QED
    BY <2>2, <2>3
<1>12. NothingForgotten'
  BY <1>11 DEF NothingForgotten, Work, Settled
<1> QED
  BY <1>1, <1>7, <1>9, <1>10, <1>12 DEF Pooled

LEMMA GoOnKeeps == ASSUME Pooled, CacheTyped, GoOn \/ CheckFinished \/ Leave PROVE Pooled' /\ writes' = writes
<1>1. /\ UNCHANGED <<pending, alone, retried, opening, held, running, finished, procs, pool, step, writes, scanned, raced>>
      /\ UNCHANGED <<asked, calls, rebuild>> /\ (compare' = compare \/ compare' = {})
  BY DEF GoOn, CheckFinished, Leave, Forget, RememberView, Unknow, Unview, MarkKnown, poolVars, callVars
<1>2. PoolTyped
  BY DEF Pooled, Placed
<1>3. unfinished' \in BOOLEAN /\ (unfinished' => unfinished)
  <2>1. unfinished' = unfinished \/ unfinished' = (unfinished /\ ~(IsIdle /\ writes = <<>>))
    BY DEF GoOn, CheckFinished, Leave, Announce
  <2>2. unfinished \in BOOLEAN
    BY DEF Pooled, CallsTyped
  <2>3. CASE unfinished' = unfinished
    BY <2>2, <2>3
  <2>4. CASE unfinished' = (unfinished /\ ~(IsIdle /\ writes = <<>>))
    <3> DEFINE quiet == IsIdle /\ writes = <<>>
    <3>1. quiet \in BOOLEAN
      BY DEF IsIdle
    <3>2. unfinished' = (unfinished /\ ~quiet)
      BY <2>4
    <3> HIDE DEF quiet
    <3>3. (unfinished /\ ~quiet) \in BOOLEAN
      OBVIOUS
    <3> QED
      BY <3>2, <3>3
  <2> QED
    BY <2>1, <2>3, <2>4
<1>4. Placed'
  <2>1. ~scanned => ~unfinished' /\ \A i \in DOMAIN writes' : writes'[i].op # "result"
    BY <1>1, <1>3 DEF Pooled, Placed, Unscanned
  <2>2. Placed /\ writes' \in Seq(Operations)
    BY <1>1, <1>2 DEF Pooled, PoolTyped
  <2> QED
    BY <2>1, <2>2, <1>1, JobsWait
<1>5. close' \in [at : {"open", "stopping", "joining", "done"}, abandon : BOOLEAN, closed : BOOLEAN]
      /\ close'.at = close.at /\ close'.abandon = close.abandon
  BY DEF GoOn, CheckFinished, Leave, callVars, Pooled, CallsTyped
<1>6. CallsTyped' /\ StoppedLast'
  BY <1>1, <1>3, <1>5 DEF Pooled, CallsTyped, StoppedLast, Closed
<1>7. NothingForgotten'
  BY <1>1 DEF Pooled, NothingForgotten
<1>8. QuietIsFinished'
  <2>1. CASE CheckFinished
    BY <2>1, <1>1 DEF CheckFinished, Announce, QuietIsFinished, IsIdle
  <2>2. CASE GoOn
    BY <2>2 DEF GoOn, Forget, RememberView, Unknow, Unview, MarkKnown, Goto, QuietIsFinished, Pooled, CacheTyped
  <2>3. CASE Leave
    BY <2>3 DEF Leave, Goto, QuietIsFinished
  <2> QED
    BY <2>1, <2>2, <2>3
<1> QED
  BY <1>1, <1>4, <1>6, <1>7, <1>8 DEF Pooled

-----------------------------------------------------------------------------
\* The copies: what the dispatcher and the callers leave alone.

LEMMA StartsStay ==
  ASSUME PoolTyped, StartsOnce, warmed' = warmed, writer' = writer, NEW S, Grows(S), \A o \in S : o.op \notin {"gc", "warm"}
  PROVE  StartsOnce'
<1>1. /\ Len(writes) \in Nat /\ Len(writes') \in Nat /\ Len(writes) <= Len(writes')
      /\ DOMAIN writes = 1..Len(writes) /\ DOMAIN writes' = 1..Len(writes')
  BY DEF PoolTyped, Grows
<1>2. ASSUME NEW i \in DOMAIN writes' PROVE (i \in DOMAIN writes /\ writes'[i] = writes[i]) \/ writes'[i].op \notin {"gc", "warm"}
  BY <1>1 DEF Grows
<1>3. \A i \in DOMAIN writes : i \in DOMAIN writes' /\ writes'[i] = writes[i]
  BY <1>1 DEF Grows
<1>4. CASE warmed
  BY <1>2, <1>4 DEF StartsOnce, Opening
<1>5. CASE ~warmed /\ writer.at \notin {"leave", "closing", "gone"}
  <2>1. PICK k \in {1, 2} :
          /\ k \in DOMAIN writes /\ writes[k].op = "warm" /\ (k = 2 => writes[1].op = "gc")
          /\ \A i \in DOMAIN writes : i > k => ~Opening(i)
    BY <1>5 DEF StartsOnce
  <2>2. 1 \in DOMAIN writes
    BY <1>1, <2>1
  <2>3. k \in DOMAIN writes' /\ writes'[k].op = "warm" /\ (k = 2 => writes'[1].op = "gc")
    BY <1>3, <2>1, <2>2
  <2>4. \A i \in DOMAIN writes' : i > k => writes'[i].op \notin {"gc", "warm"}
    BY <1>2, <2>1 DEF Opening
  <2> QED
    BY <1>5, <2>3, <2>4 DEF StartsOnce, Opening
<1>6. CASE ~warmed /\ writer.at \in {"leave", "closing", "gone"}
  BY <1>6 DEF StartsOnce
<1> QED
  BY <1>4, <1>5, <1>6

LEMMA CopiesStay ==
  ASSUME PoolTyped, Current, UNCHANGED <<cacheVars, reader, writer>>, NEW S, Grows(S), \A o \in S : o.op \notin {"gc", "warm"},
         close'.closed => close.closed \/ writer.at = "gone"
  PROVE  Current'
<1>1. UNCHANGED <<db, lru, known, views, answers, strikes, deepDone, warmed>>
  BY DEF cacheVars
<1>2. StartsOnce'
  BY <1>1, StartsStay DEF Current
<1>3. CacheTyped' /\ CopiesAt'
  BY <1>1 DEF Current, CacheTyped, CopiesAt, RestsAt
<1>4. ReadAt' /\ AnswersAt' /\ ClosedLast'
  BY <1>1 DEF Current, ReadAt, AnswersAt, AnswersCurrent, ClosedLast
<1> QED
  BY <1>2, <1>3, <1>4 DEF Current

LEMMA ReadCopies == ASSUME PoolTyped, Current, Read PROVE Current'
<1>1. UNCHANGED <<db, known, views, answers, strikes, deepDone, warmed, close, writer, writes>> /\ ReadFacts
  BY DEF Read
<1>2. /\ CacheTyped /\ ReadAt
  BY DEF Current
<1> DEFINE late == IF writer.at = "forget" THEN writer.vid ELSE {}
<1>9. /\ writer.at # "wipe" => \A v \in Vids : v \in late \/ lru[v] \in {"none", db[v]}
      /\ \A r \in reader : r.same /\ r.got # "?" /\ writer.at # "wipe" => r.vid \in late \/ r.got = db[r.vid]
  BY <1>2 DEF ReadAt
<1>10. ASSUME lru' \in [Vids -> Ages], reader' \subseteq Readers PROVE CacheTyped'
  BY <1>1, <1>2, <1>10 DEF CacheTyped
<1>11. ASSUME writer.at # "wipe" => \A v \in Vids : v \in late \/ lru'[v] \in {"none", db[v]},
              \A r \in reader' : r.same /\ r.got # "?" /\ writer.at # "wipe" => r.vid \in late \/ r.got = db[r.vid]
       PROVE  ReadAt'
  BY <1>1, <1>11 DEF ReadAt
<1> HIDE DEF late
<1>3. ASSUME \E v \in Vids : reader' = {[vid |-> v, got |-> "?", same |-> TRUE]} /\ UNCHANGED lru
      PROVE  CacheTyped' /\ ReadAt'
  <2>1. PICK v \in Vids : reader' = {[vid |-> v, got |-> "?", same |-> TRUE]} /\ UNCHANGED lru
    BY <1>3
  <2>2. reader' \subseteq Readers /\ \A r \in reader' : r.got = "?"
    BY <2>1 DEF Readers
  <2>3. lru' = lru /\ lru' \in [Vids -> Ages]
    BY <1>2, <2>1 DEF CacheTyped
  <2> QED
    BY <1>9, <1>10, <1>11, <2>2, <2>3
<1>4. ASSUME \E r \in reader : r.got = "?" /\ reader' = {[r EXCEPT !.got = db[r.vid]]} /\ UNCHANGED lru
      PROVE  CacheTyped' /\ ReadAt'
  <2>1. PICK r \in reader : r.got = "?" /\ reader' = {[r EXCEPT !.got = db[r.vid]]} /\ UNCHANGED lru
    BY <1>4
  <2> DEFINE q == [r EXCEPT !.got = db[r.vid]]
  <2>2. r \in Readers /\ db[r.vid] \in Ages
    BY <1>2, <2>1 DEF CacheTyped, Readers
  <2>3. q \in Readers /\ q.vid = r.vid /\ q.got = db[q.vid]
    BY <2>2 DEF Readers
  <2> HIDE DEF q
  <2>4. reader' = {q}
    BY <2>1 DEF q
  <2>5. lru' = lru /\ lru' \in [Vids -> Ages]
    BY <1>2, <2>1 DEF CacheTyped
  <2> QED
    BY <1>9, <1>10, <1>11, <2>3, <2>4, <2>5
<1>5. ASSUME \E r \in reader : r.got # "?" /\ lru' = Keep(r) /\ reader' = {}
      PROVE  CacheTyped' /\ ReadAt'
  <2>1. PICK r \in reader : r.got # "?" /\ lru' = Keep(r) /\ reader' = {}
    BY <1>5
  <2>2. r \in Readers
    BY <1>2, <2>1 DEF CacheTyped
  <2>3. lru' = lru \/ (r.same /\ lru' = [lru EXCEPT ![r.vid] = r.got])
    BY <2>1 DEF Keep
  <2>4. r.vid \in Vids /\ r.got \in Ages
    BY <2>1, <2>2 DEF Readers
  <2>5. lru \in [Vids -> Ages] /\ lru' \in [Vids -> Ages]
    BY <1>2, <2>3, <2>4 DEF CacheTyped
  <2>6. ASSUME writer.at # "wipe", NEW v \in Vids PROVE v \in late \/ lru'[v] \in {"none", db[v]}
    <3>1. CASE lru'[v] = lru[v]
      BY <3>1, <2>6, <1>9
    <3>2. CASE r.same /\ v = r.vid /\ lru'[v] = r.got
      BY <3>2, <2>1, <2>6, <1>9
    <3> QED
      BY <3>1, <3>2, <2>3, <2>5
  <2> QED
    BY <1>10, <1>11, <2>1, <2>5, <2>6
<1>6. CacheTyped' /\ ReadAt'
  BY <1>1, <1>3, <1>4, <1>5 DEF ReadFacts
<1>7. CopiesAt' /\ AnswersAt' /\ ClosedLast'
  BY <1>1 DEF Current, CopiesAt, RestsAt, AnswersAt, AnswersCurrent, ClosedLast
<1>8. StartsOnce'
  <2>1. Grows({}) /\ \A o \in {} : o.op \notin {"gc", "warm"}
    BY <1>1, NothingPut DEF PoolTyped
  <2> QED
    BY <1>1, <2>1, StartsStay DEF Current
<1> QED
  BY <1>6, <1>7, <1>8 DEF Current

LEMMA CallCopies == ASSUME PoolTyped, Current, CallNext, Grows(Later) PROVE Current'
<1>1. \A o \in Later : o.op \notin {"gc", "warm"}
  BY DEF Later, Asks
<1>2. CASE Request \/ RequestDeep \/ QueueRefresh \/ Queue \/ Changes
  <2>1. UNCHANGED <<cacheVars, reader, writer, close>>
    BY <1>2 DEF Request, RequestDeep, QueueRefresh, Queue, Changes
  <2> QED
    BY <1>1, <2>1, CopiesStay
<1>3. CASE PauseIndex \/ ResumeIndex \/ CancelIndex
  <2>1. UNCHANGED svcVars
    BY <1>3 DEF PauseIndex, ResumeIndex, CancelIndex, Control
  <2>2. UNCHANGED <<cacheVars, reader, writer, close>>
    BY <2>1 DEF svcVars, cacheVars
  <2> QED
    BY <1>1, <2>2, CopiesStay
<1>4. CASE StartRebuild \/ AfterClear \/ QueueAgain
  <2>1. UNCHANGED <<cacheVars, reader, writer, close>>
    BY <1>4 DEF StartRebuild, AfterClear, QueueAgain
  <2> QED
    BY <1>1, <2>1, CopiesStay
<1>5. CASE StartClose \/ EndDispatcher \/ JoinWriter
  <2>1. UNCHANGED <<cacheVars, reader, writer>>
    BY <1>5 DEF StartClose, EndDispatcher, JoinWriter
  <2>2. close'.closed = close.closed \/ (close'.closed => writer.at = "gone")
    <3>1. CASE close' = [close EXCEPT !.at = "stopping"]
      BY <3>1
    <3>2. CASE close' = [close EXCEPT !.at = "joining"]
      BY <3>2
    <3>3. CASE close' = [close EXCEPT !.at = "done", !.abandon = TRUE]
      BY <3>3
    <3>4. CASE writer.at = "gone"
      BY <3>4
    <3> QED
      BY <1>5, <3>1, <3>2, <3>3, <3>4 DEF StartClose, EndDispatcher, JoinWriter, EndWriter
  <2> QED
    BY <1>1, <2>1, <2>2, CopiesStay
<1>6. CASE Read
  BY <1>6, ReadCopies
<1> QED
  BY <1>2, <1>3, <1>4, <1>5, <1>6 DEF CallNext

-----------------------------------------------------------------------------
\* The copies: the writer's operations.

\* What is true of the copies while the writer rests.
LEMMA AtRest ==
  ASSUME Current, RestsAt(writer.at)
  PROVE  /\ known = db /\ views = (IF warmed THEN db ELSE None)
         /\ \A v \in Vids : lru[v] \in {"none", db[v]}
         /\ \A v \in Vids : Facts(v) = db[v]
         /\ \A r \in reader : r.same /\ r.got # "?" => r.got = db[r.vid]
         /\ \A a \in answers : \A v \in DOMAIN a.from : v \in Vids /\ a.from[v] = views[v]
         /\ ~warmed => answers = {}
<1>1. writer.at \notin {"forget", "wipe"}
  BY DEF RestsAt
<1>2. known = db /\ views = (IF warmed THEN db ELSE None)
  BY DEF Current, CopiesAt
<1>3. \A v \in Vids : lru[v] \in {"none", db[v]}
  BY <1>1 DEF Current, ReadAt
<1>4. \A r \in reader : r.same /\ r.got # "?" => r.got = db[r.vid]
  BY <1>1 DEF Current, ReadAt
<1>5. \A v \in Vids : Facts(v) = db[v]
  BY <1>3 DEF Facts
<1> QED
  BY <1>2, <1>3, <1>4, <1>5 DEF Current, AnswersAt, AnswersCurrent

\* Copies at rest again.
LEMMA RestsAgain ==
  ASSUME CacheTyped', RestsAt(writer'.at), known' = db', views' = (IF warmed' THEN db' ELSE None),
         \A v \in Vids : lru'[v] \in {"none", db'[v]},
         \A r \in reader' : r.same /\ r.got # "?" => r.got = db'[r.vid],
         \A a \in answers' : \A v \in DOMAIN a.from : v \in Vids /\ a.from[v] = views'[v],
         ~warmed' => answers' = {}, StartsOnce', ClosedLast'
  PROVE  Current'
<1>1. writer'.at \in {"idle", "check", "leave", "closing", "gone"}
  BY DEF RestsAt
<1>2. CopiesAt'
  BY <1>1 DEF CopiesAt, RestsAt
<1>3. ReadAt' /\ AnswersAt'
  BY <1>1 DEF ReadAt, AnswersAt, AnswersCurrent
<1> QED
  BY <1>2, <1>3 DEF Current

LEMMA StartsTail ==
  ASSUME PoolTyped, StartsOnce, writer.at = "idle", writes # <<>>, writes' = Tail(writes)
  PROVE  /\ warmed => ~Opening(1) /\ \A i \in DOMAIN writes' : writes'[i].op \notin {"gc", "warm"}
         /\ ~warmed => writes[1].op \in {"gc", "warm"}
         /\ ~warmed /\ writes[1].op = "warm" => \A i \in DOMAIN writes' : writes'[i].op \notin {"gc", "warm"}
         /\ ~warmed /\ writes[1].op = "gc" => /\ 1 \in DOMAIN writes' /\ writes'[1].op = "warm"
                                              /\ \A i \in DOMAIN writes' : i > 1 => writes'[i].op \notin {"gc", "warm"}
<1>1. /\ Len(writes) \in Nat \ {0} /\ Len(writes') = Len(writes) - 1 /\ writes' \in Seq(Operations)
      /\ \A i \in 1..Len(writes') : writes'[i] = writes[i + 1] /\ i + 1 \in 1..Len(writes)
      /\ DOMAIN writes = 1..Len(writes)
  BY TailIs DEF PoolTyped
<1>2. DOMAIN writes' = 1..Len(writes') /\ 1 \in DOMAIN writes
  BY <1>1
<1>3. CASE warmed
  <2>1. \A i \in DOMAIN writes : writes[i].op \notin {"gc", "warm"}
    BY <1>3 DEF StartsOnce, Opening
  <2> QED
    BY <1>1, <1>2, <1>3, <2>1 DEF Opening
<1>4. CASE ~warmed
  <2>1. PICK k \in {1, 2} :
          /\ k \in DOMAIN writes /\ writes[k].op = "warm" /\ (k = 2 => writes[1].op = "gc")
          /\ \A i \in DOMAIN writes : i > k => writes[i].op \notin {"gc", "warm"}
    BY <1>4 DEF StartsOnce, Opening
  <2>2. CASE k = 1
    BY <1>1, <1>2, <1>4, <2>1, <2>2
  <2>3. CASE k = 2
    <3>1. 1 \in DOMAIN writes' /\ writes'[1] = writes[2]
      BY <1>1, <1>2, <2>1, <2>3
    <3>2. \A i \in DOMAIN writes' : i > 1 => writes'[i].op \notin {"gc", "warm"}
      BY <1>1, <1>2, <2>1, <2>3
    <3> QED
      BY <1>4, <2>1, <2>3, <3>1, <3>2
  <2> QED
    BY <2>1, <2>2, <2>3
<1> QED
  BY <1>3, <1>4

\* The operations that end at once.
LEMMA StrikeTyped == ASSUME strikes \in [Vids -> Nat], NEW k, Strike(k) PROVE strikes' \in [Vids -> Nat]
<1> DEFINE x == VidOf(k)
<1>1. strikes' = [strikes EXCEPT ![x] = @ + 1]
  BY DEF Strike
<1> HIDE DEF x
<1>2. CASE x \in Vids
  <2>1. strikes[x] \in Nat
    BY <1>2
  <2>2. strikes[x] + 1 \in Nat
    BY <2>1
  <2> QED
    BY <1>1, <2>2
<1>3. CASE x \notin Vids
  BY <1>1, <1>3
<1> QED
  BY <1>2, <1>3

LEMMA FailureCopies ==
  ASSUME Current, writer.at = "idle", writer' = [at |-> "check", vid |-> {}],
         UNCHANGED <<db, lru, known, views, answers, warmed, reader>>, strikes' \in [Vids -> Nat],
         StartsOnce', ClosedLast'
  PROVE  Current'
<1>1. RestsAt(writer.at) /\ RestsAt(writer'.at)
  BY DEF RestsAt
<1>2. CacheTyped'
  BY DEF Current, CacheTyped, WriterAts
<1> QED
  BY <1>1, <1>2, AtRest, RestsAgain

LEMMA StoreCopies ==
  ASSUME Current, writer.at = "idle", NEW o \in Operations, StoreResult(o), warmed, StartsOnce', ClosedLast'
  PROVE  Current'
<1>1. /\ o.key \in Vids /\ db' = [db EXCEPT ![o.key] = "now"] /\ writer' = [at |-> "forget", vid |-> {o.key}]
      /\ UNCHANGED <<lru, known, views, answers, strikes, warmed, reader>>
  BY DEF StoreResult, Goto
<1>2. RestsAt(writer.at)
  BY DEF RestsAt
<1>3. /\ known = db /\ views = db
      /\ \A v \in Vids : lru[v] \in {"none", db[v]}
      /\ \A r \in reader : r.same /\ r.got # "?" => r.got = db[r.vid]
  BY <1>2, AtRest
<1>4. CacheTyped /\ CacheTyped'
  BY <1>1 DEF Current, CacheTyped, WriterAts, Ages
<1>5. \A v \in Vids \ {o.key} : db'[v] = db[v]
  BY <1>1, <1>4 DEF CacheTyped
<1>6. db'[o.key] = "now"
  BY <1>1, <1>4 DEF CacheTyped
<1>7. CopiesAt'
  BY <1>1, <1>3, <1>5, <1>6 DEF CopiesAt, RestsAt
<1>8. ReadAt'
  <2>1. \A r \in reader : r.vid \in Vids
    BY <1>4 DEF CacheTyped, Readers
  <2> QED
    BY <1>1, <1>3, <1>5, <2>1 DEF ReadAt
<1>9. AnswersAt'
  BY <1>1 DEF Current, AnswersAt, AnswersCurrent
<1> QED
  BY <1>4, <1>7, <1>8, <1>9 DEF Current

LEMMA CompareCopies ==
  ASSUME Current, writer.at = "idle", NEW o \in Operations, Compare(o), warmed, StartsOnce', ClosedLast'
  PROVE  Current'
<1> DEFINE pair == {o.key[1], o.key[2]}
           from == [v \in pair |-> Facts(v)]
<1>1. /\ answers' = IF \E v \in DOMAIN from : from[v] = "none" THEN answers
                    ELSE {a \in answers : a.pair # o.key} \cup {[pair |-> o.key, from |-> from]}
      /\ lru' = [v \in Vids |-> IF v \in pair THEN Facts(v) ELSE lru[v]]
      /\ writer' = [at |-> "check", vid |-> {}]
      /\ UNCHANGED <<db, known, views, strikes, warmed, reader>> /\ o.op = "compare"
  BY DEF Compare, Goto
<1>2. RestsAt(writer.at) /\ RestsAt(writer'.at)
  BY <1>1 DEF RestsAt
<1>3. pair \subseteq Vids
  BY <1>1 DEF Operations, Plain, Asks, Fails, Gives
<1>4. /\ known = db /\ views = db
      /\ \A v \in Vids : lru[v] \in {"none", db[v]} /\ Facts(v) = db[v]
      /\ \A r \in reader : r.same /\ r.got # "?" => r.got = db[r.vid]
      /\ \A a \in answers : \A v \in DOMAIN a.from : v \in Vids /\ a.from[v] = views[v]
  BY <1>2, AtRest
<1>5. \A v \in Vids : lru'[v] \in {"none", db[v]}
  BY <1>1, <1>4
<1>6. CacheTyped'
  <2>1. lru' \in [Vids -> Ages]
    BY <1>1, <1>4 DEF Current, CacheTyped
  <2> QED
    BY <1>1, <2>1 DEF Current, CacheTyped, WriterAts
<1>7. ASSUME NEW a \in answers', NEW v \in DOMAIN a.from PROVE v \in Vids /\ a.from[v] = views'[v]
  <2>1. CASE a \in answers
    BY <1>1, <1>4, <1>7, <2>1
  <2>2. CASE a = [pair |-> o.key, from |-> from]
    BY <1>1, <1>3, <1>4, <1>7, <2>2
  <2> QED
    BY <1>1, <2>1, <2>2
<1> QED
  BY <1>1, <1>2, <1>4, <1>5, <1>6, <1>7, RestsAgain

LEMMA GarbageCopies ==
  ASSUME Current, writer.at = "idle", NEW o \in Operations, CollectGarbage(o), ~warmed, StartsOnce', ClosedLast'
  PROVE  Current'
<1>1. PICK gone \in SUBSET {v \in Vids : db[v] # "none"} :
        /\ db' = [v \in Vids |-> IF v \in gone THEN "none" ELSE db[v]]
        /\ lru' = [v \in Vids |-> IF v \in gone THEN "none" ELSE lru[v]]
        /\ known' = IF gone = {} THEN known ELSE db'
        /\ views' = [v \in Vids |-> IF known'[v] = "none" THEN "none" ELSE views[v]]
  BY DEF CollectGarbage
<1>2. /\ reader' = {[r EXCEPT !.same = FALSE] : r \in reader} /\ writer' = [at |-> "check", vid |-> {}]
      /\ UNCHANGED <<answers, strikes, warmed>>
  BY DEF CollectGarbage, Bump, Goto
<1>3. RestsAt(writer.at) /\ RestsAt(writer'.at)
  BY <1>2 DEF RestsAt
<1>4. /\ known = db /\ views = None /\ answers = {}
      /\ \A v \in Vids : lru[v] \in {"none", db[v]}
  BY <1>3, AtRest
<1>5. CacheTyped
  BY DEF Current
<1>6. db' \in [Vids -> Ages] /\ lru' \in [Vids -> Ages] /\ known' = db'
  <2>1. gone = {} => db' = db
    BY <1>1, <1>5 DEF CacheTyped
  <2> QED
    BY <1>1, <1>4, <1>5, <2>1 DEF CacheTyped, Ages
<1>7. views' = None
  BY <1>1, <1>4 DEF None
<1>8. reader' \subseteq Readers /\ \A r \in reader' : ~r.same
  <2>1. \A r \in reader : [r EXCEPT !.same = FALSE] \in Readers /\ ~[r EXCEPT !.same = FALSE].same
    BY <1>5 DEF CacheTyped, Readers
  <2> QED
    BY <1>2, <2>1
<1>9. CacheTyped'
  <2>1. None \in [Vids -> Ages]
    BY DEF None, Ages
  <2> QED
    BY <1>2, <1>5, <1>6, <1>7, <1>8, <2>1 DEF CacheTyped, WriterAts
<1>10. \A v \in Vids : lru'[v] \in {"none", db'[v]}
  BY <1>1, <1>4
<1> QED
  BY <1>2, <1>3, <1>4, <1>6, <1>7, <1>8, <1>9, <1>10, RestsAgain

LEMMA WarmCopies ==
  ASSUME Current, writer.at = "idle", NEW o \in Operations, Warm(o), ~warmed, StartsOnce', ClosedLast'
  PROVE  Current'
<1>1. /\ views' = [v \in Vids |-> IF v \in {w \in Vids : known[w] # "none"} THEN Facts(v) ELSE views[v]]
      /\ lru' = [v \in Vids |-> IF v \in {w \in Vids : known[w] # "none"} THEN Facts(v) ELSE lru[v]]
      /\ warmed' = TRUE /\ writer' = [at |-> "check", vid |-> {}]
      /\ UNCHANGED <<db, known, answers, strikes, reader>>
  BY DEF Warm, Goto
<1>2. RestsAt(writer.at) /\ RestsAt(writer'.at)
  BY <1>1 DEF RestsAt
<1>3. /\ known = db /\ views = None /\ answers = {}
      /\ \A v \in Vids : lru[v] \in {"none", db[v]} /\ Facts(v) = db[v]
      /\ \A r \in reader : r.same /\ r.got # "?" => r.got = db[r.vid]
  BY <1>2, AtRest
<1>4. CacheTyped
  BY DEF Current
<1>5. \A v \in Vids : views'[v] = db[v] /\ lru'[v] \in {"none", db[v]}
  BY <1>1, <1>3 DEF None
<1>6. views' = db
  BY <1>1, <1>4, <1>5 DEF CacheTyped
<1>7. lru' \in [Vids -> Ages]
  BY <1>1, <1>3, <1>4 DEF CacheTyped
<1>8. CacheTyped'
  BY <1>1, <1>4, <1>6, <1>7 DEF CacheTyped, WriterAts
<1> QED
  BY <1>1, <1>2, <1>3, <1>5, <1>6, <1>8, RestsAgain

LEMMA ClearCopies ==
  ASSUME Current, writer.at = "idle", NEW o \in Operations, ClearCache(o), warmed, StartsOnce', ClosedLast'
  PROVE  Current'
<1>1. /\ db' = None /\ writer' = [at |-> "wipe", vid |-> {}]
      /\ UNCHANGED <<lru, known, views, answers, strikes, warmed, reader>>
  BY DEF ClearCache, Goto
<1>2. RestsAt(writer.at)
  BY DEF RestsAt
<1>3. known = db /\ views = db
  BY <1>2, AtRest
<1>4. CacheTyped'
  <2>1. None \in [Vids -> Ages]
    BY DEF None, Ages
  <2> QED
    BY <1>1, <2>1 DEF Current, CacheTyped, WriterAts
<1>5. CopiesAt'
  BY <1>1, <1>3 DEF CopiesAt, RestsAt
<1>6. ReadAt' /\ AnswersAt'
  BY <1>1 DEF Current, ReadAt, AnswersAt, AnswersCurrent
<1> QED
  BY <1>4, <1>5, <1>6 DEF Current

LEMMA TroubleCopies ==
  ASSUME Current, writer.at = "idle", NEW o \in Operations, Trouble(o), StartsOnce', ClosedLast'
  PROVE  Current'
<1>1. /\ writer' = [at |-> "check", vid |-> {}]
      /\ UNCHANGED <<db, lru, known, views, answers, warmed, reader>>
      /\ strikes' = strikes \/ Strike(o.key)
  BY DEF Trouble, Goto
<1>2. strikes' \in [Vids -> Nat]
  BY <1>1, StrikeTyped DEF Current, CacheTyped
<1> QED
  BY <1>1, <1>2, FailureCopies

LEMMA ApplyCopies ==
  ASSUME Current, writer.at = "idle", NEW o \in Operations, Apply(o),
         o.op \notin {"gc", "warm"} => warmed, o.op \in {"gc", "warm"} => ~warmed, StartsOnce', ClosedLast'
  PROVE  Current'
<1>1. strikes \in [Vids -> Nat]
  BY DEF Current, CacheTyped
<1>2. CASE StoreResult(o)
  <2>1. warmed
    BY <1>2 DEF StoreResult
  <2> QED
    BY <1>2, <2>1, StoreCopies
<1>3. CASE Failed(o)
  <2>1. Strike(o.key) /\ writer' = [at |-> "check", vid |-> {}]
        /\ UNCHANGED <<db, lru, known, views, answers, warmed, reader>>
    BY <1>3 DEF Failed, Goto
  <2> QED
    BY <1>1, <2>1, StrikeTyped, FailureCopies
<1>4. CASE DeepReady(o)
  <2>1. writer' = [at |-> "check", vid |-> {}]
        /\ UNCHANGED <<db, lru, known, views, answers, strikes, warmed, reader>>
    BY <1>4 DEF DeepReady, Goto
  <2> QED
    BY <1>1, <2>1, FailureCopies
<1>5. CASE Compare(o)
  <2>1. warmed
    BY <1>5 DEF Compare
  <2> QED
    BY <1>5, <2>1, CompareCopies
<1>6. CASE CollectGarbage(o)
  <2>1. ~warmed
    BY <1>6 DEF CollectGarbage
  <2> QED
    BY <1>6, <2>1, GarbageCopies
<1>7. CASE Warm(o)
  <2>1. ~warmed
    BY <1>7 DEF Warm
  <2> QED
    BY <1>7, <2>1, WarmCopies
<1>8. CASE ClearCache(o)
  <2>1. warmed
    BY <1>8 DEF ClearCache
  <2> QED
    BY <1>8, <2>1, ClearCopies
<1>9. CASE o.op = "touch" /\ Goto("check", {}) /\ UNCHANGED <<cacheVars, reader, compare, rebuild>>
  <2>1. writer' = [at |-> "check", vid |-> {}]
        /\ UNCHANGED <<db, lru, known, views, answers, strikes, warmed, reader>>
    BY <1>9 DEF Goto, cacheVars
  <2> QED
    BY <1>1, <2>1, FailureCopies
<1> QED
  BY <1>2, <1>3, <1>4, <1>5, <1>6, <1>7, <1>8, <1>9 DEF Apply

LEMMA TakeOpCopies == ASSUME PoolTyped, Current, TakeOp PROVE Current'
<1> DEFINE o == Head(writes)
<1>1. /\ writer.at = "idle" /\ writes # <<>> /\ writes' = Tail(writes) /\ close' = close
      /\ \/ writer' = [at |-> "leave", vid |-> {}] /\ UNCHANGED <<cacheVars, reader>>
         \/ Apply(o) \/ Trouble(o)
  BY DEF TakeOp, Goto
<1>2. o = writes[1] /\ o \in Operations
  <2>1. writes \in Seq(Operations) /\ writes # <<>>
    BY <1>1 DEF PoolTyped
  <2> QED
    BY <2>1
<1> HIDE DEF o
<1>3. ClosedLast' /\ StartsOnce /\ RestsAt(writer.at)
  BY <1>1 DEF Current, ClosedLast, RestsAt
<1>4. /\ warmed => o.op \notin {"gc", "warm"} /\ \A i \in DOMAIN writes' : writes'[i].op \notin {"gc", "warm"}
      /\ ~warmed => o.op \in {"gc", "warm"}
      /\ o.op = "warm" => \A i \in DOMAIN writes' : writes'[i].op \notin {"gc", "warm"}
      /\ o.op = "gc" => /\ 1 \in DOMAIN writes' /\ writes'[1].op = "warm"
                        /\ \A i \in DOMAIN writes' : i > 1 => writes'[i].op \notin {"gc", "warm"}
  BY <1>1, <1>2, <1>3, StartsTail DEF Opening
<1>5. ASSUME warmed' = warmed, o.op # "warm" PROVE StartsOnce'
  <2>1. CASE warmed
    BY <1>4, <1>5, <2>1 DEF StartsOnce, Opening
  <2>2. CASE ~warmed
    BY <1>4, <1>5, <2>2 DEF StartsOnce, Opening
  <2> QED
    BY <2>1, <2>2
<1>6. ASSUME warmed', o.op = "warm" PROVE StartsOnce'
  BY <1>4, <1>6 DEF StartsOnce, Opening
<1>7. CASE writer' = [at |-> "leave", vid |-> {}] /\ UNCHANGED <<cacheVars, reader>>
  <2>1. UNCHANGED <<db, lru, known, views, answers, strikes, warmed, reader>> /\ RestsAt(writer'.at) /\ writer'.at = "leave"
    BY <1>7 DEF cacheVars, RestsAt
  <2>2. StartsOnce'
    BY <1>4, <2>1 DEF StartsOnce, Opening
  <2>3. CacheTyped'
    BY <1>7, <2>1 DEF Current, CacheTyped, WriterAts
  <2> QED
    BY <1>3, <2>1, <2>2, <2>3, AtRest, RestsAgain
<1>8. CASE Apply(o)
  <2>1. o.op = "warm" => warmed'
    BY <1>8 DEF Apply, StoreResult, Failed, DeepReady, Compare, CollectGarbage, Warm, ClearCache
  <2>2. o.op # "warm" => warmed' = warmed
    BY <1>8 DEF Apply, StoreResult, Failed, DeepReady, Compare, CollectGarbage, Warm, ClearCache, cacheVars
  <2>3. StartsOnce'
    BY <1>5, <1>6, <2>1, <2>2
  <2> QED
    BY <1>1, <1>2, <1>3, <1>4, <1>8, <2>3, ApplyCopies
<1>9. CASE Trouble(o)
  <2>1. warmed' = warmed /\ o.op # "warm"
    BY <1>9 DEF Trouble
  <2> QED
    BY <1>1, <1>2, <1>3, <1>5, <1>9, <2>1, TroubleCopies
<1> QED
  BY <1>1, <1>7, <1>8, <1>9

-----------------------------------------------------------------------------
\* The copies: the writer's later steps.

LEMMA StartsSame ==
  ASSUME PoolTyped, StartsOnce, warmed' = warmed, writes' = writes, writer.at \notin {"leave", "closing", "gone"} \/ writer'.at \in {"leave", "closing", "gone"}
  PROVE  StartsOnce'
  BY DEF StartsOnce, Opening

LEMMA ForgetCopies == ASSUME Current, Forget, StartsOnce', ClosedLast' PROVE Current'
<1>1. /\ reader' = {[r EXCEPT !.same = FALSE] : r \in reader}
      /\ UNCHANGED <<db, known, views, answers, strikes, warmed>>
      /\ writer' = [writer EXCEPT !.at = IF @ = "forget" THEN "view" ELSE "unknow"]
      /\ writer.at \in {"forget", "wipe"}
      /\ lru' = IF writer.at = "wipe" THEN None ELSE [v \in Vids |-> IF v \in writer.vid THEN "none" ELSE lru[v]]
  BY DEF Forget, Bump
<1>2. CacheTyped
  BY DEF Current
<1>3. reader' \subseteq Readers /\ \A r \in reader' : ~r.same
  <2>1. \A r \in reader : [r EXCEPT !.same = FALSE] \in Readers /\ ~[r EXCEPT !.same = FALSE].same
    BY <1>2 DEF CacheTyped, Readers
  <2> QED
    BY <1>1, <2>1
<1>4. /\ writer' \in [at : WriterAts, vid : SUBSET Vids] /\ writer'.vid = writer.vid
      /\ writer.at = "forget" => writer'.at = "view"
      /\ writer.at = "wipe" => writer'.at = "unknow"
  BY <1>1, <1>2 DEF CacheTyped, WriterAts
<1>5. lru' \in [Vids -> Ages]
  BY <1>1, <1>2 DEF CacheTyped, Ages, None
<1>6. CacheTyped'
  BY <1>1, <1>2, <1>3, <1>4, <1>5 DEF CacheTyped
<1>7. CopiesAt'
  BY <1>1, <1>4 DEF Current, CopiesAt, RestsAt
<1>8. \A v \in Vids : lru'[v] \in {"none", db'[v]}
  <2>1. CASE writer.at = "forget"
    BY <1>1, <2>1 DEF Current, ReadAt
  <2>2. CASE writer.at = "wipe"
    BY <1>1, <2>2 DEF None
  <2> QED
    BY <1>1, <2>1, <2>2
<1>9. ReadAt'
  BY <1>3, <1>8 DEF ReadAt
<1>10. AnswersAt'
  BY <1>1 DEF Current, AnswersAt, AnswersCurrent
<1> QED
  BY <1>6, <1>7, <1>9, <1>10 DEF Current

LEMMA RememberCopies == ASSUME Current, RememberView, StartsOnce', ClosedLast' PROVE Current'
<1>1. /\ writer.at = "view" /\ writer' = [at |-> "known", vid |-> writer.vid]
      /\ views' = [v \in Vids |-> IF v \in writer.vid THEN Facts(v) ELSE views[v]]
      /\ lru' = [v \in Vids |-> IF v \in writer.vid THEN Facts(v) ELSE lru[v]]
      /\ answers' = {a \in answers : DOMAIN a.from \cap writer.vid = {}}
      /\ UNCHANGED <<db, known, strikes, warmed, reader>>
  BY DEF RememberView, Goto
<1>2. /\ CacheTyped /\ warmed
      /\ \A v \in Vids \ writer.vid : known[v] = db[v] /\ views[v] = db[v]
      /\ \A v \in writer.vid : db[v] = "now"
      /\ \A v \in Vids : lru[v] \in {"none", db[v]}
      /\ \A r \in reader : r.same /\ r.got # "?" => r.got = db[r.vid]
      /\ \A a \in answers : DOMAIN a.from \subseteq Vids /\ \A v \in DOMAIN a.from : a.from[v] = views[v]
  BY <1>1 DEF Current, CopiesAt, RestsAt, ReadAt, AnswersAt, AnswersCurrent
<1>3. \A v \in Vids : Facts(v) = db[v]
  BY <1>2 DEF Facts
<1>4. writer.vid \subseteq Vids
  BY <1>2 DEF CacheTyped
<1>5. \A v \in Vids : views'[v] = db[v] /\ lru'[v] \in {"none", db[v]}
  BY <1>1, <1>2, <1>3
<1>6. views' \in [Vids -> Ages] /\ lru' \in [Vids -> Ages]
  BY <1>1, <1>2, <1>3 DEF CacheTyped
<1>7. CacheTyped'
  BY <1>1, <1>2, <1>4, <1>6 DEF CacheTyped, WriterAts
<1>8. CopiesAt'
  BY <1>1, <1>2, <1>4, <1>5 DEF CopiesAt, RestsAt
<1>9. ReadAt'
  BY <1>1, <1>2, <1>5 DEF ReadAt
<1>10. AnswersAt'
  <2>1. ASSUME NEW a \in answers', NEW v \in DOMAIN a.from PROVE a.from[v] = views'[v]
    BY <1>1, <1>2, <2>1
  <2> QED
    BY <1>1, <1>2, <2>1 DEF AnswersAt, AnswersCurrent
<1> QED
  BY <1>7, <1>8, <1>9, <1>10 DEF Current

LEMMA UnknowCopies == ASSUME Current, Unknow, StartsOnce', ClosedLast' PROVE Current'
<1>1. /\ writer.at = "unknow" /\ known' = None /\ writer' = [writer EXCEPT !.at = "unview"]
      /\ UNCHANGED <<db, lru, views, answers, strikes, warmed, reader>>
  BY DEF Unknow
<1>2. CacheTyped /\ db = None /\ warmed
  BY <1>1 DEF Current, CopiesAt, RestsAt
<1>3. writer'.at = "unview" /\ writer' \in [at : WriterAts, vid : SUBSET Vids]
  BY <1>1, <1>2 DEF CacheTyped, WriterAts
<1>4. CacheTyped'
  <2>1. None \in [Vids -> Ages]
    BY DEF None, Ages
  <2> QED
    BY <1>1, <1>2, <1>3, <2>1 DEF CacheTyped
<1>5. CopiesAt'
  BY <1>1, <1>2, <1>3 DEF CopiesAt, RestsAt
<1>6. ReadAt' /\ AnswersAt'
  BY <1>1, <1>3 DEF Current, ReadAt, AnswersAt, AnswersCurrent
<1> QED
  BY <1>4, <1>5, <1>6 DEF Current

LEMMA UnviewCopies == ASSUME Current, Unview, StartsOnce', ClosedLast' PROVE Current'
<1>1. /\ writer.at = "unview" /\ views' = None /\ answers' = {} /\ writer' = [at |-> "check", vid |-> {}]
      /\ strikes' = [v \in Vids |-> 0] /\ UNCHANGED <<db, lru, known, warmed, reader>>
  BY DEF Unview, Goto
<1>2. /\ CacheTyped /\ db = None /\ known = None /\ warmed
      /\ \A v \in Vids : lru[v] \in {"none", db[v]}
      /\ \A r \in reader : r.same /\ r.got # "?" => r.got = db[r.vid]
  BY <1>1 DEF Current, CopiesAt, ReadAt, RestsAt
<1>3. CacheTyped'
  <2>1. None \in [Vids -> Ages] /\ strikes' \in [Vids -> Nat]
    BY <1>1 DEF None, Ages
  <2> QED
    BY <1>1, <1>2, <2>1 DEF CacheTyped, WriterAts
<1>4. RestsAt(writer'.at)
  BY <1>1 DEF RestsAt
<1> QED
  BY <1>1, <1>2, <1>3, <1>4, RestsAgain

LEMMA MarkCopies == ASSUME Current, MarkKnown, StartsOnce', ClosedLast' PROVE Current'
<1>1. /\ writer.at = "known" /\ writer' = [at |-> "check", vid |-> {}]
      /\ known' = [v \in Vids |-> IF v \in writer.vid THEN "now" ELSE known[v]]
      /\ strikes' = [v \in Vids |-> IF v \in writer.vid THEN 0 ELSE strikes[v]]
      /\ UNCHANGED <<db, lru, views, answers, warmed, reader>>
  BY DEF MarkKnown, Goto
<1>2. /\ CacheTyped /\ warmed
      /\ \A v \in Vids \ writer.vid : known[v] = db[v] /\ views[v] = db[v]
      /\ \A v \in writer.vid : db[v] = "now" /\ views[v] = "now"
      /\ \A v \in Vids : lru[v] \in {"none", db[v]}
      /\ \A r \in reader : r.same /\ r.got # "?" => r.got = db[r.vid]
      /\ \A a \in answers : DOMAIN a.from \subseteq Vids /\ \A v \in DOMAIN a.from : a.from[v] = views[v]
  BY <1>1 DEF Current, CopiesAt, RestsAt, ReadAt, AnswersAt, AnswersCurrent
<1>3. \A v \in Vids : known'[v] = db[v] /\ views[v] = db[v]
  BY <1>1, <1>2
<1>4. known' = db /\ views' = db
  BY <1>1, <1>2, <1>3 DEF CacheTyped
<1>5. strikes' \in [Vids -> Nat]
  BY <1>1, <1>2 DEF CacheTyped
<1>6. CacheTyped'
  BY <1>1, <1>2, <1>4, <1>5 DEF CacheTyped, WriterAts
<1>7. RestsAt(writer'.at)
  BY <1>1 DEF RestsAt
<1> QED
  BY <1>1, <1>2, <1>4, <1>6, <1>7, RestsAgain

LEMMA RestCopies ==
  ASSUME Current, RestsAt(writer.at), RestsAt(writer'.at), writer'.vid = {}, DOMAIN writer' = {"at", "vid"},
         writer' = [at |-> writer'.at, vid |-> writer'.vid],
         UNCHANGED <<cacheVars, reader>>, StartsOnce', ClosedLast'
  PROVE  Current'
<1>1. UNCHANGED <<db, lru, known, views, answers, strikes, warmed, reader>>
  BY DEF cacheVars
<1>2. writer' \in [at : WriterAts, vid : SUBSET Vids]
  BY DEF RestsAt, WriterAts
<1>3. CacheTyped'
  BY <1>1, <1>2 DEF Current, CacheTyped
<1> QED
  BY <1>1, <1>3, AtRest, RestsAgain

LEMMA GoOnCopies == ASSUME PoolTyped, Current, GoOn \/ CheckFinished \/ Leave, writes' = writes PROVE Current'
<1>1. StartsOnce /\ ClosedLast
  BY DEF Current
<1>2. CASE GoOn
  <2>1. /\ Forget \/ RememberView \/ Unknow \/ Unview \/ MarkKnown
        /\ close' = close /\ warmed' = warmed
    BY <1>2 DEF GoOn, Forget, RememberView, Unknow, Unview, MarkKnown
  <2>2. writer.at \in {"forget", "wipe", "view", "unknow", "unview", "known"}
    BY <2>1 DEF Forget, RememberView, Unknow, Unview, MarkKnown
  <2>3. ClosedLast' /\ StartsOnce'
    BY <1>1, <2>1, <2>2, StartsSame DEF ClosedLast
  <2> QED
    BY <2>1, <2>3, ForgetCopies, RememberCopies, UnknowCopies, UnviewCopies, MarkCopies
<1>3. CASE CheckFinished
  <2>1. /\ writer.at = "check" /\ writer' = [at |-> "idle", vid |-> {}] /\ UNCHANGED <<cacheVars, reader, close>>
    BY <1>3 DEF CheckFinished, Announce, Goto, callVars
  <2>2. warmed' = warmed /\ RestsAt(writer.at) /\ RestsAt(writer'.at)
    BY <2>1 DEF cacheVars, RestsAt
  <2>3. ClosedLast' /\ StartsOnce'
    BY <1>1, <2>1, <2>2, StartsSame DEF ClosedLast
  <2> QED
    BY <2>1, <2>2, <2>3, RestCopies
<1>4. CASE Leave
  <2>1. /\ \/ writer.at = "leave" /\ close' = close
           \/ writer.at = "closing" /\ writer'.at = "gone"
        /\ \/ writer' = [at |-> "closing", vid |-> {}]
           \/ writer' = [at |-> "gone", vid |-> {}]
        /\ UNCHANGED <<cacheVars, reader>>
    BY <1>4 DEF Leave, Goto
  <2>2. warmed' = warmed /\ RestsAt(writer.at) /\ RestsAt(writer'.at) /\ writer'.at \in {"closing", "gone"}
    BY <2>1 DEF cacheVars, RestsAt
  <2>3. ClosedLast' /\ StartsOnce'
    BY <1>1, <2>1, <2>2, StartsSame DEF ClosedLast
  <2> QED
    BY <2>1, <2>2, <2>3, RestCopies
<1> QED
  BY <1>2, <1>3, <1>4

-----------------------------------------------------------------------------
\* The inductive invariant.

LEMMA Starts == Init => Sound
<1> SUFFICES ASSUME Init PROVE Sound
  OBVIOUS
<1>1. /\ pending = {} /\ alone = {} /\ retried = {} /\ opening = {} /\ held = {} /\ running = {}
      /\ finished = {} /\ procs = {} /\ step = [at |-> "idle", job |-> {}] /\ raced = FALSE
      /\ pool = [paused |-> FALSE, stopped |-> FALSE, playing |-> FALSE, closed |-> FALSE, inline |-> May("inline")]
      /\ db \in Stored /\ known = db /\ lru = None /\ answers = {}
      /\ strikes = [v \in Vids |-> 0] /\ writer = [at |-> "idle", vid |-> {}] /\ unfinished = FALSE
      /\ reader = {} /\ compare = {} /\ calls = {} /\ rebuild = [at |-> "no", todo |-> {}]
      /\ close = [at |-> "open", abandon |-> FALSE, closed |-> FALSE] /\ asked = {}
  BY DEF Init, Idling, Resting
<1>2. \/ /\ writes = <<[op |-> "gc", key |-> "all"], [op |-> "warm", key |-> "all"]>>
         /\ scanned = FALSE /\ warmed = FALSE /\ views = None
      \/ writes = <<>> /\ scanned = TRUE /\ warmed = TRUE /\ views = db
  BY DEF Init
<1>3. writes \in Seq(Operations) /\ \A i \in DOMAIN writes : writes[i].op # "result"
  <2>1. CASE writes = <<[op |-> "gc", key |-> "all"], [op |-> "warm", key |-> "all"]>>
    <3>1. [op |-> "gc", key |-> "all"] \in Operations /\ [op |-> "warm", key |-> "all"] \in Operations
      BY DEF Operations, Plain
    <3> QED
      BY <2>1, <3>1
  <2>2. CASE writes = <<>>
    BY <2>2
  <2> QED
    BY <1>2, <2>1, <2>2
<1>4. PoolTyped
  <2>1. May("inline") \in BOOLEAN
    BY DEF May
  <2>2. pool \in [paused : BOOLEAN, stopped : BOOLEAN, playing : BOOLEAN, closed : BOOLEAN, inline : BOOLEAN]
    BY <1>1, <2>1
  <2>3. IsFiniteSet({})
    BY FS_EmptySet
  <2> QED
    BY <1>1, <1>2, <1>3, <2>2, <2>3 DEF PoolTyped
<1>5. StepFits /\ Large /\ TokensFit /\ Once /\ Unscanned
  BY <1>1, <1>3 DEF StepFits, Large, Marked, TokensFit, Tokens, Once, KeysOf, Unscanned
<1>6. Bounded
  <2>1. Cardinality({}) = 0
    BY FS_EmptySet
  <2>2. {r \in running : r.tier # INTERACTIVE} = {}
    BY <1>1
  <2>3. Load({}) = 0
    BY LoadOfNone
  <2> QED
    BY <1>1, <2>1, <2>2, <2>3, PoolBounds DEF Bounded
<1>7. CallsTyped /\ StoppedLast /\ NothingForgotten /\ QuietIsFinished
  BY <1>1 DEF CallsTyped, StoppedLast, Closed, NothingForgotten, QuietIsFinished
<1>8. CacheTyped
  <2>1. db \in [Vids -> Ages]
    BY <1>1, IndexBounds DEF Ages
  <2>2. None \in [Vids -> Ages] /\ strikes \in [Vids -> Nat]
    BY <1>1 DEF None, Ages
  <2> QED
    BY <1>1, <1>2, <2>1, <2>2 DEF CacheTyped, WriterAts
<1>9. CopiesAt /\ ReadAt /\ AnswersAt /\ ClosedLast
  <2>1. \A v \in Vids : lru[v] = "none"
    BY <1>1 DEF None
  <2> QED
    BY <1>1, <1>2, <2>1 DEF CopiesAt, RestsAt, ReadAt, AnswersAt, AnswersCurrent, ClosedLast
<1>10. StartsOnce
  <2>1. CASE writes = <<[op |-> "gc", key |-> "all"], [op |-> "warm", key |-> "all"]>> /\ ~warmed
    <3>1. DOMAIN writes = {1, 2} /\ writes[1].op = "gc" /\ writes[2].op = "warm"
      BY <2>1
    <3> QED
      BY <2>1, <3>1 DEF StartsOnce
  <2>2. CASE writes = <<>> /\ warmed
    BY <2>2 DEF StartsOnce
  <2> QED
    BY <1>2, <2>1, <2>2
<1> QED
  BY <1>4, <1>5, <1>6, <1>7, <1>8, <1>9, <1>10 DEF Sound, Pooled, Placed, Current

LEMMA Goes == Sound /\ [Next]_vars => Sound'
<1> SUFFICES ASSUME Sound, [Next]_vars PROVE Sound'
  OBVIOUS
<1>1. Pooled /\ Current /\ PoolTyped /\ CacheTyped
  BY DEF Sound, Pooled, Placed, Current
<1>2. CASE Dispatch
  <2>1. Pooled' /\ Grows(Fails \cup Gives)
    BY <1>1, <1>2, DispatchKeeps
  <2>2. UNCHANGED <<cacheVars, reader, writer>> /\ close' = close
    BY <1>2 DEF Dispatch, Step, callVars
  <2>3. \A o \in Fails \cup Gives : o.op \notin {"gc", "warm"}
    BY DEF Fails, Gives
  <2> DEFINE S == Fails \cup Gives
  <2> HIDE DEF S
  <2>4. Grows(S) /\ \A o \in S : o.op \notin {"gc", "warm"}
    BY <2>1, <2>3 DEF S
  <2>5. Current'
    BY <1>1, <2>2, <2>4, CopiesStay
  <2> QED
    BY <2>1, <2>5 DEF Sound
<1>3. CASE TakeOp
  BY <1>1, <1>3, TakeOpKeeps, TakeOpCopies DEF Sound
<1>4. CASE GoOn \/ CheckFinished \/ Leave
  <2>1. Pooled' /\ writes' = writes
    BY <1>1, <1>4, GoOnKeeps
  <2> QED
    BY <1>1, <1>4, <2>1, GoOnCopies DEF Sound
<1>5. CASE CallNext
  BY <1>1, <1>5, CallKeeps, CallCopies DEF Sound
<1>6. CASE UNCHANGED vars
  <2>1. UNCHANGED <<poolVars, svcVars>>
    BY <1>6 DEF vars
  <2>2. UNCHANGED <<pending, alone, retried, opening, held, running, finished, procs, pool, step, writes, scanned, raced>>
    BY <2>1 DEF poolVars
  <2>3. UNCHANGED <<db, strikes, lru, known, views, answers, writer, unfinished, reader, compare, calls, rebuild, close,
                    warmed, asked>>
    BY <2>1 DEF svcVars
  <2>7. PoolTyped' /\ StepFits' /\ Large'
    BY <1>1, <2>2 DEF Pooled, Placed, PoolTyped, StepFits, Large, Marked
  <2>8. TokensFit' /\ (~raced => Once)' /\ Unscanned'
    BY <1>1, <2>2, <2>3 DEF Pooled, Placed, TokensFit, Tokens, Once, Unscanned
  <2>9. Bounded'
    BY <1>1, <2>2, Zenon DEF Pooled, Placed, Bounded, Reserves
  <2>4. Placed'
    BY <2>7, <2>8, <2>9 DEF Placed
  <2>5. CallsTyped' /\ StoppedLast' /\ NothingForgotten' /\ QuietIsFinished'
    BY <1>1, <2>2, <2>3 DEF Pooled, CallsTyped, StoppedLast, Closed, NothingForgotten, KeysOf, Settles, QuietIsFinished, Active,
                            IsIdle
  <2>6. Current'
    BY <1>1, <2>2, <2>3 DEF Current, CacheTyped, CopiesAt, RestsAt, ReadAt, AnswersAt, AnswersCurrent, StartsOnce, Opening,
                            ClosedLast
  <2> QED
    BY <2>4, <2>5, <2>6 DEF Sound, Pooled
<1> QED
  BY <1>2, <1>3, <1>4, <1>5, <1>6 DEF Next, WriterNext

\* The inductive invariant: what the pool holds is placed, fits and is not forgotten (pool.py), and
\* the copies of the facts are the rows, but for those of the operation at hand (service.py, cache.py).
THEOREM IndexIsSound == Spec => []Sound
  BY Starts, Goes, PTL DEF Spec

-----------------------------------------------------------------------------
\* What the runs check.

LEMMA SoundIsKept == Sound => WorkIsKept
<1> SUFFICES ASSUME Sound PROVE WorkIsKept
  OBVIOUS
<1>1. PoolTyped /\ CallsTyped /\ CacheTyped /\ StepFits /\ StoppedLast
  BY DEF Sound, Pooled, Placed, Current
<1>2. \A x : Cardinality({x}) = 1
  BY FS_Singleton
<1>3. Cardinality({}) = 0
  BY FS_EmptySet
<1>4. /\ opening = {} \/ \E e : opening = {e}
      /\ held = {} \/ \E h : held = {h}
      /\ step.job = {} \/ \E j : step.job = {j}
  BY <1>1 DEF PoolTyped, StepFits
<1>10. ASSUME NEW S, S = {} \/ \E x : S = {x} PROVE Cardinality(S) <= 1
  <2>1. CASE S = {}
    BY <1>3, <2>1
  <2>2. CASE \E x : S = {x}
    BY <1>2, <2>2
  <2> QED
    BY <1>10, <2>1, <2>2
<1>5. Cardinality(opening) <= 1 /\ Cardinality(held) <= 1 /\ Cardinality(step.job) <= 1
  BY <1>4, <1>10
<1>6. /\ pending \cup opening \subseteq [key : Keys, tier : Tiers]
      /\ held \subseteq [key : Keys, tier : Tiers, alone : BOOLEAN]
      /\ running \subseteq Jobs /\ alone \cup retried \cup asked \subseteq Keys
      /\ step.at \in {"idle", "open", "opened", "submit"}
  BY <1>1 DEF PoolTyped, CallsTyped, Items, Waiting
<1>7. /\ {db, lru, known, views} \subseteq [Vids -> Ages] /\ strikes \in [Vids -> Nat]
      /\ writer.at \in {"idle", "forget", "view", "known", "wipe", "unknow", "unview", "check", "leave", "closing", "gone"}
      /\ close.at \in {"open", "stopping", "joining", "done"}
  BY <1>1 DEF CacheTyped, CallsTyped, WriterAts
<1>8. TypeOK
  BY <1>5, <1>6, <1>7 DEF TypeOK
<1>9. NeverTwice /\ CapacityKept
  BY OnceIsOnce, FitsIsKept DEF Sound, Pooled, Placed
<1> QED
  BY <1>8, <1>9 DEF WorkIsKept, Sound, Pooled

LEMMA SoundIsCurrent == Sound => AnswersAreCurrent
<1> SUFFICES ASSUME Sound PROVE AnswersAreCurrent
  OBVIOUS
<1>1. CacheTyped /\ CopiesAt /\ ReadAt /\ AnswersCurrent /\ ClosedLast
  BY DEF Sound, Current, AnswersAt
<1>2. writer.at \in WriterAts
  BY <1>1 DEF CacheTyped
<1>3. OkHasView
  <2> SUFFICES ASSUME warmed, NEW v \in Vids, known[v] # "none"
               PROVE  views[v] # "none" /\ (writer.at # "known" => views[v] = known[v])
    BY DEF OkHasView
  <2>1. CASE RestsAt(writer.at)
    BY <1>1, <2>1 DEF CopiesAt
  <2>2. CASE writer.at \in {"forget", "view", "known"}
    BY <1>1, <2>2 DEF CopiesAt
  <2>3. CASE writer.at \in {"wipe", "unknow", "unview"}
    BY <1>1, <2>3 DEF CopiesAt, None
  <2> QED
    BY <1>2, <2>1, <2>2, <2>3 DEF WriterAts, RestsAt
<1>4. LruIsTrue
  BY <1>1 DEF LruIsTrue, ReadAt
<1> QED
  BY <1>1, <1>3, <1>4 DEF AnswersAreCurrent

\* Through cancels, rebuilds, crashes, hung and late workers a version that is asked for is in one
\* place and ends in a result or a failure, what runs fits, and a quiet index has said so
\* (pool.py submit, _requeue, cancel, _fits; service.py _write_ops), for any sizes and numbers.
THEOREM NoWorkIsLost == Spec => []WorkIsKept
  BY IndexIsSound, SoundIsKept, PTL

\* What callers and views are given is what the rows hold, whichever of the writer's steps and of a
\* reader's fall in between (service.py _apply, clear; cache.py facts, _forget), for any versions.
THEOREM AnswersAreTrue == Spec => []AnswersAreCurrent
  BY IndexIsSound, SoundIsCurrent, PTL

=====
