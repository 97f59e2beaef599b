---------------------------- MODULE ContentIndex ----------------------------
(***************************************************************************)
(* The content index as one object (core/index/service.py, cache.py): the  *)
(* callers that ask for versions and read what is known, the writer thread *)
(* that alone changes the cache, and the dispatcher of IndexPool between   *)
(* them.  A version's facts are the age of the extractor that made them:   *)
(* "none", "old" or "now"; what the facts say is left out.                 *)
(***************************************************************************)
EXTENDS IndexPool

CONSTANTS Vids,          \* versions
          Deep,          \* the key of each version's deep detail, a function from Vids
          MaxStrikes,    \* MAX_STRIKES
          Stored         \* what the cache file may hold at the start

ASSUME IndexBounds == Vids \subseteq Keys /\ Deep \in [Vids -> Keys] /\ Stored \subseteq [Vids -> {"none", "old", "now"}]

VARIABLES db,            \* the version rows
          strikes,       \* failed attempts (the failure rows and the service's copy)
          lru,           \* the cache's recently read facts
          known,         \* the service's copy of what is indexed
          views,         \* the derived views UI threads read
          answers,       \* comparisons worked out: [pair, from] with the facts they used
          deepDone,      \* versions whose deep detail is in memory
          writer,        \* what the writer thread is doing
          unfinished,    \* a result was handled since "finished" was announced
          reader,        \* a thread inside IndexCache.facts
          requested,     \* tier of each version asked for in this session (9: never)
          compare,       \* comparisons asked for and not answered
          calls,         \* requests between the decision and the dispatcher: [key, tier]
          rebuild,       \* a rebuild under way: where it is, and what is left to queue
          close,         \* the closing of the service
          warmed,        \* the stored views were loaded
          asked          \* keys somebody waits for (to state what must hold)

svcVars == <<db, strikes, lru, known, views, answers, deepDone, writer, unfinished, reader, requested,
             compare, calls, rebuild, close, warmed, asked>>
vars == <<poolVars, svcVars>>

cacheVars == <<db, lru, known, views, answers, strikes, deepDone, warmed>>
callVars  == <<reader, requested, compare, calls, rebuild, close>>

Ages   == {"none", "old", "now"}
None   == [v \in Vids |-> "none"]
Resting == [at |-> "idle", vid |-> {}]
Closed  == close.at # "open"
Active  == ~Closed
VidOf(k) == IF k \in Vids THEN k ELSE CHOOSE v \in Vids : Deep[v] = k
Put(op)  == writes' = Append(writes, op)

----------------------------------------------------------------------------
(* Callers: UI workers, the organizer's refresh, the command line. *)

NeedsWork(v) == known[v] # "now" /\ strikes[v] < MaxStrikes

RequestOne(v, t) ==
    /\ requested' = [requested EXCEPT ![v] = Lower(@, t)]
    /\ Put([op |-> "touch", key |-> v])
    /\ calls' = IF NeedsWork(v) THEN {[key |-> v, tier |-> t]} ELSE {}

Request == \E v \in Vids, t \in Tiers \ {REFRESH} :
    /\ Active /\ calls = {} /\ May("request") /\ Spend("request")
    /\ RequestOne(v, t)
    /\ UNCHANGED <<cacheVars, reader, compare, rebuild, close, writer, unfinished, asked,
                   pending, alone, retried, opening, held, running, finished, procs, pool, step, scanned, raced>>

\* A card opens: the facts when nothing is known of them, and the deep detail.
RequestDeep == \E v \in Vids :
    /\ Active /\ calls = {} /\ May("deep") /\ Spend("deep")
    /\ LET unseen == known[v] = "none" /\ strikes[v] = 0 /\ v \notin KeysOf(pending \cup opening \cup held \cup running)
           detail == IF v \in deepDone THEN {} ELSE {[key |-> Deep[v], tier |-> INTERACTIVE]}
       IN IF unseen
          THEN /\ requested' = [requested EXCEPT ![v] = INTERACTIVE]
               /\ Put([op |-> "touch", key |-> v])
               /\ calls' = detail \cup IF NeedsWork(v) THEN {[key |-> v, tier |-> INTERACTIVE]} ELSE {}
          ELSE calls' = detail /\ UNCHANGED <<requested, writes>>
    /\ UNCHANGED <<cacheVars, reader, compare, rebuild, close, writer, unfinished, asked,
                   pending, alone, retried, opening, held, running, finished, procs, pool, step, scanned, raced>>

\* The stale rows, once the organizer has scanned.
QueueRefresh ==
    /\ Active /\ calls = {} /\ ~scanned /\ scanned' = TRUE
    /\ calls' = [key : {v \in Vids : db[v] = "old"}, tier : {REFRESH}]
    /\ UNCHANGED <<cacheVars, reader, requested, compare, rebuild, close, writer, unfinished, asked,
                   pending, alone, retried, opening, held, running, finished, procs, pool, step, writes, raced, count>>

\* The second half of each of these: the dispatcher's own queue.
Queue == \E c \in calls :
    /\ calls' = calls \ {c}
    /\ Submit({c.key}, c.tier)
    /\ asked' = IF pool.stopped THEN asked ELSE asked \cup {c.key}
    /\ UNCHANGED <<cacheVars, reader, requested, compare, rebuild, close, writer, unfinished,
                   alone, retried, running, finished, procs, pool, step, writes, scanned, raced, count>>

\* What changed between two versions, from memory: what is missing is requested, an unknown
\* answer is left to the writer.
Changes == \E c, p \in Vids :
    /\ Active /\ calls = {} /\ c # p /\ May("compare")
    /\ \A a \in answers : a.pair # <<c, p>>
    /\ Spend("compare")
    /\ LET missing == {v \in {c, p} : views[v] = "none"}
       IN IF missing = {}
          THEN /\ <<c, p>> \notin compare
               /\ compare' = compare \cup {<<c, p>>}
               /\ Put([op |-> "compare", key |-> <<c, p>>])
               /\ UNCHANGED <<requested, calls>>
          ELSE /\ requested' = [v \in Vids |-> IF v \in missing THEN Lower(requested[v], FRESH) ELSE requested[v]]
               /\ Put([op |-> "touch", key |-> c])
               /\ calls' = [key : {v \in missing : NeedsWork(v)}, tier : {FRESH}]
               /\ UNCHANGED compare
    /\ UNCHANGED <<cacheVars, reader, rebuild, close, writer, unfinished, asked,
                   pending, alone, retried, opening, held, running, finished, procs, pool, step, scanned, raced>>

Control(op, Act) ==
    /\ Active /\ May(op) /\ Act /\ Spend(op)
    /\ UNCHANGED <<svcVars, alone, retried, opening, step, writes, scanned>>

PauseIndex  == ~pool.paused /\ Control("pause", Pause /\ UNCHANGED <<pending, held, running, finished, procs, raced>>)
ResumeIndex == /\ pool.paused /\ Active /\ Resume
               /\ UNCHANGED <<svcVars, pending, alone, retried, opening, held, running, finished, procs, step,
                              writes, scanned, raced, count>>
CancelIndex == Control("cancel", Cancel)

----------------------------------------------------------------------------
(* Rebuild: forget the queue, clear the cache, queue again what was asked. *)

StartRebuild ==
    /\ Active /\ rebuild.at = "no" /\ May("rebuild") /\ Spend("rebuild")
    /\ Clear
    /\ raced' = (raced \/ (step.at = "opened" /\ held # {}))
    /\ Put([op |-> "clear", key |-> "all"])
    /\ rebuild' = [rebuild EXCEPT !.at = "wait"]
    /\ asked' = asked \ KeysOf(pending \cup held)
    /\ UNCHANGED <<cacheVars, reader, requested, compare, calls, close, writer, unfinished,
                   alone, retried, opening, running, finished, procs, pool, step, scanned>>

\* The writer set the event, or 30 seconds are over: at any time.
AfterClear ==
    /\ rebuild.at = "wait"
    /\ rebuild' = [at |-> "queue",
                   todo |-> {[key |-> v, tier |-> requested[v]] : v \in {v \in Vids : requested[v] \in Tiers}}]
    /\ UNCHANGED <<cacheVars, reader, requested, compare, calls, close, writer, unfinished, asked,
                   pending, alone, retried, opening, held, running, finished, procs, pool, step, writes, scanned, raced,
                   count>>

QueueAgain ==
    /\ rebuild.at = "queue"
    /\ IF rebuild.todo = {}
       THEN rebuild' = [rebuild EXCEPT !.at = "no"] /\ UNCHANGED <<pending, opening, held, asked>>
       ELSE LET t == Min({c.tier : c \in rebuild.todo})
                K == {c.key : c \in {c \in rebuild.todo : c.tier = t}}
            IN /\ Submit(K, t)
               /\ rebuild' = [rebuild EXCEPT !.todo = {c \in @ : c.tier # t}]
               /\ asked' = IF pool.stopped THEN asked ELSE asked \cup K
    /\ UNCHANGED <<cacheVars, reader, requested, compare, calls, close, writer, unfinished,
                   alone, retried, running, finished, procs, pool, step, writes, scanned, raced, count>>

----------------------------------------------------------------------------
(* IndexCache.facts on another thread than the writer's. *)

Keep(r) == IF r.got # "none" /\ r.same THEN [lru EXCEPT ![r.vid] = r.got] ELSE lru

ReadFacts ==
    \/ \E v \in Vids :
        /\ Active /\ reader = {} /\ lru[v] = "none" /\ May("read") /\ Spend("read")
        /\ reader' = {[vid |-> v, got |-> "?", same |-> TRUE]}
        /\ UNCHANGED lru
    \/ \E r \in reader :
        /\ r.got = "?" /\ reader' = {[r EXCEPT !.got = db[r.vid]]}
        /\ UNCHANGED <<lru, count>>
    \/ \E r \in reader :
        /\ r.got # "?" /\ lru' = Keep(r) /\ reader' = {}
        /\ UNCHANGED count

Read == /\ ReadFacts
        /\ UNCHANGED <<db, known, views, answers, strikes, deepDone, warmed, requested, compare, calls, rebuild,
                       close, writer, unfinished, asked, pending, alone, retried, opening, held, running, finished,
                       procs, pool, step, writes, scanned, raced>>

----------------------------------------------------------------------------
(* The writer thread: one operation at a time, in its locked parts. *)

Bump == reader' = {[r EXCEPT !.same = FALSE] : r \in reader}      \* the generation moves on
Facts(v) == IF lru[v] # "none" THEN lru[v] ELSE db[v]             \* IndexCache.facts on this thread
Goto(at, v) == writer' = [at |-> at, vid |-> v]
Strike(k) == strikes' = [strikes EXCEPT ![VidOf(k)] = @ + 1]

\* Each operation's first step; the cache's transaction is in it.
StoreResult(o) ==
    /\ o.op = "result" /\ o.key \in Vids /\ o.result # "mismatch"
    /\ db' = [db EXCEPT ![o.key] = "now"]
    /\ Goto("forget", {o.key})
    /\ UNCHANGED <<lru, known, views, answers, strikes, deepDone, warmed, reader, compare, rebuild>>

\* Bytes that are not the version's, a failed job, a row the database refuses.
Failed(o) ==
    /\ \/ o.op = "result" /\ o.key \in Vids /\ o.result = "mismatch"
       \/ o.op = "failure" /\ o.key \in Vids
    /\ Strike(o.key)
    /\ Goto("check", {})
    /\ UNCHANGED <<db, lru, known, views, answers, deepDone, warmed, reader, compare, rebuild>>

DeepReady(o) ==
    /\ o.op \in {"result", "failure"} /\ o.key \notin Vids
    /\ deepDone' = IF o.op = "result" /\ o.result = "ok" THEN deepDone \cup {VidOf(o.key)} ELSE deepDone
    /\ Goto("check", {})
    /\ UNCHANGED <<db, lru, known, views, answers, strikes, warmed, reader, compare, rebuild>>

Compare(o) ==
    /\ o.op = "compare"
    /\ LET from == [v \in {o.key[1], o.key[2]} |-> Facts(v)]
       IN answers' = IF \E v \in DOMAIN from : from[v] = "none" THEN answers
                     ELSE {a \in answers : a.pair # o.key} \cup {[pair |-> o.key, from |-> from]}
    /\ compare' = compare \ {o.key}
    /\ lru' = [v \in Vids |-> IF v \in {o.key[1], o.key[2]} THEN Facts(v) ELSE lru[v]]
    /\ Goto("check", {})
    /\ UNCHANGED <<db, known, views, strikes, deepDone, warmed, reader, rebuild>>

CollectGarbage(o) ==
    /\ o.op = "gc"
    /\ \E gone \in SUBSET {v \in Vids : db[v] # "none"} :
        /\ db' = [v \in Vids |-> IF v \in gone THEN "none" ELSE db[v]]
        /\ lru' = [v \in Vids |-> IF v \in gone THEN "none" ELSE lru[v]]
        /\ known' = IF gone = {} THEN known ELSE db'
        /\ views' = [v \in Vids |-> IF known'[v] = "none" THEN "none" ELSE views[v]]
    /\ Bump
    /\ Goto("check", {})
    /\ UNCHANGED <<answers, strikes, deepDone, warmed, compare, rebuild>>

Warm(o) ==
    /\ o.op = "warm"
    /\ LET seen == {v \in Vids : known[v] # "none"}
       IN /\ views' = [v \in Vids |-> IF v \in seen THEN Facts(v) ELSE views[v]]
          /\ lru' = [v \in Vids |-> IF v \in seen THEN Facts(v) ELSE lru[v]]
    /\ warmed' = TRUE
    /\ Goto("check", {})
    /\ UNCHANGED <<db, known, answers, strikes, deepDone, reader, compare, rebuild>>

ClearCache(o) ==
    /\ o.op = "clear"
    /\ db' = None
    /\ Goto("wipe", {})
    /\ UNCHANGED <<lru, known, views, answers, strikes, deepDone, warmed, reader, compare, rebuild>>

Apply(o) == \/ StoreResult(o) \/ Failed(o) \/ DeepReady(o) \/ Compare(o) \/ CollectGarbage(o) \/ Warm(o)
            \/ ClearCache(o)
            \/ o.op = "touch" /\ Goto("check", {}) /\ UNCHANGED <<cacheVars, reader, compare, rebuild>>

\* _apply_safely: the database is busy to the end of the backoff and the operation is dropped; the
\* item is refused and is a failure; or the cache fails and indexing stops.
Trouble(o) ==
    /\ May("trouble") /\ Spend("trouble") /\ o.op # "warm"
    /\ Goto("check", {})
    /\ \/ UNCHANGED <<strikes, pool>>
       \/ o.op \in {"result", "failure"} /\ Strike(o.key) /\ UNCHANGED pool
       \/ Pause /\ UNCHANGED strikes
    /\ UNCHANGED <<db, lru, known, views, answers, deepDone, warmed, reader, compare, rebuild>>

Settles(o) == IF o.op \in {"result", "failure"} THEN {o.key} ELSE {}

TakeOp ==
    /\ writer.at = "idle" /\ writes # <<>>
    /\ LET o == Head(writes)
       IN /\ writes' = Tail(writes)
          /\ IF close.abandon \/ o.op = "end"
             THEN Goto("leave", {}) /\ UNCHANGED <<cacheVars, reader, compare, rebuild, unfinished, asked, pool, count>>
             ELSE /\ \/ Apply(o) /\ UNCHANGED <<pool, count>>
                     \/ Trouble(o)
                  /\ unfinished' = (unfinished \/ o.op = "result")
                  /\ asked' = IF \E i \in 1..Len(writes') : Settles(writes'[i]) # {} /\ Settles(writes'[i]) = Settles(o)
                              THEN asked ELSE asked \ Settles(o)
    /\ UNCHANGED <<requested, calls, close, pending, alone, retried, opening, held, running, finished,
                   procs, step, scanned, raced>>

\* write_result's _forget, and IndexCache.clear's second part.
Forget == /\ writer.at \in {"forget", "wipe"}
          /\ Bump
          /\ lru' = IF writer.at = "wipe" THEN None
                    ELSE [v \in Vids |-> IF v \in writer.vid THEN "none" ELSE lru[v]]
          /\ writer' = [writer EXCEPT !.at = IF @ = "forget" THEN "view" ELSE "unknow"]
          /\ UNCHANGED <<db, known, views, answers, strikes, deepDone, warmed, compare, rebuild>>

\* Mutant (AnswersAreCurrent): what was compared with the version's old facts stays.
RememberOnly == /\ writer.at = "view"
                /\ views' = [v \in Vids |-> IF v \in writer.vid THEN Facts(v) ELSE views[v]]
                /\ lru' = [v \in Vids |-> IF v \in writer.vid THEN Facts(v) ELSE lru[v]]
                /\ Goto("known", writer.vid)
                /\ UNCHANGED <<db, known, answers, strikes, deepDone, warmed, reader, compare, rebuild>>

RememberView == /\ writer.at = "view"
                /\ views' = [v \in Vids |-> IF v \in writer.vid THEN Facts(v) ELSE views[v]]
                /\ lru' = [v \in Vids |-> IF v \in writer.vid THEN Facts(v) ELSE lru[v]]
                /\ answers' = {a \in answers : DOMAIN a.from \cap writer.vid = {}}
                /\ Goto("known", writer.vid)
                /\ UNCHANGED <<db, known, strikes, deepDone, warmed, reader, compare, rebuild>>

Unknow == /\ writer.at = "unknow"                           \* self._known.clear()
          /\ known' = None
          /\ writer' = [writer EXCEPT !.at = "unview"]
          /\ UNCHANGED <<db, lru, views, answers, strikes, deepDone, warmed, reader, compare, rebuild>>

Unview == /\ writer.at = "unview"
          /\ views' = None /\ answers' = {} /\ compare' = {}
          /\ strikes' = [v \in Vids |-> 0]
          /\ Goto("check", {})
          /\ UNCHANGED <<db, lru, known, deepDone, warmed, reader, rebuild>>

MarkKnown == /\ writer.at = "known"
             /\ known' = [v \in Vids |-> IF v \in writer.vid THEN "now" ELSE known[v]]
             /\ strikes' = [v \in Vids |-> IF v \in writer.vid THEN 0 ELSE strikes[v]]
             /\ Goto("check", {})
             /\ UNCHANGED <<db, lru, views, answers, deepDone, warmed, reader, compare, rebuild>>

GoOn == /\ \/ Forget \/ RememberView \/ Unknow \/ Unview \/ MarkKnown
        /\ UNCHANGED <<poolVars, unfinished, requested, calls, close, asked>>

Announce == /\ writer.at = "check" /\ Goto("idle", {})
            /\ unfinished' = (unfinished /\ ~(IsIdle /\ writes = <<>>))

CheckFinished == /\ Announce
                 /\ UNCHANGED <<poolVars, cacheVars, callVars, asked>>

----------------------------------------------------------------------------
(* Closing: the dispatcher, the executor, the writer, the cache. *)

StartClose ==
    /\ close.at = "open" /\ rebuild.at = "no" /\ May("close") /\ Spend("close")
    /\ Stop
    /\ close' = [close EXCEPT !.at = "stopping"]
    /\ asked' = {}
    /\ UNCHANGED <<cacheVars, reader, requested, compare, calls, rebuild, writer, unfinished,
                   pending, alone, retried, opening, held, running, finished, procs, step, writes, scanned, raced>>

\* The wait for the dispatcher thread ended or timed out; the writer is told to end.
EndDispatcher ==
    /\ close.at = "stopping"
    /\ CloseExecutor
    /\ Put([op |-> "end", key |-> "all"])
    /\ close' = [close EXCEPT !.at = "joining"]
    /\ UNCHANGED <<cacheVars, reader, requested, compare, calls, rebuild, writer, unfinished, asked,
                   pending, alone, retried, opening, held, running, finished, step, scanned, raced, count>>

\* The join ended or timed out: who closes the cache is decided under the hand-off lock.
EndWriter ==
    /\ close.at = "joining"
    /\ writer.at = "gone" \/ May("wait")
    /\ close' = IF writer.at = "gone" THEN [close EXCEPT !.at = "done", !.closed = TRUE]
                                      ELSE [close EXCEPT !.at = "done", !.abandon = TRUE]

JoinWriter ==
    /\ EndWriter
    /\ IF writer.at = "gone" THEN UNCHANGED count ELSE Spend("wait")
    /\ UNCHANGED <<cacheVars, reader, requested, compare, calls, rebuild, writer, unfinished, asked,
                   pending, alone, retried, opening, held, running, finished, procs, pool, step, writes, scanned, raced>>

Leave ==
    /\ \/ /\ writer.at = "leave"
          /\ Goto(IF close.abandon THEN "closing" ELSE "gone", {}) /\ UNCHANGED close
       \/ /\ writer.at = "closing"
          /\ Goto("gone", {}) /\ close' = [close EXCEPT !.closed = TRUE]
    /\ UNCHANGED <<poolVars, cacheVars, reader, requested, compare, calls, rebuild, unfinished, asked>>

----------------------------------------------------------------------------
Init ==
    /\ pending = {} /\ alone = {} /\ retried = {} /\ opening = {} /\ held = {} /\ running = {}
    /\ finished = {} /\ procs = {} /\ step = Idling /\ raced = FALSE
    /\ count \in Counts
    /\ pool = [paused |-> FALSE, stopped |-> FALSE, playing |-> FALSE, closed |-> FALSE, inline |-> May("inline")]
    /\ db \in Stored
    /\ known = db /\ lru = None /\ answers = {} /\ deepDone = {}
    /\ \/ /\ May("cold")                                   \* the service was just made
          /\ writes = <<[op |-> "gc", key |-> "all"], [op |-> "warm", key |-> "all"]>>
          /\ scanned = FALSE /\ warmed = FALSE /\ views = None
       \/ /\ ~May("cold")                                  \* loaded, the vault scanned, nothing asked
          /\ writes = <<>> /\ scanned = TRUE /\ warmed = TRUE /\ views = db
    /\ strikes = [v \in Vids |-> 0]
    /\ writer = Resting /\ unfinished = FALSE /\ reader = {} /\ compare = {} /\ calls = {}
    /\ requested = [v \in Vids |-> 9]
    /\ rebuild = [at |-> "no", todo |-> {}]
    /\ close = [at |-> "open", abandon |-> FALSE, closed |-> FALSE]
    /\ asked = {}

\* A key read before the scan is dropped quietly: it is asked for again.
Dropped == IF step.at = "open" /\ step'.at = "idle" /\ ~scanned THEN KeysOf(opening) ELSE {}
Step(A) == A /\ asked' = asked \ Dropped /\ UNCHANGED <<cacheVars, callVars, writer, unfinished>>
Dispatch == Step(PoolNext)

WriterNext == TakeOp \/ GoOn \/ CheckFinished \/ Leave
CallNext == \/ Request \/ RequestDeep \/ QueueRefresh \/ Queue \/ Changes \/ PauseIndex \/ ResumeIndex \/ CancelIndex
            \/ StartRebuild \/ AfterClear \/ QueueAgain \/ Read \/ StartClose \/ EndDispatcher \/ JoinWriter

Next == Dispatch \/ WriterNext \/ CallNext

\* Every round of the dispatcher collects, looks for dead and hung workers and starts one job, so
\* each of these is strongly fair; a worker that is neither dead nor hung ends its job; the writer
\* and the callers go on with what they began.
Fairness ==
    /\ SF_vars(Step(Collect)) /\ SF_vars(Step(Reap)) /\ SF_vars(Step(WatchHung))
    /\ WF_vars(Step(TakeHeld \/ Pop \/ Open \/ Place \/ HandOver))
    /\ WF_vars(Step(Finish)) /\ WF_vars(WriterNext)
    /\ WF_vars(Queue \/ AfterClear \/ QueueAgain) /\ WF_vars(EndDispatcher) /\ WF_vars(JoinWriter)

Spec == Init /\ [][Next]_vars /\ Fairness

----------------------------------------------------------------------------
(* What must hold. *)

Jobs == [token : Nat, key : Keys, tier : Tiers, alone : BOOLEAN]

\* The types of the variables.
TypeOK ==
    /\ pending \cup opening \subseteq [key : Keys, tier : Tiers]
    /\ held \subseteq [key : Keys, tier : Tiers, alone : BOOLEAN]
    /\ running \subseteq Jobs /\ alone \cup retried \cup asked \subseteq Keys
    /\ Cardinality(opening) <= 1 /\ Cardinality(held) <= 1 /\ Cardinality(step.job) <= 1
    /\ step.at \in {"idle", "open", "opened", "submit"}
    /\ {db, lru, known, views} \subseteq [Vids -> Ages] /\ strikes \in [Vids -> Nat]
    /\ writer.at \in {"idle", "forget", "view", "known", "wipe", "unknow", "unview", "check", "leave", "closing", "gone"}
    /\ close.at \in {"open", "stopping", "joining", "done"}

\* A version somebody asked for is waiting, read, held, running or reported: a crash, a hung or late
\* worker, a cancel or a pause loses no job (pool.py _requeue, cancel, _watchdog).
NothingForgotten ==
    asked \subseteq KeysOf(pending \cup opening \cup held \cup running)
                   \cup UNION {Settles(writes[i]) : i \in 1..Len(writes)}

\* A version is queued, read, held or running in one place only (submit, _requeue, cancel), unless
\* a cancel fell between the locks of the scheduling step.
NeverTwice ==
    ~raced => /\ KeysOf(pending) \cap KeysOf(opening \cup held \cup running) = {}
              /\ KeysOf(opening) \cap KeysOf(held \cup running) = {}
              /\ KeysOf(held) \cap KeysOf(running) = {}
              /\ Cardinality(running) = Cardinality(KeysOf(running))

\* What runs fits: a job that must be alone is, the others stay within the workers and the memory,
\* and one worker stays free of background work (pool.py _fits), whatever the workers were told
\* before and however tiers and the game changed meanwhile.
CapacityKept ==
    /\ (\E r \in running : r.alone \/ Size[r.key] > Budget \div 2) => Cardinality(running) = 1
    /\ Cardinality(running) <= MaxWorkers
    /\ Cardinality(running) > 1 => Load(running) <= Budget
    /\ Reserves => Cardinality({r \in running : r.tier # INTERACTIVE}) < MaxWorkers
    /\ ~raced => {p.token : p \in procs} \subseteq Tokens

\* When nothing is queued or running and every result is handled, "finished" was announced
\* (service.py _write_ops): the last result never waits for a later request.
QuietIsFinished ==
    Active /\ IsIdle /\ writes = <<>> /\ writer.at = "idle" => ~unfinished

\* Facts kept in memory are those of the row (cache.py facts, _forget): a read begun before a write
\* never brings the old facts back.
LruIsTrue == writer.at \notin {"forget", "wipe"} => \A v \in Vids : lru[v] \in {"none", db[v]}

\* A version the service calls indexed has its view, and the same one (service.py _apply, clear, gc).
OkHasView ==
    warmed => \A v \in Vids : known[v] # "none" =>
                 views[v] # "none" /\ (writer.at # "known" => views[v] = known[v])

\* An answer a caller is given was worked out from the facts whose views are shown.
AnswersCurrent == \A a \in answers : \A v \in DOMAIN a.from : a.from[v] = views[v]

\* The cache is closed after the writer's last operation, whoever closes it (service.py close).
ClosedLast == close.closed => writer.at = "gone"

\* What was asked for is stored or reported, unless indexing is paused or the game runs.
EveryRequestEnds == []<>(asked = {} \/ pool.paused \/ pool.playing)

\* Closing ends with the cache closed, also when the writer is given up.
CacheGetsClosed == Closed ~> close.closed

\* The pool's work is neither lost nor done twice: a key wanted is queued, running or
\* done, running jobs fit, and a quiet index is finished.
WorkIsKept == TypeOK /\ NothingForgotten /\ NeverTwice /\ CapacityKept /\ QuietIsFinished

\* What the index answers is what is stored: the views, the kept documents and the
\* compares, until after the last writer.
AnswersAreCurrent == OkHasView /\ AnswersCurrent /\ LruIsTrue /\ ClosedLast

\* Every question to the index is answered and, on close, its cache is closed.
RequestsEnd == EveryRequestEnds /\ CacheGetsClosed
=============================================================================
