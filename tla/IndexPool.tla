----------------------------- MODULE IndexPool -----------------------------
(***************************************************************************)
(* The dispatcher of the content index and the workers it drives           *)
(* (core/index/pool.py).  One dispatcher thread takes a key from the       *)
(* queue, reads its bytes outside the lock, waits with it for room and     *)
(* hands it to a worker; other threads queue keys, pause, cancel and       *)
(* clear in between.  The order of two keys of one tier, the reading of    *)
(* the clock and the superseded entries of the heap are left out: a late   *)
(* job is any job, and of the best tier any key is taken.                  *)
(***************************************************************************)
EXTENDS Naturals, FiniteSets, Sequences, FiniteSetsExt, SequencesExt

CONSTANTS Keys,        \* queue keys: a version's facts, or its deep detail
          Size,        \* heap estimate of each key's job
          Budget,      \* memory_budget
          MaxWorkers,  \* workers of the policy in process mode
          Counts       \* what a behaviour may contain: a set of records of bounds

ASSUME PoolBounds == Size \in [Keys -> Nat] /\ Budget \in Nat /\ MaxWorkers \in Nat \ {0}

VARIABLES pending,     \* queued: at most one [key, tier] for each key
          alone,       \* keys to be run alone
          retried,     \* keys whose job was given its second chance
          opening,     \* the key whose bytes are being read, if any
          held,        \* the job whose bytes are read and that waits for room, if any
          running,     \* jobs handed out: [token, key, tier, alone]
          finished,    \* completions nobody collected: [token, result]
          procs,       \* jobs in worker processes: [token, key, is]
          pool,        \* paused, stopped, playing (as last checked), inline, closed
          step,        \* where the dispatcher thread is in _start_one, and with which job
          writes,      \* the operations queued for the writer thread
          scanned,     \* has the organizer scanned: can the locator open bytes
          raced,       \* a cancel fell inside the dispatcher's scheduling step
          count        \* how often each bounded thing may still happen

poolVars == <<pending, alone, retried, opening, held, running, finished, procs, pool, step, writes,
              scanned, raced, count>>

INTERACTIVE == 0
FRESH == 3
BACKFILL == 4
REFRESH == 5
Tiers == {INTERACTIVE, FRESH, BACKFILL, REFRESH}
PAUSED_WHILE_PLAYING == {BACKFILL, REFRESH}

Idling   == [at |-> "idle", job |-> {}]
KeysOf(S) == {e.key : e \in S}
Tokens   == {r.token : r \in running}
May(c)   == count[c] > 0
Spend(c) == count' = [count EXCEPT ![c] = @ - 1]
Lower(a, b) == IF a < b THEN a ELSE b

Push(Q, k, t) == IF k \in KeysOf(Q) THEN Q ELSE Q \cup {[key |-> k, tier |-> t]}
Allowed(t)    == ~(pool.playing /\ t \in PAUSED_WHILE_PLAYING)
Workers       == IF pool.playing \/ pool.inline THEN 1 ELSE MaxWorkers
Reserves      == ~pool.inline /\ MaxWorkers >= 3
Load(S)       == MapThenSumSet(LAMBDA r : Size[r.key], S)
IsIdle        == pending \cup opening \cup held \cup running = {}

----------------------------------------------------------------------------
(* Queueing and control: any thread, one locked step each. *)

Submit(K, t) ==
    LET free  == K \ KeysOf(running \cup opening \cup held)
        moved == {k \in free : \A e \in pending : e.key = k => e.tier > t}
        raise(S) == {[e EXCEPT !.tier = IF e.key \in K THEN Lower(@, t) ELSE @] : e \in S}
    IN /\ pending' = {e \in pending : e.key \notin moved} \cup [key : moved, tier : {t}]
       /\ opening' = raise(opening)
       /\ held' = raise(held)

Pause  == pool' = [pool EXCEPT !.paused = TRUE]
Resume == pool' = [pool EXCEPT !.paused = FALSE]

Cancel ==
    /\ Pause
    /\ pending' = pending \cup {[key |-> r.key, tier |-> r.tier] :
                                  r \in {r \in running \cup held : r.key \notin KeysOf(pending)}}
    /\ held' = {} /\ running' = {} /\ finished' = {} /\ procs' = {}
    /\ raced' = (raced \/ step.at = "submit" \/ (step.at = "opened" /\ held # {}))

Clear == pending' = {} /\ held' = {}
Stop  == pool' = [pool EXCEPT !.stopped = TRUE]
CloseExecutor == pool' = [pool EXCEPT !.closed = TRUE] /\ procs' = {}

----------------------------------------------------------------------------
(* The dispatcher thread: collect, find dead and hung workers, start one. *)

Tell(failures) == writes' = writes \o SetToSeq([op : {"failure"}, key : failures])

\* The jobs of R are lost: the first time a key goes back to run alone, then it is a failure.
RetryOrFail(R, back) ==
    LET again == {r \in R : r.key \notin retried}
    IN /\ retried' = retried \cup KeysOf(again)
       /\ alone' = alone \cup KeysOf(again)
       /\ pending' = pending \cup {[key |-> r.key, tier |-> r.tier] :
                                     r \in {r \in again \cup back : r.key \notin KeysOf(pending)}}
       /\ Tell(KeysOf(R \ again))

Report(r, result) ==
    IF result = "crash" \/ (result = "memory" /\ r.key \notin retried)
    THEN RetryOrFail({r}, {})
    ELSE /\ writes' = Append(writes, [op |-> "result", key |-> r.key, result |-> result])
         /\ UNCHANGED <<pending, alone, retried>>

Collect ==
    \E f \in finished :
        /\ step.at = "idle"
        /\ finished' = finished \ {f}
        /\ running' = {r \in running : r.token # f.token}
        /\ IF f.token \in Tokens THEN \E r \in running : r.token = f.token /\ Report(r, f.result)
                                 ELSE UNCHANGED <<pending, alone, retried, writes>>
        /\ UNCHANGED <<opening, held, procs, pool, step, scanned, raced, count>>

\* A worker process that ended without a result, after the grace period.
Reap ==
    \E r \in running :
        /\ step.at = "idle"
        /\ \E p \in procs : p.token = r.token /\ p.is = "dead"
        /\ running' = running \ {r}
        /\ procs' = {p \in procs : p.token # r.token}
        /\ RetryOrFail({r}, {})
        /\ UNCHANGED <<opening, held, finished, pool, step, scanned, raced, count>>

\* Mutant (RequestsEnd): a job that runs alone is not watched.
HungTogether(r) == ~r.alone /\ \E p \in procs : p.token = r.token /\ p.is = "hung"

Hung(r) == \E p \in procs : p.token = r.token /\ p.is = "hung"

\* Mutant (WorkIsKept): terminating the workers forgets the jobs that were on time.
WatchdogDrops(late) ==
    /\ step.at = "idle" /\ ~pool.inline
    /\ running' = {} /\ finished' = {} /\ procs' = {}
    /\ RetryOrFail(late, {})
    /\ UNCHANGED <<opening, held, pool, step, scanned, raced>>

Watchdog(late) ==
    /\ step.at = "idle" /\ ~pool.inline
    /\ running' = {} /\ finished' = {} /\ procs' = {}
    /\ RetryOrFail(late, running \ late)
    /\ UNCHANGED <<opening, held, pool, step, scanned, raced>>

WatchHung == \E late \in SUBSET running :
                /\ late # {} /\ \A r \in late : Hung(r)
                /\ Watchdog(late) /\ UNCHANGED count
WatchSlow == \E late \in SUBSET running : late # {} /\ May("slow") /\ Watchdog(late) /\ Spend("slow")

CheckGame == /\ step.at = "idle" /\ May("game") /\ Spend("game")
             /\ pool' = [pool EXCEPT !.playing = ~@]
             /\ UNCHANGED <<pending, alone, retried, opening, held, running, finished, procs, step, writes,
                            scanned, raced>>

\* _start_one up to its first unlock: the waiting job, or the best key of the queue.
TakeHeld == /\ step.at = "idle" /\ held # {} /\ ~pool.paused /\ ~pool.stopped
            /\ step' = [at |-> "opened", job |-> held]
            /\ UNCHANGED <<pending, alone, retried, opening, held, running, finished, procs, pool, writes,
                           scanned, raced, count>>

Pop == \E e \in pending :
        /\ step.at = "idle" /\ held = {} /\ ~pool.paused /\ ~pool.stopped
        /\ \A f \in pending : e.tier <= f.tier
        /\ Allowed(e.tier)
        /\ pending' = pending \ {e}
        /\ opening' = {e}
        /\ step' = [at |-> "open", job |-> {}]
        /\ UNCHANGED <<alone, retried, held, running, finished, procs, pool, writes, scanned, raced, count>>

Open == \E e \in opening :
    /\ step.at = "open"
    /\ \/ /\ scanned
          /\ step' = [at |-> "opened",
                      job |-> {[key |-> e.key, tier |-> e.tier,
                                alone |-> e.key \in alone \/ Size[e.key] > Budget \div 2]}]
          /\ alone' = alone \ {e.key}
          /\ UNCHANGED <<opening, writes, count>>
       \/ /\ ~scanned                                      \* NotReady: dropped quietly
          /\ opening' = {} /\ step' = Idling /\ UNCHANGED <<alone, writes, count>>
       \/ /\ May("unavailable") /\ Spend("unavailable")
          /\ opening' = {} /\ step' = Idling /\ Tell({e.key}) /\ UNCHANGED alone
    /\ UNCHANGED <<pending, retried, held, running, finished, procs, pool, scanned, raced>>

Fits(job) ==
    LET background == {r \in running : r.tier # INTERACTIVE}
    IN /\ Allowed(job.tier)
       /\ \A r \in running : ~r.alone
       /\ IF job.alone THEN running = {}
          ELSE /\ Cardinality(running) < Workers
               /\ ~(/\ Reserves /\ ~pool.playing /\ job.tier # INTERACTIVE
                    /\ Cardinality(background) >= Workers - 1)
               /\ Load(running) + Size[job.key] <= Budget

NextToken == CHOOSE n \in 1..(Cardinality(running) + Cardinality(procs) + Cardinality(finished) + 1) :
                n \notin Tokens \cup {p.token : p \in procs} \cup {f.token : f \in finished}

Settle(job) ==                                             \* _start_one's second locked part
    \/ /\ pool.stopped                                     \* opened while stopping: dropped
       /\ step' = Idling /\ UNCHANGED <<pending, alone, held, running>>
    \/ /\ ~pool.stopped /\ pool.paused                     \* kept for resume
       /\ held' = {job} /\ step' = Idling /\ UNCHANGED <<pending, alone, running>>
    \/ /\ ~pool.stopped /\ ~pool.paused /\ ~Fits(job)
       /\ step' = Idling
       /\ UNCHANGED running
       /\ IF \E e \in pending : e.tier < job.tier
          THEN /\ held' = {}                               \* the more urgent one goes first
               /\ alone' = IF job.alone THEN alone \cup {job.key} ELSE alone
               /\ pending' = {e \in pending : e.key # job.key} \cup {[key |-> job.key, tier |-> job.tier]}
          ELSE held' = {job} /\ UNCHANGED <<pending, alone>>
    \/ /\ ~pool.stopped /\ ~pool.paused /\ Fits(job)
       /\ held' = {}
       /\ LET r == [token |-> NextToken, key |-> job.key, tier |-> job.tier, alone |-> job.alone]
          IN running' = running \cup {r} /\ step' = [at |-> "submit", job |-> {r}]
       /\ UNCHANGED <<pending, alone>>

Place == \E j \in step.job :
    /\ step.at = "opened"
    /\ LET raised == {e.tier : e \in {e \in opening \cup held : e.key = j.key}}
       IN Settle([j EXCEPT !.tier = IF raised = {} THEN @ ELSE Lower(@, Min(raised))])
    /\ opening' = {}
    /\ UNCHANGED <<retried, finished, procs, pool, writes, scanned, raced, count>>

Outcomes == {"ok", "memory", "mismatch"}
MayBe(result) == IF result = "ok" THEN UNCHANGED count ELSE May("bad") /\ Spend("bad")

\* The job is handed to a worker, run on the spot, refused by a closed executor, or not started.
HandOver == \E r \in step.job :
    /\ step.at = "submit"
    /\ step' = Idling
    /\ \/ /\ ~pool.inline /\ ~pool.closed
          /\ procs' = procs \cup {[token |-> r.token, key |-> r.key, is |-> "live"]}
          /\ UNCHANGED <<pending, alone, retried, running, finished, writes, count>>
       \/ /\ pool.inline
          /\ \E res \in Outcomes \cup {"crash"} :
                MayBe(res) /\ finished' = finished \cup {[token |-> r.token, result |-> res]}
          /\ UNCHANGED <<pending, alone, retried, running, procs, writes>>
       \/ /\ ~pool.inline /\ pool.closed                   \* ExecutorClosed
          /\ running' = running \ {r} /\ pending' = Push(pending, r.key, r.tier)
          /\ UNCHANGED <<alone, retried, finished, procs, writes, count>>
       \/ /\ ~pool.inline /\ ~pool.closed /\ May("broken") /\ Spend("broken")
          /\ running' = running \ {r}
          /\ IF r \in running THEN RetryOrFail({r}, {}) ELSE UNCHANGED <<pending, alone, retried, writes>>
          /\ UNCHANGED <<finished, procs>>
    /\ UNCHANGED <<opening, held, pool, scanned, raced>>

----------------------------------------------------------------------------
(* The worker processes. *)

Finish == \E p \in procs, res \in Outcomes :
    /\ p.is = "live" /\ MayBe(res)
    /\ procs' = procs \ {p}
    /\ finished' = finished \cup {[token |-> p.token, result |-> res]}
    /\ UNCHANGED <<pending, alone, retried, opening, held, running, pool, step, writes, scanned, raced>>

GoWrong == \E p \in procs, is \in {"hung", "dead"} :
    /\ p.is = "live" /\ May("wrong") /\ Spend("wrong")
    /\ procs' = (procs \ {p}) \cup {[p EXCEPT !.is = is]}
    /\ UNCHANGED <<pending, alone, retried, opening, held, running, finished, pool, step, writes, scanned, raced>>

PoolNext == \/ Collect \/ Reap \/ WatchHung \/ WatchSlow \/ CheckGame \/ TakeHeld \/ Pop \/ Open \/ Place
            \/ HandOver \/ Finish \/ GoWrong
=============================================================================
