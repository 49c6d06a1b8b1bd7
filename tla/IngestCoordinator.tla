-------------------------- MODULE IngestCoordinator --------------------------
(***************************************************************************)
(* The ingest-coordinator thread of the queue orchestrator, the worker pool  *)
(* it fills, and the main thread that replaces the pool.                     *)
(*                                                                           *)
(* The coordinator claims ingest jobs from the job store, submits each to    *)
(* the pool, keeps the future and the claim in local maps, and drains ready  *)
(* results into ack, requeue or retry.  It protects its own leases from the  *)
(* reaper, replaces a bare TimeoutError by a sentinel whose lease may run    *)
(* out, and asks the main thread for a new pool when a future is too old.    *)
(* The job store is the leased queue of LeasedQueue, one action per call.    *)
(***************************************************************************)
EXTENDS LeasedQueue, FiniteSets

CONSTANTS
  Cap,          \* ingest_pool_size
  SkipBudget,   \* claims a fill call may turn away
  MaxAttempts,  \* job_max_attempts
  MaxPool       \* bound: pools created

ASSUME CoordinatorAssumption ==
  /\ IsFiniteSet(Jobs)
  /\ MaxToken \in Nat /\ MaxPool \in Nat \ {0}
  /\ Cap \in Nat \ {0} /\ SkipBudget \in Nat \ {0} /\ MaxAttempts \in Nat \ {0}

VARIABLES
  attempt,      \* the attempt field of each job's payload
  local,        \* ingest_inflight, ingest_leases, ingest_submitted
  task,         \* tasks in the pools: [job, id, pool, st]
  pc,           \* where the coordinator is in its tick
  draining,     \* what it read of the shutdown flag at the top of the tick
  todo,         \* results the drain pass has not looked at yet
  batch,        \* jobs of the current claim not yet admitted or turned away
  room,         \* slots of the band being filled
  skips,        \* claims this fill call turned away
  seen,         \* the pool read at the start of the fill
  pool,         \* AtomicPoolRef: number of the current pool
  terminated,   \* pools that have been terminated
  requested,    \* recycle_gate.recycle_requested
  paused,       \* recycle_gate.paused
  main,         \* where the main thread is in its loop
  shutdown      \* shutdown_requested or barrier.draining

fillVars == <<batch, room, skips, seen>>
gateVars == <<pool, terminated, requested, paused>>
coordVars == <<local, pc, draining, todo, fillVars>>
vars == <<queue, attempt, task, coordVars, gateVars, main, shutdown>>

-----------------------------------------------------------------------------
\* owner: the token of the claim, 0 when the claim is gone; id: of the future.
NoLocal == [owner |-> 0, id |-> 0, st |-> "none", old |-> FALSE]
Locals == {j \in Jobs : local[j].st # "none"}
Sentinels == {j \in Jobs : local[j].st = "sentinel"}

\* The task behind the future of job j.
TaskOf(j) == CHOOSE t \in task : t.job = j /\ t.id = local[j].id

Ready(j) ==
  \/ local[j].st = "sentinel"
  \/ local[j].st = "future" /\ TaskOf(j).st # "run"

Forget(S) == [j \in Jobs |-> IF j \in S THEN NoLocal ELSE local[j]]

\* ack_job and requeue_job change nothing for a caller without the lease.
Ack(j, o) == IF LeasedTo(j, o) THEN Finish(j, o) ELSE UNCHANGED queue
Requeue(j, o) == IF LeasedTo(j, o) THEN Return(j, o) ELSE UNCHANGED queue

\* _requeue_pool_collateral, _release_claims_on_shutdown: every local claim that
\* still holds its lease goes back.
RequeueAll ==
  /\ entry' = Put({j \in Locals : LeasedTo(j, local[j].owner)}, Waiting)
  /\ UNCHANGED minted

Init ==
  /\ QueueInit
  /\ attempt = [j \in Jobs |-> 0]
  /\ local = [j \in Jobs |-> NoLocal]
  /\ task = {}
  /\ pc = "top" /\ draining = FALSE /\ todo = {}
  /\ batch = {} /\ room = 0 /\ skips = 0 /\ seen = 1
  /\ pool = 1 /\ terminated = {} /\ requested = FALSE /\ paused = FALSE
  /\ main = "poll" /\ shutdown = FALSE

-----------------------------------------------------------------------------
(* The surroundings: discover, the clock, the pool's threads, shutdown.      *)

\* zadd_ingest by discover, reconstruct or a hand-off from day close.
Discover(j) ==
  /\ Add(j)
  /\ UNCHANGED <<attempt, task, coordVars, gateVars, main, shutdown>>

Deadline(j) ==
  /\ Expire(j)
  /\ UNCHANGED <<attempt, task, coordVars, gateVars, main, shutdown>>

\* A future reaches the age of sync_ingest_stuck_inflight_recycle_s (an hour).
\* The four statements of the main thread's recycle take less than that.
Age(j) ==
  /\ local[j].st # "none" /\ ~local[j].old /\ main = "poll" /\ pool < MaxPool
  /\ local' = [local EXCEPT ![j].old = TRUE]
  /\ UNCHANGED <<queue, attempt, task, pc, draining, todo, fillVars, gateVars,
                 main, shutdown>>

\* ok: the file is in the database, or PostgreSQL refused the connection; the
\* drain acknowledges both.
Outcomes == {"ok", "fail", "timeout", "bare"}

\* A pool thread finishes _ingest_parse_worker; nobody waits for the result of
\* a task the coordinator has forgotten.
TaskEnds(t) ==
  /\ t.st = "run"
  /\ \E r \in Outcomes :
       task' = (task \ {t}) \cup
         (IF local[t.job].st = "future" /\ local[t.job].id = t.id
          THEN {[t EXCEPT !.st = r]} ELSE {})
  /\ UNCHANGED <<queue, attempt, coordVars, gateVars, main, shutdown>>

RequestShutdown ==
  /\ ~shutdown
  /\ shutdown' = TRUE
  /\ UNCHANGED <<queue, attempt, task, coordVars, gateVars, main>>

-----------------------------------------------------------------------------
(* The coordinator's tick.                                                   *)

\* Mutant of Top: the pause is entered without telling the main thread.
TopSilent ==
  /\ pc = "top"
  /\ draining' = shutdown
  /\ pc' = IF requested THEN "pause" ELSE "decide"
  /\ UNCHANGED <<queue, attempt, task, local, todo, fillVars, gateVars, main,
                 shutdown>>

\* Top of the loop: read the flags, enter the pause if a recycle is requested.
Top ==
  /\ pc = "top"
  /\ draining' = shutdown
  /\ paused' = (paused \/ requested)
  /\ pc' = IF requested THEN "pause" ELSE "decide"
  /\ UNCHANGED <<queue, attempt, task, local, todo, fillVars, pool, terminated,
                 requested, main, shutdown>>

PauseEnds ==
  /\ pc = "pause" /\ (~requested \/ shutdown)
  /\ paused' = FALSE
  /\ pc' = "decide"
  /\ UNCHANGED <<queue, attempt, task, local, draining, todo, fillVars, pool,
                 terminated, requested, main, shutdown>>

\* _reconcile_local_ingest_maps_to_store: unfinished futures without a lease in
\* the store are forgotten, when the store looks under-used.
Pruned ==
  LET hlen == Cardinality(InState("leased"))
      n == Cardinality(Locals)
  IN IF InState("queued") # {} /\ (hlen < Cap \/ n > hlen \/ n >= Cap)
     THEN {j \in Locals : ~Ready(j) /\ entry[j].st # "leased"}
     ELSE {}

\* Fill, drain and fill again, or drain only.
Decide ==
  /\ pc = "decide"
  /\ IF ~draining /\ ~requested
     THEN /\ local' = Forget(Pruned)
          /\ seen' = pool /\ skips' = 0
          /\ pc' = "fill1"
          /\ UNCHANGED todo
     ELSE /\ todo' = Locals
          /\ pc' = "drainOnly"
          /\ UNCHANGED <<local, seen, skips>>
  /\ UNCHANGED <<queue, attempt, task, draining, batch, room, gateVars, main,
                 shutdown>>

\* Mutant of BatchSize: the skip budget does not bound the batch.
BatchSizeIgnoresBudget(r, k) == r

\* max(1, min(free_total, free_band, max(1, budget - skipped)))
BatchSize(r, k) == IF k < SkipBudget /\ SkipBudget - k < r THEN SkipBudget - k ELSE r

\* Mutant of FillClaim: the loop does not stop at the skip budget.
FillClaimNoBudget(S) ==
  /\ pc \in {"fill1", "fill2"} /\ batch = {}
  /\ \E r \in 1 .. Cap - Cardinality(Locals), k \in {0, skips} :
       /\ Cardinality(S) <= BatchSize(r, k)
       /\ room' = r /\ skips' = k
  /\ Claim(S)
  /\ batch' = S
  /\ UNCHANGED <<attempt, task, local, pc, draining, todo, seen, gateVars, main,
                 shutdown>>

\* One round of _fill_ingest_band: a batch is claimed with one owner token.  The
\* band leaves room for r more; k is 0 when the round starts a new call.
FillClaim(S) ==
  /\ pc \in {"fill1", "fill2"} /\ batch = {}
  /\ \E r \in 1 .. Cap - Cardinality(Locals), k \in {0, skips} :
       /\ k < SkipBudget
       /\ Cardinality(S) <= BatchSize(r, k)
       /\ room' = r /\ skips' = k
  /\ Claim(S)
  /\ batch' = S
  /\ UNCHANGED <<attempt, task, local, pc, draining, todo, seen, gateVars, main,
                 shutdown>>

\* A claim turned away uses up the budget; at its end the batch is abandoned.
TurnAway(j) ==
  /\ skips' = skips + 1
  /\ batch' = IF skips' >= SkipBudget THEN {} ELSE batch \ {j}
  /\ UNCHANGED <<task, local, pc, draining, todo, room, seen, gateVars, main,
                 shutdown>>

\* Another band by now, or no memory for it: back to the queue.
SkipRequeue(j) ==
  /\ Return(j, minted)
  /\ TurnAway(j)
  /\ UNCHANGED attempt

\* A lock sidecar, or the file is gone.
SkipAck(j) ==
  /\ Finish(j, minted)
  /\ attempt' = [attempt EXCEPT ![j] = 0]
  /\ TurnAway(j)

\* apply_async to pool p: a terminated pool raises, and the coordinator dies.
Submit(j, p) ==
  /\ IF p \in terminated
     THEN /\ Return(j, minted)
          /\ pc' = "crashed" /\ batch' = {}
          /\ UNCHANGED <<local, task, room>>
     ELSE /\ local' = [local EXCEPT ![j] =
                          [owner |-> minted, id |-> minted, st |-> "future", old |-> FALSE]]
          /\ task' = task \cup {[job |-> j, id |-> minted, pool |-> p, st |-> "run"]}
          /\ room' = room - 1 /\ batch' = batch \ {j}
          /\ UNCHANGED <<pc, queue>>
  /\ UNCHANGED <<attempt, draining, todo, skips, seen, gateVars, main, shutdown>>

\* A full pool hands the claim back; a full band too, and abandons the batch.
HandBack(j) ==
  /\ Return(j, minted)
  /\ batch' = IF Cardinality(Locals) >= Cap THEN batch \ {j} ELSE {}
  /\ UNCHANGED <<attempt, task, local, pc, draining, todo, room, skips, seen,
                 gateVars, main, shutdown>>

\* The next claim of the batch.
Admit(j) ==
  /\ j \in batch
  /\ IF Cardinality(Locals) >= Cap \/ room = 0
     THEN HandBack(j)
     ELSE SkipRequeue(j) \/ SkipAck(j) \/ \E p \in {seen, pool} : Submit(j, p)

FillEnds ==
  /\ pc \in {"fill1", "fill2"} /\ batch = {}
  /\ IF pc = "fill1" THEN pc' = "drain" /\ todo' = Locals
     ELSE pc' = "tail" /\ UNCHANGED todo
  /\ UNCHANGED <<queue, attempt, task, local, draining, fillVars, gateVars, main,
                 shutdown>>

-----------------------------------------------------------------------------
(* Draining results.                                                         *)

\* The local entry of j is dropped, the result of its task is consumed.
Consume(j) ==
  /\ local' = Forget({j})
  /\ task' = task \ {TaskOf(j)}

DrainAck(j) ==
  /\ TaskOf(j).st = "ok"
  /\ Ack(j, local[j].owner)
  /\ attempt' = IF LeasedTo(j, local[j].owner) THEN [attempt EXCEPT ![j] = 0] ELSE attempt
  /\ Consume(j)

\* A packed or rich timeout: requeued, no attempt counted.
DrainTimeout(j) ==
  /\ TaskOf(j).st = "timeout"
  /\ Requeue(j, local[j].owner)
  /\ Consume(j)
  /\ UNCHANGED attempt

\* bump_job_attempt has reached job_max_attempts.
LastAttempt(j) == attempt[j] + 1 >= MaxAttempts

\* _retry_or_dead_letter: the attempt is counted whoever holds the lease.
DrainFailed(j) ==
  /\ TaskOf(j).st = "fail"
  /\ IF LastAttempt(j)
     THEN /\ Ack(j, local[j].owner)
          /\ attempt' = [attempt EXCEPT ![j] =
                            IF LeasedTo(j, local[j].owner) THEN 0 ELSE @ + 1]
     ELSE /\ Requeue(j, local[j].owner)
          /\ attempt' = [attempt EXCEPT ![j] = @ + 1]
  /\ Consume(j)

\* A bare TimeoutError keeps its slot, as a sentinel.
DrainBare(j) ==
  /\ TaskOf(j).st = "bare"
  /\ local' = [local EXCEPT ![j].st = "sentinel"]
  /\ task' = task \ {TaskOf(j)}
  /\ UNCHANGED <<queue, attempt>>

DrainReady(j) ==
  DrainAck(j) \/ DrainTimeout(j) \/ DrainFailed(j) \/ DrainBare(j)

\* What the current drain pass may look at; the pause loop makes pass after pass.
Pending == IF pc = "pause" /\ requested THEN Locals
           ELSE IF pc \in {"drain", "drainOnly"} THEN todo ELSE {}

\* One entry of _drain_ingest_ready's pass.
Drain(j) ==
  /\ j \in Pending
  /\ IF local[j].st = "future" /\ Ready(j) THEN DrainReady(j)
     ELSE UNCHANGED <<queue, attempt, local, task>>
  /\ todo' = todo \ {j}
  /\ UNCHANGED <<pc, draining, fillVars, gateVars, main, shutdown>>

DrainEnds ==
  /\ pc \in {"drain", "drainOnly"} /\ todo = {}
  /\ IF pc = "drain" THEN pc' = "fill2" /\ seen' = pool /\ skips' = 0
     ELSE pc' = "tail" /\ UNCHANGED <<seen, skips>>
  /\ UNCHANGED <<queue, attempt, task, local, draining, todo, batch, room,
                 gateVars, main, shutdown>>

-----------------------------------------------------------------------------
(* The end of the tick: stuck futures, the reaper, sentinels.                *)

\* Mutant of StuckRecycle: the futures of the old pool are kept.
StuckRecycleKeepsLocals ==
  /\ ~draining /\ ~requested
  /\ \E j \in Locals : local[j].old
  /\ requested' = TRUE
  /\ UNCHANGED <<queue, local>>

\* _maybe_request_stuck_cohort_recycle: everything local goes back, then the main
\* thread is asked for a new pool.
StuckRecycle ==
  /\ ~draining /\ ~requested
  /\ \E j \in Locals : local[j].old
  /\ RequeueAll
  /\ local' = Forget(Jobs)
  /\ requested' = TRUE

Tail ==
  /\ pc = "tail"
  /\ \/ StuckRecycle
     \/ /\ draining \/ requested \/ \A j \in Locals : ~local[j].old
        /\ UNCHANGED <<queue, local, requested>>
  /\ pc' = "reap"
  /\ UNCHANGED <<attempt, task, draining, todo, fillVars, pool, terminated, paused,
                 main, shutdown>>

\* Mutant of Protected: the reaper is not told of the coordinator's leases.
ProtectedNone == {}

\* Mutant of Protected: sentinels are protected like futures.
ProtectedAll == Locals

\* _ingest_reaper_skip_identities: the local leases, except behind sentinels.
Protected == Locals \ Sentinels

\* _reap_stale_inflight extends the protected deadlines and reaps the others,
\* then _drop_expired_ingest_timeout_sentinels frees the slots.
Reaped == {j \in InState("leased") \ Protected : entry[j].due}

ReapStale ==
  /\ pc = "reap"
  /\ entry' = [j \in Jobs |->
       IF j \in Reaped THEN Waiting
       ELSE IF j \in Protected /\ entry[j].st = "leased" THEN Leased(entry[j].owner, FALSE)
       ELSE entry[j]]
  /\ local' = Forget({j \in Sentinels : entry'[j].st # "leased"})
  /\ pc' = IF draining /\ Locals' = {} THEN "done" ELSE "top"
  /\ UNCHANGED <<minted, attempt, task, draining, todo, fillVars, gateVars, main,
                 shutdown>>

\* Less than five seconds since the last time.
ReapLater ==
  /\ pc = "reap"
  /\ pc' = IF draining /\ Locals = {} THEN "done" ELSE "top"
  /\ UNCHANGED <<queue, attempt, task, local, draining, todo, fillVars, gateVars,
                 main, shutdown>>

-----------------------------------------------------------------------------
(* The main thread.                                                          *)

MainStep(from, to) == main = from /\ main' = to

\* requested and paused are both seen set.
MainSeesPause ==
  /\ MainStep("poll", "terminate")
  /\ requested /\ paused
  /\ UNCHANGED gateVars

MainTerminates ==
  /\ MainStep("terminate", "publish")
  /\ terminated' = terminated \cup {pool}
  /\ UNCHANGED <<pool, requested, paused>>

MainPublishes ==
  /\ MainStep("publish", "clear")
  /\ pool' = pool + 1
  /\ UNCHANGED <<terminated, requested, paused>>

MainClears ==
  /\ MainStep("clear", "unpause")
  /\ requested' = FALSE
  /\ UNCHANGED <<pool, terminated, paused>>

MainUnpauses ==
  /\ MainStep("unpause", "poll")
  /\ paused' = FALSE
  /\ UNCHANGED <<pool, terminated, requested>>

Recycle ==
  /\ MainSeesPause \/ MainTerminates \/ MainPublishes \/ MainClears \/ MainUnpauses
  /\ UNCHANGED <<queue, attempt, task, coordVars, shutdown>>

\* _release_claims_on_shutdown: what the coordinator still holds goes back, and
\* its claims are taken out of the map.
MainExits ==
  /\ MainStep("poll", "exited") /\ shutdown
  /\ RequeueAll
  /\ local' = [j \in Jobs |-> [local[j] EXCEPT !.owner = 0]]
  /\ UNCHANGED <<attempt, task, pc, draining, todo, fillVars, gateVars, shutdown>>

\* After the barrier, or after SHUTDOWN_DRAIN_TIMEOUT_S without it.  The timeout
\* of two minutes is longer than a tick: the coordinator has seen the shutdown.
MainDrained == pc = "done" /\ MainExits
MainTimeout == pc # "done" /\ draining /\ MainExits

-----------------------------------------------------------------------------
Environment ==
  \/ \E j \in Jobs : Discover(j) \/ Deadline(j) \/ Age(j)
  \/ \E t \in task : TaskEnds(t)
  \/ RequestShutdown

Coordinator ==
  \/ Top \/ PauseEnds \/ Decide \/ FillEnds \/ DrainEnds
  \/ \E S \in SUBSET Jobs : FillClaim(S)
  \/ \E j \in Jobs : Admit(j) \/ Drain(j)
  \/ Tail \/ ReapStale \/ ReapLater

Next == Environment \/ Coordinator \/ Recycle \/ MainDrained \/ MainTimeout

Spec == Init /\ [][Next]_vars

\* Both threads keep running, a tick's fill ends, the reaper comes round every
\* five seconds, and time passes; a worker may hang forever.
Fairness ==
  /\ WF_vars(Coordinator) /\ WF_vars(Recycle) /\ WF_vars(MainDrained)
  /\ SF_vars(FillEnds) /\ SF_vars(ReapStale)
  /\ \A j \in Jobs : WF_vars(Age(j)) /\ WF_vars(Deadline(j))

FairSpec == Spec /\ Fairness

-----------------------------------------------------------------------------
(* Properties. *)

\* Every variable stays within the values the code can give it.
TypeOK ==
  /\ entry \in [Jobs -> [st : {"absent", "queued", "leased"},
                         owner : 0 .. MaxToken, due : BOOLEAN]]
  /\ minted \in 0 .. MaxToken
  /\ attempt \in [Jobs -> 0 .. MaxAttempts]
  /\ local \in [Jobs -> [owner : 0 .. MaxToken, id : 0 .. MaxToken,
                         st : {"none", "future", "sentinel"}, old : BOOLEAN]]
  /\ task \subseteq [job : Jobs, id : 1 .. MaxToken, pool : 1 .. MaxPool,
                      st : {"run"} \cup Outcomes]
  /\ pc \in {"top", "pause", "decide", "fill1", "drain", "fill2", "drainOnly",
             "tail", "reap", "done", "crashed"}
  /\ draining \in BOOLEAN /\ todo \subseteq Jobs /\ batch \subseteq Jobs
  /\ room \in 0 .. Cap /\ skips \in 0 .. SkipBudget
  /\ seen \in 1 .. MaxPool /\ pool \in 1 .. MaxPool
  /\ terminated \subseteq 1 .. MaxPool
  /\ requested \in BOOLEAN /\ paused \in BOOLEAN /\ shutdown \in BOOLEAN
  /\ main \in {"poll", "terminate", "publish", "clear", "unpause", "exited"}

\* A lease is never taken from a worker that still counts: as long as the
\* coordinator waits for a future, the store holds the job for that very claim,
\* whatever its deadline (_protect_local_inflight_deadlines before the reap).
LocalHoldsLease ==
  main # "exited" =>
    \A j \in Locals \ Sentinels : LeasedTo(j, local[j].owner)

\* No lease is orphaned: whatever the store holds as in flight is in the local
\* maps or still in the batch being admitted.  An orphan would wait for a lease
\* deadline of a day (the breaks out of _fill_ingest_band's loop).
NoOrphanLease == InState("leased") \subseteq Locals \cup batch

\* No file is parsed by two threads of the live pool at the same time.
OneTaskPerPool ==
  \A s, t \in task :
    s.job = t.job /\ s.pool = t.pool /\ s.st = "run" /\ t.st = "run" => s = t

\* The pause protocol works: no job is ever submitted to a pool the main thread
\* has terminated, which would kill the coordinator and the process, and
\* terminate never hits a task whose result the coordinator still waits for.
WaitsOnLivePool ==
  /\ pc # "crashed"
  /\ \A j \in Jobs : local[j].st = "future" => TaskOf(j).pool \notin terminated

\* A requested recycle is carried out, unless the process shuts down first.
RecycleCompletes == requested ~> (~requested \/ shutdown)

\* No slot is lost for good: even if its worker hangs, or its result was a bare
\* TimeoutError, every local entry is freed (up to the bound on recycles).
SlotFreed ==
  \A j \in Jobs : local[j].st # "none" ~>
    (local[j].st = "none" \/ shutdown \/ pool = MaxPool)

\* No worker hangs: again and again there is none at work.
WorkersReturn == []<>(\A t \in task : t.st # "run")

\* With workers that do not hang the coordinator drains by itself after a
\* shutdown request, sentinels included, before or without the drain timeout.
DrainCompletes == WorkersReturn => (shutdown ~> (pc = "done" \/ main = "exited"))

=============================================================================
