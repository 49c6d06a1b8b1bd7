# TLA+ models of HPCPerfStats

Formal models of the parts of HPCPerfStats where several threads, processes or
failures meet, with TLC configurations that check them on small instances and
TLAPS proofs of the central ones for every size.

1. [The system](#1-the-system)
2. [The modules](#2-the-modules)
3. [The runs](#3-the-runs)
4. [Fairness](#4-fairness)
5. [What is proved](#5-what-is-proved)
6. [Disagreements found](#6-disagreements-found)
7. [What is not modelled](#7-what-is-not-modelled)
8. [Next steps](#8-next-steps)

## 1. The system

| Part | State | Operations | Talks to |
|---|---|---|---|
| Monitor daemon (`monitor/src`) | ring buffer, dumpfiles, file mode, send counter, job id | rotate, sample and send timers, job-file callback, HUP, INT/TERM | RabbitMQ, the dump directory |
| `listend.py` | raw file of each host, live ingest | consume, rotate on a `$` message, acknowledge | RabbitMQ, raw files, database |
| sync_timedb job store | ingest queue with two bands, three list queues, leases, in-flight map, shadow, sidecar file | add, claim, ack, requeue, reap, extend, reorder, persist, load | all coordinator threads |
| Ingest coordinator | futures and claims of the pool's tasks, recycle gate | fill, drain, stuck-cohort recycle, reap | job store, thread pool, main thread |
| Thread pool | executor, registered tasks, abandoned threads | submit, run, terminate | PostgreSQL connections |
| Write stage | bounded queue, write threads | start, submit-and-wait, write, stop | parse threads, database |
| Append coordinator | claims parked by day, batches being written, dead-letter document | fill, submit a day, drain, reap | job store, archive workers |
| Day-close coordinator and raw-file removal | removal manifest, stage of the job, verify thread | verify, merge, seal, delete raw files, drop the tar, hand files back | archives, job store |
| Archives, file locks | tar and tar.zst of a day, members cache, lock sidecars | append, restore, repair, seal, validate | file system |
| `sync_acct.py`, `update_metrics.py` | accounting rows, metric rows | batch import, batch computation | database |
| Web site, API, caches | Redis and artifact caches | requests, invalidation | database |

A sample is collected on a node into the ring buffer, published (or spooled and
replayed later), written by `listend` to the host's raw file, discovered by
`sync_timedb`, queued in the job store, claimed by the ingest coordinator, parsed
by a pool thread, inserted by a write thread, appended to the day's archive, and
finally its raw file is deleted.  The models cover the daemon on the node, and
`sync_timedb` from the job store through ingest and append to the close of a day.

What is hard about this code, and what the properties are about:

- the job store keeps the same fact in several places (queue, heap, counters,
  pending set, in-flight map, leases, shadow), each updated separately;
- its sidecar writer works without the lock between copying and marking clean;
- a caller may come back with a claim long after the lease was reaped;
- Python threads cannot be killed, so a recycled pool leaves tasks behind that
  go on, connect, and return;
- coordinator and main thread hand a pool over through two events, while a
  shutdown may cut every wait short;
- a file's append job is queued, refused, parked, retried and handed back by three
  threads, and only the periodic scan makes up for what they drop;
- the day-close job works in stages that take and release the tar lock, while an
  append may restore the tar and a verify thread of an earlier job may overwrite
  the manifest;
- the daemon's payloads move between ring, file and broker, and lose their
  boundaries on the way.

`PROJECT.json` lists every part with its status, the hazards with their lines,
and for every definition the lines it models.

## 2. The modules

| Module | Models | Kind |
|---|---|---|
| `LeasedQueue` | what the store promises its callers: a job is absent, queued, or leased to the newest token | abstract component |
| `DurableQueue` | `LeasedQueue` with callers' claims, snapshots and restarts | abstract specification |
| `JobStore` | `sync_timedb_job_store.py` | detailed component |
| `JobStoreRefinement` | the mapping from `JobStore` to `DurableQueue` | refinement |
| `IngestCoordinator` | ingest parts of `sync_timedb_queue_orchestrator.py`, on top of `LeasedQueue` | composition |
| `AppendCoordinator` | append parts of the orchestrator, `sync_timedb_append_day_lists.py`, the archive worker's outcomes, the dead-letter document | component |
| `DayClose` | `_run_day_close_job`, `sync_timedb_day_raw_removal.py` and the archive helpers, for one day | composition of three threads |
| `TaskPool` | `SyncTimedbThreadPool` and its connections | component |
| `WriteStage` | `sync_timedb_ingest_write_stage.py` | component |
| `MonitorDaemon` | `monitor.c`, `monitor_daemon.c`, `stats_buffer.c` | component |
| `JobStoreProofs` | `JobStore`: types, the leases, the scored queue, the lists | proofs |
| `JobStoreSafetyProofs` | `JobStore`: queued apart from in flight, the invariant, what follows from it, and that it implements `DurableQueue` | proofs |
| `IngestCoordinatorProofs`, `AppendCoordinatorProofs`, `DayCloseProofs`, `TaskPoolProofs`, `WriteStageProofs`, `MonitorDaemonProofs` | theorems about the modules of these names | proofs |
| `MC*` | instances for TLC | model checking |

**JobStore.**  Every method of the class takes the one lock, so each is one
action.  Only the writer thread's flush is split where it releases the lock:
`WriterWake`, `WriterCopy`, `WriterSave` or `WriterSaveFails`, `WriterMarkClean`,
`WriterDone`.  `ingest`, `heap`, `count`, `list`, `pending`, `inflight`, `lease`,
`attempt` and the `sh*` variables are the fields of the same names; `held` is
the set of claims that callers have in their hands, and any of them may be used at any
later time.  The generation counter of the writer is abstracted to `moved`, "a
change since the copy".  A deadline is a Boolean: `TimePasses` lets a lease become due.
`CATCHUP_SCORE_BASE` and the lease-conflict penalty are constants, and scores are
small integers on both sides of the base.  `MaxScore`, `MaxToken`, `MaxAttempt` are bounds.

**IngestCoordinator.**  The job store is `LeasedQueue`, one action per call, which
is sound because `JobStore` is proved to implement `DurableQueue`.  `pc` walks
through one tick of `_ingest_coordinator_loop`: top and pause, decide, fill, drain,
second fill, stuck-cohort check, reap.  The fill claims a batch and then admits,
turns away or hands back each job; the drain takes one ready result at a
time.  Pool threads, discovery and the main thread interleave between any two of
these steps.  A task's outcome is one of "ok" (also: nothing to do, connection
refused), "fail", "timeout" (the per-file timeout) and "bare" (a bare
`TimeoutError`, which the drain replaces by a sentinel).  `Age` stands for the hour
after which a future counts as stuck.  `_ingest_runtime_lease_hygiene` is not a
step of the model: within one process it compares stored owners with a token that
has just been minted and process ids that are alive, so it changes nothing.

**AppendCoordinator.**  `list`, `owner`, `due` and `attempt` are the APPEND list of the
store, with the calls `enqueue_list`, `claim_list`, `ack`, `requeue` and the reaper as
`JobStore` has them.  `parked` is `_APPEND_DAY_LISTS`, `flight` the futures and leases of
the running batches, `left` `_DAY_APPEND_LEFT`.  `pc` walks through one round of
`_append_coordinator_loop`: fill (submit what is due, then claim and park), drain one
result at a time, reap.  A claim that is requeued or acknowledged at once
(`ClaimBack`, `ClaimGone`) is one step with its claim: in between, an enqueue of the file
is refused as it is before, and the reaper is the same thread.  The archive worker is
reduced to its outcomes: gate (a file not ingested, handed back), soft refusal, failure, success.
A success may leave out the files of `Giant`: `prepare_paths_for_giant_member_append` skips an oversized
file when the tar has no pax headers and cannot be converted, and the drain acknowledges its job like the
others, without an attempt counted or a dead letter written.  `RawRemoved` is the deletion of an archived
file by the day close.
The ingest side appears as far as it queues append jobs: marks, enqueues, counts the
remainder, acknowledges, in the order of `_drain_ingest_ready`.  The dead-letter
document is loaded and saved in two steps by each of its writers.  The enqueue of a
day-close job after a drain belongs to `DayClose`.

**DayClose.**  One calendar day.  Tar and sealed archive are sets of members; a tar is
absent, readable or truncated.  The manifest is its phase, its verification stage and
a status per file, once on disk and once in the memory of the job; a verify thread that
outlives its job takes that copy with it.  `at` is the stage of the job.  A stage is one
step where the code holds the tar lock, and several where it checks outside the lock and acts
inside: `AppendLooks`/`AppendWrites`, `SealDone`/`SealDrops`, `TarDrop`/`TarDropped`,
`BatchValidates`/`BatchDrops`.  `DeleteRaw` removes one file per step, and the manifest is saved
only when the batch ends, so a crash in between leaves it behind the disk.

- *Restore.*  `restore_tar_from_sealed_if_unreadable` is three steps of the thread that
  validates a tar (`fix` says how far it is): the tar is found unreadable (`RestoreBegins`), the
  sealed archive is decompressed into `.decomp.tmp` without the lock (`RestoreCopies`), and that copy
  replaces the tar under the lock without another look (`RestoreReplaces`).  The job and the verify
  thread share the one copy (`rebuild`).  `late` records that a copy was put in place
  after a newer seal.
- *Auto-seal.*  When a batch leaves nothing to delete, `remove_verified_uncompressed_daily_tars`
  validates the tar (`BatchValidates`).  Without a sealed archive it seals first, and the seal removes the
  tar under a second lock whatever raw files remain (`AutoSeals`, `AutoSealDrops`, or `AutoSealFails`);
  `val` keeps the members that were validated, which the sealed ones are compared with.
- *Oversized files.*  `AppendSkips` leaves a file of `Giant` out of an existing tar; its job is done.

Simplifications: one verify thread at a time; one classification batch; a truncated tar
keeps its earlier members and can be repaired when it has any; copy and replace of a merge are one step,
whose result is the union; an absent tar is restored in one step, which the restore lease of the
day makes exclusive; duplicate removal leaves the members as they are;
the minimum age has elapsed; appends are retried without counting, which is
`AppendCoordinator`'s subject; of the exceptions inside a stage, an unreadable tar, a
failed seal, a locked raw file and an append cut short are there, others are not.
Entries for quarantined, changed, active or ghost files and the census memo are left out.

**TaskPool.**  A task is started, registered, closed, connecting, connected or
leaving; `terminate` locks, reads one descriptor at a time, shuts it, unlocks.
Descriptors are the kernel's: a new socket gets a free one, whoever asks (the
kernel's choice of the lowest is one of these).

**WriteStage.**  One payload per parse thread; the threads test `_SHUTDOWN`, load
`_WRITE_QUEUE`, put and wait as separate steps, since `stop_ingest_write_stage`
changes all three without a lock they share.

**MonitorDaemon.**  libev runs one callback at a time, so each callback is one
action, written as a composition of the functions it calls: each maps a
state of the node to the set of states it may leave.  A payload is a sequence of
pieces (header, blank line, sample) and a dumpfile is the concatenation of
payloads, because the question is what a reload makes of that.  What a callback
finds of the broker and the dumpfiles is chosen per callback: the broker is
"down", "slow" (a budget or an error may cut a drain short after any message) or
"up".  `NumIds` bounds the payloads held at the same time; names are reused.

## 3. The runs

| Run | Shows | States |
|---|---|---|
| `job_store` | two files and two list jobs, both bands, reap penalty, reordering: no job lost or unclaimable; counters exact; only the newest claim's ack removes a job | 177 k |
| `job_store_durable` | one file, one list job, writer, restarts: pending set, leases and shadow agree with the queues; clean means on disk; the store implements `DurableQueue`; a forced flush is answered | 81 k |
| `ingest_coordinator` | claims, futures and leases stay together through recycle, expiry and shutdown | 575 k |
| `ingest_coordinator_live` | with hanging workers a recycle completes and every slot is freed; with working ones a shutdown drains | 105 k |
| `append_coordinator` | a file is queued, parked or written, never two of them; every claim holds its lease and every lease has its claim; a shutdown gives batches back | 2.0 M |
| `append_coordinator_live` | a file in the database reaches the archive or the dead-letter document, through refusals, failures, lost claims and a restart, or is left out as oversized again and again | 90 k |
| `day_close` | removed raw files are archived, seals only add, complete means sealed; with a failure, an append cut short and a crash anywhere | 1.8 M |
| `day_close_live` | an ingested file is sealed in the end, unless an oversized one is left out again and again; with a failure and a crash anywhere | 334 k |
| `day_close_membership` | violation, see section 6 | |
| `task_pool` | no live backend after terminate, no thread refused for good | 2 k |
| `write_stage` | answers to parse threads are true and final; submissions are answered while the stage runs; stop returns | 122 k |
| `monitor_daemon` | nothing is held twice, losses are accounted for, dumpfiles are replayed once broker and disk work | 83 k |

**Bounds and why they are enough.**  The store's invariants relate at most two
jobs (two entries of one list, two files in one batch), and two tokens give a job a
reaped and a current claim.  `IngestCap` and `ListCap` are small enough
to be hit.  `ReapLimit` 1 and 2 make the reaper stop early and finish.  The
coordinator needs two files for a batch that is admitted in part, and two pools for
one recycle; the liveness run has one file, three tokens and three pools, so a
second recycle is possible.  The append coordinator has three files on one tar, so that
one is written, one parked and one queued behind a list of one; its liveness run has
a batch size the day never fills, so that only the short-batch rule can submit it, and failures enough to
exhaust the attempts.  The day close has two files, one sealed early and one late, one
failure (a failed seal, a locked file or a given-up ingest), one append cut short (`MaxCuts`) and one crash, at
any stage.  One cut is enough for both threads to be in a restore at the same time, and for the
copy of one to be overtaken by an append or by a seal.  Its liveness run has no cut, since `ReachesSealed`
promises nothing after one, and one file of two in `Giant`.  The two days of a real directory share no state but the slots.  The pool has two tasks and one outside thread, enough for a
descriptor to change hands twice.  The write stage has more parse threads than
queue places and fewer places than workers, so sentinels do not fit.  The daemon's
ring holds two payloads, so overwriting starts with the third, and two days give
two dumpfiles with `MaxFiles` 1, so a replay stops between files.

Deadlock checking is off where the bound on tokens, or a finished shutdown, ends
the behaviour.

**Symmetry** is used for model values in the runs without liveness properties.

## 4. Fairness

- `JobStore!FairSpec`: the writer thread runs (weak fairness of each of its steps;
  a save may fail every time).
- `IngestCoordinator!FairSpec`: weak fairness of the coordinator and the main thread,
  which poll in loops, and of time.  Strong fairness of `FillEnds` and
  `ReapStale`: the fill loop is bounded by the skip budget and the free slots, and
  the reaper is due every few seconds of a loop that comes round many times a second.  No fairness for workers:
  they may hang.  `DrainCompletes` has the premise `WorkersReturn`, that again and
  again no worker is busy.
- `WriteStage!FairSpec`: weak fairness of the parse threads, the workers and a stop in
  progress; nobody has to call stop.
- `AppendCoordinator!FairSpec`: weak fairness of the coordinator, of the workers (an append
  is stopped when its tar stops growing) and of the ingest side; strong fairness of `FillBegins`, since
  the memory watch lets a fill through again and again, and of `Discover`, since the scan comes
  round in every idle pass; a process that ended is started again.  `ReachesArchive` is about
  behaviours that do not end in shutdowns for ever.  No fairness keeps an oversized file from being
  left out every time, because a tar that cannot be converted stays so; `ReachesArchive` and
  `ReachesSealed` except this case, and it alone.
- `DayClose!FairSpec`: weak fairness of the append worker, the verify thread and the
  day-close job, of ingest and discovery, and of the sweep that queues day-close jobs.
  The job requeues itself when it yields, so it comes round for ever.
- `MonitorDaemon!FairSpec`: once `calm` is set (`Recovered`) the broker and the dumpfiles work
  and only timers fire; samples keep being taken, and sends find the ring nonempty again and
  again (strong fairness), because rotations, which also drain the ring,
  are hours apart and sends minutes.

## 5. What is proved

**JobStore.**  The two `JobStore*Proofs` modules prove the following for every set of
jobs, kinds and scores and all bounds, assuming only `ConstantsAssumption` of
`JobStore` (finite sets of identities, natural bounds, `None` distinct from
numbers and records).

| Theorem | Statement |
|---|---|
| `TypeCorrect` | `Spec => []TypeOK` |
| `SafetyInvariant` | `Spec => []IInv` |
| `ExclusiveQueues`, `PendingIsExact`, `LeasesMatch`, `NothingUnclaimable`, `CountersExact`, `ShadowIsExact`, `CleanMeansDurable` | the invariants of the two `job_store` runs |
| `NoWorkLost` | `Spec => LeavesOnlyByNewestAck` |
| `StoreImplementsQueue` | `Spec => ImplementsDurableQueue` |

`TypeOK` is inductive by itself.  The other properties are not, so they are proved
together as `IInv`:

- `ListsOK` ties lists and pending set together *and* says that an identity waits
  in the list of its own kind, without which a claim from one list could clear the
  pending mark of another;
- the same is required of the sidecar and of the writer's copy (`DocOK`), because
  `load` makes them the live state;
- `WriterOK` says what the copy is worth at each point of a flush: equal to the
  shadow unless something moved since, in which case the store is dirty;
- `NewestHolds` says that the claim in the store is the newest, so that the ack
  that passes the owner test is the newest claim's.

`BandCountsExact` rests on lemmas about `Cardinality` when one job enters,
leaves or changes its band; the clamp at zero in the code is shown never to act.
Each action has a lemma of its own, in which each conjunct of `IInv` that it can disturb is a step.

`StoreImplementsQueue` maps each step to a step of `DurableQueue` or a stutter.  It uses
`IInv` before and after the step: because lists and pending set agree, "queued" is one set
computed from scores and pending marks, which each action changes by a known set of jobs,
and because queued and leased are apart, the status of a job is a function.  `claim_list`
skips jobs in flight at the head of the list; the proof shows that it never meets one.
One more invariant is needed, `UniqueClaims`: a token and a job determine the claim, so that a
claim that is used up is gone from the callers' hands in the abstract view too.

**DayCloseProofs**, for any finite set of files and any number of failures and crashes
(`DayAssumption`):

| Theorem | Statement |
|---|---|
| `TypeCorrect` | `Spec => []TypeOK` |
| `SealsOnlyAdd` | `Spec => []TarCoversSealed` |
| `RemovedIsArchived` | `Spec => []NothingLost` |
| `CompleteMeansSealed` | `Spec => CompleteIsSealed` |

`TypeOK` (which includes that removed files do not come back) is inductive.  `TarCoversSealed` needs
one more fact (`Covers`): a tar without a member is one that was cut short at its first append, and nothing is
sealed beside it; so the repair of a tar never has to begin from an empty one, and a restore that finds
no newer seal puts in place exactly what is sealed.  `late` is the exception and is not assumed away:
a restore that is overtaken sets it, and the lemma `LateKept` shows that this takes an append that was cut short.

`NothingLost` is not inductive: a file is let go of when it is marked verified,
long before it is removed, and the mark may sit in any of three copies of the manifest.
The strengthening `Archives` is about `LetGo`, the removed files together with
those marked verified or deleted in the saved manifest, in the job's and in the verify
thread's copy: while no append was cut short, `LetGo` is in the tar or the sealed archive, and in the
sealed archive alone at every stage whose next step drops the tar, those of the batch's
validation and of the auto-seal included.  Without a cut no tar is unreadable, so no
restore is under way.  The verify thread's members are those of the sealed archive, which only grows (`TarCoversSealed`).
`CompleteIsSealed` then follows, because a day is answered complete from such a stage or
with no tar at all.

**TaskPoolProofs**, for any sets of pool threads and other threads: `TypeCorrect`
(`TypeOK`) and `TerminateIsFinal` (`Spec => []NoLiveBackend`).  The inductive invariant has
three parts: every connection's descriptor is its thread's own (`Sockets`), a registered
task of a terminated pool is abandoned (`Tasks`), and a connected task of a pool under
termination has its socket shut, or its turn is still to come, or its descriptor is the one
just read (`Doomed`).

**WriteStageProofs**, for any sets of parse and write threads and any queue size:
`TypeCorrect` (`TypeOK`) and `AnswersAreFinal` (`Spec => []AnswerIsFinal`).  The invariant
`Final` adds where a payload can be: in one place only, queued or in one worker's hands, and
then its parse thread waits without an answer (`Placed`); an answer agrees with
what was written (`Told`).

**IngestCoordinatorProofs**, for any finite set of jobs and any pool size, budgets and
numbers of attempts, claims and pools (`CoordinatorAssumption`):

| Theorem | Statement |
|---|---|
| `TypeCorrect` | `Spec => []TypeOK` |
| `LeasesKept` | `Spec => []LocalHoldsLease` |
| `NothingOrphaned` | `Spec => []NoOrphanLease` |
| `OneParser` | `Spec => []OneTaskPerPool` |
| `PauseIsSafe` | `Spec => []WaitsOnLivePool` |

The properties lean on each other through the recycle handshake, so there is one invariant
for all.  `Phases` says where the coordinator may be while a drain or a recycle is on;
`Gate` that a requested recycle finds nothing local, so that the pool may be
terminated, and that the window between publishing a pool and the end of the handshake has
no old future, so that no second request is lost in it; `Claims` that local entries and the batch
have the leases and nobody else has one; `Budget` that the batch fits what is left of band and
skip budget, without which a break out of the fill loop would leave claims behind; `Tasks`
that every future has its task in the current pool, and that a task nobody waits for is in a
pool that is gone or about to go; `Attempts` that attempts run out only once the claims were
taken away at exit.

**AppendCoordinatorProofs**, for any finite set of files and days, any batch
size, capacities and budgets, and any number of faults and restarts (`AppendAssumption`):

| Theorem | Statement |
|---|---|
| `TypeCorrect` | `Spec => []TypeOK` |
| `ClaimsKeepLeases` | `Spec => []HeldIsLeased` |
| `OneHand` | `Spec => []OneHandPerFile` |
| `NoClaimDropped` | `Spec => []NoOrphanLease` |
| `ShutdownGivesBack` | `Spec => []BatchesGivenBack` |

`Places` says where a claim may be: parked under its own day, in the batch of its own day, or in the
result at hand, in one of them only and once; `Leases` that, while the process lives, claims in hand
are exactly the leases and the list holds only files without one, once each.  After an exit
or an uncaught error the leases are only as `BatchesGivenBack` says, until a restart clears them.  Claims move between sequences (parked to batch, batch to result, result to list), so
most of the work is in lemmas on what `Head`, `Tail`, `SubSeq` and `\o` do to the files of a
sequence of claims; these need no induction.

**MonitorDaemonProofs**, for any ring and batch size, any finite set of dumpfile names, any job
ids, any behaviour of broker and disk, and any number of payloads held (`MonitorAssumption`):

| Theorem | Statement |
|---|---|
| `TypeCorrect` | `Spec => []TypeOK` |
| `NothingHeldTwice` | `Spec => []HeldOnce` |
| `LossesAccounted` | `Spec => LossAccounted` |

A callback is a composition of functions from a state of the node to a set of states, so the
proof follows the functions and not the callbacks: each takes `Good` states to `Good` states.
In a good state a piece occurs once in the ring or once in the dumpfiles or in a message just
published (`Apart`); `IInv` says that the node between two callbacks is such a state.
`HeldOnce`, a count of positions, follows from it.

For `LossAccounted` every function is given what it keeps.  All but the insertion of a new
payload carry every piece along and make no payload that was not in the ring, or in what
a reload makes of a dumpfile, before the callback (`Carries`); the insertion keeps every
piece or loses exactly those of one payload without a leading `$`, from a full ring
(`Collected`).  A callback inserts once.  That a full ring means `MaxBuffer` different payloads
before the callback needs a second invariant, `Tidy`: a blank line is always followed by a
piece, so that no payload, reloaded ones included, is empty, and two equal ones would hold a
piece twice.

`Reload`, `Joined` and the rounds of `SendDumps` are recursive functions.  What they keep is
proved by induction over an initial segment of the naturals, stated for a set
(`Induction`), because the provers cannot instantiate an induction rule that takes a
predicate; that such a function satisfies its equation is proved from `RecursionExists`.

Only model-checked: liveness, which is out of the prover's reach (`ForceAnswered`,
`RecycleCompletes`, `SlotFreed`, `DrainCompletes`, `ReachesArchive`, `ReachesSealed`,
`AnsweredWhileRunning`, `StopReturns`, `DumpsReplayed`).

## 6. Disagreements found

`day_close_membership`.  The README says of a raw file that it is not deleted until tar
and sealed archive are verified to hold it.  `apply_batch_delete` runs whatever the
post-seal verification answered, classifies again against the open tar alone, and
removes what it finds there: the run ends with a removed file that no sealed archive holds.
`NothingLost` is what does hold: the tar has it, as long as no append is cut short.

Met while modelling, without a run of their own; the models do what the code does, and the
properties are stated so that they except it:

- `submit_ingest_write_and_wait` says it waits "for the write thread to finish this payload"
  (`sync_timedb_ingest_write_stage.py:276`).  A payload that is put while the stage stops may be
  left in a queue nobody reads; its parse thread waits without a timeout.
- A test is named `test_replace_corrupt_tar_does_not_clobber_concurrent_append`
  (`test_sync_timedb_archive.py:8800`).  `replace_corrupt_tar_from_compressed_backup` decompresses the
  sealed archive without the tar lock and replaces the tar without another look: an append that
  repaired and extended the tar meanwhile loses its member.  If its raw file is still there it is appended again.
- `day_close_is_complete` says "Ghost phase=done must not authorize complete."
  (`sync_timedb_job_reconstruct.py:515`).  Through the remaining-raw test it does: with `phase=done` only
  listed files count, so the raw file of a late arrival stays on disk while its day answers complete.
  Its contents are sealed (`ReachesSealed`).
- `append_queue_dead_letter` is there so that a job "is not silently dropped"
  (`sync_timedb_job_store.py:2489`); its read-modify-write has no lock, and two coordinators that give up
  at the same time leave one entry.
- `terminate` of the pool says each descriptor "still belongs to that task's live backend"
  (`sync_timedb_session_executor.py:651`).  A task also closes its connection in the middle of
  its work, without the lock, so the descriptor that is shut may be another thread's by then.
- `ring_buffer_resend_limited` says "Keep schema/header payloads isolated"
  (`stats_buffer.c:422`).  A header appended to a dumpfile behind a sample comes back glued to
  it and is published in a message that does not start with `$`.
- The comment at the seal stage (`sync_timedb_queue_orchestrator.py:2465`) says a non-empty map
  keeps the seal a no-op while raw files remain.  The map is keyed by the tar's path and read by
  the sealed archive's, so after `skip_merge` the day is sealed all the same; `SealInput` has it so.
- `_release_claims_on_shutdown` says "Requeue every still-held claim"
  (`sync_timedb_queue_orchestrator.py:5297`).  Claims parked by day are not in the maps it is
  given; `BatchesGivenBack` excepts them, and discovery brings the files back.
- An oversized file that is skipped is acknowledged without an attempt and without a dead letter, and the
  discovery queues it again; `test_sync_timedb_archive.py` asserts the acknowledgement.  The two liveness
  properties except it.

## 7. What is not modelled

The models cover a small part of the repository by size.  The map names about 9,900 distinct source
lines (at most 150 counted for a definition): a quarter of the 14 files it touches, and about a
twentieth of the roughly 217,000 lines of Python, C and JavaScript under `src/`, tests
excluded and vendored headers included.  What is checked here says nothing about the rest.

`PROJECT.json` gives the reason for each part.  In short: collectors, parser, inserts,
metrics, plots, the front end and the scripts are sequential data code, where TLC would
enumerate inputs and not interleavings.  `listend`, the members cache with its populate
pool, the lock files, the publisher's connection states and the web caches do have
protocols; they are left out because each needs a model of its own environment (broker,
Redis, several processes on one file system) and touches none of the properties here
but through the interfaces that are modelled: messages published, members read, locks held.

In the modelled components: the fingerprint field of a job's payload; `imap_unordered` and `close`
of the pool; the shared-node build of the daemon and the begin and end marks in a
sample's text (when the job file goes from one job directly to another, as far as
the daemon sees it, `monitor_daemon_fd_apply_jobid_change` marks only the new job's begin); a dump
directory that cannot be listed; a dumpfile write that fails after the file was opened; a
dead-letter document that cannot be saved; a day-close job that ends in an exception and is
counted as a failed attempt; legacy gz archives; several days competing for the day-close slots.

## 8. Next steps

1. `Listend`: rotation, acknowledgement, restart; composed with `MonitorDaemon`'s messages.
2. The members cache and its invalidation, beside `DayClose`'s archives.
3. The publisher's connection states, and the artifact caches of the web site.
