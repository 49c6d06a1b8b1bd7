-------------------------- MODULE AppendCoordinator --------------------------
(***************************************************************************)
(* The append-coordinator thread of the queue orchestrator, the archive     *)
(* workers it starts, and everything that queues append jobs for it.        *)
(*                                                                          *)
(* The coordinator claims append jobs from the FIFO list of the job store,  *)
(* parks the claims by calendar day, and starts one worker per daily tar    *)
(* on a full batch, or on a short one when nothing more is coming.  Jobs    *)
(* are queued by the ingest coordinator when a file is in the database, by  *)
(* discovery, and by the hand-off of files an append found not ingested.    *)
(* A job that fails too often goes into the dead-letter document, which     *)
(* the coordinator threads load and save without a common lock.             *)
(***************************************************************************)
EXTENDS Naturals, Sequences, FiniteSets, Functions

CONSTANTS
  Files,        \* closed raw files; the identities of the jobs
  Giant,        \* those too large for a member of a tar without pax headers
  Days,
  DayOf,        \* the day, and so the daily tar, of each file
  Batch,        \* sync_timedb_tar_append_batch_size
  Cap,          \* append_cap: workers at a time
  SkipBudget,   \* APPEND_FILL_SKIP_BUDGET
  ListCap,      \* queue_capacity_limit
  MaxAttempts,  \* job_max_attempts
  DeadMax,      \* max_entries of the dead-letter document
  MaxFaults,    \* bound: failed, deferred and refused work
  MaxRestarts   \* bound: restarts of the process

ASSUME AppendAssumption ==
  /\ IsFiniteSet(Files) /\ Giant \subseteq Files /\ DayOf \in [Files -> Days]
  /\ {Batch, Cap, SkipBudget, ListCap, MaxAttempts, DeadMax} \subseteq Nat \ {0}
  /\ MaxFaults \in Nat /\ MaxRestarts \in Nat

VARIABLES
  raw,          \* files on disk
  db,           \* files whose ingest marks say they are in the database
  arch,         \* files in their day's archive
  ing,          \* the ingest job of each file, as far as it matters here
  list,         \* the APPEND list of the job store
  owner,        \* its in-flight map: the owner token of each lease, 0 for none
  due,          \* leases past their deadline
  attempt,      \* attempt field of each append job
  left,         \* _DAY_APPEND_LEFT
  parked,       \* _APPEND_DAY_LISTS: claims by day
  flight,       \* append_inflight and append_leases: the worker of each day
  pc,           \* where the coordinator is in its loop
  draining,     \* what it read of the shutdown flag at the top of the loop
  exhausted,    \* store_exhausted of the fill
  skipped,      \* claims the fill dropped
  todo,         \* days the drain has not looked at yet
  cur,          \* the result the drain is working on
  doc,          \* the dead-letter document
  draft,        \* what each coordinator has loaded of it and not yet saved
  shutdown,
  faults, restarts

storeVars == <<list, owner, due, attempt>>
deadVars == <<doc, draft>>
fileVars == <<raw, db, arch>>
loopVars == <<pc, draining, exhausted, skipped, todo, cur>>
boundVars == <<faults, restarts>>
vars == <<fileVars, ing, storeVars, left, parked, flight, loopVars, deadVars,
          shutdown, boundVars>>

-----------------------------------------------------------------------------
NoFlight == [jobs |-> <<>>, st |-> "none", hand |-> {}]
Busy(d) == flight[d].st # "none"
Flights == {d \in Days : Busy(d)}

Claim(f, o) == [file |-> f, owner |-> o]
FilesOf(s) == {s[n].file : n \in DOMAIN s}

\* The claims the coordinator has in its hands.
Held == Range(cur.jobs)
          \cup UNION {Range(parked[d]) \cup Range(flight[d].jobs) : d \in Days}

\* make_lease_owner_token: a token nobody holds.
Tokens == 1 .. 2 * Cardinality(Files) + 1
FreshToken ==
  CHOOSE o \in Tokens : (\A f \in Files : owner[f] # o) /\ \A c \in Held : c.owner # o

LeasedTo(c) == owner[c.file] = c.owner

Dead(kind, f) == <<kind, f>> \in Range(doc)

Init ==
  /\ raw = Files /\ db = {} /\ arch = {}
  /\ ing = [f \in Files |-> "none"]
  /\ list = <<>> /\ owner = [f \in Files |-> 0] /\ due = {}
  /\ attempt = [f \in Files |-> 0]
  /\ left = [d \in Days |-> 0]
  /\ parked = [d \in Days |-> <<>>] /\ flight = [d \in Days |-> NoFlight]
  /\ pc = "top" /\ draining = FALSE /\ exhausted = FALSE /\ skipped = 0
  /\ todo = {} /\ cur = NoFlight
  /\ doc = <<>> /\ draft = [t \in {"append", "ingest"} |-> <<>>]
  /\ shutdown = FALSE /\ faults = 0 /\ restarts = 0

-----------------------------------------------------------------------------
(* The job store's APPEND list.                                              *)

\* Mutant of Accepts: a job in flight is not recognised as a duplicate.
AcceptsInflight(f) == f \notin Range(list) /\ Len(list) < ListCap

\* enqueue_list with dedupe: refused while queued or in flight, and at capacity.
Accepts(f) == f \notin Range(list) /\ owner[f] = 0 /\ Len(list) < ListCap

Enqueue(f) ==
  /\ list' = Append(list, f)
  /\ UNCHANGED <<owner, due, attempt>>

Released(F) == /\ owner' = [f \in Files |-> IF f \in F THEN 0 ELSE owner[f]]
               /\ due' = due \ F

\* ack_job and requeue_job: nothing changes for a caller without the lease.
Ack(c) ==
  IF LeasedTo(c)
  THEN /\ Released({c.file})
       /\ attempt' = [attempt EXCEPT ![c.file] = 0]
       /\ UNCHANGED list
  ELSE UNCHANGED storeVars

Requeue(c) ==
  IF LeasedTo(c)
  THEN /\ Released({c.file})
       /\ list' = Append(list, c.file)
  ELSE UNCHANGED <<list, owner, due>>

\* The files of a set, each once.
InSomeOrder(F) == Injection(1 .. Cardinality(F), F)

\* requeue_job on each claim of a set; the order in the list is left open.
RequeueEach(C) ==
  LET own == {c.file : c \in {x \in C : LeasedTo(x)}}
  IN /\ Released(own)
     /\ \E s \in InSomeOrder(own) : list' = list \o s

\* note_day_remainder never goes below zero.
NoteLeft(d, up) ==
  left' = [left EXCEPT ![d] = IF up THEN @ + 1 ELSE IF @ = 0 THEN 0 ELSE @ - 1]

-----------------------------------------------------------------------------
(* The ingest coordinator, discovery, day close and the clock.               *)

\* A file is ingested and its marks recorded (_drain_ingest_ready, success).
IngestMarks(f) ==
  /\ ing[f] = "queued"
  /\ db' = db \cup {f}
  /\ ing' = [ing EXCEPT ![f] = IF f \in arch THEN "none" ELSE "marked"]
  /\ UNCHANGED <<raw, arch, storeVars, left, parked, flight, loopVars, deadVars,
                 shutdown, boundVars>>

\* Its append job is queued; the answer only decides about the remainder, and
\* the ingest job is acknowledged either way.
IngestEnqueues(f) ==
  /\ ing[f] = "marked"
  /\ IF Accepts(f) THEN Enqueue(f) /\ ing' = [ing EXCEPT ![f] = "queuedAppend"]
     ELSE ing' = [ing EXCEPT ![f] = "none"] /\ UNCHANGED storeVars
  /\ UNCHANGED <<fileVars, left, parked, flight, loopVars, deadVars, shutdown,
                 boundVars>>

\* note_day_remainder comes after the job is visible to the append coordinator.
IngestNotes(f) ==
  /\ ing[f] = "queuedAppend"
  /\ NoteLeft(DayOf[f], TRUE)
  /\ ing' = [ing EXCEPT ![f] = "none"]
  /\ UNCHANGED <<fileVars, storeVars, parked, flight, loopVars, deadVars,
                 shutdown, boundVars>>

\* append_queue_dead_letter, first half: load, add, trim.
Trim(s) == IF Len(s) > DeadMax THEN SubSeq(s, Len(s) - DeadMax + 1, Len(s)) ELSE s
Load(thread, f) ==
  draft' = [draft EXCEPT ![thread] = Trim(Append(doc, <<thread, f>>))]

\* Second half: the document is replaced by the draft, or the write fails.
Save(thread) ==
  /\ \/ doc' = draft[thread] /\ UNCHANGED faults
     \/ faults < MaxFaults /\ faults' = faults + 1 /\ UNCHANGED doc
  /\ draft' = [draft EXCEPT ![thread] = <<>>]

\* The ingest coordinator gives up on a file: load ...
IngestGivesUp(f) ==
  /\ ing[f] = "queued" /\ draft["ingest"] = <<>> /\ faults < MaxFaults
  /\ Load("ingest", f)
  /\ ing' = [ing EXCEPT ![f] = "dead"]
  /\ faults' = faults + 1
  /\ UNCHANGED <<fileVars, storeVars, left, parked, flight, loopVars, doc,
                 shutdown, restarts>>

\* ... and save; then the job is acknowledged.
IngestRecords(f) ==
  /\ ing[f] = "dead"
  /\ Save("ingest")
  /\ ing' = [ing EXCEPT ![f] = "none"]
  /\ UNCHANGED <<fileVars, storeVars, left, parked, flight, loopVars, shutdown,
                 restarts>>

\* Mutant of Discover: a file that is in the database is taken as done.
DiscoverIngestOnly(f) ==
  /\ f \in raw \ db /\ ~Dead("ingest", f) /\ ing[f] = "none"
  /\ ing' = [ing EXCEPT ![f] = "queued"]
  /\ UNCHANGED <<fileVars, storeVars, left, parked, flight, loopVars, deadVars,
                 shutdown, boundVars>>

\* Discovery plans the first missing stage of a file on disk and queues it,
\* unless the dead-letter document has it.
Discover(f) ==
  /\ f \in raw
  /\ \/ /\ f \notin db /\ ~Dead("ingest", f) /\ ing[f] = "none"
        /\ ing' = [ing EXCEPT ![f] = "queued"]
        /\ UNCHANGED <<storeVars, left>>
     \/ /\ f \in db \ arch /\ ~Dead("append", f) /\ Accepts(f)
        /\ Enqueue(f) /\ NoteLeft(DayOf[f], TRUE)
        /\ UNCHANGED ing
  /\ UNCHANGED <<fileVars, parked, flight, loopVars, deadVars, shutdown, boundVars>>

\* Day close removes a raw file that is in the database and in the archive.
RawRemoved(f) ==
  /\ f \in raw \cap db \cap arch
  /\ raw' = raw \ {f}
  /\ UNCHANGED <<db, arch, ing, storeVars, left, parked, flight, loopVars,
                 deadVars, shutdown, boundVars>>

Deadline(f) ==
  /\ owner[f] # 0 /\ f \notin due
  /\ due' = due \cup {f}
  /\ UNCHANGED <<fileVars, ing, list, owner, attempt, left, parked, flight,
                 loopVars, deadVars, shutdown, boundVars>>

RequestShutdown ==
  /\ ~shutdown /\ shutdown' = TRUE
  /\ UNCHANGED <<fileVars, ing, storeVars, left, parked, flight, loopVars,
                 deadVars, boundVars>>

-----------------------------------------------------------------------------
(* An archive worker: archive_stats_files on the batch of one day.           *)

\* The database gate: a file whose mark is gone (evicted, or of an older
\* fingerprint) counts as not ingested; it is reported and not archived.
WorkerGate(d) ==
  /\ flight[d].st = "run"
  /\ \E gone \in SUBSET FilesOf(flight[d].jobs) :
       /\ \/ gone = {} /\ UNCHANGED faults
          \/ gone # {} /\ faults < MaxFaults /\ faults' = faults + 1
       /\ db' = db \ gone
       /\ LET pending == FilesOf(flight[d].jobs) \ db'
          IN flight' = [flight EXCEPT ![d].hand = pending,
                          ![d].st = IF pending = FilesOf(flight[d].jobs)
                                    THEN "gate" ELSE "gated"]
  /\ UNCHANGED <<raw, arch, ing, storeVars, left, parked, loopVars, deadVars,
                 shutdown, restarts>>

Ready(d) == (FilesOf(flight[d].jobs) \ flight[d].hand) \cap raw

\* prepare_paths_for_giant_member_append: a tar that cannot be converted to pax
\* is appended to without the giant files of the batch, which is a success all
\* the same.
WorkerAppends(d) ==
  /\ flight[d].st = "gated"
  /\ \E skipped_oversized \in {{}, Giant} :
       arch' = arch \cup (Ready(d) \ skipped_oversized)
  /\ flight' = [flight EXCEPT ![d].st = "ok"]
  /\ UNCHANGED <<raw, db, ing, storeVars, left, parked, loopVars, deadVars,
                 shutdown, boundVars>>

\* A restore of the tar is under way, or a chunk of the append fails.
WorkerFails(d) ==
  /\ flight[d].st = "gated" /\ faults < MaxFaults
  /\ \/ flight' = [flight EXCEPT ![d].st = "soft"] /\ UNCHANGED arch
     \/ /\ flight' = [flight EXCEPT ![d].st = "fail"]
        /\ \E S \in SUBSET Ready(d) : arch' = arch \cup S
  /\ faults' = faults + 1
  /\ UNCHANGED <<raw, db, ing, storeVars, left, parked, loopVars, deadVars,
                 shutdown, restarts>>

-----------------------------------------------------------------------------
(* _fill_append_slots.                                                       *)

FillBegins ==
  /\ pc = "top" /\ ~shutdown
  /\ draining' = FALSE
  /\ pc' = "fill" /\ exhausted' = FALSE /\ skipped' = 0
  /\ UNCHANGED <<fileVars, ing, storeVars, left, parked, flight, todo, cur,
                 deadVars, shutdown, boundVars>>

\* Draining, or the memory watch admits nothing.
FillSkipped ==
  /\ pc = "top"
  /\ draining' = shutdown
  /\ pc' = "drain" /\ todo' = Flights
  /\ UNCHANGED <<fileVars, ing, storeVars, left, parked, flight, exhausted,
                 skipped, cur, deadVars, shutdown, boundVars>>

\* The remainder of the day is at most a batch and all of it is parked.  That
\* ingest and discovery are done with the day is read elsewhere: it may hold.
TailOk(d) == left[d] \in 1 .. Batch /\ Len(parked[d]) >= left[d]

MustSubmit(d) ==
  /\ parked[d] # <<>> /\ ~Busy(d)
  /\ exhausted \/ Len(parked[d]) >= Batch
MaySubmit(d) == MustSubmit(d) \/ (parked[d] # <<>> /\ ~Busy(d) /\ TailOk(d))

Taken(d) == IF Len(parked[d]) < Batch THEN Len(parked[d]) ELSE Batch

\* pop_batch and apply_async; a pool that refuses gets the claims requeued and
\* the exception ends the coordinator, and with it the process.
SubmitDay(d) ==
  /\ pc = "fill" /\ Cardinality(Flights) < Cap /\ MaySubmit(d)
  /\ parked' = [parked EXCEPT ![d] = SubSeq(@, Taken(d) + 1, Len(@))]
  /\ LET jobs == SubSeq(parked[d], 1, Taken(d))
     IN \/ /\ flight' = [flight EXCEPT ![d] = [jobs |-> jobs, st |-> "run", hand |-> {}]]
           /\ UNCHANGED <<storeVars, pc, faults>>
        \/ /\ faults < MaxFaults /\ faults' = faults + 1
           /\ RequeueEach(Range(jobs)) /\ pc' = "dead"
           /\ UNCHANGED <<flight, attempt>>
  /\ UNCHANGED <<fileVars, ing, left, draining, exhausted, skipped, todo, cur,
                 deadVars, shutdown, restarts>>

\* The submit pass is over and the loop goes on to a claim.
Claiming ==
  /\ pc = "fill" /\ Cardinality(Flights) < Cap
  /\ \A d \in Days : ~MustSubmit(d)
  /\ ~exhausted /\ skipped < SkipBudget

ClaimNone ==
  /\ Claiming /\ list = <<>>
  /\ exhausted' = TRUE
  /\ UNCHANGED <<fileVars, ing, storeVars, left, parked, flight, pc, draining,
                 skipped, todo, cur, deadVars, shutdown, boundVars>>

\* The raw file is gone: the job is acknowledged.
ClaimGone ==
  /\ Claiming /\ list # <<>> /\ Head(list) \notin raw
  /\ list' = Tail(list)
  /\ attempt' = [attempt EXCEPT ![Head(list)] = 0]
  /\ NoteLeft(DayOf[Head(list)], FALSE)
  /\ skipped' = skipped + 1
  /\ UNCHANGED <<fileVars, ing, owner, due, parked, flight, pc, draining,
                 exhausted, todo, cur, deadVars, shutdown, boundVars>>

\* Mutant of ClaimBack: the fill ends without giving the claim back.
ClaimBackForgets ==
  /\ Claiming /\ list # <<>> /\ Head(list) \in raw
  /\ LET d == DayOf[Head(list)] IN Busy(d) /\ Len(parked[d]) >= Batch
  /\ owner' = [owner EXCEPT ![Head(list)] = FreshToken]
  /\ list' = Tail(list)
  /\ pc' = "drain" /\ todo' = Flights
  /\ UNCHANGED <<fileVars, ing, due, attempt, left, parked, flight,
                 draining, exhausted, skipped, cur, deadVars, shutdown, boundVars>>

\* The day's tar is being written and a full batch waits for it: back to the
\* end of the list, and the fill is over.
ClaimBack ==
  /\ Claiming /\ list # <<>> /\ Head(list) \in raw
  /\ LET d == DayOf[Head(list)] IN Busy(d) /\ Len(parked[d]) >= Batch
  /\ list' = Append(Tail(list), Head(list))
  /\ pc' = "drain" /\ todo' = Flights
  /\ UNCHANGED <<fileVars, ing, owner, due, attempt, left, parked, flight,
                 draining, exhausted, skipped, cur, deadVars, shutdown, boundVars>>

ClaimParks ==
  /\ Claiming /\ list # <<>> /\ Head(list) \in raw
  /\ LET f == Head(list)
         d == DayOf[f]
     IN /\ ~(Busy(d) /\ Len(parked[d]) >= Batch)
        /\ owner' = [owner EXCEPT ![f] = FreshToken]
        /\ parked' = [parked EXCEPT ![d] = Append(@, Claim(f, FreshToken))]
  /\ list' = Tail(list)
  /\ UNCHANGED <<fileVars, ing, due, attempt, left, flight, loopVars, deadVars,
                 shutdown, boundVars>>

FillEnds ==
  /\ pc = "fill"
  /\ \/ Cardinality(Flights) >= Cap
     \/ (exhausted \/ skipped >= SkipBudget) /\ \A d \in Days : ~MustSubmit(d)
  /\ pc' = "drain" /\ todo' = Flights
  /\ UNCHANGED <<fileVars, ing, storeVars, left, parked, flight, draining,
                 exhausted, skipped, cur, deadVars, shutdown, boundVars>>

-----------------------------------------------------------------------------
(* _drain_append_ready.                                                      *)

DrainLooks(d) ==
  /\ pc = "drain" /\ d \in todo /\ cur.st = "none"
  /\ todo' = todo \ {d}
  /\ IF flight[d].st \in {"run", "gated"} THEN UNCHANGED <<flight, cur>>
     ELSE cur' = flight[d] /\ flight' = [flight EXCEPT ![d] = NoFlight]
  /\ UNCHANGED <<fileVars, ing, storeVars, left, parked, pc, draining, exhausted,
                 skipped, deadVars, shutdown, boundVars>>

\* _handoff_retryable_paths_to_ingest: the first missing stage of the file is
\* queued again, without a look at the dead-letter document.
HandOff(f) ==
  /\ pc = "drain" /\ cur.st \in {"gate", "ok"} /\ f \in cur.hand
  /\ cur' = [cur EXCEPT !.hand = @ \ {f}]
  /\ IF f \in raw \ db /\ ing[f] = "none"
     THEN ing' = [ing EXCEPT ![f] = "queued"] /\ UNCHANGED <<storeVars, left>>
     ELSE IF f \in (raw \cap db) \ arch /\ Accepts(f)
     THEN Enqueue(f) /\ NoteLeft(DayOf[f], TRUE) /\ UNCHANGED ing
     ELSE UNCHANGED <<ing, storeVars, left>>
  /\ UNCHANGED <<fileVars, parked, flight, pc, draining, exhausted, skipped, todo,
                 deadVars, shutdown, boundVars>>

\* The next claim of the result, its hand-offs done.
NextClaim == Head(cur.jobs)
Draining(states) ==
  /\ pc = "drain" /\ cur.st \in states /\ cur.jobs # <<>>
  /\ cur.st \in {"gate", "ok"} => cur.hand = {}
Advance ==
  cur' = IF Len(cur.jobs) = 1 THEN NoFlight ELSE [cur EXCEPT !.jobs = Tail(@)]

DrainDone ==
  /\ Draining({"gate", "ok"})
  /\ Ack(NextClaim) /\ NoteLeft(DayOf[NextClaim.file], FALSE)
  /\ Advance
  /\ UNCHANGED <<fileVars, ing, parked, flight, pc, draining, exhausted, skipped,
                 todo, deadVars, shutdown, boundVars>>

DrainSoft ==
  /\ Draining({"soft"})
  /\ Requeue(NextClaim)
  /\ Advance
  /\ UNCHANGED <<fileVars, ing, attempt, left, parked, flight, pc, draining,
                 exhausted, skipped, todo, deadVars, shutdown, boundVars>>

\* Mutant of LastAttempt: one attempt too many.
LastAttemptLate == attempt[NextClaim.file] >= MaxAttempts

\* _retry_or_dead_letter: an attempt is counted; the last one loads the document.
LastAttempt == attempt[NextClaim.file] + 1 >= MaxAttempts

DrainRetry ==
  /\ Draining({"fail"}) /\ ~LastAttempt
  /\ attempt' = [attempt EXCEPT ![NextClaim.file] = @ + 1]
  /\ Requeue(NextClaim)
  /\ Advance
  /\ UNCHANGED <<fileVars, ing, left, parked, flight, pc, draining, exhausted,
                 skipped, todo, deadVars, shutdown, boundVars>>

DrainGivesUp ==
  /\ Draining({"fail"}) /\ LastAttempt /\ draft["append"] = <<>>
  /\ Load("append", NextClaim.file)
  /\ UNCHANGED <<fileVars, ing, storeVars, left, parked, flight, loopVars, doc,
                 shutdown, boundVars>>

\* The document is saved, or not, and the job acknowledged.
DrainRecords ==
  /\ Draining({"fail"}) /\ draft["append"] # <<>>
  /\ Save("append")
  /\ Ack(NextClaim) /\ NoteLeft(DayOf[NextClaim.file], FALSE)
  /\ Advance
  /\ UNCHANGED <<fileVars, ing, parked, flight, pc, draining, exhausted, skipped,
                 todo, shutdown, restarts>>

DrainEnds ==
  /\ pc = "drain" /\ todo = {} /\ cur.st = "none"
  /\ pc' = "reap"
  /\ UNCHANGED <<fileVars, ing, storeVars, left, parked, flight, draining,
                 exhausted, skipped, todo, cur, deadVars, shutdown, boundVars>>

-----------------------------------------------------------------------------
(* The end of the tick, and of the process.                                  *)

\* Mutant of Protected: claims parked by day are not protected.
ProtectedWriters == UNION {FilesOf(flight[d].jobs) : d \in Days}

\* _append_reap_skip_identities
Protected == UNION {FilesOf(flight[d].jobs) \cup FilesOf(parked[d]) : d \in Days}

AfterReap == IF draining /\ Flights = {} THEN "done" ELSE "top"

ReapStale ==
  /\ pc = "reap"
  /\ LET reaped == due \ Protected
     IN /\ owner' = [f \in Files |-> IF f \in reaped THEN 0 ELSE owner[f]]
        /\ \E s \in InSomeOrder(reaped) : list' = list \o s
  /\ due' = {}
  /\ pc' = AfterReap
  /\ UNCHANGED <<fileVars, ing, attempt, left, parked, flight, draining,
                 exhausted, skipped, todo, cur, deadVars, shutdown, boundVars>>

ReapLater ==
  /\ pc = "reap"
  /\ pc' = AfterReap
  /\ UNCHANGED <<fileVars, ing, storeVars, left, parked, flight, draining,
                 exhausted, skipped, todo, cur, deadVars, shutdown, boundVars>>

\* Mutant of MainExits: after the drain timeout the claims are not given back.
MainExitsAtOnce ==
  /\ pc = "done" \/ draining
  /\ flight' = [d \in Days |-> NoFlight]
  /\ pc' = "exited"
  /\ UNCHANGED <<fileVars, ing, storeVars, left, parked, draining, exhausted,
                 skipped, todo, cur, deadVars, shutdown, boundVars>>

\* _release_claims_on_shutdown, when the coordinators have drained or after
\* SHUTDOWN_DRAIN_TIMEOUT_S: the claims of the batches being written go back.
MainExits ==
  /\ pc = "done" \/ draining
  /\ RequeueEach(UNION {Range(flight[d].jobs) : d \in Days})
  /\ flight' = [d \in Days |-> NoFlight]
  /\ pc' = "exited"
  /\ UNCHANGED <<fileVars, ing, attempt, left, parked, draining, exhausted,
                 skipped, todo, cur, deadVars, shutdown, boundVars>>

\* A new process: after an exit it finds the list as it was left, after a crash
\* some earlier list; leases, claims and remainders are gone.
Restart ==
  /\ restarts < MaxRestarts /\ restarts' = restarts + 1
  /\ IF pc = "exited" THEN UNCHANGED list
     ELSE \E S \in SUBSET db : list' \in InSomeOrder(S)
  /\ attempt' = [f \in Files |-> IF f \in Range(list') THEN attempt[f] ELSE 0]
  /\ owner' = [f \in Files |-> 0] /\ due' = {}
  /\ ing' = [f \in Files |-> "none"]
  /\ left' = [d \in Days |-> 0]
  /\ parked' = [d \in Days |-> <<>>] /\ flight' = [d \in Days |-> NoFlight]
  /\ pc' = "top" /\ draining' = FALSE /\ exhausted' = FALSE /\ skipped' = 0
  /\ todo' = {} /\ cur' = NoFlight
  /\ draft' = [t \in DOMAIN draft |-> <<>>]
  /\ shutdown' = FALSE
  /\ UNCHANGED <<fileVars, doc, faults>>

-----------------------------------------------------------------------------
Alive == pc \notin {"exited", "dead"}

Ingest(f) == IngestMarks(f) \/ IngestEnqueues(f) \/ IngestNotes(f) \/ IngestRecords(f)
Worker(d) == WorkerGate(d) \/ WorkerAppends(d) \/ WorkerFails(d)

Coordinator ==
  \/ FillBegins \/ FillSkipped \/ FillEnds
  \/ \E d \in Days : SubmitDay(d) \/ DrainLooks(d)
  \/ ClaimNone \/ ClaimGone \/ ClaimBack \/ ClaimParks
  \/ \E f \in Files : HandOff(f)
  \/ DrainDone \/ DrainSoft \/ DrainRetry \/ DrainGivesUp \/ DrainRecords \/ DrainEnds
  \/ ReapStale \/ ReapLater

Surroundings ==
  \/ \E f \in Files : Ingest(f) \/ IngestGivesUp(f) \/ Discover(f) \/ RawRemoved(f)
  \/ \E f \in Files : Deadline(f)
  \/ \E d \in Days : Worker(d)
  \/ RequestShutdown

Next ==
  \/ Alive /\ (Coordinator \/ Surroundings \/ MainExits)
  \/ Restart

Spec == Init /\ [][Next]_vars

\* The threads run, the scan comes round, workers return, the memory watch lets
\* a fill through again and again, and a process that ended is started again.
Fairness ==
  /\ WF_vars(Alive /\ Coordinator) /\ SF_vars(Alive /\ FillBegins)
  /\ \A d \in Days : WF_vars(Alive /\ Worker(d))
  /\ \A f \in Files : WF_vars(Alive /\ Ingest(f)) /\ SF_vars(Alive /\ Discover(f))
  /\ WF_vars(pc = "done" /\ MainExits)
  /\ WF_vars(~Alive /\ Restart)

FairSpec == Spec /\ Fairness

-----------------------------------------------------------------------------
(* Properties. *)

\* Every variable stays within the values the code can give it.
TypeOK ==
  /\ raw \subseteq Files /\ db \subseteq Files /\ arch \subseteq Files
  /\ ing \in [Files -> {"none", "queued", "marked", "queuedAppend", "dead"}]
  /\ Range(list) \subseteq Files /\ owner \in [Files -> {0} \cup Tokens]
  /\ due \subseteq Files /\ attempt \in [Files -> 0 .. MaxAttempts - 1]
  /\ left \in [Days -> Nat]
  /\ \A c \in Held : c.file \in Files /\ c.owner \in Tokens
  /\ \A d \in Days : flight[d].st \in {"none", "run", "gated", "gate", "soft", "fail", "ok"}
  /\ pc \in {"top", "fill", "drain", "reap", "done", "exited", "dead"}
  /\ skipped \in 0 .. SkipBudget /\ todo \subseteq Days
  /\ Len(doc) <= DeadMax

\* A parked or written claim keeps its lease, however long a tar keeps it
\* waiting: the reaper is told of parked claims too, or a file would be claimed
\* and archived a second time while the first claim still waits.
HeldIsLeased == Alive => \A c \in Held : LeasedTo(c)

\* No file is in two hands: it is queued at most once, and never queued, parked
\* or written at the same time, whichever of the three producers was faster.
OneHandPerFile ==
  /\ IsInjective(list)
  /\ Alive => \A f \in Files :
       /\ f \in Range(list) => owner[f] = 0
       /\ Cardinality({c \in Held : c.file = f}) <= 1

\* No lease is orphaned while the process lives: what the store counts as in
\* flight is parked, being written, or the result at hand.
NoOrphanLease ==
  Alive => \A f \in Files : owner[f] # 0 => \E c \in Held : c.file = f /\ LeasedTo(c)

\* A shutdown gives back every claim but the parked ones and those of a result
\* the drain was cut off in: the writers' batches survive in the list.
BatchesGivenBack ==
  pc = "exited" => \A f \in Files : owner[f] # 0 =>
    f \in FilesOf(cur.jobs) \cup UNION {FilesOf(parked[d]) : d \in Days}

\* An append leaves out a file that is not in the archive.
Skips(f) == \E d \in Days : WorkerAppends(d) /\ f \in Ready(d) \ arch'

\* Every file in the database gets into the archive or is given up, although an
\* append job can be refused at capacity, refused as a duplicate of one that is
\* about to be acknowledged unarchived, parked on a short day, or lost at a
\* shutdown or a crash: discovery and the short batches see to it.  Only a giant
\* file that every append skips is queued and acknowledged for ever.
ReachesArchive ==
  <>[]Alive => \A f \in Files :
    \/ f \in db ~> (f \in arch \/ f \notin db \/ Dead("append", f))
    \/ f \in Giant /\ []<><<Skips(f)>>_vars
=============================================================================
