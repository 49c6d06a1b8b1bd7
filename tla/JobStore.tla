------------------------------- MODULE JobStore -------------------------------
(***************************************************************************)
(* The in-process job store of sync_timedb (SyncTimedbJobStore): a scored   *)
(* ingest queue with two bands, FIFO list queues with duplicate             *)
(* suppression, leases with deadlines, and a sidecar file written by a      *)
(* dedicated thread from an incrementally kept shadow of the queues.        *)
(*                                                                          *)
(* Every method of the class runs under one lock, so every method is one    *)
(* action.  The sidecar writer releases the lock while it writes, so its    *)
(* flush is several actions.  The callers (coordinator threads, discover,   *)
(* day-close workers) are represented by the claims they hold: any claim    *)
(* ever handed out may be acknowledged, requeued or retried at any later    *)
(* time, including after the store took the job back.                       *)
(***************************************************************************)
EXTENDS Integers, Sequences, FiniteSets

CONSTANTS
  IngestIds,    \* identities (paths) of ingest jobs
  ListKinds,    \* append, discover, day_close
  ListIds,      \* identities of list jobs
  ListKind,     \* the kind of each list identity
  None,         \* Python's None
  Scores,       \* the scores encode_ingest_score may produce
  CatchupBase,  \* CATCHUP_SCORE_BASE: scores below it are hot
  Penalty,      \* LEASE_CONFLICT_SCORE_PENALTY
  MaxScore,     \* bound: no score grows past it
  IngestCap,    \* sync_ingest_queue_max_size
  ListCap,      \* sync_job_queue_max_members
  MaxBatch,     \* largest max_n of claim_ingest
  ReapLimit,    \* limit of reap_expired_inflight (64 in the code)
  MaxToken,     \* bound: number of owner tokens minted
  MaxAttempt,   \* bound: attempts recorded in a payload
  Durable       \* TRUE iff the store has an archive_dir to write to

Bands == {"hot", "catchup"}
Jobs  == IngestIds \cup ListIds
Score == 0 .. MaxScore
Token == 1 .. MaxToken

ASSUME ConstantsAssumption ==
  /\ IsFiniteSet(IngestIds) /\ IsFiniteSet(ListIds)
  /\ IngestIds \cap ListIds = {}
  /\ ListKind \in [ListIds -> ListKinds]
  /\ None \notin Int
  /\ None \notin [owner : Int, score : Int \cup {None}, due : BOOLEAN]
  /\ CatchupBase \in Nat /\ Penalty \in Nat /\ MaxScore \in Nat
  /\ CatchupBase <= MaxScore
  /\ Scores \subseteq Score
  /\ IngestCap \in Nat /\ ListCap \in Nat
  /\ MaxBatch \in Nat /\ ReapLimit \in Nat \ {0}
  /\ MaxToken \in Nat /\ MaxAttempt \in Nat
  /\ Durable \in BOOLEAN

VARIABLES
  ingest,     \* _ingest: score of each queued ingest job, None if not queued
  heap,       \* _ingest_heaps: the <<score, identity>> pairs of each band heap
  count,      \* the band counters behind ingest_count_in_score_range
  list,       \* _lists
  pending,    \* _pending
  inflight,   \* _inflight: None, or [owner, score, due]; due: deadline passed
  lease,      \* _leases
  attempt,    \* the attempt field of _payloads; 0 when there is none
  shIngest,   \* _shadow_ingest
  shList,     \* _shadow_lists
  shPending,  \* _shadow_pending
  shAttempt,  \* _shadow_payloads
  dirty,      \* _dirty
  moved,      \* _persist_gen differs from the value the writer read
  force,      \* _persist_force
  writer,     \* the job-store-persist thread: [pc, forced, copy]
  disk,       \* the sidecar document
  held,       \* claims in the hands of callers
  minted      \* owner tokens handed out so far

queueVars  == <<ingest, heap, count, list, pending>>
leaseVars  == <<inflight, lease>>
shadowVars == <<shIngest, shList, shPending, shAttempt>>
writerVars == <<force, writer, disk>>
vars == <<queueVars, leaseVars, attempt, shadowVars, dirty, moved, writerVars,
          held, minted>>

-----------------------------------------------------------------------------
(* Helpers of the class. *)

\* decode_ingest_band
Band(s) == IF s < CatchupBase THEN "hot" ELSE "catchup"

ElementsOf(s) == {s[n] : n \in DOMAIN s}

QueuedIngest == {i \in IngestIds : ingest[i] # None}
QueuedList   == UNION {ElementsOf(list[k]) : k \in ListKinds}
Queued       == QueuedIngest \cup QueuedList
Inflight     == {j \in Jobs : inflight[j] # None}

QueuedInBand(b) == {i \in QueuedIngest : Band(ingest[i]) = b}

\* The document _persist_writer_flush_once takes from the shadow.
Shadow == [ingest |-> shIngest, list |-> shList, pending |-> shPending,
           attempt |-> shAttempt]

DocQueued(d) == {i \in IngestIds : d.ingest[i] # None}
                  \cup UNION {ElementsOf(d.list[k]) : k \in ListKinds}

EmptyDoc == [ingest |-> [i \in IngestIds |-> None],
             list |-> [k \in ListKinds |-> <<>>],
             pending |-> {},
             attempt |-> [j \in Jobs |-> 0]]

\* Mutant of MarkDirty: the generation is not advanced.
MarkDirtyNoGen == dirty' = TRUE /\ moved' = moved

\* _mark_dirty_locked
MarkDirty == dirty' = TRUE /\ moved' = TRUE

\* Mutant of HeapPush: only an identity new to the queue is pushed.
HeapPushNewOnly(b, new) ==
  heap[b] \cup {<<new[i], i>> : i \in {x \in DOMAIN new :
                                  Band(new[x]) = b /\ ingest[x] = None}}

\* _ingest_heap_push_locked for every identity of new: the heap of band b.
HeapPush(b, new) ==
  heap[b] \cup {<<new[i], i>> : i \in {x \in DOMAIN new : Band(new[x]) = b}}

\* Mutant of CountAfterSet: a rescored identity stays counted in its old band.
CountAfterSetNoDec(b, new) ==
  count[b] + Cardinality({i \in DOMAIN new : Band(new[i]) = b})

\* _ingest_band_dec_locked clamps at zero.
Minus(n, m) == IF n < m THEN 0 ELSE n - m

\* The band counters after _ingest_set_locked.
CountAfterSet(b, new) ==
  Minus(count[b], Cardinality(DOMAIN new \cap QueuedInBand(b)))
    + Cardinality({i \in DOMAIN new : Band(new[i]) = b})

\* Mutant of SyncPayload: the attempt of a requeued job is not copied.
SyncPayloadForgotten(S) == shAttempt

\* _shadow_sync_payload_locked for the jobs S, which have just been queued.
SyncPayload(S) == [j \in Jobs |-> IF j \in S THEN attempt[j] ELSE shAttempt[j]]

\* _ingest_set_locked for every identity of new: score, counters, heap, shadow.
IngestSet(new) ==
  LET Put(f) == [i \in IngestIds |-> IF i \in DOMAIN new THEN new[i] ELSE f[i]]
  IN /\ ingest' = Put(ingest)
     /\ heap' = [b \in Bands |-> HeapPush(b, new)]
     /\ count' = [b \in Bands |-> CountAfterSet(b, new)]
     /\ shIngest' = Put(shIngest)
     /\ shAttempt' = SyncPayload(DOMAIN new)

\* _ingest_pop_locked for the identities S, all queued in band b, without the
\* heap, whose entries the caller has popped.
IngestPop(b, S) ==
  LET Cut(f) == [i \in IngestIds |-> IF i \in S THEN None ELSE f[i]]
  IN /\ ingest' = Cut(ingest)
     /\ count' = [count EXCEPT ![b] = Minus(@, Cardinality(S))]
     /\ shIngest' = Cut(shIngest)
     /\ shAttempt' = [j \in Jobs |-> IF j \in S THEN 0 ELSE shAttempt[j]]

\* Mutant of ListAppend: the jobs are not entered in the pending set.
ListAppendNotPending(k, s) ==
  /\ list' = [list EXCEPT ![k] = @ \o s]
  /\ shList' = [shList EXCEPT ![k] = @ \o s]
  /\ shAttempt' = SyncPayload(ElementsOf(s))
  /\ UNCHANGED <<pending, shPending>>

\* Appending the jobs of sequence s to list k, as enqueue_list, requeue and
\* reap_expired_inflight do: the list, its pending set and their shadows.
ListAppend(k, s) ==
  /\ list' = [list EXCEPT ![k] = @ \o s]
  /\ pending' = pending \cup ElementsOf(s)
  /\ shList' = [shList EXCEPT ![k] = @ \o s]
  /\ shPending' = shPending \cup ElementsOf(s)
  /\ shAttempt' = SyncPayload(ElementsOf(s))

\* Mutants of Release: the in-flight entry, or the lease, is left behind.
ReleaseKeepsInflight(S) ==
  UNCHANGED inflight /\ lease' = [j \in Jobs |-> IF j \in S THEN None ELSE lease[j]]
ReleaseKeepsLease(S) ==
  UNCHANGED lease
    /\ inflight' = [j \in Jobs |-> IF j \in S THEN None ELSE inflight[j]]

\* The in-flight entries and the leases of S are dropped together.
Release(S) ==
  /\ inflight' = [j \in Jobs |-> IF j \in S THEN None ELSE inflight[j]]
  /\ lease' = [j \in Jobs |-> IF j \in S THEN None ELSE lease[j]]

\* Mutant of Entry: owner and score are swapped.
EntrySwapped(tok, score) == [owner |-> score, score |-> tok, due |-> FALSE]

\* The in-flight tuple (deadline, owner_token, score) of a new claim.
Entry(tok, score) == [owner |-> tok, score |-> score, due |-> FALSE]

\* One new owner token takes the lease on every job of S.
Grant(S, tok, score) ==
  /\ inflight' = [j \in Jobs |-> IF j \in S THEN Entry(tok, score[j]) ELSE inflight[j]]
  /\ lease' = [j \in Jobs |-> IF j \in S THEN tok ELSE lease[j]]
  /\ held' = held \cup {[job |-> j, owner |-> tok, score |-> score[j]] : j \in S}
  /\ minted' = tok

\* Mutant of Holds: any claim will do, also one whose lease was taken back.
HoldsAnyOwner(c) == inflight[c.job] # None

\* ack and requeue act only for the caller that holds the lease now.
Holds(c) == inflight[c.job] # None /\ inflight[c.job].owner = c.owner

-----------------------------------------------------------------------------
(* Initial state: __init__ with no sidecar on disk. *)

Init ==
  /\ ingest = [i \in IngestIds |-> None]
  /\ heap = [b \in Bands |-> {}]
  /\ count = [b \in Bands |-> 0]
  /\ list = [k \in ListKinds |-> <<>>]
  /\ pending = {}
  /\ inflight = [j \in Jobs |-> None]
  /\ lease = [j \in Jobs |-> None]
  /\ attempt = [j \in Jobs |-> 0]
  /\ shIngest = ingest /\ shList = list /\ shPending = {} /\ shAttempt = attempt
  /\ dirty = FALSE /\ moved = FALSE /\ force = FALSE
  /\ writer = [pc |-> "wait", forced |-> FALSE, copy |-> EmptyDoc]
  /\ disk = EmptyDoc
  /\ held = {}
  /\ minted = 0

-----------------------------------------------------------------------------
(* Queue operations. *)

\* zadd_ingest: refused while in flight; a new catchup identity is refused at
\* the cap, a new hot one never is; an identity already queued is rescored.
ZaddIngest(i, s) ==
  /\ inflight[i] = None
  /\ \/ ingest[i] # None
     \/ Cardinality(QueuedIngest) < IngestCap
     \/ Band(s) = "hot"
  /\ IngestSet([x \in {i} |-> s])
  /\ MarkDirty
  /\ UNCHANGED <<list, pending, leaseVars, attempt, shList, shPending,
                 writerVars, held, minted>>

\* enqueue_list with dedupe=True, as every caller passes.
EnqueueList(j) ==
  /\ j \notin pending /\ inflight[j] = None
  /\ Len(list[ListKind[j]]) < ListCap
  /\ ListAppend(ListKind[j], <<j>>)
  /\ MarkDirty
  /\ UNCHANGED <<ingest, heap, count, leaseVars, attempt, shIngest,
                 writerVars, held, minted>>

\* claim_ingest: pop the band heap until max_n live entries are claimed or the
\* heap is empty.  A popped entry is live when its identity is queued at that
\* score and not in flight; a stale one is dropped, and its identity pushed
\* again at the current score if it is still queued.
ClaimIngest(b, n) ==
  LET LiveEntry(e) == inflight[e[2]] = None /\ ingest[e[2]] = e[1] /\ Band(e[1]) = b
      live  == {e \in heap[b] : LiveEntry(e)}
      stale == heap[b] \ live
      score == [j \in Jobs |-> IF j \in IngestIds THEN ingest[j] ELSE None]
  IN \E T \in SUBSET live :
       /\ Cardinality(T) = IF Cardinality(live) < n THEN Cardinality(live) ELSE n
       /\ \A e \in T, f \in live \ T : e[1] <= f[1]
       /\ LET S == {e[2] : e \in T}
              dropped == IF Cardinality(live) < n THEN stale
                         ELSE {e \in stale : \E f \in T : e[1] <= f[1]}
              rearmed == {i \in {e[2] : e \in dropped} :
                            inflight[i] = None /\ ingest[i] # None}
          IN /\ heap' = [c \in Bands |->
                  ((IF c = b THEN heap[c] \ dropped ELSE heap[c])
                    \cup {<<ingest[i], i>> : i \in {r \in rearmed : Band(ingest[r]) = c}})
                  \ T]
             /\ IF S = {}
                THEN UNCHANGED <<ingest, count, leaseVars, shIngest, shAttempt,
                                 dirty, moved, held, minted>>
                ELSE /\ IngestPop(b, S)
                     /\ Grant(S, minted + 1, score)
                     /\ MarkDirty
  /\ UNCHANGED <<list, pending, attempt, shList, shPending, writerVars>>

\* claim_list: pop from the left, dropping identities that are in flight.
ClaimList(k) ==
  \E n \in DOMAIN list[k] :
    LET j == list[k][n]
        Gone == {list[k][m] : m \in 1 .. n}
        Rest(f) == [f EXCEPT ![k] = SubSeq(@, n + 1, Len(@))]
    IN /\ inflight[j] = None
       /\ \A m \in 1 .. n - 1 : inflight[list[k][m]] # None
       /\ list' = Rest(list) /\ pending' = pending \ Gone
       /\ shList' = Rest(shList) /\ shPending' = shPending \ Gone
       /\ shAttempt' = [x \in Jobs |-> IF x \in Gone THEN 0 ELSE shAttempt[x]]
       /\ Grant({j}, minted + 1, [x \in Jobs |-> None])
       /\ MarkDirty
       /\ UNCHANGED <<ingest, heap, count, attempt, shIngest, writerVars>>

-----------------------------------------------------------------------------
(* What the holder of a claim does with it.  A claim the store took back     *)
(* changes nothing: the caller just drops it.                                *)

DropClaim(c) ==
  /\ c \in held /\ ~Holds(c)
  /\ held' = held \ {c}
  /\ UNCHANGED <<queueVars, leaseVars, attempt, shadowVars, dirty, moved,
                 writerVars, minted>>

\* ack: not marked dirty, the durable queues dropped the job at claim.
Ack(c) ==
  /\ c \in held /\ Holds(c)
  /\ Release({c.job})
  /\ attempt' = [attempt EXCEPT ![c.job] = 0]
  /\ pending' = pending \ {c.job}
  /\ held' = held \ {c}
  /\ UNCHANGED <<ingest, heap, count, list, shadowVars, dirty, moved,
                 writerVars, minted>>

\* requeue of an ingest claim at score s, or with no score.
RequeueIngest(c, s) ==
  /\ c \in held /\ Holds(c) /\ c.job \in IngestIds
  /\ s <= MaxScore
  /\ Release({c.job})
  /\ IngestSet([x \in {c.job} |-> s])
  /\ MarkDirty
  /\ held' = held \ {c}
  /\ UNCHANGED <<list, pending, attempt, shList, shPending, writerVars, minted>>

RequeueList(c) ==
  /\ c \in held /\ Holds(c) /\ c.job \in ListIds
  /\ Release({c.job})
  /\ ListAppend(ListKind[c.job], <<c.job>>)
  /\ MarkDirty
  /\ held' = held \ {c}
  /\ UNCHANGED <<ingest, heap, count, attempt, shIngest, writerVars, minted>>

\* bump_job_attempt: no owner check; durable only while the job is queued.
BumpAttempt(c) ==
  /\ c \in held /\ attempt[c.job] < MaxAttempt
  /\ attempt' = [attempt EXCEPT ![c.job] = @ + 1]
  /\ IF c.job \in Queued
     THEN /\ shAttempt' = [shAttempt EXCEPT ![c.job] = attempt'[c.job]]
          /\ MarkDirty
     ELSE UNCHANGED <<shAttempt, dirty, moved>>
  /\ UNCHANGED <<queueVars, leaseVars, shIngest, shList, shPending,
                 writerVars, held, minted>>

-----------------------------------------------------------------------------
(* Deadlines.  Time is abstract: a lease is either before its deadline plus  *)
(* the reap grace (due = FALSE) or past it (due = TRUE).                     *)

TimePasses(j) ==
  /\ inflight[j] # None /\ ~inflight[j].due
  /\ inflight' = [inflight EXCEPT ![j].due = TRUE]
  /\ UNCHANGED <<queueVars, lease, attempt, shadowVars, dirty, moved,
                 writerVars, held, minted>>

\* extend_inflight_deadline: whoever asks, for whoever holds it.
ExtendInflightDeadline(j) ==
  /\ inflight[j] # None /\ inflight[j].due
  /\ inflight' = [inflight EXCEPT ![j].due = FALSE]
  /\ UNCHANGED <<queueVars, lease, attempt, shadowVars, dirty, moved,
                 writerVars, held, minted>>

Due(K) == {j \in K : inflight[j] # None /\ inflight[j].due}

\* reap_expired_inflight: up to limit overdue jobs of one kind go back.
Reapable(K, S) ==
  /\ S # {} /\ S \subseteq Due(K)
  /\ Cardinality(S) <= ReapLimit
  /\ S = Due(K) \/ Cardinality(S) = ReapLimit

ReapIngest ==
  \E S \in SUBSET IngestIds :
    LET restore == [i \in S |-> (IF inflight[i].score = None THEN CatchupBase
                                 ELSE inflight[i].score) + Penalty]
    IN /\ Reapable(IngestIds, S)
       /\ \A i \in S : restore[i] <= MaxScore
       /\ Release(S)
       /\ IngestSet(restore)
       /\ MarkDirty
       /\ UNCHANGED <<list, pending, attempt, shList, shPending, writerVars,
                      held, minted>>

\* The orders in which a loop over a dict may visit the members of S.
Orders(S) ==
  {s \in [1 .. Cardinality(S) -> S] :
     \A m, n \in 1 .. Cardinality(S) : s[m] = s[n] => m = n}

ReapList(k) ==
  \E S \in SUBSET {j \in ListIds : ListKind[j] = k} :
    /\ Reapable({j \in ListIds : ListKind[j] = k}, S)
    /\ Release(S)
    /\ \E s \in Orders(S) : ListAppend(k, s)
    /\ MarkDirty
    /\ UNCHANGED <<ingest, heap, count, attempt, shIngest, writerVars, held,
                   minted>>

\* reorder_list: the list is replaced by a permutation of itself, compared and
\* swapped under the lock.
ReorderList(k) ==
  \E s \in Orders(ElementsOf(list[k])) :
    /\ Len(s) = Len(list[k]) /\ s # list[k]
    /\ list' = [list EXCEPT ![k] = s]
    /\ shList' = [shList EXCEPT ![k] = s]
    /\ MarkDirty
    /\ UNCHANGED <<ingest, heap, count, pending, leaseVars, attempt, shIngest,
                   shPending, shAttempt, writerVars, held, minted>>

-----------------------------------------------------------------------------
(* The sidecar writer, _persist_writer_main and _persist_writer_flush_once.  *)

\* persist(force=True), asked for at shutdown.
RequestForce ==
  /\ Durable /\ ~force
  /\ force' = TRUE
  /\ UNCHANGED <<queueVars, leaseVars, attempt, shadowVars, dirty, moved,
                 writer, disk, held, minted>>

\* The writer leaves its wait: forced, or dirty with the interval elapsed.
WriterWake ==
  /\ Durable /\ writer.pc = "wait" /\ (force \/ dirty)
  /\ writer' = [writer EXCEPT !.pc = "woken", !.forced = force]
  /\ UNCHANGED <<queueVars, leaseVars, attempt, shadowVars, dirty, moved,
                 force, disk, held, minted>>

\* The locked part of the flush: prune payloads, read _persist_gen, copy.
WriterCopy ==
  /\ writer.pc = "woken"
  /\ attempt' = [j \in Jobs |-> IF j \in Queued \cup Inflight THEN attempt[j] ELSE 0]
  /\ shAttempt' = [j \in Jobs |-> IF j \in Queued THEN shAttempt[j] ELSE 0]
  /\ writer' = [writer EXCEPT !.pc = "saving",
                              !.copy = [Shadow EXCEPT !.attempt = shAttempt']]
  /\ moved' = FALSE
  /\ UNCHANGED <<queueVars, leaseVars, shIngest, shList, shPending, dirty,
                 force, disk, held, minted>>

\* save_persistence_document: the file is replaced atomically, or not at all.
WriterSave ==
  /\ writer.pc = "saving"
  /\ disk' = writer.copy
  /\ writer' = [writer EXCEPT !.pc = "saved"]
  /\ UNCHANGED <<queueVars, leaseVars, attempt, shadowVars, dirty, moved,
                 force, held, minted>>

WriterSaveFails ==
  /\ writer.pc = "saving"
  /\ dirty' = TRUE
  /\ writer' = [writer EXCEPT !.pc = "done"]
  /\ UNCHANGED <<queueVars, leaseVars, attempt, shadowVars, moved, force, disk,
                 held, minted>>

\* Clean only if nothing changed since the copy was taken.
WriterMarkClean ==
  /\ writer.pc = "saved"
  /\ dirty' = IF moved THEN dirty ELSE FALSE
  /\ writer' = [writer EXCEPT !.pc = "done"]
  /\ UNCHANGED <<queueVars, leaseVars, attempt, shadowVars, moved, force, disk,
                 held, minted>>

\* Mutant of WriterDone: the waiting caller is never released.
WriterDoneKeepsForce ==
  /\ writer.pc = "done"
  /\ writer' = [pc |-> "wait", forced |-> FALSE, copy |-> EmptyDoc]
  /\ UNCHANGED <<queueVars, leaseVars, attempt, shadowVars, dirty, moved, force,
                 disk, held, minted>>

\* The caller of persist(force=True) is released by a forced flush only.
WriterDone ==
  /\ writer.pc = "done"
  /\ force' = IF writer.forced THEN FALSE ELSE force
  /\ writer' = [pc |-> "wait", forced |-> FALSE, copy |-> EmptyDoc]
  /\ UNCHANGED <<queueVars, leaseVars, attempt, shadowVars, dirty, moved, disk,
                 held, minted>>

\* The process dies and is started again: load rebuilds everything from the
\* sidecar; claims, leases and unsaved changes are gone.
Restart ==
  LET kept == [j \in Jobs |-> IF j \in DocQueued(disk) THEN disk.attempt[j] ELSE 0]
  IN
  /\ ingest' = disk.ingest
  /\ heap' = [b \in Bands |->
       {<<disk.ingest[i], i>> : i \in {x \in IngestIds :
           disk.ingest[x] # None /\ Band(disk.ingest[x]) = b}}]
  /\ count' = [b \in Bands |-> Cardinality({x \in IngestIds :
           disk.ingest[x] # None /\ Band(disk.ingest[x]) = b})]
  /\ list' = disk.list /\ pending' = disk.pending
  /\ inflight' = [j \in Jobs |-> None] /\ lease' = [j \in Jobs |-> None]
  /\ attempt' = kept
  /\ shIngest' = disk.ingest /\ shList' = disk.list
  /\ shPending' = disk.pending /\ shAttempt' = kept
  /\ dirty' = FALSE /\ moved' = FALSE /\ force' = FALSE
  /\ writer' = [pc |-> "wait", forced |-> FALSE, copy |-> EmptyDoc]
  /\ held' = {}
  /\ UNCHANGED <<disk, minted>>

-----------------------------------------------------------------------------
RequeueScores(c) == {c.score, c.score + Penalty, CatchupBase}

Enqueue ==
  \/ \E i \in IngestIds, s \in Scores : ZaddIngest(i, s)
  \/ \E j \in ListIds : EnqueueList(j)

Claim ==
  /\ minted < MaxToken
  /\ \/ \E b \in Bands, n \in 1 .. MaxBatch : ClaimIngest(b, n)
     \/ \E k \in ListKinds : ClaimList(k)

Finish ==
  \E c \in held :
    \/ DropClaim(c)
    \/ Ack(c)
    \/ c.job \in IngestIds /\ \E s \in RequeueScores(c) : RequeueIngest(c, s)
    \/ RequeueList(c)
    \/ BumpAttempt(c)

Deadlines ==
  \/ \E j \in Jobs : TimePasses(j) \/ ExtendInflightDeadline(j)
  \/ ReapIngest
  \/ \E k \in ListKinds : ReapList(k) \/ ReorderList(k)

Writer ==
  \/ WriterWake \/ WriterCopy \/ WriterSave \/ WriterSaveFails
  \/ WriterMarkClean \/ WriterDone

Next == Enqueue \/ Claim \/ Finish \/ Deadlines \/ RequestForce \/ Writer \/ Restart

Spec == Init /\ [][Next]_vars

\* The writer thread keeps running.
Fairness ==
  /\ WF_vars(WriterWake) /\ WF_vars(WriterCopy)
  /\ WF_vars(WriterSave \/ WriterSaveFails)
  /\ WF_vars(WriterMarkClean) /\ WF_vars(WriterDone)

FairSpec == Spec /\ Fairness

-----------------------------------------------------------------------------
(* Properties. *)

OptScore == Score \cup {None}
Claims == [job : ListIds, owner : Token, score : {None}]
            \cup [job : IngestIds, owner : Token, score : Score]
Docs == [ingest : [IngestIds -> OptScore], list : [ListKinds -> Seq(ListIds)],
         pending : SUBSET ListIds, attempt : [Jobs -> 0 .. MaxAttempt]]

\* Every variable stays within the values the store can hold.
TypeOK ==
  /\ ingest \in [IngestIds -> OptScore] /\ shIngest \in [IngestIds -> OptScore]
  /\ heap \in [Bands -> SUBSET (Score \X IngestIds)]
  /\ count \in [Bands -> Nat]
  /\ list \in [ListKinds -> Seq(ListIds)] /\ shList \in [ListKinds -> Seq(ListIds)]
  /\ pending \in SUBSET ListIds /\ shPending \in SUBSET ListIds
  /\ inflight \in [Jobs -> {None} \cup
                     [owner : Token, score : OptScore, due : BOOLEAN]]
  /\ lease \in [Jobs -> Token \cup {None}]
  /\ attempt \in [Jobs -> 0 .. MaxAttempt] /\ shAttempt \in [Jobs -> 0 .. MaxAttempt]
  /\ dirty \in BOOLEAN /\ moved \in BOOLEAN /\ force \in BOOLEAN
  /\ writer \in [pc : {"wait", "woken", "saving", "saved", "done"},
                 forced : BOOLEAN, copy : Docs]
  /\ disk \in Docs
  /\ held \in SUBSET Claims
  /\ minted \in 0 .. MaxToken

\* No job is queued while a worker holds it, and none is queued twice: a file
\* is never handed to two workers by two claims (claim_ingest, claim_list,
\* requeue, reap_expired_inflight, zadd_ingest, enqueue_list, load).
QueuedXorInflight ==
  /\ Queued \cap Inflight = {}
  /\ \A k \in ListKinds : \A m, n \in DOMAIN list[k] :
       list[k][m] = list[k][n] => m = n

\* Duplicate suppression is exact: an identity is suppressed by enqueue_list
\* iff it really waits in its own list.
PendingExact ==
  \A j \in ListIds : j \in pending <=> j \in ElementsOf(list[ListKind[j]])

\* Leases and the in-flight map never drift apart, although ack, requeue, reap,
\* claim and load each update them separately.
LeaseMatchesInflight ==
  \A j \in Jobs : lease[j] = IF inflight[j] = None THEN None ELSE inflight[j].owner

\* Every queued ingest job can still be found by claim_ingest: the heap of its
\* band holds an entry with its current score, however often it was rescored.
QueuedIsClaimable ==
  \A i \in QueuedIngest : <<ingest[i], i>> \in heap[Band(ingest[i])]

\* The O(1) band counters used for census and slot caps are exact.
BandCountsExact == \A b \in Bands : count[b] = Cardinality(QueuedInBand(b))

\* The shadow the sidecar is written from equals the live queues, and carries
\* the attempt of every queued job and of no other.
ShadowExact ==
  /\ shIngest = ingest /\ shList = list /\ shPending = pending
  /\ \A j \in Jobs : shAttempt[j] = IF j \in Queued THEN attempt[j] ELSE 0

\* A clean store is on disk: _dirty is only cleared when the file holds exactly
\* the queues of this moment, however the writer's flush and the callers'
\* changes interleave.
CleanIsDurable == Durable /\ ~dirty => disk = Shadow

\* A job leaves the store only by the acknowledgement of the newest claim on
\* it, or by a restart: a late ack of a claim that was reaped, or a reap or
\* requeue in between, never makes work disappear.
LeavesOnlyByNewestAck ==
  [][\A j \in Jobs :
       (j \in Queued \cup Inflight) /\ (j \notin Queued \cup Inflight)'
         => \/ held' = {} /\ Restart
            \/ \E c \in held \ held' :
                 c.job = j /\ \A d \in held : d.job = j => d.owner <= c.owner]_vars

\* A forced flush that was asked for (_request_force_persist_and_wait) is
\* eventually answered by the writer, also when the request comes in the middle
\* of an unforced flush and when the write fails.
ForceAnswered == force ~> ~force

-----------------------------------------------------------------------------
(* The inductive invariant behind the safety properties. *)

\* Lists l and pending set p agree: every identity waits at most once, in the
\* list of its kind, and is pending iff it waits.
ListsOK(l, p) ==
  /\ \A k \in ListKinds : \A m, n \in DOMAIN l[k] : l[k][m] = l[k][n] => m = n
  /\ \A k \in ListKinds : \A n \in DOMAIN l[k] : ListKind[l[k][n]] = k
  /\ \A j \in ListIds : j \in p <=> j \in ElementsOf(l[ListKind[j]])

\* A sidecar document that load can restart from.
DocOK(d) ==
  /\ ListsOK(d.list, d.pending)
  /\ \A j \in Jobs : j \notin DocQueued(d) => d.attempt[j] = 0

\* What the writer has copied or written, relative to the changes since.
WriterOK ==
  /\ writer.pc \in {"saving", "saved"} => (moved => dirty) /\ (~moved => writer.copy = Shadow)
  /\ writer.pc = "saved" => disk = writer.copy
  /\ ~dirty => disk = Shadow

\* The claim in the store is the newest of all claims on its job.
NewestHolds ==
  /\ \A c \in held : c.owner <= minted
  /\ \A j \in Jobs : inflight[j] # None =>
       /\ inflight[j].owner <= minted
       /\ \A c \in held : c.job = j => c.owner <= inflight[j].owner

IInv ==
  /\ TypeOK
  /\ ShadowExact
  /\ ListsOK(list, pending) /\ DocOK(disk) /\ DocOK(writer.copy)
  /\ Queued \cap Inflight = {}
  /\ LeaseMatchesInflight
  /\ QueuedIsClaimable
  /\ BandCountsExact
  /\ WriterOK
  /\ NewestHolds

=============================================================================
