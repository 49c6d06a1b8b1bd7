------------------------ MODULE JobStoreSafetyProofs ------------------------
(***************************************************************************)
(* The safety invariants of JobStore, for all values of its constants, and  *)
(* that it implements DurableQueue.  Each conjunct of the inductive         *)
(* invariant IInv has a lemma of its own, here or in JobStoreProofs; then   *)
(* every step is a step of DurableQueue or a stutter.                       *)
(***************************************************************************)
EXTENDS JobStoreProofs, JobStoreRefinement

(* Queued and in-flight jobs are apart, and the shadow attempts are those of *)
(* the queued jobs.                                                          *)

\* The identities queued when f is the scored queue and p the pending set.
QueuedIn(f, p) == {i \in IngestIds : f[i] # None} \cup p

ApartOK(f, p, fl) == \A j \in QueuedIn(f, p) : fl[j] = None

AttemptOK(f, p, a, sh) ==
  \A j \in Jobs : sh[j] = IF j \in QueuedIn(f, p) THEN a[j] ELSE 0

\* Jobs S become queued and are not in flight.
LEMMA QueueGrows ==
  ASSUME ApartOK(ingest, pending, inflight), AttemptOK(ingest, pending, attempt, shAttempt),
         NEW S \in SUBSET Jobs,
         QueuedIn(ingest', pending') = QueuedIn(ingest, pending) \cup S,
         attempt' = attempt, shAttempt' = SyncPayload(S),
         \A j \in Jobs : inflight'[j] \in {inflight[j], None},
         \A j \in S : inflight'[j] = None,
         pending \in SUBSET ListIds
  PROVE  /\ ApartOK(ingest', pending', inflight')
         /\ AttemptOK(ingest', pending', attempt', shAttempt')
<1>1. QueuedIn(ingest, pending) \subseteq Jobs
  BY DEF QueuedIn, Jobs
<1>2. ApartOK(ingest', pending', inflight')
  BY <1>1 DEF ApartOK
<1>3. AttemptOK(ingest', pending', attempt', shAttempt')
  BY DEF AttemptOK, SyncPayload
<1> QED BY <1>2, <1>3

\* Jobs S leave the queues; nothing else becomes in flight.
LEMMA QueueShrinks ==
  ASSUME ApartOK(ingest, pending, inflight), AttemptOK(ingest, pending, attempt, shAttempt),
         NEW S,
         QueuedIn(ingest', pending') = QueuedIn(ingest, pending) \ S,
         attempt' = attempt,
         shAttempt' = [j \in Jobs |-> IF j \in S THEN 0 ELSE shAttempt[j]],
         \A j \in Jobs \ S : inflight'[j] = inflight[j],
         pending \in SUBSET ListIds
  PROVE  /\ ApartOK(ingest', pending', inflight')
         /\ AttemptOK(ingest', pending', attempt', shAttempt')
<1>1. QueuedIn(ingest, pending) \subseteq Jobs
  BY DEF QueuedIn, Jobs
<1>2. ApartOK(ingest', pending', inflight')
  BY <1>1 DEF ApartOK
<1>3. AttemptOK(ingest', pending', attempt', shAttempt')
  BY DEF AttemptOK
<1> QED BY <1>2, <1>3

\* _ingest_set_locked of jobs that are not in flight afterwards.
LEMMA SetApart ==
  ASSUME TypeOK,
         ApartOK(ingest, pending, inflight), AttemptOK(ingest, pending, attempt, shAttempt),
         NEW S \in SUBSET IngestIds, NEW new \in [S -> Score], IngestSet(new),
         pending' = pending, attempt' = attempt,
         \A j \in Jobs : inflight'[j] \in {inflight[j], None},
         \A j \in S : inflight'[j] = None
  PROVE  /\ ApartOK(ingest', pending', inflight')
         /\ AttemptOK(ingest', pending', attempt', shAttempt')
<1>1. DOMAIN new = S /\ S \in SUBSET Jobs
  BY DEF Jobs
<1>2. ingest' = [i \in IngestIds |-> IF i \in S THEN new[i] ELSE ingest[i]]
  BY <1>1 DEF IngestSet
<1>3. shAttempt' = SyncPayload(S)
  BY <1>1 DEF IngestSet
<1>4. \A i \in S : new[i] # None
  BY ConstantsAssumption DEF Score
<1>5. QueuedIn(ingest', pending') = QueuedIn(ingest, pending) \cup S
  BY Zenon, <1>2, <1>4 DEF QueuedIn
<1>6. pending \in SUBSET ListIds
  BY DEF TypeOK
<1> QED BY <1>1, <1>3, <1>5, <1>6, QueueGrows, Zenon

\* Appending to a list jobs that are not in flight afterwards.
LEMMA AppendApart ==
  ASSUME TypeOK,
         ApartOK(ingest, pending, inflight), AttemptOK(ingest, pending, attempt, shAttempt),
         NEW k \in ListKinds, NEW s \in Seq(ListIds), ListAppend(k, s),
         ingest' = ingest, attempt' = attempt,
         \A j \in Jobs : inflight'[j] \in {inflight[j], None},
         \A j \in ElementsOf(s) : inflight'[j] = None
  PROVE  /\ ApartOK(ingest', pending', inflight')
         /\ AttemptOK(ingest', pending', attempt', shAttempt')
<1>1. ElementsOf(s) \in SUBSET Jobs
  BY ElementsType DEF Jobs
<1>2. shAttempt' = SyncPayload(ElementsOf(s)) /\ pending' = pending \cup ElementsOf(s)
  BY DEF ListAppend
<1>3. QueuedIn(ingest', pending') = QueuedIn(ingest, pending) \cup ElementsOf(s)
  BY Zenon, <1>2 DEF QueuedIn
<1>4. pending \in SUBSET ListIds
  BY DEF TypeOK
<1> QED BY Zenon, <1>1, <1>2, <1>3, <1>4, QueueGrows

LEMMA ApartStep ==
  ASSUME TypeOK, ListsOK(list, pending), DocOK(disk),
         ApartOK(ingest, pending, inflight), AttemptOK(ingest, pending, attempt, shAttempt),
         Next
  PROVE  /\ ApartOK(ingest', pending', inflight')
         /\ AttemptOK(ingest', pending', attempt', shAttempt')
<1> DEFINE Goal == /\ ApartOK(ingest', pending', inflight')
                   /\ AttemptOK(ingest', pending', attempt', shAttempt')
<1>0. pending \in SUBSET ListIds /\ QueuedIn(ingest, pending) \subseteq Jobs
  BY DEF TypeOK, QueuedIn, Jobs
<1>00. Queued = QueuedIn(ingest, pending)
  <2>1. QueuedList = pending
    BY Zenon, ListsUnion DEF QueuedList, TypeOK
  <2> QED BY ZenonT(30), <2>1 DEF Queued, QueuedIngest, QueuedIn
<1> HIDE DEF Goal
<1>1. ASSUME NEW i \in IngestIds, NEW s \in Scores, ZaddIngest(i, s) PROVE Goal
  <2>1. [x \in {i} |-> s] \in [{i} -> Score] /\ {i} \in SUBSET IngestIds
    BY ConstantsAssumption
  <2>2. /\ IngestSet([x \in {i} |-> s]) /\ inflight' = inflight /\ inflight[i] = None
        /\ pending' = pending /\ attempt' = attempt
    BY <1>1 DEF ZaddIngest, leaseVars
  <2> QED BY <2>1, <2>2, SetApart, Zenon DEF Goal
<1>2. ASSUME NEW j \in ListIds, ListAppend(ListKind[j], <<j>>),
             ingest' = ingest, attempt' = attempt,
             \A x \in Jobs : inflight'[x] \in {inflight[x], None}, inflight'[j] = None
      PROVE  Goal
  <2>1. ListKind[j] \in ListKinds /\ <<j>> \in Seq(ListIds) /\ ElementsOf(<<j>>) = {j}
    BY ConstantsAssumption DEF ElementsOf
  <2> QED BY Zenon, <1>2, <2>1, AppendApart DEF Goal
<1>3. ASSUME NEW j \in ListIds, EnqueueList(j) PROVE Goal
  BY Zenon, <1>2, <1>3 DEF EnqueueList, leaseVars
<1>4. ASSUME NEW b \in Bands, NEW n \in 1 .. MaxBatch, ClaimIngest(b, n) PROVE Goal
  <2>1. PICK S \in SUBSET IngestIds :
          /\ ingest' = [i \in IngestIds |-> IF i \in S THEN None ELSE ingest[i]]
          /\ shAttempt' = [j \in Jobs |-> IF j \in S THEN 0 ELSE shAttempt[j]]
          /\ \A j \in Jobs \ S : inflight'[j] = inflight[j]
    BY Zenon, <1>4, ClaimIngestEffect
  <2>2. attempt' = attempt /\ pending' = pending
    BY Zenon, <1>4 DEF ClaimIngest
  <2>3. S \cap pending = {}
    BY Zenon, <1>0, ConstantsAssumption
  <2>4. QueuedIn(ingest', pending') = QueuedIn(ingest, pending) \ S
    BY Zenon, <2>1, <2>2, <2>3 DEF QueuedIn
  <2> QED BY Zenon, <1>0, <2>1, <2>2, <2>4, QueueShrinks DEF Goal
<1>5. ASSUME NEW k \in ListKinds, ClaimList(k) PROVE Goal
  <2> DEFINE Gone(n) == {list[k][m] : m \in 1 .. n}
  <2>1. PICK n \in DOMAIN list[k] :
          /\ pending' = pending \ Gone(n)
          /\ shAttempt' = [x \in Jobs |-> IF x \in Gone(n) THEN 0 ELSE shAttempt[x]]
          /\ Grant({list[k][n]}, minted + 1, [x \in Jobs |-> None])
          /\ attempt' = attempt /\ ingest' = ingest
    BY Zenon, <1>5 DEF ClaimList
  <2>2. list[k] \in Seq(ListIds) /\ n \in 1 .. Len(list[k]) /\ Len(list[k]) \in Nat
    <3>1. list[k] \in Seq(ListIds)
      BY Zenon DEF TypeOK
    <3> QED BY <3>1
  <2>3. list[k][n] \in Gone(n) /\ Gone(n) \in SUBSET ListIds
    <3>1. \A m \in 1 .. n : list[k][m] \in ListIds
      BY <2>2
    <3>2. n \in 1 .. n
      BY <2>2
    <3> QED BY Zenon, <3>1, <3>2
  <2> HIDE DEF Gone
  <2>4. \A j \in Jobs \ Gone(n) : inflight'[j] = inflight[j]
    BY Zenon, <2>1, <2>3 DEF Grant
  <2>5. QueuedIn(ingest', pending') = QueuedIn(ingest, pending) \ Gone(n)
    BY Zenon, <2>1, <2>3, ConstantsAssumption DEF QueuedIn
  <2> QED BY Zenon, <1>0, <2>1, <2>4, <2>5, QueueShrinks DEF Goal
<1>6. ASSUME NEW c \in held, DropClaim(c) PROVE Goal
  BY <1>6 DEF DropClaim, queueVars, leaseVars, shadowVars, Goal
<1>7. ASSUME NEW c \in held, Ack(c) PROVE Goal
  <2>1. c.job \notin QueuedIn(ingest, pending) /\ c.job \in Jobs
    BY Zenon, <1>7 DEF Ack, Holds, ApartOK, TypeOK, Claims, Jobs
  <2>2. /\ ingest' = ingest /\ pending' = pending /\ shAttempt' = shAttempt
        /\ attempt' = [attempt EXCEPT ![c.job] = 0]
        /\ inflight' = [j \in Jobs |-> IF j \in {c.job} THEN None ELSE inflight[j]]
    BY Zenon, <1>7, <2>1 DEF Ack, Release, shadowVars, QueuedIn
  <2>3. ApartOK(ingest', pending', inflight')
    BY Zenon, <1>0, <2>2 DEF ApartOK
  <2>4. attempt \in [Jobs -> 0 .. MaxAttempt]
    BY DEF TypeOK
  <2>5. AttemptOK(ingest', pending', attempt', shAttempt')
    BY Zenon, <2>1, <2>2, <2>4 DEF AttemptOK
  <2> QED BY Zenon, <2>3, <2>5 DEF Goal
<1>8. ASSUME NEW c \in held, c.job \in IngestIds, NEW s \in RequeueScores(c),
             RequeueIngest(c, s)
      PROVE  Goal
  <2>1. c.score \in Score
    BY Zenon, <1>8, ConstantsAssumption DEF TypeOK, Claims
  <2>2. s \in Score
    BY Zenon, <1>8, <2>1, RequeuedScore DEF RequeueIngest
  <2>3. [x \in {c.job} |-> s] \in [{c.job} -> Score] /\ {c.job} \in SUBSET IngestIds
    BY Zenon, <1>8, <2>2
  <2>4. /\ IngestSet([x \in {c.job} |-> s]) /\ pending' = pending /\ attempt' = attempt
        /\ inflight' = [j \in Jobs |-> IF j \in {c.job} THEN None ELSE inflight[j]]
    BY <1>8 DEF RequeueIngest, Release
  <2>5. c.job \in Jobs
    BY Zenon, <1>8 DEF Jobs
  <2>6. /\ \A j \in Jobs : inflight'[j] \in {inflight[j], None}
        /\ \A j \in {c.job} : inflight'[j] = None
    BY Zenon, <2>4, <2>5
  <2> QED BY Zenon, <2>3, <2>4, <2>6, SetApart DEF Goal
<1>9. ASSUME NEW c \in held, RequeueList(c) PROVE Goal
  <2>1. c.job \in ListIds /\ c.job \in Jobs
    BY Zenon, <1>9 DEF RequeueList, Jobs
  <2>2. /\ ListAppend(ListKind[c.job], <<c.job>>) /\ ingest' = ingest /\ attempt' = attempt
        /\ inflight' = [j \in Jobs |-> IF j \in {c.job} THEN None ELSE inflight[j]]
    BY Zenon, <1>9 DEF RequeueList, Release
  <2>3. /\ \A j \in Jobs : inflight'[j] \in {inflight[j], None}
        /\ inflight'[c.job] = None
    BY <2>1, <2>2
  <2> QED BY Zenon, <1>2, <2>1, <2>2, <2>3
<1>10. ASSUME NEW c \in held, BumpAttempt(c) PROVE Goal
  <2>1. /\ ingest' = ingest /\ pending' = pending /\ inflight' = inflight
        /\ attempt' = [attempt EXCEPT ![c.job] = @ + 1]
        /\ IF c.job \in Queued
           THEN shAttempt' = [shAttempt EXCEPT ![c.job] = attempt'[c.job]]
           ELSE shAttempt' = shAttempt
    BY Zenon, <1>10 DEF BumpAttempt, queueVars, leaseVars
  <2>2. /\ attempt \in [Jobs -> 0 .. MaxAttempt] /\ shAttempt \in [Jobs -> 0 .. MaxAttempt]
        /\ c.job \in Jobs
    BY Zenon DEF TypeOK, Claims, Jobs
  <2>3. CASE c.job \in Queued
    <3>1. \A j \in Jobs \ {c.job} : attempt'[j] = attempt[j] /\ shAttempt'[j] = shAttempt[j]
      BY Zenon, <2>1, <2>2, <2>3
    <3>2. shAttempt'[c.job] = attempt'[c.job]
      BY Zenon, <2>1, <2>2, <2>3
    <3> QED BY Zenon, <1>00, <2>1, <2>3, <3>1, <3>2 DEF Goal, ApartOK, AttemptOK
  <2>4. CASE c.job \notin Queued
    <3>1. \A j \in Jobs \ {c.job} : attempt'[j] = attempt[j]
      BY Zenon, <2>1, <2>2
    <3> QED BY Zenon, <1>00, <2>1, <2>4, <3>1 DEF Goal, ApartOK, AttemptOK
  <2> QED BY Zenon, <2>3, <2>4
<1>11. ASSUME NEW j \in Jobs, TimePasses(j) \/ ExtendInflightDeadline(j) PROVE Goal
  <2>1. /\ inflight[j] # None /\ \A x \in Jobs \ {j} : inflight'[x] = inflight[x]
        /\ UNCHANGED <<ingest, pending, attempt, shAttempt>>
    BY Zenon, <1>11 DEF TimePasses, ExtendInflightDeadline, queueVars, shadowVars, TypeOK
  <2> QED BY ZenonT(30), <1>0, <2>1 DEF Goal, ApartOK, AttemptOK
<1>12. ASSUME ReapIngest PROVE Goal
  <2> DEFINE Restore(S) == [i \in S |-> (IF inflight[i].score = None THEN CatchupBase
                                 ELSE inflight[i].score) + Penalty]
  <2>1. PICK S \in SUBSET IngestIds :
          /\ Reapable(IngestIds, S)
          /\ \A i \in S : Restore(S)[i] <= MaxScore
          /\ Release(S) /\ IngestSet(Restore(S))
          /\ pending' = pending /\ attempt' = attempt
    BY Zenon, <1>12 DEF ReapIngest
  <2>2. ASSUME NEW i \in S PROVE Restore(S)[i] \in Score
    <3>1. inflight[i] # None /\ i \in Jobs
      BY Zenon, <2>1 DEF Reapable, Due, Jobs
    <3>2. inflight[i].score \in OptScore
      BY Zenon, <3>1 DEF TypeOK
    <3>3. Restore(S)[i] <= MaxScore
      BY <2>1
    <3>4. Restore(S)[i] = (IF inflight[i].score = None THEN CatchupBase
                           ELSE inflight[i].score) + Penalty
      BY Zenon
    <3> QED BY Zenon, <3>2, <3>3, <3>4, RestoredScore
  <2>3. Restore(S) \in [S -> Score]
    BY Zenon, <2>2
  <2> HIDE DEF Restore
  <2>4. /\ \A j \in Jobs : inflight'[j] \in {inflight[j], None}
        /\ \A j \in S : inflight'[j] = None
    BY Zenon, <2>1 DEF Release, Jobs
  <2> QED BY Zenon, <2>1, <2>3, <2>4, SetApart DEF Goal
<1>13. ASSUME NEW k \in ListKinds, ReapList(k) PROVE Goal
  <2>1. PICK S \in SUBSET {j \in ListIds : ListKind[j] = k} :
          /\ Release(S) /\ \E s \in Orders(S) : ListAppend(k, s)
          /\ ingest' = ingest /\ attempt' = attempt
    BY <1>13 DEF ReapList
  <2>2. PICK s \in Orders(S) : ListAppend(k, s)
    BY Zenon, <2>1
  <2>3. Cardinality(S) \in Nat
    <3>1. S \in SUBSET ListIds
      OBVIOUS
    <3> QED BY Zenon, <3>1, ConstantsAssumption, FS_Subset, FS_CardinalityType
  <2>4. s \in [1 .. Cardinality(S) -> S]
    BY DEF Orders
  <2>5. s \in Seq(ListIds) /\ ElementsOf(s) \subseteq S
    <3>1. DOMAIN s = 1 .. Cardinality(S) /\ \A n \in 1 .. Cardinality(S) : s[n] \in S
      BY Zenon, <2>4
    <3>2. s \in Seq(ListIds)
      BY <2>3, <2>4
    <3> QED BY Zenon, <3>1, <3>2 DEF ElementsOf
  <2>6. /\ \A j \in Jobs : inflight'[j] \in {inflight[j], None}
        /\ \A j \in ElementsOf(s) : inflight'[j] = None
    BY Zenon, <2>1, <2>5 DEF Release, Jobs
  <2> QED BY Zenon, <2>1, <2>2, <2>5, <2>6, AppendApart DEF Goal
<1>14. ASSUME NEW k \in ListKinds, ReorderList(k) PROVE Goal
  BY Zenon, <1>14 DEF ReorderList, leaseVars, Goal
<1>15. CASE RequestForce \/ WriterWake \/ WriterSave \/ WriterSaveFails
              \/ WriterMarkClean \/ WriterDone
  BY Zenon, <1>15 DEF RequestForce, WriterWake, WriterSave, WriterSaveFails, WriterMarkClean,
               WriterDone, queueVars, leaseVars, shadowVars, Goal
<1>16. CASE WriterCopy
  <2>1. /\ attempt' = [j \in Jobs |-> IF j \in Queued \cup Inflight THEN attempt[j] ELSE 0]
        /\ shAttempt' = [j \in Jobs |-> IF j \in Queued THEN shAttempt[j] ELSE 0]
        /\ UNCHANGED <<ingest, pending, inflight>>
    BY Zenon, <1>16 DEF WriterCopy, queueVars, leaseVars
  <2> QED BY ZenonT(30), <1>00, <2>1 DEF Goal, ApartOK, AttemptOK
<1>17. CASE Restart
  <2>1. /\ ingest' = disk.ingest /\ pending' = disk.pending
        /\ inflight' = [j \in Jobs |-> None]
        /\ attempt' = [j \in Jobs |-> IF j \in DocQueued(disk) THEN disk.attempt[j] ELSE 0]
        /\ shAttempt' = attempt'
    BY ZenonT(30), <1>17 DEF Restart
  <2>2. disk.pending \in SUBSET ListIds /\ disk.list \in [ListKinds -> Seq(ListIds)]
    BY Zenon DEF TypeOK, Docs
  <2>3. UNION {ElementsOf(disk.list[k]) : k \in ListKinds} = disk.pending
    <3>1. ListsOK(disk.list, disk.pending)
      BY Zenon DEF DocOK
    <3> QED BY Zenon, <2>2, <3>1, ListsUnion
  <2>4. DocQueued(disk) = QueuedIn(disk.ingest, disk.pending)
    BY Zenon, <2>3 DEF DocQueued, QueuedIn
  <2>5. QueuedIn(disk.ingest, disk.pending) \subseteq Jobs
    BY ZenonT(30), <2>2 DEF QueuedIn, Jobs
  <2> QED BY Zenon, <2>1, <2>4, <2>5 DEF Goal, ApartOK, AttemptOK
<1>18. Goal
  <2>1. CASE Enqueue
    BY ZenonT(30), <1>1, <1>3, <2>1 DEF Enqueue
  <2>2. CASE Claim
    BY Zenon, <1>4, <1>5, <2>2 DEF Claim
  <2>3. CASE Finish
    BY Zenon, <1>6, <1>7, <1>8, <1>9, <1>10, <2>3 DEF Finish
  <2>4. CASE Deadlines
    BY Zenon, <1>11, <1>12, <1>13, <1>14, <2>4 DEF Deadlines
  <2>5. CASE RequestForce \/ Writer \/ Restart
    BY <1>15, <1>16, <1>17, <2>5, Zenon DEF Writer, Goal
  <2> QED BY Zenon, <2>1, <2>2, <2>3, <2>4, <2>5 DEF Next
<1> QED BY Zenon, <1>18 DEF Goal

-----------------------------------------------------------------------------
(* The sidecar writer. *)

\* A step of a caller either leaves the shadow alone or marks the store dirty;
\* it touches neither the writer nor the file.
LEMMA CallerEffects ==
  ASSUME Enqueue \/ Claim \/ Finish \/ Deadlines \/ RequestForce
  PROVE  /\ UNCHANGED <<writer, disk>>
         /\ MarkDirty \/ UNCHANGED <<shadowVars, dirty, moved>>
<1>1. CASE Enqueue
  BY Zenon, <1>1 DEF Enqueue, ZaddIngest, EnqueueList, writerVars
<1>2. ASSUME NEW b \in Bands, NEW n \in 1 .. MaxBatch, ClaimIngest(b, n)
      PROVE  /\ UNCHANGED <<writer, disk>>
             /\ MarkDirty \/ UNCHANGED <<shadowVars, dirty, moved>>
  <2>1. UNCHANGED <<shList, shPending, writerVars>>
    BY ZenonT(30), <1>2 DEF ClaimIngest
  <2>2. MarkDirty \/ UNCHANGED <<shIngest, shAttempt, dirty, moved>>
    BY Zenon, <1>2 DEF ClaimIngest
  <2> QED BY Zenon, <2>1, <2>2 DEF writerVars, shadowVars
<1>3. ASSUME NEW k \in ListKinds, ClaimList(k) \/ ReapList(k) \/ ReorderList(k)
      PROVE  /\ UNCHANGED <<writer, disk>>
             /\ MarkDirty \/ UNCHANGED <<shadowVars, dirty, moved>>
  BY Zenon, <1>3 DEF ClaimList, ReapList, ReorderList, writerVars
<1>4. ASSUME NEW c, \/ DropClaim(c) \/ Ack(c) \/ RequeueList(c) \/ BumpAttempt(c)
                    \/ \E s : RequeueIngest(c, s)
      PROVE  /\ UNCHANGED <<writer, disk>>
             /\ MarkDirty \/ UNCHANGED <<shadowVars, dirty, moved>>
  BY <1>4 DEF DropClaim, Ack, RequeueList, BumpAttempt, RequeueIngest, writerVars,
              shadowVars
<1>5. CASE Deadlines
  BY Zenon, <1>3, <1>5 DEF Deadlines, TimePasses, ExtendInflightDeadline, ReapIngest, writerVars
<1>6. CASE RequestForce
  BY <1>6, Zenon DEF RequestForce
<1> QED BY <1>1, <1>2, <1>3, <1>4, <1>5, <1>6, Zenon DEF Claim, Finish

LEMMA EmptyDocOK == DocOK(EmptyDoc)
BY ConstantsAssumption DEF DocOK, EmptyDoc, ListsOK, ElementsOf

\* What the store would write now is a document that load can restart from.
LEMMA ShadowDocOK ==
  ASSUME TypeOK, ListsOK(list, pending), ShadowExact
  PROVE  DocOK(Shadow) /\ Shadow \in Docs
<1>1. DocQueued(Shadow) = Queued
  BY ZenonT(30) DEF DocQueued, Shadow, ShadowExact, Queued, QueuedIngest, QueuedList
<1>2. ListsOK(Shadow.list, Shadow.pending) /\ Shadow.attempt = shAttempt
  BY DEF Shadow, ShadowExact
<1>3. \A j \in Jobs : j \notin Queued => shAttempt[j] = 0
  BY Zenon DEF ShadowExact
<1>4. Shadow \in Docs
  BY DEF Shadow, Docs, TypeOK
<1> QED BY <1>1, <1>2, <1>3, <1>4, Zenon DEF DocOK

LEMMA WriterStep ==
  ASSUME TypeOK, ListsOK(list, pending), ShadowExact, WriterOK,
         DocOK(disk), DocOK(writer.copy), Next
  PROVE  WriterOK' /\ DocOK(disk') /\ DocOK(writer'.copy)
<1>0. /\ writer \in [pc : {"wait", "woken", "saving", "saved", "done"},
                     forced : BOOLEAN, copy : Docs]
      /\ moved \in BOOLEAN /\ dirty \in BOOLEAN
  BY DEF TypeOK
<1>1. CASE Enqueue \/ Claim \/ Finish \/ Deadlines \/ RequestForce
  <2>1. CASE MarkDirty /\ UNCHANGED <<writer, disk>>
    BY <2>1, Zenon DEF MarkDirty, WriterOK
  <2>2. CASE UNCHANGED <<shadowVars, dirty, moved, writer, disk>>
    BY <2>2, Zenon DEF WriterOK, Shadow, shadowVars
  <2> QED BY Zenon, <1>1, <2>1, <2>2, CallerEffects
<1>2. CASE WriterWake
  <2>1. /\ writer'.pc = "woken" /\ writer'.copy = writer.copy
        /\ UNCHANGED <<shadowVars, dirty, moved, disk>>
    BY Zenon, <1>0, <1>2 DEF WriterWake
  <2> QED BY <2>1 DEF WriterOK, Shadow, shadowVars
<1>3. CASE WriterCopy
  <2>1. /\ writer'.pc = "saving" /\ writer'.copy = [Shadow EXCEPT !.attempt = shAttempt']
        /\ shAttempt' = [j \in Jobs |-> IF j \in Queued THEN shAttempt[j] ELSE 0]
        /\ UNCHANGED <<shIngest, shList, shPending, dirty, disk>> /\ moved' = FALSE
    BY <1>0, <1>3 DEF WriterCopy
  <2>2. shAttempt' = shAttempt
    <3>1. shAttempt \in [Jobs -> 0 .. MaxAttempt]
      BY ZenonT(30) DEF TypeOK
    <3>2. \A j \in Jobs : j \notin Queued => shAttempt[j] = 0
      BY DEF ShadowExact
    <3> QED BY Zenon, <2>1, <3>1, <3>2
  <2>3. Shadow' = Shadow /\ writer'.copy = Shadow
    BY Zenon, <2>1, <2>2 DEF Shadow
  <2> QED BY ZenonT(30), <2>1, <2>3, ShadowDocOK DEF WriterOK
<1>4. CASE WriterSave
  <2>1. /\ writer.pc = "saving" /\ writer'.pc = "saved" /\ writer'.copy = writer.copy
        /\ disk' = writer.copy /\ UNCHANGED <<shadowVars, dirty, moved>>
    BY Zenon, <1>0, <1>4 DEF WriterSave
  <2>2. Shadow' = Shadow
    BY ZenonT(30), <2>1 DEF Shadow, shadowVars
  <2> QED BY <2>1, <2>2 DEF WriterOK
<1>5. CASE WriterSaveFails
  <2>1. /\ writer'.pc = "done" /\ writer'.copy = writer.copy /\ dirty' = TRUE
        /\ UNCHANGED disk
    BY <1>0, <1>5 DEF WriterSaveFails
  <2> QED BY <2>1 DEF WriterOK
<1>6. CASE WriterMarkClean
  <2>1. /\ writer.pc = "saved" /\ writer'.pc = "done" /\ writer'.copy = writer.copy
        /\ dirty' = IF moved THEN dirty ELSE FALSE
        /\ UNCHANGED <<shadowVars, moved, disk>>
    BY Zenon, <1>0, <1>6 DEF WriterMarkClean
  <2>2. Shadow' = Shadow
    BY <2>1 DEF Shadow, shadowVars
  <2>3. ~dirty' => disk = Shadow
    BY ZenonT(30), <1>0, <2>1 DEF WriterOK
  <2> QED BY Zenon, <2>1, <2>2, <2>3 DEF WriterOK
<1>7. CASE WriterDone
  <2>1. /\ writer'.pc = "wait" /\ writer'.copy = EmptyDoc
        /\ UNCHANGED <<shadowVars, dirty, moved, disk>>
    BY ZenonT(30), <1>7 DEF WriterDone
  <2>2. Shadow' = Shadow
    BY <2>1 DEF Shadow, shadowVars
  <2> QED BY Zenon, <2>1, <2>2, EmptyDocOK DEF WriterOK
<1>8. CASE Restart
  <2>1. /\ writer'.pc = "wait" /\ writer'.copy = EmptyDoc /\ disk' = disk
        /\ Shadow' = [ingest |-> disk.ingest, list |-> disk.list, pending |-> disk.pending,
                      attempt |-> [j \in Jobs |-> IF j \in DocQueued(disk)
                                                  THEN disk.attempt[j] ELSE 0]]
    BY Zenon, <1>8 DEF Restart, Shadow
  <2>2. disk \in Docs
    BY DEF TypeOK
  <2>3. disk.attempt = [j \in Jobs |-> IF j \in DocQueued(disk) THEN disk.attempt[j] ELSE 0]
    BY <2>2, Zenon DEF DocOK, Docs
  <2>4. disk = [ingest |-> disk.ingest, list |-> disk.list, pending |-> disk.pending,
                attempt |-> disk.attempt]
    BY <2>2 DEF Docs
  <2>5. Shadow' = disk
    BY Zenon, <2>1, <2>3, <2>4
  <2> QED BY Zenon, <2>1, <2>5, EmptyDocOK DEF WriterOK
<1> QED BY ZenonT(30), <1>1, <1>2, <1>3, <1>4, <1>5, <1>6, <1>7, <1>8 DEF Next, Writer

-----------------------------------------------------------------------------
(* The invariant. *)

LEMMA SafetyInit == Init => IInv
<1> SUFFICES ASSUME Init PROVE IInv
  OBVIOUS
<1>1. TypeOK
  BY Zenon, TypeInit
<1>2. ListsOK(list, pending)
  BY ConstantsAssumption DEF Init, ListsOK, ElementsOf
<1>3. DocOK(disk) /\ DocOK(writer.copy)
  BY Zenon, EmptyDocOK DEF Init
<1>4. QueuedIngest = {} /\ Queued = {} /\ Inflight = {}
  BY DEF Init, QueuedIngest, QueuedList, Queued, Inflight, ElementsOf
<1>5. ShadowExact
  BY Zenon, <1>4 DEF Init, ShadowExact
<1>6. LeaseMatchesInflight
  BY Zenon DEF Init, LeaseMatchesInflight
<1>7. QueuedIsClaimable /\ NewestHolds
  BY <1>4 DEF Init, QueuedIsClaimable, NewestHolds
<1>8. BandCountsExact
  <2>1. \A b \in Bands : QueuedInBand(b) = {}
    BY Zenon, <1>4 DEF QueuedInBand
  <2> QED BY Zenon, <2>1, FS_EmptySet DEF BandCountsExact, Init
<1>9. WriterOK
  BY DEF Init, WriterOK, Shadow, EmptyDoc
<1> QED BY Zenon, <1>1, <1>2, <1>3, <1>4, <1>5, <1>6, <1>7, <1>8, <1>9 DEF IInv

LEMMA SafetyStep == IInv /\ [Next]_vars => IInv'
<1> SUFFICES ASSUME IInv, [Next]_vars PROVE IInv'
  OBVIOUS
<1>0. /\ TypeOK /\ ShadowExact /\ ListsOK(list, pending)
      /\ DocOK(disk) /\ DocOK(writer.copy) /\ Queued \cap Inflight = {}
      /\ LeaseMatchesInflight /\ QueuedIsClaimable /\ BandCountsExact
      /\ WriterOK /\ NewestHolds
  BY DEF IInv
<1>1. CASE Next
  <2>1. TypeOK'
    BY Zenon, <1>0, <1>1, TypeNext
  <2>2. Queued = QueuedIn(ingest, pending)
    <3>1. QueuedList = pending
      BY Zenon, <1>0, ListsUnion DEF QueuedList, TypeOK
    <3> QED BY <3>1 DEF Queued, QueuedIngest, QueuedIn
  <2>3. /\ ApartOK(ingest, pending, inflight)
        /\ AttemptOK(ingest, pending, attempt, shAttempt)
    <3>1. Queued \subseteq Jobs
      BY Zenon, <1>0, <2>2 DEF QueuedIn, Jobs, TypeOK
    <3>2. ApartOK(ingest, pending, inflight)
      BY Zenon, <1>0, <2>2, <3>1 DEF ApartOK, Inflight
    <3>3. AttemptOK(ingest, pending, attempt, shAttempt)
      BY <1>0, <2>2 DEF AttemptOK, ShadowExact
    <3> QED BY Zenon, <3>2, <3>3
  <2>4. ListsOK(list', pending') /\ shList' = list' /\ shPending' = pending'
    BY Zenon, <1>0, <1>1, ListStep DEF ShadowExact
  <2>5. /\ ApartOK(ingest', pending', inflight')
        /\ AttemptOK(ingest', pending', attempt', shAttempt')
    BY Zenon, <1>0, <1>1, <2>3, ApartStep
  <2>6. Queued' = QueuedIn(ingest', pending')
    <3>1. list' \in [ListKinds -> Seq(ListIds)] /\ pending' \in SUBSET ListIds
      BY Zenon, <2>1 DEF TypeOK
    <3>2. UNION {ElementsOf(list'[k]) : k \in ListKinds} = pending'
      BY Zenon, <2>4, <3>1, ListsUnion
    <3> QED BY Zenon, <3>2 DEF Queued, QueuedIngest, QueuedList, QueuedIn, ElementsOf
  <2>7. (Queued \cap Inflight = {})'
    BY ZenonT(30), <2>5, <2>6 DEF ApartOK, Inflight
  <2>8. shIngest' = ingest'
    BY Zenon, <1>0, <1>1, ShadowIngestStep DEF ShadowExact
  <2>9. ShadowExact'
    BY Zenon, <2>4, <2>5, <2>6, <2>8 DEF ShadowExact, AttemptOK
  <2>10. WriterOK' /\ DocOK(disk') /\ DocOK(writer'.copy)
    BY Zenon, <1>0, <1>1, WriterStep
  <2>11. LeaseMatchesInflight' /\ NewestHolds' /\ QueuedIsClaimable' /\ BandCountsExact'
    BY Zenon, <1>0, <1>1, LeaseStep, NewestStep, ClaimableStep, CountStep
  <2> QED BY Zenon, <2>1, <2>4, <2>7, <2>9, <2>10, <2>11 DEF IInv, DocOK, ListsOK, ElementsOf,
             DocQueued
<1>2. CASE UNCHANGED vars
  <2>1. /\ UNCHANGED <<ingest, heap, count, list, pending, inflight, lease, attempt>>
        /\ UNCHANGED <<shIngest, shList, shPending, shAttempt, dirty, moved>>
        /\ UNCHANGED <<writer, disk, held, minted>>
    BY <1>2 DEF vars, queueVars, leaseVars, shadowVars, writerVars
  <2>2. TypeOK'
    BY Zenon, <1>0, TypeNext
  <2>3. Queued' = Queued /\ Inflight' = Inflight
    BY Zenon, <2>1 DEF Queued, Inflight, QueuedIngest, QueuedList
  <2>4. ShadowExact'
    BY ZenonT(30), <1>0, <2>1, <2>3 DEF ShadowExact
  <2>5. ListsOK(list', pending') /\ DocOK(disk') /\ DocOK(writer'.copy)
    BY Zenon, <1>0, <2>1
  <2>6. LeaseMatchesInflight' /\ QueuedIsClaimable'
    BY Zenon, <1>0, <2>1 DEF LeaseMatchesInflight, QueuedIsClaimable, QueuedIngest
  <2>7. BandCountsExact'
    BY Zenon, <1>0, <2>1 DEF BandCountsExact, QueuedInBand, QueuedIngest
  <2>8. WriterOK' /\ NewestHolds'
    BY ZenonT(30), <1>0, <2>1 DEF WriterOK, Shadow, NewestHolds
  <2> QED BY Zenon, <1>0, <2>2, <2>3, <2>4, <2>5, <2>6, <2>7, <2>8
          DEF IInv, DocOK, ListsOK, ElementsOf, DocQueued
<1> QED BY <1>1, <1>2

\* The inductive invariant holds in every reachable state of the job store.
THEOREM SafetyInvariant == Spec => []IInv
BY SafetyInit, SafetyStep, PTL DEF Spec

\* No job of the store is ever both queued and in flight, or queued twice.
THEOREM ExclusiveQueues == Spec => []QueuedXorInflight
<1>1. IInv => QueuedXorInflight
  BY Zenon DEF IInv, QueuedXorInflight, ListsOK
<1> QED BY <1>1, SafetyInvariant, PTL

\* The duplicate suppression of enqueue_list is exact.
THEOREM PendingIsExact == Spec => []PendingExact
<1>1. IInv => PendingExact
  BY Zenon DEF IInv, PendingExact, ListsOK
<1> QED BY <1>1, SafetyInvariant, PTL

\* The lease table and the in-flight map name the same owner for every job.
THEOREM LeasesMatch == Spec => []LeaseMatchesInflight
<1>1. IInv => LeaseMatchesInflight
  BY Zenon DEF IInv
<1> QED BY <1>1, SafetyInvariant, PTL

\* claim_ingest can find every queued ingest job.
THEOREM NothingUnclaimable == Spec => []QueuedIsClaimable
<1>1. IInv => QueuedIsClaimable
  BY Zenon DEF IInv
<1> QED BY <1>1, SafetyInvariant, PTL

\* The incrementally kept band counters are exact.
THEOREM CountersExact == Spec => []BandCountsExact
<1>1. IInv => BandCountsExact
  BY Zenon DEF IInv
<1> QED BY <1>1, SafetyInvariant, PTL

\* The incrementally kept shadow of the sidecar is exact.
THEOREM ShadowIsExact == Spec => []ShadowExact
<1>1. IInv => ShadowExact
  BY Zenon DEF IInv
<1> QED BY <1>1, SafetyInvariant, PTL

\* A store whose _dirty flag is down is on disk as it stands.
THEOREM CleanMeansDurable == Spec => []CleanIsDurable
<1>1. IInv => CleanIsDurable
  BY Zenon DEF IInv, CleanIsDurable, WriterOK
<1> QED BY <1>1, SafetyInvariant, PTL

-----------------------------------------------------------------------------
(* No work disappears. *)

\* An order of a finite set has all its members.
LEMMA OrdersVisitAll ==
  ASSUME NEW S, IsFiniteSet(S), NEW s \in Orders(S)
  PROVE  ElementsOf(s) = S
<1>1. Cardinality(S) \in Nat
  BY Zenon, FS_CardinalityType
<1>2. s \in [1 .. Cardinality(S) -> S]
      /\ \A m, n \in 1 .. Cardinality(S) : s[m] = s[n] => m = n
  BY DEF Orders
<1>3. s \in Injection(1 .. Cardinality(S), S)
  BY Zenon, <1>2 DEF Injection, IsInjective
<1>4. IsFiniteSet(1 .. Cardinality(S)) /\ Cardinality(1 .. Cardinality(S)) = Cardinality(S)
  BY Zenon, <1>1, UpTo
<1>5. s \in Surjection(1 .. Cardinality(S), S)
  BY Zenon, <1>3, <1>4, FS_Injection
<1> QED BY Zenon, <1>5, SurjectiveElements

\* A job in the store stays in it, unless its newest claim is acknowledged or
\* the process is restarted.
LEMMA LeaveStep ==
  ASSUME IInv, IInv', Next, NEW j \in Jobs,
         j \in Queued \cup Inflight, (j \notin Queued \cup Inflight)'
  PROVE  \/ held' = {} /\ Restart
         \/ \E c \in held \ held' :
              c.job = j /\ \A d \in held : d.job = j => d.owner <= c.owner
<1>0. /\ TypeOK /\ NewestHolds
      /\ j \in QueuedIn(ingest, pending) \/ inflight[j] # None
      /\ j \notin QueuedIn(ingest', pending') /\ inflight'[j] = None
  <2>1. TypeOK /\ ListsOK(list, pending) /\ TypeOK' /\ ListsOK(list', pending') /\ NewestHolds
    BY DEF IInv, ListsOK, ElementsOf
  <2>2. /\ UNION {ElementsOf(list[k]) : k \in ListKinds} = pending
        /\ UNION {ElementsOf(list'[k]) : k \in ListKinds} = pending'
    BY Zenon, <2>1, ListsUnion DEF TypeOK
  <2>3. Queued = QueuedIn(ingest, pending) /\ Queued' = QueuedIn(ingest', pending')
    BY ZenonT(30), <2>2 DEF Queued, QueuedIngest, QueuedList, QueuedIn, ElementsOf
  <2> QED BY ZenonT(30), <2>1, <2>3 DEF Inflight
<1>1. CASE Restart
  BY Zenon, <1>1 DEF Restart
<1>2. ASSUME NEW c \in held, Ack(c)
      PROVE  c \in held \ held' /\ c.job = j
               /\ \A d \in held : d.job = j => d.owner <= c.owner
  <2>1. /\ inflight[c.job] # None /\ inflight[c.job].owner = c.owner
        /\ inflight' = [x \in Jobs |-> IF x \in {c.job} THEN None ELSE inflight[x]]
        /\ ingest' = ingest /\ pending' = pending \ {c.job} /\ held' = held \ {c}
    BY Zenon, <1>2 DEF Ack, Holds, Release
  <2>2. c.job = j
    BY Zenon, <1>0, <2>1 DEF QueuedIn
  <2> QED BY Zenon, <1>0, <2>1, <2>2 DEF NewestHolds
<1>3. ASSUME NEW S \in SUBSET IngestIds, NEW new \in [S -> Score], IngestSet(new),
             pending' = pending, \A x \in Jobs \ S : inflight'[x] = inflight[x]
      PROVE  FALSE
  <2>1. ingest' = [i \in IngestIds |-> IF i \in S THEN new[i] ELSE ingest[i]]
    BY Zenon, <1>3 DEF IngestSet
  <2>2. \A i \in S : new[i] # None
    BY ConstantsAssumption DEF Score
  <2>3. QueuedIn(ingest, pending) \cup S \subseteq QueuedIn(ingest', pending')
    BY Zenon, <1>3, <2>1, <2>2 DEF QueuedIn
  <2> QED BY Zenon, <1>0, <1>3, <2>3
<1>4. ASSUME NEW k \in ListKinds, NEW s \in Seq(ListIds), ListAppend(k, s),
             ingest' = ingest, \A x \in Jobs \ ElementsOf(s) : inflight'[x] = inflight[x]
      PROVE  FALSE
  <2>1. QueuedIn(ingest, pending) \cup ElementsOf(s) \subseteq QueuedIn(ingest', pending')
    BY <1>4 DEF ListAppend, QueuedIn
  <2> QED BY Zenon, <1>0, <1>4, <2>1
<1>5. ASSUME NEW x \in ListIds, ListAppend(ListKind[x], <<x>>), ingest' = ingest,
             \A y \in Jobs \ {x} : inflight'[y] = inflight[y]
      PROVE  FALSE
  <2>1. ListKind[x] \in ListKinds /\ <<x>> \in Seq(ListIds) /\ ElementsOf(<<x>>) = {x}
    BY ConstantsAssumption DEF ElementsOf
  <2> QED BY Zenon, <1>4, <1>5, <2>1
<1>6. CASE Enqueue
  <2>1. ASSUME NEW i \in IngestIds, NEW s \in Scores, ZaddIngest(i, s) PROVE FALSE
    <3>1. [y \in {i} |-> s] \in [{i} -> Score] /\ {i} \in SUBSET IngestIds
      BY ConstantsAssumption, ZenonT(30)
    <3>2. IngestSet([y \in {i} |-> s]) /\ pending' = pending /\ inflight' = inflight
      BY <2>1 DEF ZaddIngest, leaseVars
    <3> QED BY Zenon, <1>3, <3>1, <3>2
  <2>2. ASSUME NEW x \in ListIds, EnqueueList(x) PROVE FALSE
    BY Zenon, <1>5, <2>2 DEF EnqueueList, leaseVars
  <2> QED BY Zenon, <1>6, <2>1, <2>2 DEF Enqueue
<1>7. ASSUME NEW b \in Bands, NEW n \in 1 .. MaxBatch, ClaimIngest(b, n) PROVE FALSE
  <2>1. PICK S \in SUBSET IngestIds :
          /\ ingest' = [i \in IngestIds |-> IF i \in S THEN None ELSE ingest[i]]
          /\ \A x \in Jobs \ S : inflight'[x] = inflight[x]
          /\ \A x \in S : inflight'[x] # None
    BY Zenon, <1>0, <1>7, ClaimIngestEffect
  <2>2. pending' = pending
    BY Zenon, <1>7 DEF ClaimIngest
  <2> QED BY Zenon, <1>0, <2>1, <2>2 DEF QueuedIn
<1>8. ASSUME NEW k \in ListKinds, ClaimList(k) PROVE FALSE
  <2>1. PICK n \in DOMAIN list[k] :
          /\ pending' = pending \ {list[k][m] : m \in 1 .. n} /\ ingest' = ingest
          /\ \A m \in 1 .. n - 1 : inflight[list[k][m]] # None
          /\ Grant({list[k][n]}, minted + 1, [x \in Jobs |-> None])
    BY Zenon, <1>8 DEF ClaimList
  <2>2. list[k] \in Seq(ListIds) /\ n \in 1 .. Len(list[k]) /\ minted \in Nat
    <3>1. list \in [ListKinds -> Seq(ListIds)] /\ minted \in 0 .. MaxToken
      BY Zenon, <1>0 DEF TypeOK
    <3>2. MaxToken \in Nat
      BY Zenon, ConstantsAssumption
    <3> QED BY Zenon, <2>1, <3>1, <3>2, Intervals, ListIndices
  <2>3. Entry(minted + 1, None) # None
    BY Zenon, <2>2, EntryIsNotNone DEF OptScore
  <2>4. \A x \in Jobs : inflight'[x] = None => inflight[x] = None /\ x # list[k][n]
    BY Zenon, <2>1, <2>3 DEF Grant
  <2>5. inflight[j] = None /\ j # list[k][n]
    BY Zenon, <1>0, <2>4
  <2>6. j \in pending \/ j \in QueuedIn(ingest', pending')
    BY ZenonT(30), <1>0, <2>1, <2>5 DEF QueuedIn
  <2>7. \A m \in 1 .. n : list[k][m] # j
    BY Zenon, <2>1, <2>2, <2>5, Intervals, ListIndices
  <2> QED BY Zenon, <1>0, <2>1, <2>6, <2>7 DEF QueuedIn
<1>9. ASSUME NEW c \in held, DropClaim(c) \/ BumpAttempt(c) PROVE FALSE
  BY Zenon, <1>0, <1>9 DEF DropClaim, BumpAttempt, queueVars, leaseVars
<1>10. ASSUME NEW c \in held, c.job \in IngestIds, NEW s \in RequeueScores(c),
              RequeueIngest(c, s)
       PROVE  FALSE
  <2>1. c.score \in Score
    BY Zenon, <1>0, <1>10, ConstantsAssumption DEF TypeOK, Claims
  <2>2. s \in Score
    BY Zenon, <1>10, <2>1, RequeuedScore DEF RequeueIngest
  <2>3. [x \in {c.job} |-> s] \in [{c.job} -> Score] /\ {c.job} \in SUBSET IngestIds
    BY Zenon, <1>10, <2>2
  <2>4. /\ IngestSet([x \in {c.job} |-> s]) /\ pending' = pending
        /\ \A x \in Jobs \ {c.job} : inflight'[x] = inflight[x]
    BY ZenonT(30), <1>10 DEF RequeueIngest, Release
  <2> QED BY Zenon, <1>3, <2>3, <2>4
<1>11. ASSUME NEW c \in held, RequeueList(c) PROVE FALSE
  BY Zenon, <1>5, <1>11 DEF RequeueList, Release
<1>12. ASSUME NEW x \in Jobs, TimePasses(x) \/ ExtendInflightDeadline(x) PROVE FALSE
  <2>1. PICK d \in BOOLEAN : inflight' = [inflight EXCEPT ![x].due = d]
    BY Zenon, <1>12 DEF TimePasses, ExtendInflightDeadline
  <2>2. inflight[x] # None /\ UNCHANGED <<ingest, pending>>
    BY Zenon, <1>12 DEF TimePasses, ExtendInflightDeadline, queueVars
  <2>3. inflight[x] \in [owner : Token, score : OptScore, due : BOOLEAN]
    BY Zenon, <1>0, <2>2 DEF TypeOK
  <2>4. inflight'[x] = [inflight[x] EXCEPT !.due = d]
          /\ \A y \in Jobs \ {x} : inflight'[y] = inflight[y]
    BY Zenon, <1>0, <2>1 DEF TypeOK
  <2>5. [inflight[x] EXCEPT !.due = d] \in [owner : Token, score : OptScore, due : BOOLEAN]
    BY <2>3
  <2>6. inflight'[x] # None
    BY Zenon, <2>4, <2>5, NoneIsNoEntry
  <2> QED BY <1>0, <2>2, <2>4, <2>6, Zenon
<1>13. ASSUME ReapIngest PROVE FALSE
  <2> DEFINE Restore(S) == [i \in S |-> (IF inflight[i].score = None THEN CatchupBase
                                 ELSE inflight[i].score) + Penalty]
  <2>1. PICK S \in SUBSET IngestIds :
          /\ Reapable(IngestIds, S)
          /\ \A i \in S : Restore(S)[i] <= MaxScore
          /\ Release(S) /\ IngestSet(Restore(S)) /\ pending' = pending
    BY Zenon, <1>13 DEF ReapIngest
  <2>2. ASSUME NEW i \in S PROVE Restore(S)[i] \in Score
    <3>1. inflight[i] # None /\ i \in Jobs
      BY Zenon, <2>1 DEF Reapable, Due, Jobs
    <3>2. inflight[i].score \in OptScore
      BY Zenon, <1>0, <3>1 DEF TypeOK
    <3>3. Restore(S)[i] <= MaxScore
      BY Zenon, <2>1
    <3>4. Restore(S)[i] = (IF inflight[i].score = None THEN CatchupBase
                           ELSE inflight[i].score) + Penalty
      BY Zenon
    <3> QED BY Zenon, <3>2, <3>3, <3>4, RestoredScore
  <2>3. Restore(S) \in [S -> Score]
    BY Zenon, <2>2
  <2> HIDE DEF Restore
  <2>4. \A x \in Jobs \ S : inflight'[x] = inflight[x]
    BY Zenon, <2>1 DEF Release
  <2> QED BY Zenon, <1>3, <2>1, <2>3, <2>4
<1>14. ASSUME NEW k \in ListKinds, ReapList(k) PROVE FALSE
  <2>1. PICK S \in SUBSET {x \in ListIds : ListKind[x] = k} :
          /\ Release(S) /\ \E s \in Orders(S) : ListAppend(k, s)
          /\ ingest' = ingest
    BY <1>14 DEF ReapList
  <2>2. PICK s \in Orders(S) : ListAppend(k, s)
    BY Zenon, <2>1
  <2>3. IsFiniteSet(S) /\ Cardinality(S) \in Nat
    <3>1. S \in SUBSET ListIds
      BY Zenon
    <3> QED BY Zenon, <3>1, ConstantsAssumption, FS_Subset, FS_CardinalityType
  <2>4. s \in [1 .. Cardinality(S) -> S]
        /\ \A m, n \in 1 .. Cardinality(S) : s[m] = s[n] => m = n
    BY Zenon DEF Orders
  <2>5. s \in Seq(ListIds)
    BY <2>3, <2>4
  <2>6. ElementsOf(s) = S
    BY Zenon, <2>3, OrdersVisitAll
  <2>7. \A x \in Jobs \ ElementsOf(s) : inflight'[x] = inflight[x]
    BY Zenon, <2>1, <2>6 DEF Release
  <2> QED BY Zenon, <1>4, <2>1, <2>2, <2>5, <2>7
<1>15. ASSUME NEW k \in ListKinds, ReorderList(k) PROVE FALSE
  BY Zenon, <1>0, <1>15 DEF ReorderList, leaseVars
<1>16. CASE RequestForce \/ Writer
  BY Zenon, <1>0, <1>16 DEF RequestForce, Writer, WriterWake, WriterCopy, WriterSave,
     WriterSaveFails, WriterMarkClean, WriterDone, queueVars, leaseVars
<1>17. CASE Claim
  BY Zenon, <1>7, <1>8, <1>17 DEF Claim
<1>18. CASE Finish
  BY Zenon, <1>2, <1>9, <1>10, <1>11, <1>18 DEF Finish
<1>19. CASE Deadlines
  BY Zenon, <1>12, <1>13, <1>14, <1>15, <1>19 DEF Deadlines
<1> QED BY Zenon, <1>1, <1>6, <1>16, <1>17, <1>18, <1>19 DEF Next

\* A late acknowledgement, a reap or a requeue never makes work disappear.
THEOREM NoWorkLost == Spec => LeavesOnlyByNewestAck
<1> DEFINE Leave == \A j \in Jobs :
              (j \in Queued \cup Inflight) /\ (j \notin Queued \cup Inflight)'
                => \/ held' = {} /\ Restart
                   \/ \E c \in held \ held' :
                        c.job = j /\ \A d \in held : d.job = j => d.owner <= c.owner
<1>1. IInv /\ IInv' /\ [Next]_vars => [Leave]_vars
  BY LeaveStep
<1> QED BY <1>1, SafetyInvariant, PTL DEF Spec, LeavesOnlyByNewestAck

-----------------------------------------------------------------------------
(* The job store implements the durable leased queue.                        *)

\* A token and a job determine the claim: a claim leaves the callers' hands once.
UniqueClaims == \A c, d \in held : c.job = d.job /\ c.owner = d.owner => c = d

LEMMA UniqueStep ==
  ASSUME TypeOK, NewestHolds, UniqueClaims, Next
  PROVE  UniqueClaims'
<1>1. CASE held' \subseteq held
  BY Zenon, <1>1 DEF UniqueClaims
<1>2. ASSUME NEW S \in SUBSET Jobs, NEW score, Grant(S, minted + 1, score)
      PROVE  UniqueClaims'
  <2> DEFINE new == {[job |-> j, owner |-> minted + 1, score |-> score[j]] : j \in S}
  <2>1. held' = held \cup new
    BY <1>2, Zenon DEF Grant
  <2>2. \A c, d \in new : c.owner = minted + 1 /\ (c.job = d.job => c = d)
    OBVIOUS
  <2> HIDE DEF new
  <2>3. \A c \in held : c.owner # minted + 1
    <3>1. minted \in Nat /\ \A c \in held : c.owner \in Nat /\ c.owner <= minted
      <4>1. minted \in 0 .. MaxToken /\ held \in SUBSET Claims
        BY Zenon DEF TypeOK
      <4>2. \A c \in Claims : c.owner \in Token
        BY DEF Claims
      <4>3. \A c \in held : c.owner <= minted
        BY Zenon DEF NewestHolds
      <4>4. minted \in Nat /\ Token \subseteq Nat
        BY <4>1 DEF Token
      <4> QED BY Zenon, <4>1, <4>2, <4>3, <4>4
    <3> QED BY <3>1
  <2> QED BY Zenon, <2>1, <2>2, <2>3 DEF UniqueClaims
<1> QED BY Zenon, LeaseEffects, <1>1, <1>2

\* The status of the jobs when f is the scored queue, p the pending set and fl
\* the in-flight map.
StatusIn(f, p, fl) ==
  [j \in Jobs |-> IF fl[j] # None THEN Abstract!Leased(fl[j].owner, fl[j].due)
                  ELSE IF j \in QueuedIn(f, p) THEN Abstract!Waiting ELSE Abstract!Absent]

LEMMA StatusKinds ==
  /\ Abstract!Waiting.st = "queued" /\ Abstract!Absent.st = "absent"
  /\ \A o, d : Abstract!Leased(o, d).st = "leased" /\ Abstract!Leased(o, d).owner = o
BY DEF Abstract!Waiting, Abstract!Absent, Abstract!Leased

LEMMA LeasedStatus ==
  ASSUME NEW j \in Jobs, Status[j].st = "leased"
  PROVE  inflight[j] # None /\ Status[j].owner = inflight[j].owner
BY DEF Status

LEMMA StatusIs ==
  ASSUME TypeOK, ListsOK(list, pending)
  PROVE  /\ Queued = QueuedIn(ingest, pending)
         /\ Status = StatusIn(ingest, pending, inflight)
<1>1. QueuedList = pending
  BY Zenon, ListsUnion DEF QueuedList, TypeOK
<1>2. Queued = QueuedIn(ingest, pending)
  BY <1>1 DEF Queued, QueuedIngest, QueuedIn
<1> HIDE DEF Queued
<1>3. \A j \in Jobs : Status[j] = StatusIn(ingest, pending, inflight)[j]
  BY <1>2, Zenon DEF Status, StatusIn, Abstract!Leased, Abstract!Waiting, Abstract!Absent
<1> QED BY Zenon, <1>2, <1>3 DEF Status, StatusIn

\* What the invariant says of the abstract state.
LEMMA StatusFacts ==
  ASSUME IInv
  PROVE  /\ Status = StatusIn(ingest, pending, inflight)
         /\ Queued = QueuedIn(ingest, pending)
         /\ ApartOK(ingest, pending, inflight)
<1>1. TypeOK /\ ListsOK(list, pending) /\ Queued \cap Inflight = {}
  BY Zenon DEF IInv
<1>2. Status = StatusIn(ingest, pending, inflight) /\ Queued = QueuedIn(ingest, pending)
  BY Zenon, <1>1, StatusIs
<1>3. QueuedIn(ingest, pending) \subseteq Jobs
  BY ZenonT(30), <1>1 DEF TypeOK, QueuedIn, Jobs
<1> QED BY Zenon, <1>1, <1>2, <1>3 DEF ApartOK, Inflight

LEMMA StatusPrimed ==
  ASSUME IInv'
  PROVE  Status' = StatusIn(ingest', pending', inflight')
<1>1. TypeOK' /\ ListsOK(list', pending')
  BY DEF IInv, ListsOK, ElementsOf
<1>2. UNION {ElementsOf(list'[k]) : k \in ListKinds} = pending'
  BY Zenon, <1>1, ListsUnion DEF TypeOK
<1>3. Queued' = QueuedIn(ingest', pending')
  BY <1>2 DEF Queued, QueuedIngest, QueuedList, QueuedIn, ElementsOf
<1>4. \A j \in Jobs : Status'[j] = StatusIn(ingest', pending', inflight')[j]
  <2> HIDE DEF Queued
  <2> QED BY <1>3, Zenon DEF Status, StatusIn, Abstract!Leased, Abstract!Waiting, Abstract!Absent
<1> QED BY Zenon, <1>4 DEF Status, StatusIn

\* The status of the jobs outside S is kept, that of the jobs of S becomes e.
LEMMA StatusPut ==
  ASSUME IInv, IInv', NEW S \in SUBSET Jobs, NEW e,
         \A j \in Jobs \ S : /\ inflight'[j] = inflight[j]
                             /\ j \in QueuedIn(ingest', pending') <=> j \in QueuedIn(ingest, pending),
         \A j \in S : StatusIn(ingest', pending', inflight')[j] = e
  PROVE  Status' = Abstract!Put(S, e)
<1>1. /\ Status = StatusIn(ingest, pending, inflight)
      /\ Status' = StatusIn(ingest', pending', inflight')
  BY Zenon, StatusFacts, StatusPrimed
<1>2. \A j \in Jobs \ S : Status'[j] = Status[j]
  BY Zenon, <1>1 DEF StatusIn
<1>3. \A j \in Jobs : Status'[j] = Abstract!Put(S, e)[j]
  BY Zenon, <1>1, <1>2 DEF Abstract!Put
<1>4. Status' = [j \in Jobs |-> Status'[j]]
  BY Zenon, <1>1 DEF StatusIn
<1> HIDE DEF Status
<1> QED BY Zenon, <1>3, <1>4 DEF Abstract!Put

\* A step that touches neither queues nor leases does not change the status.
LEMMA StatusKept ==
  ASSUME IInv, IInv', inflight' = inflight,
         QueuedIn(ingest', pending') = QueuedIn(ingest, pending)
  PROVE  Status' = Status
BY Zenon, StatusFacts, StatusPrimed DEF StatusIn

LEMMA SidecarKept ==
  ASSUME UNCHANGED <<writer, disk>>
  PROVE  UNCHANGED Abstract!sidecar
BY DEF Abstract!sidecar, Copied, DocQueued, ElementsOf

LEMMA NothingCopied ==
  ASSUME disk' = disk, writer.pc # "saving", writer'.pc # "saving"
  PROVE  UNCHANGED Abstract!sidecar
BY DEF Abstract!sidecar, Copied, DocQueued, ElementsOf

\* The document copied from the store lists what is queued in it.
LEMMA CopiedNext == Copied' = IF writer'.pc = "saving" THEN DocQueued(writer'.copy) ELSE {}
BY DEF Copied, DocQueued, ElementsOf

LEMMA DocOfStore ==
  ASSUME NEW d, d.ingest = ingest, d.list = list
  PROVE  DocQueued(d) = Queued
BY DEF DocQueued, Queued, QueuedIngest, QueuedList

LEMMA HeldKept == ASSUME held' = held PROVE ClaimsHeld' = ClaimsHeld
BY DEF ClaimsHeld

\* A step of the store is a step of the durable queue or changes nothing of it.
Refines == Abstract!Next \/ UNCHANGED Abstract!vars

LEMMA Stutters ==
  ASSUME Status' = Status, minted' = minted, held' = held, UNCHANGED Abstract!sidecar
  PROVE  Refines
BY Zenon, HeldKept DEF Refines, Abstract!vars, Abstract!queue

LEMMA StoreSteps ==
  ASSUME Abstract!StoreStep, held' = held, UNCHANGED <<writer, disk>>
  PROVE  Refines
BY Zenon, HeldKept, SidecarKept DEF Refines, Abstract!Next

\* zadd_ingest and enqueue_list: the job is new, or it is queued already.
LEMMA AddRefines ==
  ASSUME IInv, IInv', NEW j \in Jobs, inflight[j] = None, inflight' = inflight,
         QueuedIn(ingest', pending') = QueuedIn(ingest, pending) \cup {j},
         UNCHANGED <<minted, held, writer, disk>>
  PROVE  Refines
<1>1. CASE j \in QueuedIn(ingest, pending)
  <2>1. QueuedIn(ingest', pending') = QueuedIn(ingest, pending)
    BY Zenon, <1>1
  <2> QED BY Zenon, <2>1, StatusKept, SidecarKept, Stutters
<1>2. CASE j \notin QueuedIn(ingest, pending)
  <2>1. Status[j] = Abstract!Absent
    BY Zenon, <1>2, StatusFacts DEF StatusIn
  <2>2. StatusIn(ingest', pending', inflight')[j] = Abstract!Waiting
    BY Zenon DEF StatusIn
  <2>3. Status' = Abstract!Put({j}, Abstract!Waiting)
    BY Zenon, <2>2, StatusPut
  <2>4. Status[j].st = "absent"
    BY <2>1 DEF Abstract!Absent
  <2>5. Abstract!Add(j)
    BY Zenon, <2>3, <2>4 DEF Abstract!Add
  <2> QED BY Zenon, <2>5, StoreSteps DEF Abstract!StoreStep
<1> QED BY Zenon, <1>1, <1>2

\* claim_ingest and claim_list: queued jobs become leased to one new token.
LEMMA ClaimRefines ==
  ASSUME IInv, IInv', minted < MaxToken, UNCHANGED <<writer, disk>>,
         NEW S \in SUBSET Jobs, S # {}, S \subseteq QueuedIn(ingest, pending),
         QueuedIn(ingest', pending') = QueuedIn(ingest, pending) \ S,
         NEW score, Grant(S, minted + 1, score), \A j \in S : inflight'[j] # None
  PROVE  Refines
<1>1. \A j \in S : Status[j] = Abstract!Waiting
  BY Zenon, StatusFacts DEF StatusIn, ApartOK
<1>2. S \subseteq Abstract!InState("queued")
  BY Zenon, <1>1, StatusKinds DEF Abstract!InState
<1>3. \A j \in S : inflight'[j].owner = minted + 1 /\ inflight'[j].due = FALSE
  BY DEF Grant, Entry
<1>4. \A j \in S : StatusIn(ingest', pending', inflight')[j] = Abstract!Leased(minted + 1, FALSE)
  BY Zenon, <1>3 DEF StatusIn
<1>5. \A j \in Jobs \ S : inflight'[j] = inflight[j]
  BY Zenon DEF Grant
<1>6. Status' = Abstract!Put(S, Abstract!Leased(minted + 1, FALSE))
  BY Zenon, <1>4, <1>5, StatusPut
<1>7. Abstract!Claim(S)
  BY Zenon, <1>2, <1>6 DEF Abstract!Claim, Grant
<1>8. ClaimsHeld' = ClaimsHeld \cup {Abstract!ClaimOn(j, minted + 1) : j \in S}
  <2> DEFINE Brief(c) == [job |-> c.job, owner |-> c.owner]
             Full(j) == [job |-> j, owner |-> minted + 1, score |-> score[j]]
  <2>1. ClaimsHeld' = {Brief(c) : c \in held'} /\ ClaimsHeld = {Brief(c) : c \in held}
    BY Zenon DEF ClaimsHeld
  <2>2. held' = held \cup {Full(j) : j \in S}
    BY ZenonT(30) DEF Grant
  <2>3. \A j \in S : Brief(Full(j)) = Abstract!ClaimOn(j, minted + 1)
    BY DEF Abstract!ClaimOn
  <2> HIDE DEF Brief, Full
  <2> QED BY Zenon, <2>1, <2>2, <2>3
<1> QED BY Zenon, <1>7, <1>8, SidecarKept DEF Refines, Abstract!Next, Abstract!ClaimStep

\* A claim that is used up is gone from the abstract claims too.
LEMMA ClaimUsed ==
  ASSUME TypeOK, UniqueClaims, NEW c \in held, held' = held \ {c}
  PROVE  LET a == Abstract!ClaimOn(c.job, c.owner)
         IN /\ c.job \in Jobs /\ a \in ClaimsHeld /\ ClaimsHeld' = ClaimsHeld \ {a}
            /\ a.job = c.job /\ a.owner = c.owner
<1> DEFINE Brief(d) == Abstract!ClaimOn(d.job, d.owner)
<1>1. ClaimsHeld' = {Brief(d) : d \in held'} /\ ClaimsHeld = {Brief(d) : d \in held}
  BY Zenon DEF ClaimsHeld, Abstract!ClaimOn
<1>2. \A d \in held : Brief(d) = Brief(c) => d = c
  <2>1. \A d \in held : Brief(d) = Brief(c) => d.job = c.job /\ d.owner = c.owner
    BY Zenon DEF Abstract!ClaimOn
  <2> QED BY Zenon, <2>1 DEF UniqueClaims
<1>3. Brief(c).job = c.job /\ Brief(c).owner = c.owner
  BY Zenon DEF Abstract!ClaimOn
<1>4. c.job \in Jobs
  <2>1. c \in Claims
    BY Zenon DEF TypeOK
  <2> QED BY Zenon, <2>1 DEF Claims, Jobs
<1> HIDE DEF Brief
<1>5. ClaimsHeld' = ClaimsHeld \ {Brief(c)} /\ Brief(c) \in ClaimsHeld
  BY Zenon, <1>1, <1>2
<1> QED BY Zenon, <1>3, <1>4, <1>5 DEF Brief

\* ack and requeue for the holder of the lease: the job is gone, or waits again.
LEMMA HolderRefines ==
  ASSUME IInv, IInv', UniqueClaims, NEW c \in held, Holds(c), held' = held \ {c},
         UNCHANGED <<minted, writer, disk>>, Release({c.job}),
         \/ QueuedIn(ingest', pending') = QueuedIn(ingest, pending)
         \/ QueuedIn(ingest', pending') = QueuedIn(ingest, pending) \cup {c.job}
  PROVE  Refines
<1> DEFINE a == Abstract!ClaimOn(c.job, c.owner)
<1>1. /\ c.job \in Jobs /\ a \in ClaimsHeld /\ ClaimsHeld' = ClaimsHeld \ {a}
      /\ a.job = c.job /\ a.owner = c.owner
  BY ZenonT(30), ClaimUsed DEF IInv
<1> HIDE DEF a
<1>2. Abstract!LeasedTo(c.job, c.owner)
  <2>1. Status[c.job] = Abstract!Leased(inflight[c.job].owner, inflight[c.job].due)
    BY Zenon, <1>1, StatusFacts DEF StatusIn, Holds
  <2>2. inflight[c.job].owner = c.owner
    BY ZenonT(30) DEF Holds
  <2> QED BY <2>1, <2>2 DEF Abstract!LeasedTo, Abstract!Leased
<1>3. /\ inflight'[c.job] = None
      /\ \A j \in Jobs \ {c.job} : inflight'[j] = inflight[j]
  BY <1>1 DEF Release
<1>4. c.job \notin QueuedIn(ingest, pending)
  BY Zenon, StatusFacts DEF ApartOK, Holds
<1>5. CASE QueuedIn(ingest', pending') = QueuedIn(ingest, pending)
  <2>1. StatusIn(ingest', pending', inflight')[c.job] = Abstract!Absent
    BY Zenon, <1>1, <1>3, <1>4, <1>5 DEF StatusIn
  <2>2. Status' = Abstract!Put({c.job}, Abstract!Absent)
    BY Zenon, <1>1, <1>3, <1>5, <2>1, StatusPut
  <2>3. Abstract!Finish(a.job, a.owner)
    BY Zenon, <1>1, <1>2, <2>2 DEF Abstract!Finish
  <2> QED BY Zenon, <1>1, <2>3, SidecarKept DEF Refines, Abstract!Next, Abstract!CallerStep
<1>6. CASE QueuedIn(ingest', pending') = QueuedIn(ingest, pending) \cup {c.job}
  <2>1. StatusIn(ingest', pending', inflight')[c.job] = Abstract!Waiting
    BY Zenon, <1>1, <1>3, <1>6 DEF StatusIn
  <2>2. Status' = Abstract!Put({c.job}, Abstract!Waiting)
    BY Zenon, <1>1, <1>3, <1>6, <2>1, StatusPut
  <2>3. Abstract!Return(a.job, a.owner)
    BY Zenon, <1>1, <1>2, <2>2 DEF Abstract!Return
  <2> QED BY Zenon, <1>1, <2>3, SidecarKept DEF Refines, Abstract!Next, Abstract!CallerStep
<1> QED BY Zenon, <1>5, <1>6

\* A claim whose lease is gone is dropped.
LEMMA DropRefines ==
  ASSUME IInv, IInv', UniqueClaims, NEW c \in held, DropClaim(c)
  PROVE  Refines
<1> DEFINE a == Abstract!ClaimOn(c.job, c.owner)
<1>1. /\ UNCHANGED <<ingest, pending, inflight, minted, writer, disk>>
      /\ held' = held \ {c} /\ ~Holds(c)
  BY Zenon DEF DropClaim, queueVars, leaseVars, writerVars
<1>2. /\ c.job \in Jobs /\ a \in ClaimsHeld /\ ClaimsHeld' = ClaimsHeld \ {a}
      /\ a.job = c.job /\ a.owner = c.owner
  BY ZenonT(30), <1>1, ClaimUsed DEF IInv
<1> HIDE DEF a
<1>3. ~Abstract!LeasedTo(c.job, c.owner)
  BY Zenon, <1>1, <1>2, LeasedStatus DEF Holds, Abstract!LeasedTo
<1>4. UNCHANGED Abstract!queue
  BY Zenon, <1>1, StatusKept DEF Abstract!queue
<1>5. Abstract!CallerStep
  BY Zenon, <1>2, <1>3, <1>4 DEF Abstract!CallerStep
<1> QED BY Zenon, <1>1, <1>5, SidecarKept DEF Refines, Abstract!Next

\* A deadline passes or is extended.
LEMMA DeadlineRefines ==
  ASSUME IInv, IInv', NEW j \in Jobs, NEW d \in BOOLEAN,
         inflight[j] # None, inflight[j].due = ~d, inflight' = [inflight EXCEPT ![j].due = d],
         UNCHANGED <<ingest, pending, held, minted, writer, disk>>
  PROVE  Refines
<1>1. /\ inflight[j] \in [owner : Token, score : OptScore, due : BOOLEAN]
      /\ inflight \in [Jobs -> {None} \cup [owner : Token, score : OptScore, due : BOOLEAN]]
  BY Zenon DEF IInv, TypeOK
<1>2. /\ inflight'[j] = [inflight[j] EXCEPT !.due = d]
      /\ \A x \in Jobs \ {j} : inflight'[x] = inflight[x]
  BY Zenon, <1>1
<1>3. /\ inflight'[j] \in [owner : Token, score : OptScore, due : BOOLEAN]
      /\ inflight'[j].owner = inflight[j].owner /\ inflight'[j].due = d
  BY Zenon, <1>1, <1>2
<1>4. Status[j] = Abstract!Leased(inflight[j].owner, ~d)
  BY Zenon, StatusFacts DEF StatusIn
<1>5. StatusIn(ingest', pending', inflight')[j] = Abstract!Leased(inflight[j].owner, d)
  BY Zenon, <1>3, NoneIsNoEntry DEF StatusIn
<1>6. Status' = Abstract!Put({j}, Abstract!Leased(inflight[j].owner, d))
  <2>1. {j} \in SUBSET Jobs /\ QueuedIn(ingest', pending') = QueuedIn(ingest, pending)
    BY Zenon
  <2>2. \A x \in {j} : StatusIn(ingest', pending', inflight')[x]
                           = Abstract!Leased(inflight[j].owner, d)
    BY Zenon, <1>5
  <2> QED BY ZenonT(30), <1>2, <2>1, <2>2, StatusPut
<1>7. Status[j].st = "leased" /\ Status[j].owner = inflight[j].owner /\ Status[j].due = ~d
  BY <1>4 DEF Abstract!Leased
<1>8. Abstract!Expire(j) \/ Abstract!Extend(j)
  <2>1. CASE d = TRUE
    BY Zenon, <1>6, <1>7, <2>1 DEF Abstract!Expire
  <2>2. CASE d = FALSE
    BY Zenon, <1>6, <1>7, <2>2 DEF Abstract!Extend
  <2> QED BY <2>1, <2>2, Zenon
<1> QED BY Zenon, <1>8, StoreSteps DEF Abstract!StoreStep

\* reap_expired_inflight: overdue leases go back.
LEMMA ReapRefines ==
  ASSUME IInv, IInv', NEW K \in SUBSET Jobs, NEW S, Reapable(K, S), Release(S),
         QueuedIn(ingest', pending') = QueuedIn(ingest, pending) \cup S,
         UNCHANGED <<held, minted, writer, disk>>
  PROVE  Refines
<1>1. /\ S # {} /\ S \in SUBSET Jobs
      /\ \A j \in S : inflight[j] # None /\ inflight[j].due
  BY Zenon DEF Reapable, Due
<1>2. \A j \in S : Status[j].st = "leased" /\ Status[j].due
  BY <1>1, StatusFacts DEF StatusIn, Abstract!Leased
<1>3. /\ \A j \in S : inflight'[j] = None
      /\ \A j \in Jobs \ S : inflight'[j] = inflight[j]
  BY Zenon, <1>1 DEF Release
<1>4. \A j \in S : StatusIn(ingest', pending', inflight')[j] = Abstract!Waiting
  BY Zenon, <1>1, <1>3 DEF StatusIn
<1>5. Status' = Abstract!Put(S, Abstract!Waiting)
  BY Zenon, <1>1, <1>3, <1>4, StatusPut
<1>6. Abstract!Reap(S)
  BY Zenon, <1>1, <1>2, <1>5 DEF Abstract!Reap, Abstract!InState
<1> QED BY Zenon, <1>1, <1>6, StoreSteps DEF Abstract!StoreStep

-----------------------------------------------------------------------------
(* Every step of the store is a step of the durable queue or a stutter.        *)

LEMMA EnqueueRefines == ASSUME IInv, IInv', Enqueue PROVE Refines
<1>0. None \notin Score /\ Scores \subseteq Score
  BY ConstantsAssumption DEF Score
<1>1. ASSUME NEW i \in IngestIds, NEW s \in Scores, ZaddIngest(i, s) PROVE Refines
  <2>1. /\ inflight[i] = None /\ pending' = pending
        /\ UNCHANGED <<inflight, minted, held, writer, disk>>
    BY Zenon, <1>1 DEF ZaddIngest, leaseVars, writerVars
  <2>2. ingest' = [x \in IngestIds |-> IF x \in {i} THEN s ELSE ingest[x]]
    BY <1>1, Zenon DEF ZaddIngest, IngestSet
  <2>3. QueuedIn(ingest', pending') = QueuedIn(ingest, pending) \cup {i}
    BY <1>0, <2>1, <2>2, Zenon DEF QueuedIn
  <2> QED BY Zenon, <2>1, <2>3, AddRefines DEF Jobs
<1>2. ASSUME NEW j \in ListIds, EnqueueList(j) PROVE Refines
  <2>1. /\ inflight[j] = None /\ ingest' = ingest /\ pending' = pending \cup ElementsOf(<<j>>)
        /\ UNCHANGED <<inflight, minted, held, writer, disk>>
    BY Zenon, <1>2 DEF EnqueueList, ListAppend, leaseVars, writerVars
  <2>2. QueuedIn(ingest', pending') = QueuedIn(ingest, pending) \cup {j}
    BY <2>1 DEF QueuedIn, ElementsOf
  <2> QED BY Zenon, <2>1, <2>2, AddRefines DEF Jobs
<1> QED BY Zenon, <1>1, <1>2 DEF Enqueue

LEMMA ClaimsRefine == ASSUME IInv, IInv', Claim PROVE Refines
<1>0. /\ TypeOK /\ minted < MaxToken /\ minted \in Nat
      /\ list \in [ListKinds -> Seq(ListIds)] /\ pending \in SUBSET ListIds
      /\ ListsOK(list, pending) /\ ApartOK(ingest, pending, inflight)
  <2>1. TypeOK /\ ListsOK(list, pending) /\ minted < MaxToken
    BY Zenon DEF IInv, Claim
  <2>2. /\ list \in [ListKinds -> Seq(ListIds)] /\ pending \in SUBSET ListIds
        /\ minted \in 0 .. MaxToken
    BY Zenon, <2>1 DEF TypeOK
  <2>3. minted \in Nat
    BY <2>2
  <2> QED BY Zenon, <2>1, <2>2, <2>3, StatusFacts
<1>1. ASSUME NEW b \in Bands, NEW n \in 1 .. MaxBatch, ClaimIngest(b, n) PROVE Refines
  <2>1. PICK S \in SUBSET IngestIds :
          /\ \A i \in S : i \in QueuedInBand(b) /\ inflight[i] = None
          /\ ingest' = [i \in IngestIds |-> IF i \in S THEN None ELSE ingest[i]]
          /\ \A j \in S : inflight'[j] # None
          /\ \/ S = {} /\ UNCHANGED <<inflight, held, minted>>
             \/ S # {} /\ \E score : Grant(S, minted + 1, score)
    BY Zenon, <1>0, <1>1, ClaimIngestEffect
  <2>2. pending' = pending /\ UNCHANGED <<writer, disk>>
    BY Zenon, <1>1 DEF ClaimIngest, writerVars
  <2>3. S \subseteq QueuedIn(ingest, pending) /\ S \in SUBSET Jobs
    BY Zenon, <2>1 DEF QueuedInBand, QueuedIngest, QueuedIn, Jobs
  <2>4. QueuedIn(ingest', pending') = QueuedIn(ingest, pending) \ S
    BY <1>0, <2>1, <2>2, ConstantsAssumption, Zenon DEF QueuedIn
  <2>5. CASE S = {}
    <3>1. QueuedIn(ingest', pending') = QueuedIn(ingest, pending)
      BY Zenon, <2>4, <2>5
    <3> QED BY Zenon, <2>1, <2>2, <2>5, <3>1, StatusKept, SidecarKept, Stutters
  <2>6. CASE S # {}
    BY Zenon, <1>0, <2>1, <2>2, <2>3, <2>4, <2>6, ClaimRefines
  <2> QED BY ZenonT(30), <2>5, <2>6
<1>2. ASSUME NEW k \in ListKinds, ClaimList(k) PROVE Refines
  <2>1. PICK n \in DOMAIN list[k] :
          /\ pending' = pending \ {list[k][m] : m \in 1 .. n} /\ ingest' = ingest
          /\ \A m \in 1 .. n - 1 : inflight[list[k][m]] # None
          /\ Grant({list[k][n]}, minted + 1, [x \in Jobs |-> None])
          /\ UNCHANGED <<writer, disk>>
    BY Zenon, <1>2 DEF ClaimList, writerVars
  <2>2. list[k] \in Seq(ListIds) /\ n \in 1 .. Len(list[k])
    <3>1. list[k] \in Seq(ListIds)
      BY Zenon, <1>0
    <3>2. DOMAIN list[k] = 1 .. Len(list[k])
      BY <3>1
    <3> QED BY Zenon, <3>1, <3>2
  <2>3. \A m \in 1 .. n : list[k][m] \in ListIds /\ list[k][m] \in pending
    <3>1. \A m \in 1 .. n : m \in DOMAIN list[k] /\ list[k][m] \in ListIds
      BY <2>2
    <3>2. \A m \in DOMAIN list[k] : ListKind[list[k][m]] = k
      BY Zenon, <1>0 DEF ListsOK
    <3> QED BY ZenonT(30), <1>0, <3>1, <3>2 DEF ListsOK, ElementsOf
  <2>4. n = 1
    <3>1. \A m \in 1 .. n : inflight[list[k][m]] = None
      BY ZenonT(30), <1>0, <2>3 DEF ApartOK, QueuedIn
    <3> QED BY Zenon, <2>1, <2>2, <3>1, Intervals, ListIndices
  <2>5. pending' = pending \ {list[k][1]}
    <3>1. {list[k][m] : m \in 1 .. 1} = {list[k][1]}
      BY Zenon, Intervals
    <3> QED BY Zenon, <2>1, <2>4, <3>1
  <2>6. list[k][1] \in ListIds /\ list[k][1] \in pending
    BY Zenon, <2>3, <2>4, Intervals
  <2>7. QueuedIn(ingest', pending') = QueuedIn(ingest, pending) \ {list[k][1]}
    BY Zenon, <2>1, <2>5, <2>6, ConstantsAssumption DEF QueuedIn
  <2>8. Entry(minted + 1, None) # None
    BY Zenon, <1>0, EntryIsNotNone DEF OptScore
  <2>9. Grant({list[k][1]}, minted + 1, [x \in Jobs |-> None])
    BY Zenon, <2>1, <2>4
  <2>10. list[k][1] \in Jobs /\ inflight'[list[k][1]] # None
    BY Zenon, <2>6, <2>8, <2>9 DEF Grant, Jobs
  <2>11. list[k][1] \in QueuedIn(ingest, pending)
    BY Zenon, <2>6 DEF QueuedIn
  <2> QED BY Zenon, <1>0, <2>1, <2>7, <2>9, <2>10, <2>11, ClaimRefines
<1> QED BY Zenon, <1>1, <1>2 DEF Claim

LEMMA FinishRefines == ASSUME IInv, IInv', UniqueClaims, Finish PROVE Refines
<1>0. TypeOK /\ ApartOK(ingest, pending, inflight) /\ None \notin Score
  BY Zenon, StatusFacts, NoneNoScore DEF IInv
<1>1. ASSUME NEW c \in held, Ack(c) PROVE Refines
  <2>1. /\ Holds(c) /\ held' = held \ {c} /\ Release({c.job})
        /\ ingest' = ingest /\ pending' = pending \ {c.job}
        /\ UNCHANGED <<minted, writer, disk>>
    BY Zenon, <1>1 DEF Ack, writerVars
  <2>2. c.job \notin pending
    BY Zenon, <1>0, <2>1 DEF ApartOK, QueuedIn, Holds
  <2>3. QueuedIn(ingest', pending') = QueuedIn(ingest, pending)
    BY Zenon, <2>1, <2>2 DEF QueuedIn
  <2> QED BY Zenon, <2>1, <2>3, HolderRefines
<1>2. ASSUME NEW c \in held, c.job \in IngestIds, NEW s \in RequeueScores(c),
             RequeueIngest(c, s)
      PROVE  Refines
  <2>1. /\ Holds(c) /\ held' = held \ {c} /\ Release({c.job}) /\ pending' = pending
        /\ UNCHANGED <<minted, writer, disk>>
    BY Zenon, <1>2 DEF RequeueIngest, writerVars
  <2>2. ingest' = [x \in IngestIds |-> IF x \in {c.job} THEN s ELSE ingest[x]]
    BY <1>2, Zenon DEF RequeueIngest, IngestSet
  <2>3. c.score \in Score
    BY Zenon, <1>0, <1>2, ConstantsAssumption DEF TypeOK, Claims
  <2>4. s \in Score
    BY Zenon, <1>2, <2>3, RequeuedScore DEF RequeueIngest
  <2>5. QueuedIn(ingest', pending') = QueuedIn(ingest, pending) \cup {c.job}
    BY <1>0, <1>2, <2>1, <2>2, <2>4, Zenon DEF QueuedIn
  <2> QED BY Zenon, <2>1, <2>5, HolderRefines
<1>3. ASSUME NEW c \in held, RequeueList(c) PROVE Refines
  <2>1. /\ Holds(c) /\ held' = held \ {c} /\ Release({c.job}) /\ ingest' = ingest
        /\ pending' = pending \cup ElementsOf(<<c.job>>)
        /\ UNCHANGED <<minted, writer, disk>>
    BY Zenon, <1>3 DEF RequeueList, ListAppend, writerVars
  <2>2. QueuedIn(ingest', pending') = QueuedIn(ingest, pending) \cup {c.job}
    BY <2>1 DEF QueuedIn, ElementsOf
  <2> QED BY Zenon, <2>1, <2>2, HolderRefines
<1>4. ASSUME NEW c \in held, BumpAttempt(c) PROVE Refines
  <2>1. UNCHANGED <<ingest, pending, inflight, held, minted, writer, disk>>
    BY Zenon, <1>4 DEF BumpAttempt, queueVars, leaseVars, writerVars
  <2> QED BY Zenon, <2>1, StatusKept, SidecarKept, Stutters
<1> QED BY Zenon, <1>1, <1>2, <1>3, <1>4, DropRefines DEF Finish

LEMMA DeadlinesRefine == ASSUME IInv, IInv', Deadlines PROVE Refines
<1>0. /\ TypeOK /\ None \notin Score /\ IngestIds \in SUBSET Jobs /\ ListIds \in SUBSET Jobs
  BY ConstantsAssumption DEF IInv, Score, Jobs
<1>1. ASSUME NEW j \in Jobs, TimePasses(j) \/ ExtendInflightDeadline(j) PROVE Refines
  <2>1. /\ inflight[j] # None
        /\ UNCHANGED <<ingest, pending, held, minted, writer, disk>>
    BY Zenon, <1>1 DEF TimePasses, ExtendInflightDeadline, queueVars, writerVars
  <2>2. inflight[j].due \in BOOLEAN
    BY Zenon, <1>0, <2>1 DEF TypeOK
  <2>3. PICK d \in BOOLEAN : inflight[j].due = ~d /\ inflight' = [inflight EXCEPT ![j].due = d]
    BY Zenon, <1>1, <2>2 DEF TimePasses, ExtendInflightDeadline
  <2> QED BY Zenon, <2>1, <2>3, DeadlineRefines
<1>2. CASE ReapIngest
  <2> DEFINE Restore(S) == [i \in S |-> (IF inflight[i].score = None THEN CatchupBase
                                 ELSE inflight[i].score) + Penalty]
  <2>1. PICK S \in SUBSET IngestIds :
          /\ Reapable(IngestIds, S)
          /\ \A i \in S : Restore(S)[i] <= MaxScore
          /\ Release(S) /\ IngestSet(Restore(S)) /\ pending' = pending
          /\ UNCHANGED <<held, minted, writer, disk>>
    BY Zenon, <1>2 DEF ReapIngest, writerVars
  <2>2. ASSUME NEW i \in S PROVE Restore(S)[i] \in Score
    <3>1. inflight[i] # None /\ i \in Jobs
      BY Zenon, <2>1 DEF Reapable, Due, Jobs
    <3>2. inflight[i].score \in OptScore
      BY Zenon, <1>0, <3>1 DEF TypeOK
    <3>3. Restore(S)[i] <= MaxScore
      BY Zenon, <2>1
    <3>4. Restore(S)[i] = (IF inflight[i].score = None THEN CatchupBase
                           ELSE inflight[i].score) + Penalty
      BY Zenon
    <3> QED BY Zenon, <3>2, <3>3, <3>4, RestoredScore
  <2>3. DOMAIN Restore(S) = S
    BY Zenon
  <2> HIDE DEF Restore
  <2>4. ingest' = [x \in IngestIds |-> IF x \in S THEN Restore(S)[x] ELSE ingest[x]]
    BY Zenon, <2>1, <2>3 DEF IngestSet
  <2>5. QueuedIn(ingest', pending') = QueuedIn(ingest, pending) \cup S
    BY <1>0, <2>1, <2>2, <2>4, Zenon DEF QueuedIn
  <2> QED BY Zenon, <1>0, <2>1, <2>5, ReapRefines
<1>3. ASSUME NEW k \in ListKinds, ReapList(k) PROVE Refines
  <2>1. PICK S \in SUBSET {x \in ListIds : ListKind[x] = k} :
          /\ Reapable({j \in ListIds : ListKind[j] = k}, S)
          /\ Release(S) /\ \E s \in Orders(S) : ListAppend(k, s)
          /\ ingest' = ingest /\ UNCHANGED <<held, minted, writer, disk>>
    BY Zenon, <1>3 DEF ReapList, writerVars
  <2>2. PICK s \in Orders(S) : pending' = pending \cup ElementsOf(s)
    BY Zenon, <2>1 DEF ListAppend
  <2>3. IsFiniteSet(S)
    <3>1. S \in SUBSET ListIds
      BY Zenon
    <3> QED BY Zenon, <3>1, ConstantsAssumption, FS_Subset
  <2>4. ElementsOf(s) = S
    BY Zenon, <2>3, OrdersVisitAll
  <2>5. QueuedIn(ingest', pending') = QueuedIn(ingest, pending) \cup S
    BY Zenon, <2>1, <2>2, <2>4 DEF QueuedIn
  <2>6. {j \in ListIds : ListKind[j] = k} \in SUBSET Jobs
    BY Zenon, <1>0
  <2> QED BY Zenon, <2>1, <2>5, <2>6, ReapRefines
<1>4. ASSUME NEW k \in ListKinds, ReorderList(k) PROVE Refines
  <2>1. UNCHANGED <<ingest, pending, inflight, held, minted, writer, disk>>
    BY Zenon, <1>4 DEF ReorderList, leaseVars, writerVars
  <2> QED BY Zenon, <2>1, StatusKept, SidecarKept, Stutters
<1> QED BY ZenonT(30), <1>1, <1>2, <1>3, <1>4 DEF Deadlines

LEMMA WriterRefines == ASSUME IInv, IInv', RequestForce \/ Writer \/ Restart PROVE Refines
<1>0. /\ TypeOK /\ TypeOK' /\ ShadowExact
      /\ writer \in [pc : {"wait", "woken", "saving", "saved", "done"},
                     forced : BOOLEAN, copy : Docs]
  BY Zenon DEF IInv, TypeOK
<1>1. ASSUME RequestForce \/ WriterWake \/ WriterMarkClean \/ WriterDone PROVE Refines
  <2>1. UNCHANGED <<ingest, pending, inflight, held, minted, disk>>
    BY Zenon, <1>1 DEF RequestForce, WriterWake, WriterMarkClean, WriterDone, queueVars, leaseVars
  <2>2. writer' = writer \/ (writer.pc # "saving" /\ writer'.pc # "saving")
    <3>1. CASE RequestForce
      BY Zenon, <3>1 DEF RequestForce
    <3>2. CASE WriterWake
      BY ZenonT(30), <1>0, <3>2 DEF WriterWake
    <3>3. CASE WriterMarkClean
      BY <1>0, <3>3, Zenon DEF WriterMarkClean
    <3>4. CASE WriterDone
      BY <3>4 DEF WriterDone
    <3> QED BY <1>1, <3>1, <3>2, <3>3, <3>4, Zenon
  <2>3. UNCHANGED Abstract!sidecar
    <3>1. CASE writer' = writer
      BY ZenonT(30), <2>1, <3>1, SidecarKept
    <3>2. CASE writer.pc # "saving" /\ writer'.pc # "saving"
      BY Zenon, <2>1, <3>2, NothingCopied
    <3> QED BY <2>2, <3>1, <3>2, Zenon
  <2> QED BY Zenon, <2>1, <2>3, StatusKept, Stutters
<1>2. CASE WriterCopy
  <2>1. /\ UNCHANGED <<ingest, list, pending, inflight, held, minted, disk>>
        /\ writer.pc = "woken" /\ writer'.pc = "saving"
        /\ writer'.copy.ingest = shIngest /\ writer'.copy.list = shList
    BY <1>0, <1>2, Zenon DEF WriterCopy, Shadow, queueVars, leaseVars
  <2>2. shIngest = ingest /\ shList = list
    BY ZenonT(30), <1>0 DEF ShadowExact
  <2>3. Copied' = Queued
    BY Zenon, <2>1, <2>2, CopiedNext, DocOfStore
  <2>4. Queued = Abstract!InState("queued")
    <3>1. \A j \in Jobs : Status[j].st = "queued" <=> j \in QueuedIn(ingest, pending)
      <4>1. \A o, d : Abstract!Leased(o, d).st # "queued"
        BY Zenon DEF Abstract!Leased
      <4>2. Abstract!Waiting.st = "queued" /\ Abstract!Absent.st # "queued"
        BY DEF Abstract!Waiting, Abstract!Absent
      <4>3. \A j \in Jobs :
              Status[j] = IF inflight[j] # None
                          THEN Abstract!Leased(inflight[j].owner, inflight[j].due)
                          ELSE IF j \in QueuedIn(ingest, pending) THEN Abstract!Waiting
                               ELSE Abstract!Absent
        BY Zenon, StatusFacts DEF StatusIn
      <4>4. \A j \in QueuedIn(ingest, pending) : inflight[j] = None
        BY Zenon, StatusFacts DEF ApartOK
      <4> QED BY Zenon, <4>1, <4>2, <4>3, <4>4
    <3>2. QueuedIn(ingest, pending) \subseteq Jobs
      BY <1>0, ZenonT(30) DEF TypeOK, QueuedIn, Jobs
    <3> QED BY Zenon, <3>1, <3>2, StatusFacts DEF Abstract!InState
  <2>5. DocQueued(disk)' = DocQueued(disk)
    BY <2>1 DEF DocQueued, ElementsOf
  <2>6. Abstract!TakeCopy
    BY Zenon, <2>1, <2>3, <2>4, <2>5 DEF Abstract!TakeCopy
  <2> QED BY Zenon, <2>1, <2>6, StatusKept, HeldKept DEF Refines, Abstract!Next, Abstract!queue
<1>3. CASE WriterSave
  <2>1. /\ UNCHANGED <<ingest, pending, inflight, held, minted>>
        /\ writer.pc = "saving" /\ writer'.pc # "saving" /\ disk' = writer.copy
    BY <1>0, <1>3, ZenonT(30) DEF WriterSave, queueVars, leaseVars
  <2>2. DocQueued(disk)' = Copied /\ Copied' = {}
    BY <2>1 DEF DocQueued, ElementsOf, Copied
  <2>3. Abstract!Save
    BY Zenon, <2>1, <2>2 DEF Abstract!Save
  <2> QED BY Zenon, <2>1, <2>3, StatusKept, HeldKept DEF Refines, Abstract!Next, Abstract!queue
<1>4. CASE WriterSaveFails
  <2>1. /\ UNCHANGED <<ingest, pending, inflight, held, minted, disk>>
        /\ writer.pc = "saving" /\ writer'.pc # "saving"
    BY <1>0, <1>4, ZenonT(30) DEF WriterSaveFails, queueVars, leaseVars
  <2>2. DocQueued(disk)' = DocQueued(disk) /\ Copied' = {}
    BY <2>1 DEF DocQueued, ElementsOf, Copied
  <2>3. Abstract!GiveUp
    BY Zenon, <2>1, <2>2 DEF Abstract!GiveUp
  <2> QED BY Zenon, <2>1, <2>3, StatusKept, HeldKept DEF Refines, Abstract!Next, Abstract!queue
<1>5. CASE Restart
  <2>1. /\ ingest' = disk.ingest /\ list' = disk.list /\ inflight' = [j \in Jobs |-> None]
        /\ writer'.pc = "wait" /\ held' = {} /\ UNCHANGED <<disk, minted>>
    BY <1>5, ZenonT(30) DEF Restart
  <2>2. DocQueued(disk)' = DocQueued(disk) /\ Queued' = DocQueued(disk)
    BY <2>1 DEF DocQueued, ElementsOf, Queued, QueuedIngest, QueuedList
  <2>3. Status' = [j \in Jobs |-> IF j \in DocQueued(disk) THEN Abstract!Waiting
                                                           ELSE Abstract!Absent]
    <3> HIDE DEF Queued, DocQueued
    <3> QED BY <2>1, <2>2, Zenon DEF Status, Abstract!Waiting, Abstract!Absent
  <2>4. ClaimsHeld' = {} /\ Copied' = {}
    BY <2>1, Zenon DEF ClaimsHeld, Copied
  <2>5. Abstract!Restart
    BY <2>1, <2>2, <2>3, <2>4, Zenon DEF Abstract!Restart
  <2> QED BY Zenon, <2>5 DEF Refines, Abstract!Next
<1> QED BY ZenonT(30), <1>1, <1>2, <1>3, <1>4, <1>5 DEF Writer

\* The job store implements DurableQueue: heaps, lists, pending sets, counters,
\* leases, the shadow and the sidecar writer of SyncTimedbJobStore behave towards
\* every caller like one leased queue with atomic snapshots.
THEOREM StoreImplementsQueue == Spec => ImplementsDurableQueue
<1>1. Init => Abstract!Init /\ UniqueClaims
  <2> SUFFICES ASSUME Init PROVE Abstract!Init /\ UniqueClaims
    BY Zenon
  <2>1. Queued = {} /\ DocQueued(disk) = {}
    <3>1. QueuedIngest = {} /\ QueuedList = {}
      <4>1. QueuedIngest = {} /\ \A k \in ListKinds : list[k] = <<>>
        BY Zenon DEF Init, QueuedIngest
      <4>2. ElementsOf(<<>>) = {}
        BY DEF ElementsOf
      <4> QED BY Zenon, <4>1, <4>2 DEF QueuedList
    <3>2. DocQueued(disk) = {}
      BY DEF Init, EmptyDoc, DocQueued, ElementsOf
    <3> QED BY Zenon, <3>1, <3>2 DEF Queued
  <2>2. Status = [j \in Jobs |-> Abstract!Absent]
    <3> HIDE DEF Queued
    <3> QED BY <2>1, ZenonT(30) DEF Init, Status, Abstract!Absent
  <2>3. ClaimsHeld = {} /\ Copied = {} /\ writer.pc # "saving" /\ minted = 0
    BY DEF Init, ClaimsHeld, Copied
  <2>4. Abstract!Init
    BY <2>1, <2>2, <2>3, Zenon DEF Abstract!Init, Abstract!QueueInit
  <2> QED BY <2>4 DEF UniqueClaims, Init
<1>2. IInv /\ UniqueClaims /\ [Next]_vars => UniqueClaims'
  <2>1. UNCHANGED vars /\ UniqueClaims => UniqueClaims'
    BY DEF vars, UniqueClaims
  <2> QED BY Zenon, <2>1, UniqueStep DEF IInv
<1>3. IInv /\ IInv' /\ UniqueClaims /\ [Next]_vars => [Abstract!Next]_Abstract!vars
  <2>1. ASSUME UNCHANGED vars PROVE UNCHANGED Abstract!vars
    <3>1. UNCHANGED <<ingest, list, inflight, minted, held, writer, disk>>
      BY ZenonT(30), <2>1 DEF vars, queueVars, leaseVars, writerVars
    <3>2. Status' = Status
      BY <3>1 DEF Status, Queued, QueuedIngest, QueuedList, ElementsOf
    <3> QED BY Zenon, <3>1, <3>2, HeldKept, SidecarKept DEF Abstract!vars, Abstract!queue
  <2>2. IInv /\ IInv' /\ UniqueClaims /\ Next => Refines
    BY Zenon, EnqueueRefines, ClaimsRefine, FinishRefines, DeadlinesRefine, WriterRefines DEF Next
  <2> QED BY Zenon, <2>1, <2>2 DEF Refines
<1> QED BY ZenonT(30), <1>1, <1>2, <1>3, SafetyInvariant, PTL DEF Spec, ImplementsDurableQueue, Abstract!Spec

=============================================================================
