-------------------------- MODULE WriteStageProofs --------------------------
(***************************************************************************)
(* For any number of payloads and write threads and any length of the queue: *)
(* the answer a submission returns with is final.                            *)
(***************************************************************************)
EXTENDS WriteStage, FiniteSetTheorems, TLAPS

\* TypeOK as the proof uses it: item is a function on the write threads, and
\* none of them runs before the stage is started.
Types ==
  /\ TypeOK
  /\ item \in [Workers -> Payloads \cup {Sentinel}]
  /\ stage = "new" => \A w \in Workers : wpc[w] = "off"

Queued(p) == \E i \in 1 .. Len(queue) : queue[i] = p

\* A payload that is queued or in the hands of a write thread is waited for and
\* unanswered, and it is in one place only.
Placed ==
  /\ \A p \in Payloads : Queued(p) \/ InHand(p) => pc[p] = "wait" /\ result[p] = "none"
  /\ \A p \in Payloads : ~(Queued(p) /\ InHand(p))
  /\ \A i, j \in 1 .. Len(queue) : queue[i] = queue[j] /\ queue[i] # Sentinel => i = j
  /\ \A v, w \in Workers : item[v] = item[w] /\ item[v] # Sentinel => v = w

\* An answer agrees with what was written, and without one nothing was.
Told ==
  \A p \in Payloads :
    /\ writes[p] <= 1
    /\ result[p] \in {"none", "refused"} => writes[p] = 0
    /\ result[p] = "ok" => writes[p] = 1
    /\ pc[p] \notin {"wait", "returned"} => result[p] = "none"

Final == Types /\ Placed /\ Told

-----------------------------------------------------------------------------
(* The queue.                                                                *)

\* Appending adds one entry, at the end.
LEMMA AppendFacts ==
  ASSUME NEW S, NEW q \in Seq(S), NEW e \in S
  PROVE  /\ Append(q, e) \in Seq(S) /\ Len(Append(q, e)) = Len(q) + 1
         /\ \A i \in 1 .. Len(q) : Append(q, e)[i] = q[i]
         /\ Append(q, e)[Len(q) + 1] = e
OBVIOUS

\* Taking the first entry leaves the others, one place up.
LEMMA TailFacts ==
  ASSUME NEW S, NEW q \in Seq(S), q # <<>>
  PROVE  /\ Head(q) \in S /\ Head(q) = q[1] /\ Len(q) \in Nat \ {0}
         /\ Tail(q) \in Seq(S) /\ Len(Tail(q)) = Len(q) - 1
         /\ \A i \in 1 .. Len(q) - 1 : Tail(q)[i] = q[i + 1]
OBVIOUS

-----------------------------------------------------------------------------
(* The steps.                                                                *)

\* A parse thread moves on before its payload is queued, refused or not; or it
\* returns with its answer.
LEMMA Waits ==
  ASSUME Final, NEW p \in Payloads, NEW to \in {"check", "load", "put", "returned"},
         NEW r \in {"none", "ok", "error", "refused"},
         pc' = [pc EXCEPT ![p] = to], result' = [result EXCEPT ![p] = r],
         UNCHANGED <<writes, queue, wpc, item, stage, unsent>>,
         \/ /\ pc[p] \in {"idle", "check", "load", "put"}
            /\ r = IF to = "returned" THEN "refused" ELSE "none"
         \/ pc[p] = "wait" /\ to = "returned" /\ r = result[p] /\ r # "none"
  PROVE  Final'
<1>1. pc' \in [Payloads -> {"idle", "check", "load", "put", "wait", "returned"}]
      /\ result' \in [Payloads -> {"none", "ok", "error", "refused"}]
  BY DEF Final, Types, TypeOK
<1>2. Types'
  BY <1>1 DEF Final, Types, TypeOK
<1>3. ~Queued(p) /\ ~InHand(p)
  BY DEF Final, Placed
<1>4. Placed'
  <2>1. \A u \in Payloads : (Queued(u)' <=> Queued(u)) /\ (InHand(u)' <=> InHand(u))
    BY DEF Queued, InHand
  <2>2. \A u \in Payloads : u # p => pc'[u] = pc[u] /\ result'[u] = result[u]
    BY DEF Final, Types, TypeOK
  <2> QED BY <1>3, <2>1, <2>2 DEF Final, Placed
<1>5. Told'
  BY DEF Final, Types, TypeOK, Told
<1> QED BY <1>2, <1>4, <1>5 DEF Final

\* The steps of a parse thread that leave the queue alone.
LEMMA WaitSteps ==
  ASSUME Final, NEW p \in Payloads, CheckShutdown(p) \/ LoadQueue(p) \/ Await(p)
  PROVE  Final'
<1> USE DEF writers, stopping
<1>0. /\ result \in [Payloads -> {"none", "ok", "error", "refused"}]
      /\ pc[p] \in {"check", "load"} => result[p] = "none"
  BY Zenon DEF Final, Types, TypeOK, Told
<1>1. \A r : r = result[p] => result = [result EXCEPT ![p] = r]
  BY <1>0
<1>2. CASE CheckShutdown(p)
  BY <1>0, <1>1, <1>2, Waits DEF CheckShutdown
<1>3. CASE LoadQueue(p)
  BY <1>0, <1>1, <1>3, Waits DEF LoadQueue
<1>4. CASE Await(p)
  BY <1>0, <1>1, <1>4, Waits, Zenon DEF Await
<1> QED BY <1>2, <1>3, <1>4

\* A payload that is written before it is queued: the caller writes inline.
LEMMA InlineStep ==
  ASSUME Final, NEW p \in Payloads, Submit(p)
  PROVE  Final'
<1> USE DEF writers, stopping
<1>1. CASE Started
  <2>1. /\ pc[p] = "idle" /\ pc' = [pc EXCEPT ![p] = "check"]
        /\ UNCHANGED <<result, writes, queue, wpc, item, stage, unsent>>
    BY <1>1 DEF Submit
  <2>2. result' = [result EXCEPT ![p] = "none"]
    BY <2>1 DEF Final, Types, TypeOK, Told
  <2> QED BY <2>1, <2>2, Waits, Zenon
<1>2. CASE ~Started
  <2>1. PICK r \in {"ok", "error"} : Execute(p, r)
    BY <1>2 DEF Submit
  <2>2. PICK n \in {0, 1} : /\ writes' = [writes EXCEPT ![p] = @ + n]
                            /\ r = "ok" => n = 1
    BY <2>1, Zenon DEF Execute
  <2>3. /\ result' = [result EXCEPT ![p] = r]
        /\ pc[p] = "idle" /\ pc' = [pc EXCEPT ![p] = "returned"]
        /\ UNCHANGED <<queue, wpc, item, stage, unsent>>
    BY <1>2, <2>1 DEF Submit, Execute
  <2>4. Types'
    BY <2>2, <2>3 DEF Final, Types, TypeOK
  <2>5. ~Queued(p) /\ ~InHand(p)
    BY <2>3 DEF Final, Placed
  <2>6. Placed'
    <3>1. \A u \in Payloads : (Queued(u)' <=> Queued(u)) /\ (InHand(u)' <=> InHand(u))
      BY <2>3 DEF Queued, InHand
    <3>2. \A u \in Payloads : u # p => pc'[u] = pc[u] /\ result'[u] = result[u]
      BY <2>3 DEF Final, Types, TypeOK
    <3> QED BY <2>3, <2>5, <3>1, <3>2 DEF Final, Placed
  <2>7. Told'
    BY <2>2, <2>3 DEF Final, Types, TypeOK, Told
  <2> QED BY <2>4, <2>6, <2>7 DEF Final
<1> QED BY <1>1, <1>2

\* A payload is put on the queue once.
LEMMA PutStep ==
  ASSUME Final, NEW p \in Payloads, Put(p)
  PROVE  Final'
<1> USE DEF writers, stopping
<1>1. CASE Full
  <2>1. /\ pc[p] = "put" /\ pc' = [pc EXCEPT ![p] = "check"]
        /\ UNCHANGED <<result, writes, queue, wpc, item, stage, unsent>>
    BY <1>1 DEF Put
  <2>2. result' = [result EXCEPT ![p] = "none"]
    BY <2>1 DEF Final, Types, TypeOK, Told
  <2> QED BY <2>1, <2>2, Waits, Zenon
<1>2. CASE ~Full
  <2>1. /\ pc[p] = "put" /\ pc' = [pc EXCEPT ![p] = "wait"]
        /\ queue' = Append(queue, p)
        /\ UNCHANGED <<result, writes, wpc, item, stage, unsent>>
    BY <1>2 DEF Put
  <2>2. /\ queue' \in Seq(Payloads \cup {Sentinel}) /\ Len(queue') = Len(queue) + 1
        /\ \A i \in 1 .. Len(queue) : queue'[i] = queue[i]
        /\ queue'[Len(queue) + 1] = p /\ Len(queue) \in Nat
    BY <2>1, AppendFacts DEF Final, Types, TypeOK
  <2>3. Types'
    BY <1>2, <2>1, <2>2, WriteStageAssumption DEF Full, Final, Types, TypeOK
  <2>4. ~Queued(p) /\ ~InHand(p) /\ result[p] = "none"
    BY <2>1 DEF Final, Placed, Told
  <2>5. \A u \in Payloads : Queued(u)' <=> Queued(u) \/ u = p
    BY <2>2 DEF Queued
  <2>6. \A i, j \in 1 .. Len(queue') : queue'[i] = queue'[j] /\ queue'[i] # Sentinel => i = j
    BY <2>2, <2>4 DEF Final, Placed, Queued
  <2>7. \A u \in Payloads : InHand(u)' <=> InHand(u)
    BY <2>1 DEF InHand
  <2>8. Placed'
    BY <2>1, <2>4, <2>5, <2>6, <2>7 DEF Final, Types, TypeOK, Placed
  <2>9. Told'
    BY <2>1 DEF Final, Types, TypeOK, Told
  <2> QED BY <2>3, <2>8, <2>9 DEF Final
<1> QED BY <1>1, <1>2

\* A write thread has an item exactly while it writes.
LEMMA WorkerTypes ==
  ASSUME Types, NEW w \in Workers, NEW to \in {"top", "get", "write", "ended"},
         NEW x \in Payloads \cup {Sentinel}, wpc[w] # "off", (to = "write") = (x # Sentinel),
         wpc' = [wpc EXCEPT ![w] = to], item' = [item EXCEPT ![w] = x],
         queue' \in Seq(Payloads \cup {Sentinel}), Len(queue') <= QueueMax,
         UNCHANGED <<writes, pc, result, stage, unsent>>
  PROVE  Types'
<1>1. /\ wpc' \in [Workers -> {"off", "top", "get", "write", "ended"}]
      /\ item' \in [Workers -> Payloads \cup {Sentinel}]
  BY DEF Types, TypeOK
<1>2. \A v \in Workers : v # w => wpc'[v] = wpc[v] /\ item'[v] = item[v]
  BY DEF Types, TypeOK
<1>3. wpc'[w] = to /\ item'[w] = x
  BY DEF Types, TypeOK
<1>4. \A v \in Workers : item'[v] \in IF wpc'[v] = "write" THEN Payloads ELSE {Sentinel}
  <2> TAKE v \in Workers
  <2>1. CASE v = w
    BY <1>3, <2>1
  <2>2. CASE v # w
    BY <1>2, <2>2 DEF Types, TypeOK, NoItem
  <2> QED BY <2>1, <2>2
<1>5. stage' # "new"
  BY DEF Types
<1> QED BY <1>1, <1>4, <1>5 DEF Types, TypeOK, NoItem

\* A write thread takes the first entry off the queue.
LEMMA GetStep ==
  ASSUME Final, NEW w \in Workers, WorkerGet(w)
  PROVE  Final'
<1> USE DEF producers, stopping
<1>1. CASE queue = <<>>
  BY <1>1 DEF WorkerGet, Final, Types, TypeOK, Placed, Told, Queued, InHand
<1>2. CASE queue # <<>>
  <2> DEFINE h == Head(queue)
  <2>1. /\ wpc[w] = "get" /\ queue' = Tail(queue)
        /\ UNCHANGED <<writes, pc, result, stage, unsent>>
    BY <1>2 DEF WorkerGet
  <2>2. /\ h \in Payloads \cup {Sentinel} /\ h = queue[1] /\ Len(queue) \in Nat \ {0}
        /\ queue' \in Seq(Payloads \cup {Sentinel}) /\ Len(queue') = Len(queue) - 1
        /\ \A i \in 1 .. Len(queue) - 1 : queue'[i] = queue[i + 1]
    BY <1>2, <2>1, TailFacts DEF Final, Types, TypeOK
  <2>3. \A u \in Payloads : Queued(u)' => Queued(u) /\ u # h
    <3> SUFFICES ASSUME NEW u \in Payloads, NEW i \in 1 .. Len(queue'), queue'[i] = u
                 PROVE  Queued(u) /\ u # h
      BY DEF Queued
    <3>1. i + 1 \in 1 .. Len(queue) /\ 1 \in 1 .. Len(queue) /\ i + 1 # 1
      BY <2>2
    <3>2. queue[i + 1] = u /\ u # Sentinel
      BY <2>2, WriteStageAssumption
    <3> QED BY <2>2, <3>1, <3>2 DEF Final, Placed, Queued
  <2>4. \A i, j \in 1 .. Len(queue') : queue'[i] = queue'[j] /\ queue'[i] # Sentinel => i = j
    <3> SUFFICES ASSUME NEW i \in 1 .. Len(queue'), NEW j \in 1 .. Len(queue'),
                        queue'[i] = queue'[j], queue'[i] # Sentinel
                 PROVE  i = j
      OBVIOUS
    <3>1. i + 1 \in 1 .. Len(queue) /\ j + 1 \in 1 .. Len(queue)
      BY <2>2
    <3>2. queue[i + 1] = queue[j + 1] /\ queue[i + 1] # Sentinel
      BY <2>2
    <3>3. i + 1 = j + 1
      BY <3>1, <3>2 DEF Final, Placed
    <3> QED BY <3>3
  <2>5. item[w] = Sentinel
    BY <2>1 DEF Final, Types, TypeOK, NoItem
  <2>6. Told'
    BY <2>1 DEF Final, Told
  <2>7. queue' \in Seq(Payloads \cup {Sentinel}) /\ Len(queue') <= QueueMax
    BY <2>2, WriteStageAssumption DEF Final, Types, TypeOK
  <2>8. CASE h = Sentinel
    <3>1. wpc' = [wpc EXCEPT ![w] = "ended"] /\ UNCHANGED item
      BY <1>2, <2>8 DEF WorkerGet
    <3>2. Types'
      <4>1. item' = [item EXCEPT ![w] = Sentinel]
        BY <2>5, <3>1 DEF Final, Types
      <4> QED BY <2>1, <2>8, <2>7, <3>1, <4>1, WorkerTypes, Zenon DEF Final
    <3>3. Placed'
      BY <2>1, <2>3, <2>4, <3>1 DEF Final, Placed, InHand
    <3> QED BY <2>6, <3>2, <3>3 DEF Final
  <2>9. CASE h # Sentinel
    <3>1. /\ wpc' = [wpc EXCEPT ![w] = "write"]
          /\ item' = [item EXCEPT ![w] = h] /\ h \in Payloads
      BY <1>2, <2>2, <2>9 DEF WorkerGet
    <3>2. Types'
      BY <2>1, <2>9, <2>7, <3>1, WorkerTypes, Zenon DEF Final
    <3>3. Queued(h)
      BY <2>2 DEF Queued
    <3>4. ~InHand(h) /\ pc[h] = "wait" /\ result[h] = "none"
      BY <3>1, <3>3 DEF Final, Placed
    <3>5. \A u \in Payloads : InHand(u)' <=> InHand(u) \/ u = h
      BY <2>5, <3>1, WriteStageAssumption DEF Final, Types, InHand
    <3>6. \A v, x \in Workers : item'[v] = item'[x] /\ item'[v] # Sentinel => v = x
      BY <3>1, <3>4 DEF Final, Types, Placed, InHand
    <3>7. Placed'
      BY <2>1, <2>3, <2>4, <3>4, <3>5, <3>6 DEF Final, Placed
    <3> QED BY <2>6, <3>2, <3>7 DEF Final
  <2> QED BY <2>8, <2>9
<1> QED BY <1>1, <1>2

\* The write, and the answer.
LEMMA WriteStep ==
  ASSUME Final, NEW w \in Workers, WorkerWrite(w)
  PROVE  Final'
<1> USE DEF stopping
<1> DEFINE p == item[w]
<1>1. PICK r \in {"ok", "error"} : Execute(p, r)
  BY DEF WorkerWrite
<1>2. p \in Payloads /\ p # Sentinel /\ wpc[w] = "write"
  BY WriteStageAssumption DEF WorkerWrite, Final, Types, TypeOK
<1>3. PICK n \in {0, 1} : writes' = [writes EXCEPT ![p] = @ + n] /\ (r = "ok" => n = 1)
  BY <1>1, Zenon DEF Execute
<1>4. /\ result' = [result EXCEPT ![p] = r]
      /\ item' = [item EXCEPT ![w] = Sentinel] /\ wpc' = [wpc EXCEPT ![w] = "top"]
      /\ UNCHANGED <<queue, pc, stage, unsent>>
  BY <1>1, Zenon DEF WorkerWrite, Execute, NoItem
<1>5. InHand(p)
  BY DEF InHand
<1>6. ~Queued(p) /\ pc[p] = "wait" /\ result[p] = "none"
  BY <1>2, <1>5 DEF Final, Placed
<1>7. Types'
  BY <1>2, <1>3, <1>4 DEF Final, Types, TypeOK, NoItem
<1>8. \A u \in Payloads : InHand(u)' => InHand(u) /\ u # p
  BY <1>2, <1>4, WriteStageAssumption DEF Final, Types, Placed, InHand
<1>9. Placed'
  <2>1. \A v, x \in Workers : item'[v] = item'[x] /\ item'[v] # Sentinel => v = x
    BY <1>4 DEF Final, Types, Placed
  <2>2. \A u \in Payloads : Queued(u)' <=> Queued(u)
    BY <1>4 DEF Queued
  <2>3. \A u \in Payloads : u # p => result'[u] = result[u]
    BY <1>4 DEF Final, Types, TypeOK
  <2> QED BY <1>4, <1>6, <1>8, <2>1, <2>2, <2>3 DEF Final, Placed
<1>10. Told'
  BY <1>2, <1>3, <1>4, <1>6 DEF Final, Types, TypeOK, Told
<1> QED BY <1>7, <1>9, <1>10 DEF Final

\* A write thread at the top of its loop.
LEMMA TopStep ==
  ASSUME Final, NEW w \in Workers, WorkerTop(w)
  PROVE  Final'
<1> USE DEF producers, stopping
<1>1. PICK to \in {"ended", "get"} : wpc[w] = "top" /\ wpc' = [wpc EXCEPT ![w] = to]
  BY Zenon DEF WorkerTop
<1>2. item[w] = Sentinel
  BY DEF WorkerTop, Final, Types, TypeOK, NoItem
<1>3. item' = [item EXCEPT ![w] = Sentinel]
  BY <1>2 DEF WorkerTop, Final, Types
<1>4. UNCHANGED <<queue, item, writes, pc, result, stage, unsent>>
  BY DEF WorkerTop
<1>5. queue' \in Seq(Payloads \cup {Sentinel}) /\ Len(queue') <= QueueMax
  BY <1>4 DEF Final, Types, TypeOK
<1>6. Types'
  BY <1>1, <1>3, <1>4, <1>5, WorkerTypes, Zenon DEF Final
<1>7. Placed' /\ Told'
  BY <1>4 DEF Final, Placed, Told, Queued, InHand
<1> QED BY <1>6, <1>7 DEF Final

\* The stage starts with no write under way.
LEMMA StartStep ==
  ASSUME Final, StartStage
  PROVE  Final'
<1> USE DEF producers
<1>1. \A w \in Workers : wpc[w] = "off"
  BY DEF Final, Types, StartStage
<1>2. \A w \in Workers : item[w] = Sentinel
  BY <1>1 DEF Final, Types, TypeOK, NoItem
<1>3. UNCHANGED <<queue, item, writes, pc, result, unsent>>
  BY DEF StartStage
<1>4. Types'
  BY <1>2, <1>3 DEF StartStage, Final, Types, TypeOK, NoItem
<1>5. Placed' /\ Told'
  BY <1>3 DEF Final, Placed, Told, Queued, InHand
<1> QED BY <1>4, <1>5 DEF Final

\* The stop of the stage; what it puts on the queue are sentinels.
LEMMA StopSteps ==
  ASSUME Final, StopSets \/ StopSignals \/ StopJoins \/ StopEnds
  PROVE  Final'
<1> USE DEF producers, writers
<1>0. Cardinality(Workers) \in Nat
  BY FS_CardinalityType, WriteStageAssumption
<1>1. CASE StopSets \/ StopJoins \/ StopEnds \/ (StopSignals /\ Full)
  <2>1. Types'
    BY <1>0, <1>1 DEF StopSets, StopJoins, StopEnds, StopSignals, Final, Types, TypeOK
  <2>2. Placed' /\ Told'
    BY <1>1 DEF StopSets, StopJoins, StopEnds, StopSignals, Final, Placed, Told, Queued, InHand
  <2> QED BY <2>1, <2>2 DEF Final
<1>2. CASE StopSignals /\ ~Full
  <2>1. /\ queue' = Append(queue, Sentinel) /\ unsent > 0 /\ unsent' = unsent - 1
        /\ UNCHANGED <<stage, writes, pc, result, wpc, item>>
    BY <1>2 DEF StopSignals
  <2>2. /\ queue' \in Seq(Payloads \cup {Sentinel}) /\ Len(queue') = Len(queue) + 1
        /\ \A i \in 1 .. Len(queue) : queue'[i] = queue[i]
        /\ queue'[Len(queue) + 1] = Sentinel /\ Len(queue) \in Nat
    BY <2>1, AppendFacts DEF Final, Types, TypeOK
  <2>3. Types'
    BY <1>0, <1>2, <2>1, <2>2, WriteStageAssumption DEF Full, Final, Types, TypeOK
  <2>4. \A u \in Payloads : Queued(u)' => Queued(u)
    BY <2>2, WriteStageAssumption DEF Queued
  <2>5. \A i, j \in 1 .. Len(queue') : queue'[i] = queue'[j] /\ queue'[i] # Sentinel => i = j
    BY <2>2 DEF Final, Placed
  <2>6. Placed' /\ Told'
    BY <2>1, <2>4, <2>5 DEF Final, Placed, Told, InHand
  <2> QED BY <2>3, <2>6 DEF Final
<1> QED BY <1>1, <1>2 DEF StopSignals

-----------------------------------------------------------------------------
\* The invariant the theorems rest on.
LEMMA FinalInvariant == Spec => []Final
<1>1. Init => Final
  <2>1. Cardinality(Workers) \in Nat
    BY FS_CardinalityType, WriteStageAssumption
  <2>2. Init => Types
    BY <2>1, WriteStageAssumption DEF Init, Types, TypeOK, NoItem
  <2>3. Init => Placed /\ Told
    BY WriteStageAssumption DEF Init, Placed, Told, Queued, InHand, NoItem
  <2> QED BY <2>2, <2>3 DEF Final
<1>2. Final /\ [Next]_vars => Final'
  <2>1. Final /\ UNCHANGED vars => Final'
    BY DEF Final, Types, TypeOK, Placed, Told, Queued, InHand,
           vars, producers, writers, stopping
  <2> QED BY <2>1, InlineStep, WaitSteps, PutStep, GetStep, WriteStep, TopStep, StartStep, StopSteps, Zenon
          DEF Next, Producer, Worker, Stop, Finished
<1> QED BY <1>1, <1>2, PTL DEF Spec

\* Every variable keeps its type, and the queue never exceeds its maxsize.
THEOREM TypeCorrect == Spec => []TypeOK
<1>1. Final => TypeOK
  BY DEF Final, Types
<1> QED BY <1>1, FinalInvariant, PTL

\* What submit_ingest_write_and_wait returns with is final, and no payload is
\* written twice.
THEOREM AnswersAreFinal == Spec => []AnswerIsFinal
<1>1. Final => AnswerIsFinal
  <2> SUFFICES ASSUME Final, NEW p \in Payloads, pc[p] = "returned"
               PROVE  /\ result[p] = "ok" => writes[p] > 0
                      /\ result[p] = "refused" => writes[p] = 0
                      /\ p \notin Range(queue) /\ ~InHand(p)
                      /\ writes[p] <= 1
    BY DEF AnswerIsFinal
  <2>1. ~Queued(p) /\ ~InHand(p)
    BY DEF Final, Placed
  <2>2. DOMAIN queue = 1 .. Len(queue)
    BY DEF Final, Types, TypeOK
  <2>3. p \notin Range(queue)
    BY <2>1, <2>2 DEF Range, Queued
  <2> QED BY <2>1, <2>3 DEF Final, Told
<1> QED BY <1>1, FinalInvariant, PTL
=============================================================================
