------------------------------ MODULE WriteStage ------------------------------
(***************************************************************************)
(* The ingest write stage: parse threads put write-ready payloads on a        *)
(* bounded queue and wait; long-lived write threads take them off, write them *)
(* to the database and set the payload's done event.  The stage is started    *)
(* and stopped once in the life of a process.                                 *)
(*                                                                            *)
(* The queue is the one queue.Queue object of that life.  stop sets the       *)
(* global _WRITE_QUEUE to None, but a thread inside put or get still has the  *)
(* object.                                                                    *)
(***************************************************************************)
EXTENDS Naturals, Sequences, Functions, FiniteSets

CONSTANTS
  Payloads,     \* each one is submitted once, by a parse thread of its own
  Workers,      \* write threads
  QueueMax,     \* maxsize of the queue
  Sentinel      \* None on the queue: a write thread that gets it ends

ASSUME WriteStageAssumption ==
  /\ IsFiniteSet(Payloads) /\ IsFiniteSet(Workers) /\ Sentinel \notin Payloads
  /\ QueueMax \in Nat \ {0}

VARIABLES
  stage,        \* new, started, stopping (shutdown set), joining, stopped
  queue,        \* contents of the queue object
  unsent,       \* sentinels that stop has still to put
  pc,           \* of the parse thread of each payload
  result,       \* none, ok, error (the write failed) or refused
  wpc,          \* of each write thread
  item,         \* the payload each write thread works on
  writes        \* how often each payload was written to the database

producers == <<pc, result>>
writers == <<wpc, item>>
stopping == <<stage, unsent>>
vars == <<queue, writes, producers, writers, stopping>>

Started == stage \in {"started", "stopping", "joining"}      \* _STARTED
Shutdown == stage \in {"stopping", "joining"}                \* _SHUTDOWN.is_set()
Full == Len(queue) >= QueueMax
NoItem == Sentinel

Init ==
  /\ stage = "new" /\ queue = <<>> /\ unsent = 0
  /\ pc = [p \in Payloads |-> "idle"]
  /\ result = [p \in Payloads |-> "none"]
  /\ wpc = [w \in Workers |-> "off"]
  /\ item = [w \in Workers |-> NoItem]
  /\ writes = [p \in Payloads |-> 0]

\* start_ingest_write_stage.
StartStage ==
  /\ stage = "new"
  /\ stage' = "started"
  /\ wpc' = [w \in Workers |-> "top"]
  /\ UNCHANGED <<queue, unsent, item, producers, writes>>

-----------------------------------------------------------------------------
(* submit_ingest_write_and_wait, one parse thread per payload.               *)

\* _execute_write_payload: every exception becomes the payload's error, so done
\* is set in every case.  A write that fails may have reached the database.
Execute(p, r) ==
  /\ r \in {"ok", "error"}
  /\ result' = [result EXCEPT ![p] = r]
  /\ \E n \in IF r = "ok" THEN {1} ELSE {0, 1} :
       writes' = [writes EXCEPT ![p] = @ + n]

\* Without a started stage the caller writes inline.
Submit(p) ==
  /\ pc[p] = "idle"
  /\ IF Started
     THEN /\ pc' = [pc EXCEPT ![p] = "check"]
          /\ UNCHANGED <<result, writes>>
     ELSE /\ \E r \in {"ok", "error"} : Execute(p, r)
          /\ pc' = [pc EXCEPT ![p] = "returned"]
  /\ UNCHANGED <<queue, writers, stopping>>

\* The shutdown event is read before every attempt to put.
CheckShutdown(p) ==
  /\ pc[p] = "check"
  /\ IF Shutdown
     THEN /\ result' = [result EXCEPT ![p] = "refused"]
          /\ pc' = [pc EXCEPT ![p] = "returned"]
     ELSE /\ pc' = [pc EXCEPT ![p] = "load"]
          /\ UNCHANGED result
  /\ UNCHANGED <<queue, writes, writers, stopping>>

\* _WRITE_QUEUE is read; once stop has cleared it, put raises AttributeError.
LoadQueue(p) ==
  /\ pc[p] = "load"
  /\ IF Started
     THEN /\ pc' = [pc EXCEPT ![p] = "put"]
          /\ UNCHANGED result
     ELSE /\ result' = [result EXCEPT ![p] = "refused"]
          /\ pc' = [pc EXCEPT ![p] = "returned"]
  /\ UNCHANGED <<queue, writes, writers, stopping>>

\* Mutant of Put: the queue is created without its maxsize.
PutUnbounded(p) ==
  /\ pc[p] = "put"
  /\ pc' = [pc EXCEPT ![p] = "wait"] /\ queue' = Append(queue, p)
  /\ UNCHANGED <<result, writes, writers, stopping>>

\* put waits for room for one second at most, then the loop starts again.
Put(p) ==
  /\ pc[p] = "put"
  /\ IF Full
     THEN pc' = [pc EXCEPT ![p] = "check"] /\ UNCHANGED queue
     ELSE pc' = [pc EXCEPT ![p] = "wait"] /\ queue' = Append(queue, p)
  /\ UNCHANGED <<result, writes, writers, stopping>>

\* Mutant of Await: the wait is given up when the stage shuts down.
AwaitGivesUp(p) ==
  /\ pc[p] = "wait"
  /\ result[p] # "none" \/ Shutdown
  /\ pc' = [pc EXCEPT ![p] = "returned"]
  /\ result' = IF result[p] = "none" THEN [result EXCEPT ![p] = "refused"]
               ELSE result
  /\ UNCHANGED <<queue, writes, writers, stopping>>

\* payload.done.wait() has no timeout.
Await(p) ==
  /\ pc[p] = "wait" /\ result[p] # "none"
  /\ pc' = [pc EXCEPT ![p] = "returned"]
  /\ UNCHANGED <<queue, result, writes, writers, stopping>>

-----------------------------------------------------------------------------
(* _write_worker_main.                                                       *)

\* The loop ends when shutdown is set or the queue is gone.
WorkerTop(w) ==
  /\ wpc[w] = "top"
  /\ wpc' = [wpc EXCEPT ![w] = IF Shutdown \/ ~Started THEN "ended" ELSE "get"]
  /\ UNCHANGED <<queue, item, writes, producers, stopping>>

\* get waits for one second at most, then the loop starts again.
WorkerGet(w) ==
  /\ wpc[w] = "get"
  /\ IF queue = <<>>
     THEN wpc' = [wpc EXCEPT ![w] = "top"] /\ UNCHANGED <<queue, item>>
     ELSE /\ queue' = Tail(queue)
          /\ IF Head(queue) = Sentinel
             THEN wpc' = [wpc EXCEPT ![w] = "ended"] /\ UNCHANGED item
             ELSE /\ wpc' = [wpc EXCEPT ![w] = "write"]
                  /\ item' = [item EXCEPT ![w] = Head(queue)]
  /\ UNCHANGED <<writes, producers, stopping>>

\* Mutant of WorkerWrite: a failing write ends the thread before done is set.
WorkerWriteDies(w) ==
  /\ wpc[w] = "write"
  /\ item' = [item EXCEPT ![w] = NoItem]
  /\ \/ Execute(item[w], "ok") /\ wpc' = [wpc EXCEPT ![w] = "top"]
     \/ wpc' = [wpc EXCEPT ![w] = "ended"] /\ UNCHANGED <<result, writes>>
  /\ UNCHANGED <<queue, pc, stopping>>

WorkerWrite(w) ==
  /\ wpc[w] = "write"
  /\ \E r \in {"ok", "error"} : Execute(item[w], r)
  /\ item' = [item EXCEPT ![w] = NoItem]
  /\ wpc' = [wpc EXCEPT ![w] = "top"]
  /\ UNCHANGED <<queue, pc, stopping>>

-----------------------------------------------------------------------------
(* stop_ingest_write_stage.                                                  *)

StopSets ==
  /\ stage = "started"
  /\ stage' = "stopping" /\ unsent' = Cardinality(Workers)
  /\ UNCHANGED <<queue, writes, producers, writers>>

\* Mutant of StopSignals: the sentinel is put with a blocking put.
StopSignalsBlocking ==
  /\ stage = "stopping" /\ unsent > 0 /\ ~Full
  /\ queue' = Append(queue, Sentinel) /\ unsent' = unsent - 1
  /\ UNCHANGED <<stage, writes, producers, writers>>

\* put_nowait of one None; the first one that finds the queue full is the last.
StopSignals ==
  /\ stage = "stopping" /\ unsent > 0
  /\ IF Full THEN unsent' = 0 /\ UNCHANGED queue
     ELSE queue' = Append(queue, Sentinel) /\ unsent' = unsent - 1
  /\ UNCHANGED <<stage, writes, producers, writers>>

StopJoins ==
  /\ stage = "stopping" /\ unsent = 0
  /\ stage' = "joining"
  /\ UNCHANGED <<queue, unsent, writes, producers, writers>>

\* Each thread is joined for 30 s at most: only one that is in the middle of a
\* database write outlasts that, any other sees the shutdown within a second.
StopEnds ==
  /\ stage = "joining"
  /\ \A w \in Workers : wpc[w] \in {"ended", "write"}
  /\ stage' = "stopped"
  /\ UNCHANGED <<queue, unsent, writes, producers, writers>>

-----------------------------------------------------------------------------
\* Every payload has been submitted and the stage is stopped.
Finished ==
  /\ stage = "stopped"
  /\ \A p \in Payloads : pc[p] = "returned" \/ (pc[p] = "wait" /\ result[p] = "none")
  /\ \A w \in Workers : wpc[w] = "ended"
  /\ UNCHANGED vars

Producer(p) ==
  Submit(p) \/ CheckShutdown(p) \/ LoadQueue(p) \/ Put(p) \/ Await(p)
Worker(w) == WorkerTop(w) \/ WorkerGet(w) \/ WorkerWrite(w)
Stop == StopSignals \/ StopJoins \/ StopEnds

Next ==
  \/ \E p \in Payloads : Producer(p)
  \/ \E w \in Workers : Worker(w)
  \/ StartStage \/ StopSets \/ Stop \/ Finished

Spec == Init /\ [][Next]_vars

\* Threads are scheduled and a database write ends.  Starting, submitting and
\* stopping are up to the callers.
Fairness ==
  /\ \A p \in Payloads :
       WF_vars(CheckShutdown(p) \/ LoadQueue(p) \/ Put(p) \/ Await(p))
  /\ \A w \in Workers : WF_vars(Worker(w))
  /\ WF_vars(Stop)

FairSpec == Spec /\ Fairness

-----------------------------------------------------------------------------
(* Properties. *)

\* Every variable has one of the values the code can give it, the queue never
\* holds more than maxsize entries and a write thread has an item while it writes.
TypeOK ==
  /\ stage \in {"new", "started", "stopping", "joining", "stopped"}
  /\ queue \in Seq(Payloads \cup {Sentinel}) /\ Len(queue) <= QueueMax
  /\ unsent \in 0 .. Cardinality(Workers)
  /\ pc \in [Payloads -> {"idle", "check", "load", "put", "wait", "returned"}]
  /\ result \in [Payloads -> {"none", "ok", "error", "refused"}]
  /\ wpc \in [Workers -> {"off", "top", "get", "write", "ended"}]
  /\ \A w \in Workers : item[w] \in IF wpc[w] = "write" THEN Payloads ELSE {NoItem}
  /\ writes \in [Payloads -> Nat]

InHand(p) == \E w \in Workers : item[w] = p

\* What the parse thread is told stays true: a payload reported as written is
\* in the database, one refused is not and never will be, and no write of a
\* payload is pending or running once its submission has returned.  The job
\* of the file is acknowledged, or attempted again, on that answer.  No payload
\* is written twice.
AnswerIsFinal ==
  \A p \in Payloads : pc[p] = "returned" =>
    /\ result[p] = "ok" => writes[p] > 0
    /\ result[p] = "refused" => writes[p] = 0
    /\ p \notin Range(queue) /\ ~InHand(p)
    /\ writes[p] <= 1

\* While the stage is not stopped, a submitted payload is answered, however
\* full the queue and whatever the writes of other payloads do.
AnsweredWhileRunning ==
  \A p \in Payloads :
    pc[p] = "check" ~> (pc[p] = "returned" \/ stage \notin {"new", "started"})

\* stop returns, also when the queue is full and no write thread takes
\* anything off it any more.
StopReturns == stage = "stopping" ~> stage = "stopped"
=============================================================================
