-------------------------- MODULE JobStoreRefinement --------------------------
(***************************************************************************)
(* The job store implements the durable leased queue: heaps, lists, pending  *)
(* sets, counters, leases and shadow are one status per job, and the sidecar *)
(* document is the set of jobs it lists.                                     *)
(***************************************************************************)
EXTENDS JobStore

\* The status of each job: leased while it is in flight.
Status ==
  [j \in Jobs |->
    IF inflight[j] # None
    THEN [st |-> "leased", owner |-> inflight[j].owner, due |-> inflight[j].due]
    ELSE [st |-> IF j \in Queued THEN "queued" ELSE "absent",
          owner |-> 0, due |-> FALSE]]

\* The claims of the callers, without the scores.
ClaimsHeld == {[job |-> c.job, owner |-> c.owner] : c \in held}

\* The writer's copy counts until it is written or given up.
Copied == IF writer.pc = "saving" THEN DocQueued(writer.copy) ELSE {}

Abstract == INSTANCE DurableQueue WITH
  entry <- Status,
  held <- ClaimsHeld,
  saving <- writer.pc = "saving",
  copy <- Copied,
  saved <- DocQueued(disk)

\* Every behaviour of the job store, seen through the mapping, is one of the
\* durable leased queue: only the holder of the newest claim finishes a job or
\* gives it back, only overdue leases are reaped, and a restart brings back
\* exactly the queued jobs of the last snapshot that was written.
ImplementsDurableQueue == Abstract!Spec

=============================================================================
