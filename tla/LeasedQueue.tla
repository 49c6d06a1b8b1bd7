----------------------------- MODULE LeasedQueue -----------------------------
(***************************************************************************)
(* What the job store promises to the coordinator threads, without queues,  *)
(* heaps, lists or shadows: a job is absent, queued, or leased to the       *)
(* caller that holds the newest owner token on it, and only that caller     *)
(* can finish it or give it back.  A lease past its deadline may be taken   *)
(* back for it.                                                             *)
(***************************************************************************)
EXTENDS Naturals

CONSTANTS
  Jobs,
  MaxToken      \* bound: number of owner tokens minted

VARIABLES
  entry,        \* [st, owner, due] of each job
  minted        \* owner tokens handed out so far

queue == <<entry, minted>>

Absent == [st |-> "absent", owner |-> 0, due |-> FALSE]
Waiting == [st |-> "queued", owner |-> 0, due |-> FALSE]
Leased(o, d) == [st |-> "leased", owner |-> o, due |-> d]

InState(s) == {j \in Jobs : entry[j].st = s}
LeasedTo(j, o) == entry[j].st = "leased" /\ entry[j].owner = o

\* entry with every job of S replaced by e.
Put(S, e) == [j \in Jobs |-> IF j \in S THEN e ELSE entry[j]]

QueueInit == entry = [j \in Jobs |-> Absent] /\ minted = 0

\* A job becomes known: refused while it is queued or leased.
Add(j) ==
  /\ entry[j].st = "absent"
  /\ entry' = Put({j}, Waiting)
  /\ UNCHANGED minted

\* One new token takes the lease on a batch of queued jobs.
Claim(S) ==
  /\ S # {} /\ S \subseteq InState("queued")
  /\ minted < MaxToken
  /\ minted' = minted + 1
  /\ entry' = Put(S, Leased(minted + 1, FALSE))

\* The holder is done with the job, or gives it back.
Finish(j, o) ==
  /\ LeasedTo(j, o)
  /\ entry' = Put({j}, Absent)
  /\ UNCHANGED minted

Return(j, o) ==
  /\ LeasedTo(j, o)
  /\ entry' = Put({j}, Waiting)
  /\ UNCHANGED minted

\* The deadline of a lease passes, or is pushed out again.
Expire(j) ==
  /\ entry[j].st = "leased" /\ ~entry[j].due
  /\ entry' = Put({j}, Leased(entry[j].owner, TRUE))
  /\ UNCHANGED minted

Extend(j) ==
  /\ entry[j].st = "leased" /\ entry[j].due
  /\ entry' = Put({j}, Leased(entry[j].owner, FALSE))
  /\ UNCHANGED minted

\* Overdue leases are taken back.
Reap(S) ==
  /\ S # {} /\ S \subseteq InState("leased")
  /\ \A j \in S : entry[j].due
  /\ entry' = Put(S, Waiting)
  /\ UNCHANGED minted

=============================================================================
