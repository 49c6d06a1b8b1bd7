----------------------------- MODULE DurableQueue -----------------------------
(***************************************************************************)
(* A leased queue with its callers and a sidecar.  A caller keeps the claims *)
(* it was given and may come back with one at any time, also after the lease *)
(* was taken from it.  What survives a restart of sync_timedb is exactly one *)
(* of the sets of queued jobs there ever was, the one copied last among      *)
(* those whose write succeeded; leases and claims do not survive.            *)
(***************************************************************************)
EXTENDS LeasedQueue

VARIABLES
  held,         \* claims in the hands of callers
  saving,       \* a snapshot has been taken and not yet written or given up
  copy,         \* the queued jobs of that snapshot, {} when there is none
  saved         \* the queued jobs in the sidecar

sidecar == <<saving, copy, saved>>
vars == <<queue, held, sidecar>>

ClaimOn(j, o) == [job |-> j, owner |-> o]

Init == QueueInit /\ held = {} /\ saving = FALSE /\ copy = {} /\ saved = {}

StoreStep ==
  \/ \E j \in Jobs : Add(j) \/ Expire(j) \/ Extend(j)
  \/ \E S \in SUBSET Jobs : Reap(S)

ClaimStep ==
  \E S \in SUBSET Jobs :
    Claim(S) /\ held' = held \cup {ClaimOn(j, minted + 1) : j \in S}

\* A caller uses up a claim; one whose lease is gone changes nothing else.
CallerStep ==
  \E c \in held :
    /\ held' = held \ {c}
    /\ \/ Finish(c.job, c.owner)
       \/ Return(c.job, c.owner)
       \/ ~LeasedTo(c.job, c.owner) /\ UNCHANGED queue

TakeCopy ==
  /\ ~saving
  /\ saving' = TRUE /\ copy' = InState("queued")
  /\ UNCHANGED saved

Save == saving /\ saved' = copy /\ saving' = FALSE /\ copy' = {}

GiveUp == saving /\ saving' = FALSE /\ copy' = {} /\ UNCHANGED saved

Restart ==
  /\ entry' = [j \in Jobs |-> IF j \in saved THEN Waiting ELSE Absent]
  /\ held' = {}
  /\ saving' = FALSE /\ copy' = {}
  /\ UNCHANGED <<minted, saved>>

Next ==
  \/ StoreStep /\ UNCHANGED <<held, sidecar>>
  \/ (ClaimStep \/ CallerStep) /\ UNCHANGED sidecar
  \/ (TakeCopy \/ Save \/ GiveUp) /\ UNCHANGED <<queue, held>>
  \/ Restart

Spec == Init /\ [][Next]_vars

=============================================================================
