----------------------- MODULE IngestCoordinatorProofs -----------------------
(***************************************************************************)
(* The safety invariants of IngestCoordinator for any finite set of jobs,   *)
(* any pool size, skip budget and number of attempts, and any number of     *)
(* claims and of recycled pools.                                            *)
(***************************************************************************)
EXTENDS IngestCoordinator, FiniteSetTheorems, TLAPS

\* The coordinator waits for the result of task t.
Awaited(t) == local[t.job].st = "future" /\ local[t.job].id = t.id

\* Where the coordinator may be: it fills only in a tick that saw neither a
\* shutdown nor a recycle request, only a fill has a batch in hand, and the pool a
\* fill has read is still the current one.
Phases ==
  /\ draining => shutdown
  /\ main = "exited" => draining
  /\ pc \in {"fill1", "drain", "fill2"} => ~draining /\ ~requested
  /\ pc = "done" => draining
  /\ batch # {} => pc \in {"fill1", "fill2"}
  /\ pc \in {"fill1", "fill2"} => seen = pool
  /\ pc # "crashed"

\* The recycle handshake.  While a recycle is requested nothing is local: the
\* request follows the forgetting.  Between the publication of a pool and the end
\* of the handshake no future is old, so no second request can get lost.
Gate ==
  /\ requested => Locals = {}
  /\ main \in {"terminate", "publish", "clear"} => requested
  /\ main = "unpause" => ~requested /\ \A j \in Jobs : ~local[j].old
  /\ requested /\ main \in {"poll", "terminate", "publish"} => pool < MaxPool
  /\ \A j \in Jobs : local[j].st = "none" => ~local[j].old
  /\ \A j \in Jobs : local[j].old => pool < MaxPool
  /\ terminated \subseteq 1 .. pool
  /\ pool \in terminated => main = "publish"

\* Every local entry, sentinels included, has the lease on its claim, every job of
\* the batch has the one of the newest token, and there are no other leases.
Claims ==
  /\ main # "exited" => \A j \in Locals : LeasedTo(j, local[j].owner)
  /\ main = "exited" => InState("leased") = {}
  /\ \A j \in batch : LeasedTo(j, minted) /\ j \notin Locals
  /\ batch # {} => minted # 0
  /\ InState("leased") \subseteq Locals \cup batch

\* The batch fits what is left of the band and of the skip budget: the breaks out
\* of the fill loop leave nothing behind.
Budget ==
  /\ Cardinality(batch) <= room
  /\ Cardinality(batch) + skips <= SkipBudget

\* Task numbers tell the tasks of a job apart, every future has its task, in the
\* current pool, and a task nobody waits for is in a pool that is gone or about
\* to be replaced.
Tasks ==
  /\ \A s, t \in task : s.job = t.job /\ s.id = t.id => s = t
  /\ \A t \in task : t.id <= minted
  /\ \A t \in task : t.job \in batch => t.id # minted
  /\ \A j \in Jobs : local[j].st = "future" => \E t \in task : t.job = j /\ t.id = local[j].id
  /\ \A t \in task : t.pool <= pool
  /\ \A t \in task : Awaited(t) => t.pool = pool
  /\ \A t \in task : Awaited(t) \/ t.pool < pool \/ (requested /\ main # "clear")

\* The attempts of a job run out only after the claims were taken away at exit,
\* and then at most once.
Attempts ==
  \A j \in Jobs : attempt[j] < MaxAttempts \/ (main = "exited" /\ local[j].st # "future")

IInv ==
  TypeOK /\ Phases /\ Gate /\ Claims /\ Budget /\ Tasks /\ Attempts /\ OneTaskPerPool

-----------------------------------------------------------------------------
(* Facts about the operators.                                                *)

\* The entries of the queue.
Entries == [st : {"absent", "queued", "leased"}, owner : 0 .. MaxToken, due : BOOLEAN]

LEMMA EntryFacts ==
  /\ \A o, d : Leased(o, d).st = "leased" /\ Leased(o, d).owner = o
  /\ \A o \in 0 .. MaxToken, d \in BOOLEAN : Leased(o, d) \in Entries
  /\ Absent.st = "absent" /\ Waiting.st = "queued" /\ {Absent, Waiting} \subseteq Entries
BY CoordinatorAssumption DEF Leased, Absent, Waiting, Entries

\* Facts about the intervals of the type invariant.
LEMMA Intervals ==
  /\ \A n \in Nat : 0 .. n \subseteq Nat /\ 1 .. n \subseteq 0 .. n /\ 1 .. n \subseteq Nat /\ 0 \in 0 .. n
  /\ \A n \in Nat : \A m \in 0 .. n : m # 0 => m \in 1 .. n
  /\ \A n \in Nat : \A m \in 0 .. n : m < n => m + 1 \in 0 .. n
  /\ \A n \in Nat : \A m \in 0 .. n : m >= 1 => m - 1 \in 0 .. n
OBVIOUS

\* The counters are natural numbers, and so are the bounds on them.
LEMMA Counters ==
  ASSUME TypeOK
  PROVE  /\ room \in Nat /\ skips \in Nat /\ minted \in Nat
         /\ SkipBudget \in Nat /\ Cap \in Nat /\ MaxToken \in Nat
         /\ \A t \in task : t.id \in Nat
<1>1. SkipBudget \in Nat /\ Cap \in Nat /\ MaxToken \in Nat
  BY CoordinatorAssumption
<1>2. room \in 0 .. Cap /\ skips \in 0 .. SkipBudget /\ minted \in 0 .. MaxToken
  BY Zenon DEF TypeOK
<1>3. \A t \in task : t.id \in 1 .. MaxToken
  BY Zenon DEF TypeOK
<1> QED
  BY Zenon, <1>1, <1>2, <1>3, Intervals

\* The attempts of a job while they have not run out.
LEMMA AttemptBounds ==
  /\ 0 \in 0 .. MaxAttempts /\ 0 < MaxAttempts
  /\ \A n \in 0 .. MaxAttempts : ~(n + 1 >= MaxAttempts) => n + 1 \in 0 .. MaxAttempts /\ n + 1 < MaxAttempts
  /\ \A n \in 0 .. MaxAttempts : n < MaxAttempts => n + 1 \in 0 .. MaxAttempts
BY CoordinatorAssumption

\* A batch of the size BatchSize allows fits the band and the budget.
LEMMA BatchFits ==
  ASSUME NEW c \in Nat, NEW r \in Nat, NEW k \in Nat, SkipBudget \in Nat, k < SkipBudget,
         c <= BatchSize(r, k)
  PROVE  c <= r /\ c + k <= SkipBudget
BY DEF BatchSize

\* Local entries and batches are finite sets of jobs.
LEMMA Finite ==
  ASSUME TypeOK
  PROVE  /\ IsFiniteSet(Locals) /\ Cardinality(Locals) \in Nat
         /\ IsFiniteSet(batch) /\ Cardinality(batch) \in Nat
BY CoordinatorAssumption, FS_Subset, FS_CardinalityType DEF TypeOK, Locals

\* TaskOf finds the one task that the future of a job stands for.
LEMMA TaskOfFacts ==
  ASSUME Tasks, NEW j \in Jobs, local[j].st = "future"
  PROVE  /\ TaskOf(j) \in task /\ TaskOf(j).job = j /\ TaskOf(j).id = local[j].id
         /\ Awaited(TaskOf(j))
         /\ \A t \in task : t.job = j /\ Awaited(t) => t = TaskOf(j)
<1>1. \E t \in task : t.job = j /\ t.id = local[j].id
  BY DEF Tasks
<1>2. TaskOf(j) \in task /\ TaskOf(j).job = j /\ TaskOf(j).id = local[j].id
  BY <1>1 DEF TaskOf
<1> QED
  BY <1>2 DEF Tasks, Awaited

\* While the coordinator fills, no local entry has lost its lease: the reconcile
\* of a tick prunes nothing.
LEMMA PrunedNone ==
  ASSUME IInv, ~draining
  PROVE  Pruned = {} /\ Forget(Pruned) = local
<1>1. \A j \in Locals : entry[j].st = "leased"
  BY DEF IInv, Phases, Claims, LeasedTo
<1>2. Pruned = {}
  BY <1>1 DEF Pruned
<1> QED
  BY <1>2 DEF Forget, IInv, TypeOK

\* One job of the batch is dealt with.
LEMMA BatchShrinks ==
  ASSUME IInv, NEW j \in batch
  PROVE  /\ Cardinality(batch \ {j}) = Cardinality(batch) - 1
         /\ Cardinality(batch) >= 1
         /\ room >= 1 /\ skips < SkipBudget
         /\ skips + 1 >= SkipBudget => batch \ {j} = {}
<1>1. IsFiniteSet(batch) /\ Cardinality(batch) \in Nat /\ batch # {}
  BY Finite DEF IInv
<1>2. IsFiniteSet(batch \ {j}) /\ Cardinality(batch \ {j}) = Cardinality(batch) - 1
  BY <1>1, FS_RemoveElement
<1>3. Cardinality(batch) >= 1
  BY <1>1, FS_EmptySet
<1>4. Cardinality(batch \ {j}) = 0 => batch \ {j} = {}
  BY <1>2, FS_EmptySet
<1>5. Budget /\ room \in Nat /\ skips \in Nat /\ SkipBudget \in Nat
  BY CoordinatorAssumption DEF IInv, TypeOK
<1> QED
  BY <1>1, <1>2, <1>3, <1>4, <1>5 DEF Budget

-----------------------------------------------------------------------------
(* The surroundings.                                                         *)

LEMMA DiscoverStep ==
  ASSUME IInv, NEW j \in Jobs, Discover(j)
  PROVE  IInv'
<1> USE DEF IInv, Discover, Add, coordVars, fillVars, gateVars
<1>1. TypeOK'
  BY CoordinatorAssumption DEF TypeOK, Put, Waiting
<1>2. Claims'
  BY Zenon DEF Claims, TypeOK, Put, Waiting, Locals, LeasedTo, InState
<1>3. Phases' /\ Gate' /\ Budget' /\ Tasks' /\ Attempts' /\ OneTaskPerPool'
  BY DEF Phases, Gate, Budget, Tasks, Attempts, OneTaskPerPool, Locals, Awaited
<1> QED
  BY <1>1, <1>2, <1>3

LEMMA DeadlineStep ==
  ASSUME IInv, NEW j \in Jobs, Deadline(j)
  PROVE  IInv'
<1> USE DEF IInv, Deadline, Expire, coordVars, fillVars, gateVars
<1>1. TypeOK'
  BY DEF TypeOK, Put, Leased
<1>2. Claims'
  BY ZenonT(30) DEF Claims, TypeOK, Put, Leased, Locals, LeasedTo, InState
<1>3. Phases' /\ Gate' /\ Budget' /\ Tasks' /\ Attempts' /\ OneTaskPerPool'
  BY DEF Phases, Gate, Budget, Tasks, Attempts, OneTaskPerPool, Locals, Awaited
<1> QED
  BY <1>1, <1>2, <1>3

LEMMA AgeStep ==
  ASSUME IInv, NEW j \in Jobs, Age(j)
  PROVE  IInv'
<1> USE DEF IInv, Age, queue, fillVars, gateVars
<1>1. TypeOK'
  <2>1. local' \in [Jobs -> [owner : 0 .. MaxToken, id : 0 .. MaxToken,
                             st : {"none", "future", "sentinel"}, old : BOOLEAN]]
    BY ZenonT(30) DEF TypeOK
  <2> QED
    BY <2>1, Zenon DEF TypeOK
<1>2. \A k \in Jobs : /\ local'[k].st = local[k].st /\ local'[k].id = local[k].id
                      /\ local'[k].owner = local[k].owner
                      /\ k # j => local'[k] = local[k]
  BY DEF TypeOK
<1>3. Locals' = Locals
  BY <1>2 DEF Locals
<1>4. Gate'
  BY <1>2, <1>3 DEF Gate, Locals
<1>5. Claims'
  BY <1>2, <1>3 DEF Claims, LeasedTo, InState, Locals
<1>6. Tasks' /\ OneTaskPerPool'
  BY <1>1, <1>2 DEF Tasks, OneTaskPerPool, Awaited, TypeOK
<1>7. Phases' /\ Budget' /\ Attempts'
  BY <1>2 DEF Phases, Budget, Attempts
<1> QED
  BY <1>1, <1>4, <1>5, <1>6, <1>7

\* The task that ends stays as a result if it is awaited, and is gone otherwise.
LEMMA TaskEndsStep ==
  ASSUME IInv, NEW t \in task, TaskEnds(t)
  PROVE  IInv'
<1> USE DEF IInv, queue, coordVars, fillVars, gateVars
<1>1. PICK r \in Outcomes :
        task' = (task \ {t}) \cup (IF Awaited(t) THEN {[t EXCEPT !.st = r]} ELSE {})
  BY DEF TaskEnds, Awaited
<1>2. /\ t \in [job : Jobs, id : 1 .. MaxToken, pool : 1 .. MaxPool, st : {"run"} \cup Outcomes]
      /\ [t EXCEPT !.st = r] \in [job : Jobs, id : 1 .. MaxToken, pool : 1 .. MaxPool,
                                  st : {"run"} \cup Outcomes]
      /\ [t EXCEPT !.st = r].job = t.job /\ [t EXCEPT !.st = r].id = t.id
      /\ [t EXCEPT !.st = r].pool = t.pool /\ [t EXCEPT !.st = r].st # "run"
  BY DEF TypeOK, Outcomes
<1>3. TypeOK'
  BY ZenonT(30), <1>1, <1>2 DEF TypeOK, TaskEnds
<1>4. /\ \A s \in task' : \E u \in task : s.job = u.job /\ s.id = u.id /\ s.pool = u.pool
                                          /\ (s = u \/ (u = t /\ s.st # "run"))
      /\ \A u \in task : Awaited(u) => \E s \in task' : s.job = u.job /\ s.id = u.id
  BY <1>1, <1>2
<1>5. Tasks'
  <2>1. UNCHANGED <<local, minted, batch, gateVars, main>>
    BY DEF TaskEnds
  <2>2. \A s, u \in task' : s.job = u.job /\ s.id = u.id => s = u
    BY <1>1, <1>2 DEF Tasks
  <2>3. \A j \in Jobs : local[j].st = "future" => \E s \in task' : s.job = j /\ s.id = local[j].id
    BY <1>4 DEF Tasks, Awaited
  <2> QED
    BY <1>4, <2>1, <2>2, <2>3 DEF Tasks, Awaited
<1>6. OneTaskPerPool'
  BY <1>4 DEF OneTaskPerPool
<1>7. Phases' /\ Gate' /\ Claims' /\ Budget' /\ Attempts'
  BY Zenon DEF TaskEnds, Phases, Gate, Claims, Budget, Attempts, Locals, InState, LeasedTo
<1> QED
  BY <1>3, <1>5, <1>6, <1>7

LEMMA RequestShutdownStep ==
  ASSUME IInv, RequestShutdown
  PROVE  IInv'
<1>1. /\ shutdown' = TRUE
      /\ UNCHANGED <<entry, minted, attempt, task, local, pc, draining, todo, batch, room, skips,
                     seen, pool, terminated, requested, paused, main>>
  BY Zenon DEF RequestShutdown, queue, coordVars, fillVars, gateVars
<1>2. TypeOK'
  BY ZenonT(30), <1>1 DEF IInv, TypeOK
<1>3. Phases' /\ Budget' /\ Attempts' /\ OneTaskPerPool'
  BY ZenonT(30), <1>1 DEF IInv, Phases, Budget, Attempts, OneTaskPerPool
<1>4. Gate' /\ Claims'
  BY ZenonT(30), <1>1 DEF IInv, Gate, Claims, Locals, InState, LeasedTo
<1>5. Tasks'
  BY ZenonT(30), <1>1 DEF IInv, Tasks, Awaited
<1> QED
  BY <1>2, <1>3, <1>4, <1>5, Zenon DEF IInv
-----------------------------------------------------------------------------
(* The coordinator's tick: top, pause and fill.                              *)

\* What a step that moves only the program counter, the flags read, the list of
\* results or the counters of a finished fill leaves alone.
LEMMA QuietStep ==
  ASSUME IInv, UNCHANGED <<queue, attempt, task, local, batch, pool, terminated, requested, main>>
  PROVE  Gate' /\ Claims' /\ Tasks' /\ Attempts' /\ OneTaskPerPool'
BY DEF IInv, queue, Gate, Claims, Tasks, Attempts, OneTaskPerPool, Locals, InState, LeasedTo,
       Awaited

LEMMA TopStep ==
  ASSUME IInv, Top
  PROVE  IInv'
<1>1. Gate' /\ Claims' /\ Tasks' /\ Attempts' /\ OneTaskPerPool'
  BY QuietStep DEF Top, fillVars
<1>2. TypeOK' /\ Budget'
  BY DEF IInv, Top, queue, fillVars, TypeOK, Budget
<1>3. Phases'
  BY DEF IInv, Top, fillVars, TypeOK, Phases
<1> QED
  BY <1>1, <1>2, <1>3 DEF IInv

LEMMA PauseEndsStep ==
  ASSUME IInv, PauseEnds
  PROVE  IInv'
<1>1. Gate' /\ Claims' /\ Tasks' /\ Attempts' /\ OneTaskPerPool'
  BY QuietStep DEF PauseEnds, fillVars
<1>2. TypeOK' /\ Budget' /\ Phases'
  BY Zenon DEF IInv, PauseEnds, queue, fillVars, TypeOK, Budget, Phases
<1> QED
  BY <1>1, <1>2 DEF IInv

LEMMA DecideStep ==
  ASSUME IInv, Decide
  PROVE  IInv'
<1>1. local' = local
  BY PrunedNone DEF Decide
<1>2. Gate' /\ Claims' /\ Tasks' /\ Attempts' /\ OneTaskPerPool'
  BY <1>1, QuietStep DEF Decide, gateVars
<1>3. batch = {}
  BY DEF Decide, IInv, Phases
<1>4. Cardinality(batch) = 0
  BY Zenon, <1>3, FS_EmptySet
<1>5. TypeOK' /\ Phases'
  BY <1>1, CoordinatorAssumption DEF IInv, Decide, queue, gateVars, TypeOK, Phases, Locals
<1>6. Budget'
  BY <1>4, CoordinatorAssumption DEF IInv, Decide, TypeOK, Budget
<1> QED
  BY <1>2, <1>5, <1>6 DEF IInv

\* A batch is claimed with one new token; it fits the band and the budget.
LEMMA FillClaimStep ==
  ASSUME IInv, NEW S \in SUBSET Jobs, FillClaim(S)
  PROVE  IInv'
<1>1. PICK r \in 1 .. Cap - Cardinality(Locals), k \in {0, skips} :
        /\ k < SkipBudget /\ Cardinality(S) <= BatchSize(r, k) /\ room' = r /\ skips' = k
  BY DEF FillClaim
<1>2. /\ Cardinality(Locals) \in Nat /\ IsFiniteSet(S) /\ Cardinality(S) \in Nat
      /\ SkipBudget \in Nat /\ Cap \in Nat /\ skips \in Nat
  <2>1. IsFiniteSet(S) /\ Cardinality(S) \in Nat
    BY CoordinatorAssumption, FS_Subset, FS_CardinalityType
  <2>2. Cardinality(Locals) \in Nat
    BY Finite DEF IInv
  <2> QED
    BY <2>1, <2>2, Counters, Zenon DEF IInv
<1>3. main # "exited" /\ batch = {}
  BY DEF FillClaim, IInv, Phases
<1>4. S \subseteq InState("queued") /\ minted < MaxToken /\ minted' = minted + 1
      /\ entry' = Put(S, Leased(minted + 1, FALSE)) /\ batch' = S
  BY Zenon DEF FillClaim, Claim
<1>5. TypeOK'
  <2>1. room' \in 0 .. Cap
    BY <1>1, <1>2
  <2>2. skips' \in 0 .. SkipBudget
    BY <1>1, <1>2
  <2>3. minted' \in 0 .. MaxToken
    BY <1>4, Counters, Intervals, Zenon DEF IInv, TypeOK
  <2>4. entry' \in [Jobs -> Entries]
    BY <1>4, <2>3, EntryFacts, Zenon DEF IInv, TypeOK, Put, Entries
  <2>5. UNCHANGED <<attempt, task, local, pc, draining, todo, seen, gateVars, main, shutdown>>
    BY Zenon DEF FillClaim
  <2> QED
    BY ZenonT(30), <1>4, <2>1, <2>2, <2>3, <2>4, <2>5 DEF IInv, TypeOK, Entries, gateVars
<1>6. Claims'
  <2>1. \A j \in S : j \notin Locals
    BY <1>3, <1>4 DEF IInv, Claims, InState, LeasedTo
  <2>2. \A j \in Jobs : entry'[j] = IF j \in S THEN Leased(minted + 1, FALSE) ELSE entry[j]
    BY <1>4 DEF Put
  <2>3. local' = local /\ main' = main
    BY Zenon DEF FillClaim
  <2>4. Locals' = Locals
    BY <2>3 DEF Locals
  <2>5. \A j \in Locals : LeasedTo(j, local[j].owner)'
    BY <1>3, <2>1, <2>2, <2>3, Zenon DEF IInv, Claims, LeasedTo, Locals
  <2>6. \A j \in S : LeasedTo(j, minted)'
    <3> DEFINE e == Leased(minted + 1, FALSE)
    <3>1. e.st = "leased" /\ e.owner = minted'
      BY <1>4, EntryFacts, Zenon
    <3> HIDE DEF e
    <3>2. \A j \in S : entry'[j] = e
      BY <2>2, Zenon DEF e
    <3> QED
      BY <3>1, <3>2 DEF LeasedTo
  <2>7. InState("leased")' \subseteq Locals \cup S
    BY <1>3, <2>2, Zenon DEF IInv, Claims, InState
  <2>8. minted' # 0
    BY <1>4, Counters DEF IInv
  <2> QED
    BY ZenonT(30), <1>3, <1>4, <2>1, <2>3, <2>4, <2>5, <2>6, <2>7, <2>8 DEF Claims
<1>7. Budget'
  <2>1. room' \in Nat /\ skips' \in Nat
    BY <1>1, <1>2
  <2>2. skips' < SkipBudget /\ Cardinality(S) <= BatchSize(room', skips')
    BY <1>1, Zenon
  <2>3. Cardinality(S) <= room' /\ Cardinality(S) + skips' <= SkipBudget
    BY <1>2, <2>1, <2>2, BatchFits, Zenon
  <2> QED
    BY <1>4, <2>3, Zenon DEF Budget
<1>8. Tasks'
  <2>1. UNCHANGED <<task, local, gateVars, main>>
    BY Zenon DEF FillClaim
  <2>2. \A t \in task : t.id <= minted /\ t.id \in Nat
    BY Counters, Zenon DEF IInv, Tasks
  <2>3. \A t \in task : t.id <= minted' /\ t.id # minted'
    BY <1>4, <2>2, Counters DEF IInv
  <2> QED
    BY ZenonT(30), <2>1, <2>3 DEF IInv, Tasks, Awaited, gateVars
<1>9. Phases' /\ Gate' /\ Attempts' /\ OneTaskPerPool'
  BY DEF FillClaim, IInv, Phases, Gate, Attempts, OneTaskPerPool, gateVars, Locals
<1> QED
  BY <1>5, <1>6, <1>7, <1>8, <1>9 DEF IInv

\* A claim of the batch goes out of the store's hands again.
LEMMA GivenUpStep ==
  ASSUME IInv, NEW j \in batch, NEW e \in {Absent, Waiting}, entry' = Put({j}, e),
         batch' = batch \ {j}, UNCHANGED <<minted, local, task, gateVars, main>>
  PROVE  Claims' /\ Tasks'
<1>1. \A k \in Jobs : entry'[k] = IF k = j THEN e ELSE entry[k]
  BY DEF Put
<1>2. e.st # "leased"
  BY DEF Absent, Waiting
<1>3. Claims'
  <2>1. Locals' = Locals /\ j \notin Locals /\ main # "exited" /\ j \in Jobs
    BY DEF Locals, IInv, Claims, Phases, TypeOK
  <2>2. \A k \in Jobs : k # j => \A o : LeasedTo(k, o)' = LeasedTo(k, o)
    BY <1>1 DEF LeasedTo
  <2>3. InState("leased")' = InState("leased") \ {j}
    BY Zenon, <1>1, <1>2 DEF InState
  <2> QED
    BY ZenonT(30), <2>1, <2>2, <2>3 DEF IInv, Claims, TypeOK, Locals
<1>4. Tasks'
  BY DEF IInv, Tasks, Awaited, gateVars
<1> QED
  BY <1>3, <1>4

\* Turned away: by then the budget is used up only if the batch is.
LEMMA SkipStep ==
  ASSUME IInv, NEW j \in batch, SkipRequeue(j) \/ SkipAck(j)
  PROVE  IInv'
<1>1. j \in Jobs /\ skips \in Nat /\ SkipBudget \in Nat /\ room \in Nat
  BY Counters, Zenon DEF IInv, TypeOK
<1>2. skips' = skips + 1 /\ batch' = batch \ {j}
  BY BatchShrinks, <1>1, Zenon DEF SkipRequeue, SkipAck, TurnAway
<1>3. PICK e \in {Absent, Waiting} : entry' = Put({j}, e)
  BY DEF SkipRequeue, SkipAck, Return, Finish
<1>4. /\ UNCHANGED <<minted, local, task, gateVars, main, room, pc, draining, todo, seen, shutdown>>
      /\ attempt' = attempt \/ attempt' = [attempt EXCEPT ![j] = 0]
  BY Zenon DEF SkipRequeue, SkipAck, Return, Finish, TurnAway
<1>5. TypeOK'
  <2>1. skips' \in 0 .. SkipBudget
    BY <1>1, <1>2, BatchShrinks
  <2>2. attempt' \in [Jobs -> 0 .. MaxAttempts]
    BY <1>1, <1>4, AttemptBounds, Zenon DEF IInv, TypeOK
  <2>3. entry' \in [Jobs -> Entries]
    BY Zenon, <1>3, EntryFacts DEF IInv, TypeOK, Put, Entries
  <2> QED
    BY ZenonT(30), <1>2, <1>4, <2>1, <2>2, <2>3 DEF IInv, TypeOK, gateVars, Entries
<1>6. Claims' /\ Tasks'
  BY Zenon, <1>2, <1>3, <1>4, GivenUpStep
<1>7. Budget'
  <2>1. /\ Cardinality(batch \ {j}) = Cardinality(batch) - 1 /\ Cardinality(batch) \in Nat
        /\ Budget
    BY BatchShrinks, Finite, Zenon DEF IInv
  <2> QED
    BY <1>1, <1>2, <1>4, <2>1 DEF Budget
<1>8. Attempts'
  BY ZenonT(30), <1>1, <1>4, AttemptBounds DEF IInv, TypeOK, Attempts
<1>9. Phases' /\ Gate' /\ OneTaskPerPool'
  BY Zenon, <1>2, <1>4 DEF IInv, Phases, Gate, OneTaskPerPool, gateVars, Locals
<1> QED
  BY Zenon, <1>5, <1>6, <1>7, <1>8, <1>9 DEF IInv

\* The batch never outgrows the band: a claim is handed back only by a full pool.
LEMMA HandBackStep ==
  ASSUME IInv, NEW j \in batch, Cardinality(Locals) >= Cap \/ room = 0, HandBack(j)
  PROVE  IInv'
<1>1. j \in Jobs /\ skips \in Nat /\ SkipBudget \in Nat /\ room \in Nat
  BY CoordinatorAssumption DEF IInv, TypeOK
<1>2. batch' = batch \ {j} /\ entry' = Put({j}, Waiting)
  <2>1. room # 0
    <3>1. room >= 1
      BY BatchShrinks, Zenon
    <3> QED
      BY <1>1, <3>1
  <2> QED
    BY <2>1 DEF HandBack, Return
<1>3. UNCHANGED <<minted, attempt, local, task, gateVars, main, room, skips, pc, draining, todo,
                  seen, shutdown>>
  BY Zenon DEF HandBack, Return
<1>4. TypeOK'
  BY <1>1, <1>2, <1>3, CoordinatorAssumption DEF IInv, TypeOK, Put, Waiting, gateVars
<1>5. Claims' /\ Tasks'
  BY Zenon, <1>2, <1>3, GivenUpStep
<1>6. Budget'
  <2>1. /\ Cardinality(batch \ {j}) = Cardinality(batch) - 1 /\ Cardinality(batch) \in Nat
        /\ Budget
    BY <1>1, BatchShrinks, Finite, Zenon DEF IInv
  <2>2. room \in Nat /\ skips \in Nat /\ SkipBudget \in Nat
    BY Counters, Zenon DEF IInv
  <2> QED
    BY <1>2, <1>3, <2>1, <2>2 DEF Budget
<1>7. Phases' /\ Gate' /\ Attempts' /\ OneTaskPerPool'
  BY <1>2, <1>3 DEF IInv, Phases, Gate, Attempts, OneTaskPerPool, gateVars, Locals
<1> QED
  BY Zenon, <1>4, <1>5, <1>6, <1>7 DEF IInv

\* The pool is alive, and no task of the job runs in it: those nobody waits for are
\* in pools that are gone.
LEMMA SubmitStep ==
  ASSUME IInv, NEW j \in batch, NEW p \in {seen, pool}, Submit(j, p)
  PROVE  IInv'
<1> DEFINE new == [job |-> j, id |-> minted, pool |-> pool, st |-> "run"]
           loc == [owner |-> minted, id |-> minted, st |-> "future", old |-> FALSE]
<1>1. /\ j \in Jobs /\ p = pool /\ pool \notin terminated /\ ~requested /\ main # "exited"
      /\ j \notin Locals /\ LeasedTo(j, minted) /\ minted \in 1 .. MaxToken
      /\ main # "clear"
  <2>1. j \in Jobs /\ j \notin Locals /\ LeasedTo(j, minted) /\ minted # 0
    BY Zenon DEF IInv, Claims, TypeOK
  <2>2. ~requested /\ seen = pool /\ main # "exited"
    BY Zenon DEF IInv, Phases
  <2>3. pool \notin terminated /\ main # "clear"
    BY <2>2, Zenon DEF IInv, Gate
  <2>4. minted \in 1 .. MaxToken
    BY <2>1, Counters, Intervals, Zenon DEF IInv, TypeOK
  <2> QED
    BY <2>1, <2>2, <2>3, <2>4, Zenon
<1>2. /\ local' = [local EXCEPT ![j] = loc] /\ task' = task \cup {new}
      /\ room' = room - 1 /\ batch' = batch \ {j}
      /\ UNCHANGED <<pc, queue, attempt, draining, todo, skips, seen, gateVars, main, shutdown>>
  BY Zenon, <1>1 DEF Submit
<1>3. /\ new.job = j /\ new.id = minted /\ new.pool = pool /\ new.st = "run"
      /\ loc.owner = minted /\ loc.id = minted /\ loc.st = "future" /\ loc.old = FALSE
  BY Zenon
<1>4. /\ new \in [job : Jobs, id : 1 .. MaxToken, pool : 1 .. MaxPool, st : {"run"} \cup Outcomes]
      /\ loc \in [owner : 0 .. MaxToken, id : 0 .. MaxToken,
                  st : {"none", "future", "sentinel"}, old : BOOLEAN]
  BY <1>1 DEF IInv, TypeOK
<1> HIDE DEF new, loc
<1>5. \A k \in Jobs : local'[k] = IF k = j THEN loc ELSE local[k]
  BY <1>2, Zenon DEF IInv, TypeOK
<1>6. Locals' = Locals \cup {j}
  BY <1>1, <1>3, <1>5, Zenon DEF Locals
<1>7. TypeOK'
  <2>1. room' \in 0 .. Cap
    <3>1. room \in 0 .. Cap /\ Cap \in Nat
      BY Counters, Zenon DEF IInv, TypeOK
    <3>2. room >= 1
      BY BatchShrinks, Zenon
    <3> QED
      BY <1>2, <3>1, <3>2, Intervals, Zenon
  <2> QED
    BY ZenonT(30), <1>2, <1>4, <2>1 DEF IInv, TypeOK, queue, gateVars
<1>8. Phases' /\ Gate'
  BY <1>1, <1>2, <1>3, <1>5, <1>6, ZenonT(30) DEF IInv, Phases, Gate, gateVars
<1>9. Claims'
  BY <1>1, <1>2, <1>3, <1>5, <1>6, ZenonT(30) DEF IInv, Claims, LeasedTo, InState, queue, TypeOK, Locals
<1>10. Budget'
  <2>1. /\ Cardinality(batch \ {j}) = Cardinality(batch) - 1 /\ Cardinality(batch) \in Nat
        /\ Budget
    BY BatchShrinks, Finite, Zenon DEF IInv
  <2>2. room \in Nat /\ skips \in Nat /\ SkipBudget \in Nat
    BY Counters, Zenon DEF IInv
  <2> QED
    BY <1>2, <2>1, <2>2 DEF Budget
<1>11. \A t \in task : t.job = j => t.id # minted /\ ~Awaited(t) /\ t.pool < pool
  BY <1>1 DEF IInv, Tasks, Awaited, Locals
<1>12. Tasks'
  <2>1. \A s, t \in task' : s.job = t.job /\ s.id = t.id => s = t
    BY <1>2, <1>3, <1>11 DEF IInv, Tasks
  <2>2. \A t \in task' : t.id <= minted /\ t.pool <= pool
    <3>1. minted <= minted /\ pool <= pool
      BY DEF IInv, TypeOK
    <3> QED
      BY <1>2, <1>3, <3>1, ZenonT(30) DEF IInv, Tasks
  <2>3. \A t \in task' : t.job \in batch' => t.id # minted
    BY <1>2, <1>3 DEF IInv, Tasks
  <2>4. \A k \in Jobs : local'[k].st = "future" => \E t \in task' : t.job = k /\ t.id = local'[k].id
    <3> SUFFICES ASSUME NEW k \in Jobs, local'[k].st = "future"
                 PROVE  \E t \in task' : t.job = k /\ t.id = local'[k].id
      OBVIOUS
    <3>1. CASE k = j
      BY <1>2, <1>3, <1>5, <3>1, Zenon
    <3>2. CASE k # j
      <4>1. local'[k] = local[k]
        BY <1>5, <3>2, Zenon
      <4>2. \E t \in task : t.job = k /\ t.id = local[k].id
        BY <4>1, Zenon DEF IInv, Tasks
      <4> QED
        BY <1>2, <4>1, <4>2, Zenon
    <3> QED
      BY <3>1, <3>2, Zenon
  <2>5. \A t \in task : Awaited(t)' = Awaited(t)
    <3> SUFFICES ASSUME NEW t \in task PROVE Awaited(t)' = Awaited(t)
      BY Zenon
    <3>1. t.job \in Jobs
      BY DEF IInv, TypeOK
    <3>2. CASE t.job = j
      <4>1. ~Awaited(t) /\ t.id # minted
        BY <1>11, <3>2, Zenon
      <4>2. ~Awaited(t)'
        BY <1>1, <1>3, <1>5, <3>2, <4>1, Zenon DEF Awaited
      <4> QED
        BY <4>1, <4>2, Zenon DEF Awaited
    <3>3. CASE t.job # j
      BY <1>5, <3>1, <3>3, Zenon DEF Awaited
    <3> QED
      BY <3>2, <3>3, Zenon
  <2>6. \A t \in task' : Awaited(t)' => t.pool = pool
    BY <1>2, <1>3, <2>5 DEF IInv, Tasks
  <2>7. local'[new.job].st = "future" /\ local'[new.job].id = new.id
    BY <1>1, <1>3, <1>5, Zenon
  <2>8. \A t \in task' : Awaited(t)' \/ t.pool < pool
    BY <1>1, <1>2, <2>5, <2>7, Zenon DEF IInv, Tasks, Awaited
  <2> QED
    BY <1>2, <2>1, <2>2, <2>3, <2>4, <2>6, <2>8, ZenonT(30) DEF Tasks, queue, gateVars
<1>13. Attempts'
  BY Zenon, <1>1, <1>2, <1>5 DEF IInv, Attempts
<1>14. OneTaskPerPool'
  <2>1. \A t \in task : t.job = j => t.pool # pool
    BY <1>11, <1>1 DEF IInv, TypeOK
  <2> QED
    BY ZenonT(30), <1>2, <1>3, <2>1 DEF IInv, OneTaskPerPool
<1> QED
  BY Zenon, <1>7, <1>8, <1>9, <1>10, <1>12, <1>13, <1>14 DEF IInv

LEMMA AdmitStep ==
  ASSUME IInv, NEW j \in Jobs, Admit(j)
  PROVE  IInv'
BY Zenon, HandBackStep, SkipStep, SubmitStep DEF Admit

LEMMA FillEndsStep ==
  ASSUME IInv, FillEnds
  PROVE  IInv'
<1>1. Gate' /\ Claims' /\ Tasks' /\ Attempts' /\ OneTaskPerPool'
  BY Zenon, QuietStep DEF FillEnds, fillVars, gateVars
<1>2. TypeOK' /\ Budget' /\ Phases'
  BY DEF IInv, FillEnds, queue, fillVars, gateVars, TypeOK, Budget, Phases, Locals
<1> QED
  BY <1>1, <1>2 DEF IInv
-----------------------------------------------------------------------------
(* Draining.                                                                 *)

\* A result is taken: the job is no longer local, its task is gone.
LEMMA ConsumeStep ==
  ASSUME IInv, NEW j \in Jobs, local[j].st = "future", NEW l,
         l.st # "future", ~l.old \/ l = [local[j] EXCEPT !.st = "sentinel"],
         l \in [owner : 0 .. MaxToken, id : 0 .. MaxToken,
                st : {"none", "future", "sentinel"}, old : BOOLEAN],
         local' = [local EXCEPT ![j] = l], task' = task \ {TaskOf(j)},
         UNCHANGED <<minted, batch, gateVars, main>>
  PROVE  /\ Gate' /\ Tasks' /\ OneTaskPerPool'
         /\ local' \in [Jobs -> [owner : 0 .. MaxToken, id : 0 .. MaxToken,
                                 st : {"none", "future", "sentinel"}, old : BOOLEAN]]
         /\ Locals \ {j} \subseteq Locals' /\ Locals' \subseteq Locals
<1>1. \A k \in Jobs : local'[k] = IF k = j THEN l ELSE local[k]
  BY DEF IInv, TypeOK
<1>2. local' \in [Jobs -> [owner : 0 .. MaxToken, id : 0 .. MaxToken,
                           st : {"none", "future", "sentinel"}, old : BOOLEAN]]
  BY DEF IInv, TypeOK
<1>3. Locals \ {j} \subseteq Locals' /\ Locals' \subseteq Locals
  BY <1>1 DEF Locals
<1>4. l.old => local[j].old /\ l.st = "sentinel"
  BY DEF IInv, TypeOK
<1>5. Gate'
  BY ZenonT(30), <1>1, <1>3, <1>4 DEF IInv, Gate, gateVars
<1>6. \A t \in task' : t \in task /\ Awaited(t)' = Awaited(t)
  BY <1>1, TaskOfFacts DEF Awaited, IInv
<1>7. \A k \in Jobs : local'[k].st = "future" => \E t \in task' : t.job = k /\ t.id = local'[k].id
  BY <1>1, TaskOfFacts DEF IInv, Tasks
<1>8. Tasks'
  BY <1>6, <1>7 DEF IInv, Tasks, gateVars
<1>9. OneTaskPerPool'
  BY ZenonT(30), <1>6 DEF IInv, OneTaskPerPool
<1> QED
  BY Zenon, <1>2, <1>3, <1>5, <1>8, <1>9

\* What a forgotten claim leaves behind.
LEMMA NoLocalFacts ==
  /\ NoLocal \in [owner : 0 .. MaxToken, id : 0 .. MaxToken,
                  st : {"none", "future", "sentinel"}, old : BOOLEAN]
  /\ NoLocal.st = "none"
  /\ ~NoLocal.old
<1>1. 0 \in 0 .. MaxToken
  BY CoordinatorAssumption
<1> QED
  BY <1>1 DEF NoLocal

\* Its lease, if it still has one, ends with an acknowledgement or a requeue, and
\* the attempts are counted.
LEMMA ResultStep ==
  ASSUME IInv, NEW j \in Jobs, local[j].st = "future", batch = {}, Consume(j),
         NEW e \in {Absent, Waiting},
         entry' = IF LeasedTo(j, local[j].owner) THEN Put({j}, e) ELSE entry,
         NEW n \in 0 .. MaxAttempts, attempt' = [attempt EXCEPT ![j] = n],
         main # "exited" => n < MaxAttempts,
         UNCHANGED <<minted, pc, draining, fillVars, gateVars, main, shutdown>>,
         todo' = todo \ {j}
  PROVE  IInv'
<1>1. /\ NoLocal \in [owner : 0 .. MaxToken, id : 0 .. MaxToken,
                      st : {"none", "future", "sentinel"}, old : BOOLEAN]
      /\ NoLocal.st = "none" /\ ~NoLocal.old
  BY NoLocalFacts, Zenon
<1>2. local' = [local EXCEPT ![j] = NoLocal] /\ task' = task \ {TaskOf(j)}
  BY Zenon DEF Consume, Forget, IInv, TypeOK
<1>3. UNCHANGED <<minted, batch, gateVars, main>>
  BY Zenon DEF fillVars
<1>4. /\ Gate' /\ Tasks' /\ OneTaskPerPool'
      /\ local' \in [Jobs -> [owner : 0 .. MaxToken, id : 0 .. MaxToken,
                              st : {"none", "future", "sentinel"}, old : BOOLEAN]]
      /\ Locals \ {j} \subseteq Locals' /\ Locals' \subseteq Locals
  BY <1>1, <1>2, <1>3, ConsumeStep, Zenon
<1>5. /\ \A k \in Jobs : k # j => local'[k] = local[k] /\ entry'[k] = entry[k]
      /\ local'[j] = NoLocal
      /\ entry'[j] = IF LeasedTo(j, local[j].owner) THEN e ELSE entry[j]
      /\ entry' \in [Jobs -> Entries]
  BY <1>2, EntryFacts, ZenonT(30) DEF IInv, TypeOK, Put, Entries
<1>6. e.st # "leased"
  BY EntryFacts
<1>7. TypeOK'
  BY <1>2, <1>4, <1>5, ZenonT(30) DEF IInv, TypeOK, Entries, fillVars, gateVars
<1>8. Claims'
  <2>1. InState("leased")' \subseteq InState("leased")
    BY <1>5, <1>6, Zenon DEF InState
  <2>2. main # "exited" => entry'[j].st # "leased"
    BY <1>5, <1>6, Zenon DEF IInv, Claims, Locals
  <2>3. main # "exited" => \A k \in Locals' : LeasedTo(k, local[k].owner)'
    <3>1. \A k \in Locals' : k \in Locals /\ k # j /\ k \in Jobs
      BY <1>1, <1>4, <1>5, Zenon DEF Locals
    <3> QED
      BY <1>5, <3>1, Zenon DEF IInv, Claims, LeasedTo
  <2> QED
    BY <1>3, <1>4, <2>1, <2>2, <2>3, Zenon DEF IInv, Claims, InState
<1>9. Attempts'
  BY <1>1, <1>3, <1>5, Zenon DEF IInv, TypeOK, Attempts
<1>10. Phases' /\ Budget'
  BY Zenon DEF IInv, Phases, Budget, fillVars, gateVars
<1> QED
  BY <1>4, <1>7, <1>8, <1>9, <1>10, Zenon DEF IInv

\* A bare TimeoutError keeps the claim and its slot.
LEMMA DrainBareStep ==
  ASSUME IInv, NEW j \in Jobs, local[j].st = "future", batch = {}, DrainBare(j),
         UNCHANGED <<pc, draining, fillVars, gateVars, main, shutdown>>,
         todo' = todo \ {j}
  PROVE  IInv'
<1> DEFINE l == [local[j] EXCEPT !.st = "sentinel"]
<1>1. /\ l \in [owner : 0 .. MaxToken, id : 0 .. MaxToken,
                st : {"none", "future", "sentinel"}, old : BOOLEAN]
      /\ l.st = "sentinel" /\ l.owner = local[j].owner
  BY DEF IInv, TypeOK
<1>2. local' = [local EXCEPT ![j] = l] /\ task' = task \ {TaskOf(j)}
  BY DEF DrainBare, IInv, TypeOK
<1>3. UNCHANGED <<minted, entry, batch, gateVars, main, attempt>>
  BY DEF fillVars, DrainBare, queue
<1>4. l.st # "future" /\ (~l.old \/ l = [local[j] EXCEPT !.st = "sentinel"])
  BY <1>1
<1> HIDE DEF l
<1>5. /\ Gate' /\ Tasks' /\ OneTaskPerPool'
      /\ local' \in [Jobs -> [owner : 0 .. MaxToken, id : 0 .. MaxToken,
                              st : {"none", "future", "sentinel"}, old : BOOLEAN]]
      /\ Locals \ {j} \subseteq Locals' /\ Locals' \subseteq Locals
  BY <1>1, <1>2, <1>3, <1>4, ConsumeStep, Zenon
<1>6. \A k \in Jobs : local'[k] = IF k = j THEN l ELSE local[k]
  BY <1>2, Zenon DEF IInv, TypeOK
<1>7. Locals' = Locals
  BY <1>1, <1>6 DEF Locals
<1>8. Claims'
  BY <1>1, <1>3, <1>6, <1>7, Zenon DEF IInv, Claims, LeasedTo, InState, Locals
<1>9. TypeOK'
  BY <1>2, <1>3, <1>5, ZenonT(30) DEF IInv, TypeOK, fillVars, gateVars
<1>10. Attempts'
  BY <1>1, <1>3, <1>6, Zenon DEF IInv, Attempts
<1>11. Phases' /\ Budget'
  BY Zenon DEF IInv, Phases, Budget, fillVars, gateVars
<1> QED
  BY <1>5, <1>8, <1>9, <1>10, <1>11, Zenon DEF IInv

LEMMA DrainStep ==
  ASSUME IInv, NEW j \in Jobs, Drain(j)
  PROVE  IInv'
<1>1. /\ batch = {} /\ todo' = todo \ {j}
      /\ UNCHANGED <<pc, draining, fillVars, gateVars, main, shutdown>>
  BY ZenonT(30) DEF Drain, Pending, IInv, Phases
<1>2. CASE UNCHANGED <<queue, attempt, local, task>>
  <2>1. Gate' /\ Claims' /\ Tasks' /\ Attempts' /\ OneTaskPerPool'
    BY <1>1, <1>2, QuietStep, Zenon DEF fillVars, gateVars
  <2>2. TypeOK' /\ Budget' /\ Phases'
    BY <1>1, <1>2 DEF IInv, queue, fillVars, gateVars, TypeOK, Budget, Phases
  <2> QED
    BY <2>1, <2>2 DEF IInv
<1>3. CASE local[j].st = "future" /\ DrainReady(j)
  <2>1. /\ attempt[j] \in 0 .. MaxAttempts /\ attempt[j] < MaxAttempts /\ MaxAttempts \in Nat
        /\ attempt \in [Jobs -> 0 .. MaxAttempts]
        /\ main # "exited" => LeasedTo(j, local[j].owner)
    BY <1>3, CoordinatorAssumption DEF IInv, TypeOK, Attempts, Claims, Locals
  <2>2. CASE DrainAck(j)
    <3>1. PICK n \in 0 .. MaxAttempts : attempt' = [attempt EXCEPT ![j] = n] /\ n < MaxAttempts
      <4>1. CASE LeasedTo(j, local[j].owner)
        <5>1. attempt' = [attempt EXCEPT ![j] = 0]
          BY <2>2, <4>1 DEF DrainAck
        <5>2. 0 \in 0 .. MaxAttempts /\ 0 < MaxAttempts
          BY <2>1
        <5> QED
          BY <5>1, <5>2, Zenon
      <4>2. CASE ~LeasedTo(j, local[j].owner)
        <5>1. attempt' = [attempt EXCEPT ![j] = attempt[j]]
          BY ZenonT(30), <2>1, <2>2, <4>2 DEF DrainAck
        <5> QED
          BY <2>1, <5>1, Zenon
      <4> QED
        BY <4>1, <4>2
    <3>2. entry' = (IF LeasedTo(j, local[j].owner) THEN Put({j}, Absent) ELSE entry)
          /\ minted' = minted /\ Consume(j)
      BY <2>2 DEF DrainAck, Ack, Finish, queue
    <3> QED
      BY <1>1, <1>3, <3>1, <3>2, ResultStep, Zenon
  <2>3. CASE DrainTimeout(j)
    <3>1. attempt' = [attempt EXCEPT ![j] = attempt[j]]
      BY <2>1, <2>3 DEF DrainTimeout
    <3>2. entry' = (IF LeasedTo(j, local[j].owner) THEN Put({j}, Waiting) ELSE entry)
          /\ minted' = minted /\ Consume(j)
      BY <2>3 DEF DrainTimeout, Requeue, Return, queue
    <3> QED
      BY <1>1, <1>3, <2>1, <3>1, <3>2, ResultStep, Zenon
  <2>4. CASE DrainFailed(j)
    <3>1. PICK n \in 0 .. MaxAttempts :
            attempt' = [attempt EXCEPT ![j] = n] /\ (main # "exited" => n < MaxAttempts)
      <4>1. CASE LastAttempt(j) /\ LeasedTo(j, local[j].owner)
        BY <2>4, <4>1, AttemptBounds, Zenon DEF DrainFailed
      <4>2. CASE LastAttempt(j) /\ ~LeasedTo(j, local[j].owner)
        BY <2>1, <2>4, <4>2, AttemptBounds, Zenon DEF DrainFailed
      <4>3. CASE ~LastAttempt(j)
        BY <2>1, <2>4, <4>3, AttemptBounds, Zenon DEF DrainFailed, LastAttempt
      <4> QED
        BY <4>1, <4>2, <4>3, Zenon
    <3>2. PICK e \in {Absent, Waiting} :
            entry' = (IF LeasedTo(j, local[j].owner) THEN Put({j}, e) ELSE entry)
      BY <2>4 DEF DrainFailed, Ack, Finish, Requeue, Return, queue
    <3>3. minted' = minted /\ Consume(j)
      BY <2>4, ZenonT(30) DEF DrainFailed, Ack, Finish, Requeue, Return, queue
    <3> QED
      BY <1>1, <1>3, <3>1, <3>2, <3>3, ResultStep, Zenon
  <2>5. CASE DrainBare(j)
    BY Zenon, <1>1, <1>3, <2>5, DrainBareStep
  <2> QED
    BY <1>3, <2>2, <2>3, <2>4, <2>5, Zenon DEF DrainReady
<1> QED
  BY <1>2, <1>3 DEF Drain

LEMMA DrainEndsStep ==
  ASSUME IInv, DrainEnds
  PROVE  IInv'
<1>1. Gate' /\ Claims' /\ Tasks' /\ Attempts' /\ OneTaskPerPool'
  BY QuietStep, ZenonT(30) DEF DrainEnds, gateVars
<1>2. TypeOK' /\ Phases'
  <2>1. 0 \in 0 .. SkipBudget
    BY CoordinatorAssumption
  <2> QED
    BY ZenonT(30), <2>1 DEF IInv, DrainEnds, queue, gateVars, TypeOK, Phases
<1>3. Budget'
  <2>1. Cardinality(batch) = 0
    BY Zenon, FS_EmptySet DEF DrainEnds, IInv, Phases
  <2> QED
    BY <2>1, Counters DEF DrainEnds, IInv, Budget
<1> QED
  BY <1>1, <1>2, <1>3 DEF IInv
-----------------------------------------------------------------------------
(* The end of the tick.                                                      *)

\* Everything local goes back before the new pool is asked for.
LEMMA TailStep ==
  ASSUME IInv, Tail
  PROVE  IInv'
<1>1. /\ pc = "tail" /\ pc' = "reap" /\ batch = {}
      /\ UNCHANGED <<attempt, task, draining, todo, fillVars, pool, terminated, paused, main, shutdown>>
  BY DEF Tail, IInv, Phases
<1>2. CASE UNCHANGED <<queue, local, requested>>
  <2>1. Gate' /\ Claims' /\ Tasks' /\ Attempts' /\ OneTaskPerPool'
    BY <1>1, <1>2, QuietStep, ZenonT(30) DEF fillVars
  <2>2. TypeOK' /\ Budget' /\ Phases'
    BY Zenon, <1>1, <1>2 DEF IInv, queue, fillVars, TypeOK, Budget, Phases
  <2> QED
    BY <2>1, <2>2 DEF IInv
<1>3. CASE StuckRecycle
  <2>1. PICK i \in Locals : local[i].old
    BY <1>3 DEF StuckRecycle
  <2>2. /\ ~draining /\ ~requested /\ requested' = TRUE /\ minted' = minted
        /\ entry' = Put({j \in Locals : LeasedTo(j, local[j].owner)}, Waiting)
        /\ main # "exited" /\ main # "unpause" /\ main \notin {"terminate", "publish", "clear"}
        /\ pool < MaxPool
    BY <1>3, <2>1, Zenon DEF StuckRecycle, RequeueAll, IInv, Phases, Gate, Locals
  <2>3. /\ \A j \in Jobs : local'[j] = NoLocal
        /\ local' = [j \in Jobs |-> NoLocal]
        /\ NoLocal.st = "none" /\ ~NoLocal.old
        /\ NoLocal \in [owner : 0 .. MaxToken, id : 0 .. MaxToken,
                        st : {"none", "future", "sentinel"}, old : BOOLEAN]
    BY <1>3, CoordinatorAssumption DEF StuckRecycle, Forget, NoLocal
  <2>4. Locals' = {}
    BY <2>3 DEF Locals
  <2>5. \A j \in Jobs : entry'[j].st # "leased"
    <3>1. \A j \in Jobs : entry'[j] = IF j \in Locals THEN Waiting ELSE entry[j]
      BY <2>2, Zenon DEF Put, IInv, Claims, Locals
    <3>2. \A j \in Jobs : j \notin Locals => entry[j].st # "leased"
      BY <1>1, Zenon DEF IInv, Claims, InState
    <3> QED
      BY <3>1, <3>2, EntryFacts, Zenon
  <2>6. entry' \in [Jobs -> Entries]
    BY <2>2, EntryFacts, Zenon DEF Put, IInv, TypeOK, Entries
  <2>7. TypeOK'
    BY <1>1, <2>2, <2>3, <2>6, Zenon DEF IInv, TypeOK, Entries, fillVars
  <2>8. Claims'
    BY <1>1, <2>4, <2>5, ZenonT(30) DEF Claims, InState, fillVars
  <2>9. Gate'
    BY Zenon, <1>1, <2>2, <2>3, <2>4 DEF IInv, Gate
  <2>10. Tasks'
    <3>1. \A t \in task' : ~Awaited(t)'
      BY <1>1, <2>3, ZenonT(30) DEF Awaited, IInv, TypeOK
    <3> QED
      BY <1>1, <2>2, <2>3, <3>1, Zenon DEF IInv, Tasks, fillVars
  <2>11. Attempts'
    BY Zenon, <1>1, <2>2 DEF IInv, Attempts
  <2>12. Phases' /\ Budget' /\ OneTaskPerPool'
    BY <1>1, <2>2 DEF IInv, Phases, Budget, OneTaskPerPool, fillVars
  <2> QED
    BY Zenon, <2>7, <2>8, <2>9, <2>10, <2>11, <2>12 DEF IInv
<1> QED
  BY Zenon, <1>2, <1>3 DEF Tail

\* Protected leases stay, with their deadlines moved; a sentinel goes with its lease.
LEMMA ReapStaleStep ==
  ASSUME IInv, ReapStale
  PROVE  IInv'
<1>1. /\ pc = "reap" /\ batch = {}
      /\ UNCHANGED <<minted, attempt, task, draining, todo, fillVars, gateVars, main, shutdown>>
      /\ local' = Forget({j \in Sentinels : entry'[j].st # "leased"})
  <2>1. pc = "reap" => batch = {}
    BY DEF IInv, Phases
  <2> QED
    BY <2>1, Zenon DEF ReapStale
<1>2. \A j \in Jobs :
        /\ entry'[j] \in Entries
        /\ entry'[j].st = "leased" =>
             entry[j].st = "leased" /\ entry'[j].owner = entry[j].owner
        /\ j \in Locals \ Sentinels /\ entry[j].st = "leased" => entry'[j].st = "leased"
  <2> SUFFICES ASSUME NEW j \in Jobs
               PROVE  /\ entry'[j] \in Entries
                      /\ entry'[j].st = "leased" =>
                           entry[j].st = "leased" /\ entry'[j].owner = entry[j].owner
                      /\ j \in Locals \ Sentinels /\ entry[j].st = "leased" =>
                           entry'[j].st = "leased"
    BY Zenon
  <2>1. entry'[j] = IF j \in Reaped THEN Waiting
                    ELSE IF j \in Protected /\ entry[j].st = "leased"
                         THEN Leased(entry[j].owner, FALSE) ELSE entry[j]
    BY Zenon DEF ReapStale
  <2>2. entry[j] \in Entries /\ entry[j].owner \in 0 .. MaxToken
    BY DEF IInv, TypeOK, Entries
  <2>3. Leased(entry[j].owner, FALSE) \in Entries
    BY <2>2, EntryFacts, Zenon
  <2>4. /\ Leased(entry[j].owner, FALSE).st = "leased"
        /\ Leased(entry[j].owner, FALSE).owner = entry[j].owner
        /\ Waiting.st = "queued" /\ Waiting \in Entries
    BY EntryFacts, Zenon
  <2> QED
    BY <2>1, <2>2, <2>3, <2>4, Zenon DEF Reaped, Protected
<1>3. entry' = [j \in Jobs |-> entry'[j]]
  BY Zenon DEF ReapStale
<1>4. /\ NoLocal.st = "none" /\ ~NoLocal.old
      /\ NoLocal \in [owner : 0 .. MaxToken, id : 0 .. MaxToken,
                      st : {"none", "future", "sentinel"}, old : BOOLEAN]
  BY CoordinatorAssumption DEF NoLocal
<1>5. /\ local' = [j \in Jobs |-> local'[j]]
      /\ \A j \in Jobs : \/ local'[j] = local[j] /\ (j \in Sentinels => entry'[j].st = "leased")
                         \/ local'[j] = NoLocal /\ j \in Sentinels /\ entry'[j].st # "leased"
  BY <1>1, Zenon DEF Forget
<1>6. TypeOK'
  <2>1. pc' \in {"top", "done"}
    BY Zenon DEF ReapStale
  <2>2. entry' \in [Jobs -> Entries]
    BY <1>2, <1>3, Zenon
  <2>3. local' \in [Jobs -> [owner : 0 .. MaxToken, id : 0 .. MaxToken,
                             st : {"none", "future", "sentinel"}, old : BOOLEAN]]
    BY <1>4, <1>5 DEF IInv, TypeOK
  <2> QED
    BY <1>1, <2>1, <2>2, <2>3, Zenon DEF IInv, TypeOK, Entries, fillVars, gateVars
<1>7. Claims'
  <2>1. Locals' = {j \in Locals : j \notin Sentinels \/ entry'[j].st = "leased"}
    BY Zenon, <1>4, <1>5 DEF Locals, Sentinels
  <2>2. InState("leased")' \subseteq InState("leased")
    BY <1>2 DEF InState
  <2>3. InState("leased")' \subseteq Locals'
    <3>1. InState("leased") \subseteq Locals
      BY <1>1, Zenon DEF IInv, Claims
    <3> QED
      BY <2>1, <2>2, <3>1, Zenon DEF InState
  <2>4. main # "exited" => \A j \in Locals' : LeasedTo(j, local[j].owner)'
    BY ZenonT(30), <1>2, <1>4, <1>5, <2>1 DEF IInv, Claims, LeasedTo, Locals
  <2> QED
    BY <1>1, <2>2, <2>3, <2>4, Zenon DEF IInv, Claims, fillVars
<1>8. Gate'
  BY <1>1, <1>4, <1>5, ZenonT(30) DEF IInv, Gate, Locals, gateVars
<1>9. Tasks'
  <2>1. \A j \in Jobs : (local[j].st = "future") = (local'[j].st = "future")
                        /\ (local[j].st = "future" => local'[j] = local[j])
    BY <1>4, <1>5 DEF Sentinels
  <2>2. \A t \in task : Awaited(t)' = Awaited(t)
    BY <2>1 DEF Awaited, IInv, TypeOK
  <2>3. UNCHANGED <<task, batch, minted, pool, requested, main>> /\ Tasks
    BY <1>1, Zenon DEF IInv, fillVars, gateVars
  <2>4. \A j \in Jobs : local'[j].st = "future" => \E t \in task : t.job = j /\ t.id = local'[j].id
    <3> SUFFICES ASSUME NEW j \in Jobs, local'[j].st = "future"
                 PROVE  \E t \in task : t.job = j /\ t.id = local'[j].id
      BY Zenon
    <3>1. local'[j] = local[j]
      BY <2>1, Zenon
    <3>2. \A k \in Jobs : local[k].st = "future" => \E t \in task : t.job = k /\ t.id = local[k].id
      BY <2>3, Zenon DEF Tasks
    <3> QED
      BY <3>1, <3>2, Zenon
  <2>5. /\ \A t \in task : Awaited(t)' => t.pool = pool
        /\ \A t \in task : Awaited(t)' \/ t.pool < pool \/ (requested /\ main # "clear")
    BY <2>2, <2>3, Zenon DEF Tasks
  <2> QED
    BY <2>3, <2>4, <2>5, Zenon DEF Tasks
<1>10. Attempts'
  BY <1>1, <1>4, <1>5, Zenon DEF IInv, Attempts, Sentinels
<1>11. Phases' /\ Budget' /\ OneTaskPerPool'
  <2>1. pc' \in {"top", "done"} /\ (pc' = "done" => draining)
    BY Zenon DEF ReapStale
  <2>2. UNCHANGED <<task, draining, batch, room, skips, seen, pool, requested, main, shutdown>>
    BY <1>1, Zenon DEF fillVars, gateVars
  <2>3. pc' \notin {"fill1", "drain", "fill2"}
    BY <2>1
  <2> QED
    BY <1>1, <2>1, <2>2, <2>3 DEF IInv, Phases, Budget, OneTaskPerPool
<1> QED
  BY <1>6, <1>7, <1>8, <1>9, <1>10, <1>11, Zenon DEF IInv

LEMMA ReapLaterStep ==
  ASSUME IInv, ReapLater
  PROVE  IInv'
<1>1. Gate' /\ Claims' /\ Tasks' /\ Attempts' /\ OneTaskPerPool'
  BY QuietStep, ZenonT(30) DEF ReapLater, fillVars, gateVars
<1>2. TypeOK' /\ Phases' /\ Budget'
  BY DEF IInv, ReapLater, queue, fillVars, gateVars, TypeOK, Phases, Budget
<1> QED
  BY <1>1, <1>2 DEF IInv

-----------------------------------------------------------------------------
(* The main thread.                                                          *)

LEMMA RecycleStep ==
  ASSUME IInv, Recycle
  PROVE  IInv'
<1> USE DEF MainStep
<1>1. UNCHANGED <<queue, attempt, task, coordVars, shutdown>>
  BY Zenon DEF Recycle
<1>2. Claims'
  BY <1>1, Zenon DEF Recycle, MainSeesPause, MainTerminates, MainPublishes, MainClears, MainUnpauses,
              IInv, Claims, queue, coordVars, fillVars, Locals, InState, LeasedTo
<1>3. Attempts' /\ Budget' /\ OneTaskPerPool'
  <2>1. main # "exited"
    BY Zenon DEF Recycle, MainSeesPause, MainTerminates, MainPublishes, MainClears, MainUnpauses
  <2>2. UNCHANGED <<attempt, task, local, batch, room, skips>>
    BY <1>1, Zenon DEF coordVars, fillVars
  <2> QED
    BY <2>1, <2>2, Zenon DEF IInv, Attempts, Budget, OneTaskPerPool
<1>4. CASE MainSeesPause
  <2>1. TypeOK' /\ Phases'
    BY <1>1, <1>4, Zenon DEF MainSeesPause, IInv, TypeOK, Phases, queue, coordVars, fillVars, gateVars
  <2>2. Gate'
    BY <1>1, <1>4, Zenon DEF MainSeesPause, IInv, Gate, coordVars, fillVars, gateVars, Locals
  <2>3. Tasks'
    BY <1>1, <1>4, Zenon DEF MainSeesPause, IInv, Tasks, Awaited, queue, coordVars, fillVars, gateVars
  <2> QED
    BY <1>2, <1>3, <2>1, <2>2, <2>3, Zenon DEF IInv
<1>5. CASE MainTerminates
  <2>1. TypeOK' /\ Phases'
    BY <1>1, <1>5, ZenonT(30) DEF MainTerminates, IInv, TypeOK, Phases, queue, coordVars, fillVars
  <2>2. Gate'
    BY <1>1, <1>5 DEF MainTerminates, IInv, TypeOK, Gate, coordVars, fillVars, Locals
  <2>3. Tasks'
    BY <1>1, <1>5, Zenon DEF MainTerminates, IInv, Tasks, Awaited, queue, coordVars, fillVars
  <2> QED
    BY <1>2, <1>3, <2>1, <2>2, <2>3, Zenon DEF IInv
<1>6. CASE MainPublishes
  <2>1. requested /\ Locals = {} /\ pool < MaxPool /\ pool \in 1 .. MaxPool /\ pool' = pool + 1
    BY <1>6, ZenonT(30) DEF MainPublishes, IInv, Gate, TypeOK
  <2>2. TypeOK' /\ Phases'
    BY <1>1, <1>6, <2>1, CoordinatorAssumption
       DEF MainPublishes, IInv, TypeOK, Phases, queue, coordVars, fillVars
  <2>3. \A j \in Jobs : local[j].st = "none" /\ ~local[j].old
    BY <2>1, Zenon DEF IInv, Gate, Locals
  <2>4. Gate'
    <3>1. /\ main' = "clear" /\ requested' /\ terminated' = terminated
          /\ local' = local /\ Locals' = {}
      BY <1>1, <1>6, <2>1, Zenon DEF MainPublishes, coordVars, fillVars, Locals
    <3>2. terminated \subseteq 1 .. pool
      BY Zenon DEF IInv, Gate
    <3>3. terminated' \subseteq 1 .. pool' /\ pool' \notin terminated'
      <4>1. \A x \in 1 .. pool : x \in 1 .. (pool + 1) /\ x # pool + 1
        BY <2>1
      <4> QED
        BY <2>1, <3>1, <3>2, <4>1, Zenon
    <3> QED
      BY <2>3, <3>1, <3>3, Zenon DEF Gate
  <2>5. Tasks'
    <3>1. \A t \in task : ~Awaited(t)' /\ t.pool \in Nat /\ t.pool <= pool
      BY <1>1, <2>3 DEF Awaited, IInv, TypeOK, Tasks, coordVars
    <3>2. \A t \in task : t.pool < pool' /\ t.pool <= pool'
      BY <2>1, <3>1
    <3>3. UNCHANGED <<task, local, batch, minted>>
      BY <1>1, Zenon DEF queue, coordVars, fillVars
    <3>4. Tasks
      BY Zenon DEF IInv
    <3> QED
      BY <2>3, <3>1, <3>2, <3>3, <3>4, Zenon DEF Tasks
  <2> QED
    BY Zenon, <1>2, <1>3, <2>2, <2>4, <2>5 DEF IInv
<1>7. CASE MainClears
  <2>1. TypeOK' /\ Phases'
    BY <1>1, <1>7, Zenon DEF MainClears, IInv, TypeOK, Phases, queue, coordVars, fillVars
  <2>2. Gate' /\ Tasks'
    BY <1>1, <1>7, Zenon DEF MainClears, IInv, Gate, Tasks, Awaited, queue, coordVars, fillVars, Locals
  <2> QED
    BY <1>2, <1>3, <2>1, <2>2 DEF IInv
<1>8. CASE MainUnpauses
  BY <1>1, <1>2, <1>3, <1>8, ZenonT(30) DEF MainUnpauses, IInv, TypeOK, Phases, Gate, Tasks, Awaited,
                                queue, coordVars, fillVars, Locals
<1> QED
  BY <1>4, <1>5, <1>6, <1>7, <1>8 DEF Recycle

\* At exit every claim goes back; nothing is claimed after it.
LEMMA MainExitsStep ==
  ASSUME IInv, MainExits, pc = "done" \/ draining
  PROVE  IInv'
<1>1. /\ draining /\ shutdown /\ main = "poll" /\ main' = "exited" /\ batch = {}
      /\ UNCHANGED <<minted, attempt, task, pc, draining, todo, fillVars, gateVars, shutdown>>
      /\ entry' = Put({j \in Locals : LeasedTo(j, local[j].owner)}, Waiting)
      /\ local' = [j \in Jobs |-> [local[j] EXCEPT !.owner = 0]]
  BY Zenon DEF MainExits, MainStep, RequeueAll, IInv, Phases
<1>2. /\ local' \in [Jobs -> [owner : 0 .. MaxToken, id : 0 .. MaxToken,
                              st : {"none", "future", "sentinel"}, old : BOOLEAN]]
      /\ \A j \in Jobs : local'[j].st = local[j].st /\ local'[j].id = local[j].id
                         /\ local'[j].old = local[j].old
  <2> DEFINE L == [owner : 0 .. MaxToken, id : 0 .. MaxToken,
                   st : {"none", "future", "sentinel"}, old : BOOLEAN]
  <2>1. \A x \in L : LET y == [x EXCEPT !.owner = 0]
                     IN y \in L /\ y.st = x.st /\ y.id = x.id /\ y.old = x.old
    BY Zenon, CoordinatorAssumption, Intervals
  <2>2. local \in [Jobs -> L]
    BY DEF IInv, TypeOK
  <2> HIDE DEF L
  <2>3. \A j \in Jobs : local[j] \in L /\ local'[j] = [local[j] EXCEPT !.owner = 0]
    BY <1>1, <2>2
  <2>4. \A j \in Jobs : /\ local'[j] \in L /\ local'[j].st = local[j].st
                        /\ local'[j].id = local[j].id /\ local'[j].old = local[j].old
    BY <2>1, <2>3, ZenonT(30)
  <2>5. local' \in [Jobs -> L]
    BY <1>1, <2>4
  <2> QED
    BY <2>4, <2>5 DEF L
<1>3. entry' \in [Jobs -> Entries]
  BY <1>1, EntryFacts DEF Put, IInv, TypeOK, Entries
<1>4. \A j \in Jobs : entry'[j].st # "leased"
  <2>1. \A j \in Jobs : entry'[j] = IF j \in Locals THEN Waiting ELSE entry[j]
    BY <1>1 DEF Put, IInv, Claims, Locals
  <2>2. \A j \in Jobs : j \notin Locals => entry[j].st # "leased"
    BY <1>1 DEF IInv, Claims, InState
  <2> QED
    BY <2>1, <2>2, EntryFacts
<1>5. TypeOK'
  BY Zenon, <1>1, <1>2, <1>3 DEF IInv, TypeOK, Entries, fillVars, gateVars
<1>6. Claims'
  BY Zenon, <1>1, <1>4 DEF Claims, InState, fillVars
<1>7. Locals' = Locals
  BY <1>2 DEF Locals
<1>8. Gate'
  BY <1>1, <1>2, <1>7, ZenonT(30) DEF IInv, Gate, gateVars
<1>9. Tasks'
  <2>1. \A t \in task : Awaited(t)' = Awaited(t)
    BY <1>2 DEF Awaited, IInv, TypeOK
  <2> QED
    BY <1>1, <1>2, <2>1 DEF IInv, Tasks, gateVars, fillVars
<1>10. Attempts' /\ Phases' /\ Budget' /\ OneTaskPerPool'
  BY <1>1, <1>2 DEF IInv, Attempts, Phases, Budget, OneTaskPerPool, fillVars, gateVars
<1> QED
  BY <1>5, <1>6, <1>8, <1>9, <1>10 DEF IInv
-----------------------------------------------------------------------------
(* The theorems.                                                             *)

LEMMA InitIInv == Init => IInv
<1> SUFFICES ASSUME Init PROVE IInv
  BY Zenon
<1>1. /\ \A j \in Jobs : local[j] = NoLocal /\ attempt[j] = 0 /\ entry[j] = Absent
      /\ NoLocal.st = "none" /\ ~NoLocal.old /\ Absent.st = "absent"
  BY DEF Init, QueueInit, NoLocal, Absent
<1>2. TypeOK
  <2>1. 0 \in 0 .. MaxToken /\ 0 \in 0 .. MaxAttempts /\ 0 \in 0 .. Cap /\ 0 \in 0 .. SkipBudget
        /\ 1 \in 1 .. MaxPool
    BY CoordinatorAssumption
  <2>2. entry \in [Jobs -> Entries]
    BY Zenon, EntryFacts DEF Init, QueueInit
  <2>3. local \in [Jobs -> [owner : 0 .. MaxToken, id : 0 .. MaxToken,
                            st : {"none", "future", "sentinel"}, old : BOOLEAN]]
    BY Zenon, <2>1 DEF Init, NoLocal
  <2> QED
    BY <2>1, <2>2, <2>3, Zenon DEF Init, QueueInit, TypeOK, Entries
<1>3. Locals = {} /\ InState("leased") = {}
  BY <1>1 DEF Locals, InState
<1>4. Budget
  <2>1. Cardinality({}) = 0
    BY FS_EmptySet, Zenon
  <2>2. batch = {} /\ room = 0 /\ skips = 0
    BY Zenon DEF Init
  <2>3. 0 <= 0 /\ 0 + 0 <= SkipBudget
    BY CoordinatorAssumption
  <2> QED
    BY <2>1, <2>2, <2>3, Zenon DEF Budget
<1>5. Phases /\ Gate /\ Claims /\ Tasks /\ OneTaskPerPool
  BY <1>1, <1>3, CoordinatorAssumption, Zenon DEF Init, Phases, Gate, Claims, Tasks, OneTaskPerPool
<1>6. Attempts
  <2>1. 0 < MaxAttempts
    BY CoordinatorAssumption
  <2> QED
    BY <1>1, <2>1, Zenon DEF Attempts
<1> QED
  BY <1>2, <1>4, <1>5, <1>6 DEF IInv

LEMMA StutterStep ==
  ASSUME IInv, UNCHANGED vars
  PROVE  IInv'
<1>1. TypeOK' /\ Phases'
  <2>1. TypeOK'
    BY ZenonT(30) DEF IInv, TypeOK, vars, queue, coordVars, fillVars, gateVars
  <2>2. Phases'
    BY Zenon DEF IInv, Phases, vars, coordVars, fillVars, gateVars
  <2> QED
    BY <2>1, <2>2, Zenon
<1>2. Gate' /\ Claims'
  BY Zenon DEF IInv, Gate, Claims, vars, queue, coordVars, fillVars, gateVars, Locals, InState,
               LeasedTo
<1>3. Budget' /\ Attempts'
  BY Zenon DEF IInv, Budget, Attempts, vars, queue, coordVars, fillVars, gateVars
<1>4. Tasks' /\ OneTaskPerPool'
  BY Zenon DEF IInv, Tasks, OneTaskPerPool, Awaited, vars, queue, coordVars, fillVars, gateVars
<1> QED
  BY <1>1, <1>2, <1>3, <1>4, Zenon DEF IInv

LEMMA NextIInv == IInv /\ [Next]_vars => IInv'
<1> SUFFICES ASSUME IInv, [Next]_vars PROVE IInv'
  OBVIOUS
<1>1. ASSUME Environment PROVE IInv'
  BY ZenonT(30), <1>1, DiscoverStep, DeadlineStep, AgeStep, TaskEndsStep, RequestShutdownStep DEF Environment
<1>2. ASSUME Coordinator PROVE IInv'
  BY Zenon, <1>2, TopStep, PauseEndsStep, DecideStep, FillEndsStep, DrainEndsStep, FillClaimStep, AdmitStep,
     DrainStep, TailStep, ReapStaleStep, ReapLaterStep DEF Coordinator
<1>3. ASSUME MainDrained \/ MainTimeout PROVE IInv'
  BY <1>3, MainExitsStep DEF MainDrained, MainTimeout
<1> QED
  BY <1>1, <1>2, <1>3, RecycleStep, StutterStep DEF Next

LEMMA Inductive == Spec => []IInv
BY InitIInv, NextIInv, PTL DEF Spec

\* TypeOK, with the counters of the fill within their bounds and the attempts
\* within job_max_attempts, holds for every size of pool, budget and queue.
THEOREM TypeCorrect == Spec => []TypeOK
<1>1. IInv => TypeOK
  BY Zenon DEF IInv
<1> QED
  BY <1>1, Inductive, PTL

\* LocalHoldsLease: the reaper never takes the lease of a future the coordinator
\* waits for, and no drain, recycle or late result returns it under its feet.
THEOREM LeasesKept == Spec => []LocalHoldsLease
<1>1. IInv => LocalHoldsLease
  BY ZenonT(30) DEF IInv, Claims, LocalHoldsLease
<1> QED
  BY <1>1, Inductive, PTL

\* NoOrphanLease: every early end of the fill loop, every drain outcome, the
\* recycle and the exit leave no lease without a local entry or a place in the batch.
THEOREM NothingOrphaned == Spec => []NoOrphanLease
<1>1. IInv => NoOrphanLease
  BY DEF IInv, Claims, NoOrphanLease
<1> QED
  BY <1>1, Inductive, PTL

\* OneTaskPerPool: tasks that a recycle leaves behind never meet a second task for
\* their file in the same pool.
THEOREM OneParser == Spec => []OneTaskPerPool
<1>1. IInv => OneTaskPerPool
  BY DEF IInv
<1> QED
  BY <1>1, Inductive, PTL

\* WaitsOnLivePool: the pause handshake of coordinator and main thread keeps
\* submissions and awaited futures away from a terminated pool.
THEOREM PauseIsSafe == Spec => []WaitsOnLivePool
<1>1. IInv => WaitsOnLivePool
  <2> SUFFICES ASSUME IInv, NEW j \in Jobs, local[j].st = "future"
               PROVE  pc # "crashed" /\ TaskOf(j).pool \notin terminated
    BY Zenon DEF WaitsOnLivePool, IInv, Phases
  <2>1. TaskOf(j).pool = pool
    <3>1. TaskOf(j) \in task /\ Awaited(TaskOf(j))
      BY TaskOfFacts, Zenon DEF IInv
    <3> QED
      BY <3>1, Zenon DEF IInv, Tasks
  <2>2. pool \notin terminated
    BY DEF IInv, Gate, Locals
  <2> QED
    BY <2>1, <2>2, Zenon DEF IInv, Phases
<1> QED
  BY <1>1, Inductive, PTL

=============================================================================
