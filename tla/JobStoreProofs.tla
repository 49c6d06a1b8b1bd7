---------------------------- MODULE JobStoreProofs ----------------------------
(***************************************************************************)
(* Proofs about JobStore, for all values of its constants: its types, and   *)
(* that every step keeps the conjuncts of IInv about the leases, the scored *)
(* queue with its heaps, counters and shadow, and the lists with their      *)
(* pending sets.                                                            *)
(***************************************************************************)
EXTENDS JobStore, FiniteSetTheorems, TLAPS

USE DEF Bands

-----------------------------------------------------------------------------
(* Facts about the helpers. *)

\* Cardinalities of sets of ingest identities are natural numbers.
LEMMA IngestCardinality ==
  ASSUME NEW S \in SUBSET IngestIds
  PROVE  IsFiniteSet(S) /\ Cardinality(S) \in Nat
BY ConstantsAssumption, FS_Subset, FS_CardinalityType

\* The consequences of the assumption on the constants that are used most.
LEMMA ScoreConstants ==
  /\ CatchupBase \in Nat /\ Penalty \in Nat /\ MaxScore \in Nat
  /\ CatchupBase <= MaxScore
BY ConstantsAssumption

\* None is no score, and the scores RequeueIngest may write are scores.
LEMMA NoneNoScore == None \notin Score
BY ConstantsAssumption DEF Score

LEMMA RequeuedScore ==
  ASSUME NEW c, c.score \in Score, NEW s \in RequeueScores(c), s <= MaxScore
  PROVE  s \in Score
BY ScoreConstants DEF RequeueScores, Score

\* Facts about intervals, and about the sequences of the lists.
LEMMA Intervals ==
  /\ \A n \in Nat : \A m \in 0 .. n : m \in Nat
  /\ \A n \in Nat : \A m \in 1 .. n : \A i \in 1 .. m : i = m \/ i \in 1 .. m - 1
  /\ \A n \in Nat : \A m \in 1 .. n : m = 1 \/ (1 \in 1 .. m - 1 /\ 1 \in 1 .. m)
  /\ 1 \in 1 .. 1 /\ 1 .. 1 = {1}
OBVIOUS

LEMMA SameShift ==
  ASSUME NEW l \in Nat, NEW n \in 1 .. l, NEW i \in 1 .. l - n, NEW m \in 1 .. l - n,
         i + n = m + n
  PROVE  i = m
OBVIOUS

LEMMA UpTo == \A n \in Nat : IsFiniteSet(1 .. n) /\ Cardinality(1 .. n) = n
BY FS_Interval

LEMMA MinusWithin ==
  ASSUME NEW n \in Nat, NEW m \in Nat, m <= n
  PROVE  Minus(n, m) = n - m
BY DEF Minus

LEMMA NextToken ==
  ASSUME TypeOK, minted < MaxToken
  PROVE  minted + 1 \in Token
<1>1. minted \in 0 .. MaxToken
  BY Zenon DEF TypeOK
<1> QED BY <1>1, ConstantsAssumption DEF Token

LEMMA OrderIsSeq ==
  ASSUME NEW S \in SUBSET ListIds, NEW n \in Nat, NEW s \in [1 .. n -> S]
  PROVE  s \in Seq(ListIds)
OBVIOUS

LEMMA SurjectiveElements ==
  ASSUME NEW A, NEW E, NEW s \in Surjection(A, E)
  PROVE  ElementsOf(s) = E
BY DEF Surjection, ElementsOf

LEMMA AfterPrefix ==
  ASSUME NEW t \in Seq(ListIds), NEW n \in 1 .. Len(t)
  PROVE  /\ SubSeq(t, n + 1, Len(t)) \in Seq(ListIds)
         /\ DOMAIN SubSeq(t, n + 1, Len(t)) = 1 .. Len(t) - n
         /\ \A m \in 1 .. Len(t) - n : /\ SubSeq(t, n + 1, Len(t))[m] = t[m + n]
                                      /\ m + n \in DOMAIN t /\ m + n \notin 1 .. n
<1>1. /\ SubSeq(t, n + 1, Len(t)) \in Seq(ListIds)
      /\ Len(SubSeq(t, n + 1, Len(t))) = Len(t) - n
  OBVIOUS
<1>2. \A m \in 1 .. Len(t) - n : SubSeq(t, n + 1, Len(t))[m] = t[m + n]
  OBVIOUS
<1>3. \A m \in 1 .. Len(t) - n : m + n \in DOMAIN t /\ m + n \notin 1 .. n
  OBVIOUS
<1> QED BY <1>1, <1>2, <1>3

LEMMA ListIndices == \A s \in Seq(ListIds) : Len(s) \in Nat /\ DOMAIN s = 1 .. Len(s)
OBVIOUS

\* The score that reap_expired_ingest restores is a score while it is in bounds.
LEMMA RestoredScore ==
  ASSUME NEW s \in OptScore, (IF s = None THEN CatchupBase ELSE s) + Penalty <= MaxScore
  PROVE  (IF s = None THEN CatchupBase ELSE s) + Penalty \in Score
BY ScoreConstants DEF Score, OptScore

LEMMA NoAttempt == MaxAttempt \in Nat /\ 0 \in 0 .. MaxAttempt
BY ConstantsAssumption

\* A band is one of the two bands.
LEMMA BandType == ASSUME NEW s PROVE Band(s) \in Bands
BY DEF Band

\* The counters never become negative.
LEMMA MinusType == ASSUME NEW n \in Nat, NEW m \in Nat PROVE Minus(n, m) \in Nat
BY DEF Minus

\* The elements of a sequence over a set belong to the set.
LEMMA ElementsType ==
  ASSUME NEW T, NEW s \in Seq(T)
  PROVE  ElementsOf(s) \in SUBSET T
BY DEF ElementsOf

\* _ingest_set_locked keeps the types of what it assigns.
LEMMA IngestSetType ==
  ASSUME TypeOK,
         NEW S \in SUBSET IngestIds, NEW new \in [S -> Score],
         IngestSet(new)
  PROVE  /\ ingest' \in [IngestIds -> OptScore]
         /\ shIngest' \in [IngestIds -> OptScore]
         /\ heap' \in [Bands -> SUBSET (Score \X IngestIds)]
         /\ count' \in [Bands -> Nat]
         /\ shAttempt' \in [Jobs -> 0 .. MaxAttempt]
<1>1. ingest' \in [IngestIds -> OptScore] /\ shIngest' \in [IngestIds -> OptScore]
  BY DEF IngestSet, TypeOK, OptScore
<1>2. heap' \in [Bands -> SUBSET (Score \X IngestIds)]
  BY DEF IngestSet, HeapPush, TypeOK
<1>3. count' \in [Bands -> Nat]
  <2>1. ASSUME NEW b \in Bands
        PROVE  CountAfterSet(b, new) \in Nat
    <3>1. /\ DOMAIN new \cap QueuedInBand(b) \in SUBSET IngestIds
          /\ {i \in DOMAIN new : Band(new[i]) = b} \in SUBSET IngestIds
      OBVIOUS
    <3>2. count[b] \in Nat
      BY DEF TypeOK
    <3>3. /\ Cardinality(DOMAIN new \cap QueuedInBand(b)) \in Nat
          /\ Cardinality({i \in DOMAIN new : Band(new[i]) = b}) \in Nat
      BY <3>1, IngestCardinality
    <3> QED BY <3>2, <3>3 DEF CountAfterSet, Minus
  <2> QED BY <2>1 DEF IngestSet
<1>4. shAttempt' \in [Jobs -> 0 .. MaxAttempt]
  BY DEF IngestSet, SyncPayload, TypeOK
<1> QED BY <1>1, <1>2, <1>3, <1>4

\* Appending to a list keeps the types of what it assigns.
LEMMA ListAppendType ==
  ASSUME TypeOK, NEW k \in ListKinds, NEW s \in Seq(ListIds), ListAppend(k, s)
  PROVE  /\ list' \in [ListKinds -> Seq(ListIds)]
         /\ shList' \in [ListKinds -> Seq(ListIds)]
         /\ pending' \in SUBSET ListIds /\ shPending' \in SUBSET ListIds
         /\ shAttempt' \in [Jobs -> 0 .. MaxAttempt]
<1>1. ElementsOf(s) \in SUBSET ListIds
  BY ElementsType
<1> QED BY <1>1 DEF ListAppend, SyncPayload, TypeOK

\* Granting a lease keeps the types of what it assigns.
LEMMA GrantType ==
  ASSUME TypeOK, NEW S \in SUBSET Jobs, NEW tok \in Token, NEW score,
         \A j \in S : IF j \in IngestIds THEN score[j] \in Score ELSE score[j] = None,
         Grant(S, tok, score)
  PROVE  /\ inflight' \in [Jobs -> {None} \cup
                     [owner : Token, score : OptScore, due : BOOLEAN]]
         /\ lease' \in [Jobs -> Token \cup {None}]
         /\ held' \in SUBSET Claims
         /\ minted' \in 0 .. MaxToken
<1>1. \A j \in S : Entry(tok, score[j]) \in [owner : Token, score : OptScore, due : BOOLEAN]
  BY DEF Entry, OptScore
<1>2. \A j \in S : [job |-> j, owner |-> tok, score |-> score[j]] \in Claims
  BY DEF Claims, Jobs
<1>3. minted' \in 0 .. MaxToken
  BY ConstantsAssumption DEF Grant, Token
<1> QED BY <1>1, <1>2, <1>3 DEF Grant, TypeOK

\* Dropping leases keeps the types of what it assigns.
LEMMA ReleaseType ==
  ASSUME TypeOK, NEW S, Release(S)
  PROVE  /\ inflight' \in [Jobs -> {None} \cup
                     [owner : Token, score : OptScore, due : BOOLEAN]]
         /\ lease' \in [Jobs -> Token \cup {None}]
BY DEF Release, TypeOK

-----------------------------------------------------------------------------
(* Type correctness. *)

LEMMA EmptyDocType == EmptyDoc \in Docs
BY ConstantsAssumption DEF EmptyDoc, Docs, OptScore

LEMMA TypeInit == Init => TypeOK
<1> SUFFICES ASSUME Init PROVE TypeOK
  OBVIOUS
<1>1. writer \in [pc : {"wait", "woken", "saving", "saved", "done"},
                 forced : BOOLEAN, copy : Docs]
  BY EmptyDocType DEF Init
<1>2. heap \in [Bands -> SUBSET (Score \X IngestIds)]
  BY DEF Init
<1>3. /\ attempt \in [Jobs -> 0 .. MaxAttempt] /\ shAttempt \in [Jobs -> 0 .. MaxAttempt]
      /\ minted \in 0 .. MaxToken
  BY ConstantsAssumption DEF Init
<1>4. ingest \in [IngestIds -> OptScore] /\ shIngest \in [IngestIds -> OptScore]
  BY DEF Init, OptScore
<1>5. list \in [ListKinds -> Seq(ListIds)] /\ shList \in [ListKinds -> Seq(ListIds)]
  BY DEF Init
<1>6. /\ inflight \in [Jobs -> {None} \cup
                     [owner : Token, score : OptScore, due : BOOLEAN]]
      /\ lease \in [Jobs -> Token \cup {None}]
      /\ count \in [Bands -> Nat]
  BY DEF Init
<1>7. /\ pending \in SUBSET ListIds /\ shPending \in SUBSET ListIds
      /\ dirty \in BOOLEAN /\ moved \in BOOLEAN /\ force \in BOOLEAN
      /\ disk \in Docs /\ held \in SUBSET Claims
  BY Zenon, EmptyDocType DEF Init
<1> QED BY Zenon, <1>1, <1>2, <1>3, <1>4, <1>5, <1>6, <1>7 DEF TypeOK

LEMMA TypeEnqueue == ASSUME TypeOK, Enqueue PROVE TypeOK'
<1>1. ASSUME NEW i \in IngestIds, NEW s \in Scores, ZaddIngest(i, s)
      PROVE  TypeOK'
  <2>1. [x \in {i} |-> s] \in [{i} -> Score] /\ {i} \in SUBSET IngestIds
    BY ConstantsAssumption
  <2>2. IngestSet([x \in {i} |-> s])
    BY <1>1 DEF ZaddIngest
  <2> QED BY Zenon, <1>1, <2>1, <2>2, IngestSetType
          DEF ZaddIngest, MarkDirty, TypeOK, leaseVars, writerVars
<1>2. ASSUME NEW j \in ListIds, EnqueueList(j)
      PROVE  TypeOK'
  <2>1. ListKind[j] \in ListKinds /\ <<j>> \in Seq(ListIds)
    BY ConstantsAssumption
  <2>2. ListAppend(ListKind[j], <<j>>)
    BY <1>2 DEF EnqueueList
  <2> QED BY Zenon, <1>2, <2>1, <2>2, ListAppendType
          DEF EnqueueList, MarkDirty, TypeOK, leaseVars, writerVars
<1> QED BY <1>1, <1>2 DEF Enqueue

LEMMA TypeClaimIngest ==
  ASSUME TypeOK, minted < MaxToken, NEW b \in Bands, NEW n \in 1 .. MaxBatch,
         ClaimIngest(b, n)
  PROVE  TypeOK'
<1> DEFINE LiveEntry(e) == inflight[e[2]] = None /\ ingest[e[2]] = e[1] /\ Band(e[1]) = b
           live  == {e \in heap[b] : LiveEntry(e)}
           stale == heap[b] \ live
           score == [j \in Jobs |-> IF j \in IngestIds THEN ingest[j] ELSE None]
           Taken(T) == {e[2] : e \in T}
           Dropped(T) == IF Cardinality(live) < n THEN stale
                         ELSE {e \in stale : \E f \in T : e[1] <= f[1]}
           Rearmed(T) == {i \in {e[2] : e \in Dropped(T)} :
                            inflight[i] = None /\ ingest[i] # None}
<1>1. PICK T \in SUBSET live :
        /\ heap' = [c \in Bands |->
             ((IF c = b THEN heap[c] \ Dropped(T) ELSE heap[c])
               \cup {<<ingest[i], i>> : i \in {r \in Rearmed(T) : Band(ingest[r]) = c}})
             \ T]
        /\ IF Taken(T) = {}
           THEN UNCHANGED <<ingest, count, leaseVars, shIngest, shAttempt,
                            dirty, moved, held, minted>>
           ELSE /\ IngestPop(b, Taken(T))
                /\ Grant(Taken(T), minted + 1, score)
                /\ MarkDirty
  BY Zenon DEF ClaimIngest
<1>2. UNCHANGED <<list, pending, attempt, shList, shPending, writerVars>>
  BY Zenon DEF ClaimIngest
<1>3. heap[b] \in SUBSET (Score \X IngestIds)
  BY DEF TypeOK
<1>4. /\ Taken(T) \in SUBSET IngestIds
      /\ \A i \in Taken(T) : ingest[i] \in Score
  BY ZenonT(30), <1>3
<1>5. heap' \in [Bands -> SUBSET (Score \X IngestIds)]
  <2>1. Rearmed(T) \in SUBSET IngestIds
    <3>1. Dropped(T) \in SUBSET heap[b]
      OBVIOUS
    <3> HIDE DEF Dropped
    <3> QED BY ZenonT(30), <1>3, <3>1
  <2>2. \A i \in Rearmed(T) : ingest[i] \in Score
    BY Zenon, <2>1 DEF TypeOK, OptScore
  <2> HIDE DEF Rearmed, Dropped
  <2> QED BY <1>1, <2>1, <2>2 DEF TypeOK
<1>6. CASE Taken(T) = {}
  BY Zenon, <1>1, <1>2, <1>5, <1>6 DEF TypeOK, leaseVars, writerVars
<1>7. CASE Taken(T) # {}
  <2> DEFINE S == Taken(T)
  <2>1. IngestPop(b, S) /\ Grant(S, minted + 1, score) /\ MarkDirty
    BY <1>1, <1>7
  <2>2. Cardinality(S) \in Nat
    BY Zenon, <1>4, IngestCardinality
  <2>3. S \in SUBSET Jobs /\ minted + 1 \in Token
    BY Zenon, <1>4, NextToken DEF Jobs
  <2>4. \A j \in S : IF j \in IngestIds THEN score[j] \in Score ELSE score[j] = None
    BY <1>4 DEF Jobs
  <2>5. IngestPop(b, S) => /\ ingest' \in [IngestIds -> OptScore]
                           /\ shIngest' \in [IngestIds -> OptScore]
                           /\ count' \in [Bands -> Nat]
                           /\ shAttempt' \in [Jobs -> 0 .. MaxAttempt]
    <3> HIDE DEF S
    <3> SUFFICES ASSUME IngestPop(b, S)
                 PROVE  /\ ingest' \in [IngestIds -> OptScore]
                        /\ shIngest' \in [IngestIds -> OptScore]
                        /\ count' \in [Bands -> Nat]
                        /\ shAttempt' \in [Jobs -> 0 .. MaxAttempt]
      BY Zenon
    <3>1. ingest' \in [IngestIds -> OptScore] /\ shIngest' \in [IngestIds -> OptScore]
      BY Zenon DEF IngestPop, TypeOK, OptScore
    <3>2. count \in [Bands -> Nat] /\ shAttempt \in [Jobs -> 0 .. MaxAttempt]
      BY DEF TypeOK
    <3>3. count' \in [Bands -> Nat]
      BY <2>2, <3>2 DEF IngestPop, Minus
    <3>4. shAttempt' \in [Jobs -> 0 .. MaxAttempt]
      BY <3>2, NoAttempt DEF IngestPop
    <3> QED BY Zenon, <3>1, <3>3, <3>4
  <2> HIDE DEF S, score
  <2>6. /\ inflight' \in [Jobs -> {None} \cup
                     [owner : Token, score : OptScore, due : BOOLEAN]]
        /\ lease' \in [Jobs -> Token \cup {None}]
        /\ held' \in SUBSET Claims
        /\ minted' \in 0 .. MaxToken
    BY Zenon, <2>1, <2>3, <2>4, GrantType
  <2> QED BY ZenonT(30), <1>2, <1>5, <2>1, <2>5, <2>6 DEF TypeOK, MarkDirty, writerVars
<1> QED BY <1>6, <1>7

LEMMA TypeClaimList ==
  ASSUME TypeOK, minted < MaxToken, NEW k \in ListKinds, ClaimList(k)
  PROVE  TypeOK'
<1> DEFINE Gone(n) == {list[k][m] : m \in 1 .. n}
           Rest(f, n) == [f EXCEPT ![k] = SubSeq(@, n + 1, Len(@))]
           none == [x \in Jobs |-> None]
<1>1. PICK n \in DOMAIN list[k] :
        /\ list' = Rest(list, n) /\ pending' = pending \ Gone(n)
        /\ shList' = Rest(shList, n) /\ shPending' = shPending \ Gone(n)
        /\ shAttempt' = [x \in Jobs |-> IF x \in Gone(n) THEN 0 ELSE shAttempt[x]]
        /\ Grant({list[k][n]}, minted + 1, none)
        /\ MarkDirty
        /\ UNCHANGED <<ingest, heap, count, attempt, shIngest, writerVars>>
  BY Zenon DEF ClaimList
<1>2. list[k] \in Seq(ListIds) /\ shList[k] \in Seq(ListIds)
  BY DEF TypeOK
<1>3. n \in Nat /\ n + 1 \in 1 .. Len(list[k]) + 1 /\ list[k][n] \in ListIds
  BY <1>2
<1>4. SubSeq(list[k], n + 1, Len(list[k])) \in Seq(ListIds)
  BY <1>2, <1>3
<1>5. SubSeq(shList[k], n + 1, Len(shList[k])) \in Seq(ListIds)
  BY <1>2, <1>3
<1>6. list' \in [ListKinds -> Seq(ListIds)] /\ shList' \in [ListKinds -> Seq(ListIds)]
  BY Zenon, <1>1, <1>4, <1>5 DEF TypeOK
<1>7. {list[k][n]} \in SUBSET Jobs /\ minted + 1 \in Token
  BY Zenon, <1>3, NextToken DEF Jobs
<1>8. \A j \in {list[k][n]} : IF j \in IngestIds THEN none[j] \in Score ELSE none[j] = None
  BY <1>3, ConstantsAssumption DEF Jobs
<1> HIDE DEF none
<1>9. /\ inflight' \in [Jobs -> {None} \cup
                     [owner : Token, score : OptScore, due : BOOLEAN]]
      /\ lease' \in [Jobs -> Token \cup {None}]
      /\ held' \in SUBSET Claims
      /\ minted' \in 0 .. MaxToken
  BY Zenon, <1>1, <1>7, <1>8, GrantType
<1>10. shAttempt' \in [Jobs -> 0 .. MaxAttempt]
  <2>1. shAttempt \in [Jobs -> 0 .. MaxAttempt]
    BY DEF TypeOK
  <2> HIDE DEF Gone
  <2> QED BY Zenon, <1>1, <2>1, NoAttempt
<1> QED BY Zenon, <1>1, <1>6, <1>9, <1>10 DEF TypeOK, MarkDirty, writerVars

LEMMA TypeFinish == ASSUME TypeOK, NEW c \in held,
                           \/ DropClaim(c) \/ Ack(c) \/ RequeueList(c)
                           \/ BumpAttempt(c)
                           \/ c.job \in IngestIds /\ \E s \in RequeueScores(c) :
                                RequeueIngest(c, s)
                    PROVE TypeOK'
<1>0. c \in Claims /\ c.job \in Jobs
  BY DEF TypeOK, Claims, Jobs
<1>1. CASE DropClaim(c)
  BY Zenon, <1>1 DEF DropClaim, TypeOK, queueVars, leaseVars, shadowVars, writerVars
<1>2. CASE Ack(c)
  <2>1. attempt' \in [Jobs -> 0 .. MaxAttempt]
    BY Zenon, <1>2, NoAttempt DEF Ack, TypeOK
  <2>2. Release({c.job})
    BY <1>2 DEF Ack
  <2> QED BY Zenon, <1>2, <2>1, <2>2, ReleaseType DEF Ack, TypeOK, shadowVars, writerVars
<1>3. CASE RequeueList(c)
  <2>0. c.job \in ListIds
    BY Zenon, <1>3 DEF RequeueList
  <2>1. ListKind[c.job] \in ListKinds /\ <<c.job>> \in Seq(ListIds)
    <3>1. ListKind[c.job] \in ListKinds
      BY Zenon, <2>0, ConstantsAssumption
    <3>2. <<c.job>> \in Seq(ListIds)
      BY <2>0
    <3> QED BY <3>1, <3>2
  <2>2. ListAppend(ListKind[c.job], <<c.job>>) /\ Release({c.job})
    BY Zenon, <1>3 DEF RequeueList
  <2> QED BY Zenon, <1>3, <2>1, <2>2, ListAppendType, ReleaseType
          DEF RequeueList, MarkDirty, TypeOK, writerVars
<1>4. CASE BumpAttempt(c)
  <2>1. attempt' \in [Jobs -> 0 .. MaxAttempt]
    <3>1. attempt \in [Jobs -> 0 .. MaxAttempt]
      BY Zenon DEF TypeOK
    <3>2. attempt[c.job] < MaxAttempt /\ attempt' = [attempt EXCEPT ![c.job] = @ + 1]
      BY <1>4 DEF BumpAttempt
    <3>3. attempt[c.job] + 1 \in 0 .. MaxAttempt
      BY <1>0, <3>1, <3>2, NoAttempt
    <3> QED BY Zenon, <3>1, <3>2, <3>3
  <2>2. shAttempt' \in [Jobs -> 0 .. MaxAttempt] /\ dirty' \in BOOLEAN /\ moved' \in BOOLEAN
    BY Zenon, <1>0, <1>4, <2>1 DEF BumpAttempt, TypeOK, MarkDirty
  <2> QED BY Zenon, <1>4, <2>1, <2>2
          DEF BumpAttempt, TypeOK, queueVars, leaseVars, writerVars
<1>5. ASSUME c.job \in IngestIds, NEW s \in RequeueScores(c), RequeueIngest(c, s)
      PROVE  TypeOK'
  <2>1. c.score \in Score
    BY Zenon, <1>0, <1>5, ConstantsAssumption DEF Claims
  <2>2. s \in Score
    <3>1. s <= MaxScore
      BY Zenon, <1>5 DEF RequeueIngest
    <3>2. s \in {c.score, c.score + Penalty, CatchupBase}
      BY Zenon, <1>5 DEF RequeueScores
    <3> QED BY <2>1, <3>1, <3>2, ScoreConstants DEF Score
  <2>3. [x \in {c.job} |-> s] \in [{c.job} -> Score] /\ {c.job} \in SUBSET IngestIds
    BY Zenon, <1>5, <2>2
  <2>4. IngestSet([x \in {c.job} |-> s]) /\ Release({c.job})
    BY <1>5 DEF RequeueIngest
  <2> QED BY Zenon, <1>5, <2>3, <2>4, IngestSetType, ReleaseType
          DEF RequeueIngest, MarkDirty, TypeOK, writerVars
<1> QED BY Zenon, <1>1, <1>2, <1>3, <1>4, <1>5

LEMMA TypeDeadlines == ASSUME TypeOK, Deadlines PROVE TypeOK'
<1>1. ASSUME NEW j \in Jobs, TimePasses(j) \/ ExtendInflightDeadline(j)
      PROVE  TypeOK'
  <2>1. inflight' \in [Jobs -> {None} \cup
                     [owner : Token, score : OptScore, due : BOOLEAN]]
    <3>1. inflight[j] \in [owner : Token, score : OptScore, due : BOOLEAN]
      BY <1>1 DEF TimePasses, ExtendInflightDeadline, TypeOK
    <3>2. \A d \in BOOLEAN :
            [inflight[j] EXCEPT !.due = d] \in [owner : Token, score : OptScore, due : BOOLEAN]
      BY <3>1
    <3>3. \E d \in BOOLEAN : inflight' = [inflight EXCEPT ![j] = [@ EXCEPT !.due = d]]
      BY Zenon, <1>1 DEF TimePasses, ExtendInflightDeadline
    <3> QED BY <3>2, <3>3 DEF TypeOK
  <2> QED BY <1>1, <2>1 DEF TimePasses, ExtendInflightDeadline, TypeOK,
            queueVars, shadowVars, writerVars
<1>2. ASSUME ReapIngest PROVE TypeOK'
  <2> DEFINE Restore(S) == [i \in S |-> (IF inflight[i].score = None THEN CatchupBase
                                 ELSE inflight[i].score) + Penalty]
  <2>1. PICK S \in SUBSET IngestIds :
          /\ Reapable(IngestIds, S)
          /\ \A i \in S : Restore(S)[i] <= MaxScore
          /\ Release(S) /\ IngestSet(Restore(S)) /\ MarkDirty
          /\ UNCHANGED <<list, pending, attempt, shList, shPending, writerVars,
                         held, minted>>
    BY Zenon, <1>2 DEF ReapIngest
  <2>2. ASSUME NEW i \in S PROVE Restore(S)[i] \in Score
    <3>1. inflight[i] # None /\ i \in Jobs
      BY <2>1 DEF Reapable, Due, Jobs
    <3>2. inflight[i].score \in OptScore
      BY Zenon, <3>1 DEF TypeOK
    <3>3. Restore(S)[i] <= MaxScore
      BY <2>1
    <3>4. Restore(S)[i] = (IF inflight[i].score = None THEN CatchupBase
                           ELSE inflight[i].score) + Penalty
      BY Zenon
    <3> QED BY Zenon, <3>2, <3>3, <3>4, RestoredScore
  <2>3. Restore(S) \in [S -> Score]
    BY <2>2
  <2> HIDE DEF Restore
  <2> QED BY Zenon, <2>1, <2>3, IngestSetType, ReleaseType DEF MarkDirty, TypeOK, writerVars
<1>3. ASSUME NEW k \in ListKinds, ReapList(k) PROVE TypeOK'
  <2>0. PICK S \in SUBSET ListIds :
          /\ Release(S) /\ \E s \in Orders(S) : ListAppend(k, s)
          /\ MarkDirty
          /\ UNCHANGED <<ingest, heap, count, attempt, shIngest, writerVars, held,
                         minted>>
    BY <1>3 DEF ReapList
  <2>1. PICK s \in Orders(S) : ListAppend(k, s)
    BY <2>0
  <2>2. s \in Seq(ListIds)
    <3>1. Cardinality(S) \in Nat
      BY ConstantsAssumption, FS_Subset, FS_CardinalityType
    <3> QED BY <3>1 DEF Orders
  <2> QED BY Zenon, <2>0, <2>1, <2>2, ListAppendType, ReleaseType
          DEF MarkDirty, TypeOK, writerVars
<1>4. ASSUME NEW k \in ListKinds, ReorderList(k) PROVE TypeOK'
  <2>1. PICK s \in Orders(ElementsOf(list[k])) :
          /\ list' = [list EXCEPT ![k] = s]
          /\ shList' = [shList EXCEPT ![k] = s]
          /\ MarkDirty
          /\ UNCHANGED <<ingest, heap, count, pending, leaseVars, attempt, shIngest,
                         shPending, shAttempt, writerVars, held, minted>>
    BY Zenon, <1>4 DEF ReorderList
  <2>2. s \in Seq(ListIds)
    <3>1. ElementsOf(list[k]) \in SUBSET ListIds
      BY ZenonT(30), ElementsType DEF TypeOK
    <3>2. Cardinality(ElementsOf(list[k])) \in Nat
      BY <3>1, ConstantsAssumption, FS_Subset, FS_CardinalityType
    <3>3. s \in [1 .. Cardinality(ElementsOf(list[k])) -> ElementsOf(list[k])]
      BY Zenon DEF Orders
    <3> QED BY Zenon, <3>1, <3>2, <3>3, OrderIsSeq
  <2> QED BY Zenon, <2>1, <2>2 DEF MarkDirty, TypeOK, leaseVars, writerVars
<1> QED BY Zenon, <1>1, <1>2, <1>3, <1>4 DEF Deadlines

LEMMA TypeWriter == ASSUME TypeOK, RequestForce \/ Writer \/ Restart PROVE TypeOK'
<1>1. CASE RequestForce
  BY <1>1 DEF RequestForce, TypeOK, queueVars, leaseVars, shadowVars
<1>2. CASE WriterWake
  BY Zenon, <1>2 DEF WriterWake, TypeOK, queueVars, leaseVars, shadowVars
<1>3. CASE WriterCopy
  <2>1. attempt' \in [Jobs -> 0 .. MaxAttempt] /\ shAttempt' \in [Jobs -> 0 .. MaxAttempt]
    BY <1>3, NoAttempt DEF WriterCopy, TypeOK
  <2>2. [Shadow EXCEPT !.attempt = shAttempt'] \in Docs
    BY ZenonT(30), <2>1 DEF Shadow, Docs, TypeOK
  <2> QED BY Zenon, <1>3, <2>1, <2>2 DEF WriterCopy, TypeOK, queueVars, leaseVars
<1>4. CASE WriterSave \/ WriterSaveFails \/ WriterMarkClean
  <2>1. /\ writer' \in [pc : {"wait", "woken", "saving", "saved", "done"},
                        forced : BOOLEAN, copy : Docs]
        /\ disk' \in Docs /\ dirty' \in BOOLEAN
    BY Zenon, <1>4 DEF WriterSave, WriterSaveFails, WriterMarkClean, TypeOK
  <2>2. UNCHANGED <<queueVars, leaseVars, attempt, shadowVars, moved, force, held,
                    minted>>
    BY Zenon, <1>4 DEF WriterSave, WriterSaveFails, WriterMarkClean
  <2> QED BY <2>1, <2>2 DEF TypeOK, queueVars, leaseVars, shadowVars
<1>5. CASE WriterDone
  BY Zenon, <1>5, EmptyDocType DEF WriterDone, TypeOK, queueVars, leaseVars, shadowVars
<1>6. CASE Restart
  <2> DEFINE In(b) == {x \in IngestIds : disk.ingest[x] # None /\ Band(disk.ingest[x]) = b}
  <2>1. disk \in Docs
    BY DEF TypeOK
  <2>2. heap' \in [Bands -> SUBSET (Score \X IngestIds)]
    <3>1. heap' = [b \in Bands |-> {<<disk.ingest[i], i>> : i \in In(b)}]
      BY <1>6, Zenon DEF Restart
    <3>2. disk.ingest \in [IngestIds -> OptScore]
      BY <2>1 DEF Docs
    <3>3. \A b \in Bands : \A i \in In(b) : i \in IngestIds /\ disk.ingest[i] \in Score
      BY <3>2 DEF OptScore
    <3> HIDE DEF In
    <3>4. ASSUME NEW b \in Bands
          PROVE  {<<disk.ingest[i], i>> : i \in In(b)} \in SUBSET (Score \X IngestIds)
      BY <3>3
    <3> QED BY Zenon, <3>1, <3>4
  <2>3. count' \in [Bands -> Nat]
    <3>1. \A b \in Bands : In(b) \in SUBSET IngestIds
      OBVIOUS
    <3>2. \A b \in Bands : Cardinality(In(b)) \in Nat
      BY Zenon, <3>1, IngestCardinality
    <3>3. count' = [b \in Bands |-> Cardinality(In(b))]
      BY <1>6 DEF Restart
    <3> HIDE DEF In
    <3> QED BY <3>2, <3>3
  <2>4. attempt' \in [Jobs -> 0 .. MaxAttempt] /\ shAttempt' \in [Jobs -> 0 .. MaxAttempt]
    <3> DEFINE kept == [j \in Jobs |-> IF j \in DocQueued(disk) THEN disk.attempt[j] ELSE 0]
    <3>1. attempt' = kept /\ shAttempt' = kept
      BY <1>6 DEF Restart
    <3>2. disk.attempt \in [Jobs -> 0 .. MaxAttempt]
      BY <2>1 DEF Docs
    <3> QED BY Zenon, <3>1, <3>2, NoAttempt
  <2>5. /\ writer' \in [pc : {"wait", "woken", "saving", "saved", "done"},
                        forced : BOOLEAN, copy : Docs]
        /\ disk' \in Docs /\ held' \in SUBSET Claims /\ minted' \in 0 .. MaxToken
    BY Zenon, <1>6, EmptyDocType DEF Restart, TypeOK
  <2>6. /\ ingest' \in [IngestIds -> OptScore] /\ shIngest' \in [IngestIds -> OptScore]
        /\ list' \in [ListKinds -> Seq(ListIds)] /\ shList' \in [ListKinds -> Seq(ListIds)]
        /\ pending' \in SUBSET ListIds /\ shPending' \in SUBSET ListIds
    BY Zenon, <1>6, <2>1 DEF Restart, Docs
  <2>7. /\ inflight' \in [Jobs -> {None} \cup
                     [owner : Token, score : OptScore, due : BOOLEAN]]
        /\ lease' \in [Jobs -> Token \cup {None}]
        /\ dirty' \in BOOLEAN /\ moved' \in BOOLEAN /\ force' \in BOOLEAN
    BY Zenon, <1>6 DEF Restart
  <2> QED BY ZenonT(30), <2>2, <2>3, <2>4, <2>5, <2>6, <2>7 DEF TypeOK
<1> QED BY Zenon, <1>1, <1>2, <1>3, <1>4, <1>5, <1>6 DEF Writer

LEMMA TypeNext == TypeOK /\ [Next]_vars => TypeOK'
<1> SUFFICES ASSUME TypeOK, [Next]_vars PROVE TypeOK'
  OBVIOUS
<1>1. CASE UNCHANGED vars
  BY Zenon, <1>1 DEF vars, TypeOK, queueVars, leaseVars, shadowVars, writerVars
<1>2. CASE Claim
  BY <1>2, TypeClaimIngest, TypeClaimList DEF Claim
<1>3. CASE Finish
  BY <1>3, TypeFinish DEF Finish
<1> QED BY <1>1, <1>2, <1>3, TypeEnqueue, TypeDeadlines, TypeWriter DEF Next

\* Every variable of the store keeps its type in every reachable state.
THEOREM TypeCorrect == Spec => []TypeOK
BY TypeInit, TypeNext, PTL DEF Spec

-----------------------------------------------------------------------------
(* The leases, the scored queue and its shadow. *)

\* None is not an in-flight entry.
LEMMA NoneIsNoEntry == None \notin [owner : Token, score : OptScore, due : BOOLEAN]
<1>1. [owner : Token, score : OptScore, due : BOOLEAN]
        \subseteq [owner : Int, score : Int \cup {None}, due : BOOLEAN]
  BY DEF Token, OptScore, Score
<1> QED BY <1>1, ConstantsAssumption

\* A new in-flight entry is an entry of its owner.
LEMMA EntryIsNotNone ==
  ASSUME NEW t \in Nat, NEW s \in OptScore
  PROVE  Entry(t + 1, s) # None /\ Entry(t + 1, s).owner = t + 1
<1>1. Entry(t + 1, s) \in [owner : Int, score : Int \cup {None}, due : BOOLEAN]
  BY DEF Entry, OptScore, Score
<1> QED BY Zenon, <1>1, ConstantsAssumption DEF Entry

-----------------------------------------------------------------------------
(* What a step may do to the leases and to the scored queue. *)

\* A step leaves the leases alone, drops some, grants some that were free, or
\* moves a deadline.
LEMMA LeaseEffects ==
  ASSUME TypeOK, Next
  PROVE  \/ UNCHANGED <<inflight, lease, minted>> /\ held' \subseteq held
         \/ \E S \in SUBSET Jobs :
              Release(S) /\ held' \subseteq held /\ minted' = minted
         \/ \E S \in SUBSET Jobs : \E score :
              /\ \A j \in S : inflight[j] = None /\ score[j] \in OptScore
              /\ minted < MaxToken
              /\ Grant(S, minted + 1, score)
         \/ \E j \in Jobs, d \in BOOLEAN :
              /\ inflight[j] # None
              /\ inflight' = [inflight EXCEPT ![j].due = d]
              /\ UNCHANGED <<lease, held, minted>>
<1>1. CASE Enqueue
  BY Zenon, <1>1 DEF Enqueue, ZaddIngest, EnqueueList, leaseVars
<1>2. ASSUME minted < MaxToken, NEW b \in Bands, NEW n \in 1 .. MaxBatch, ClaimIngest(b, n)
      PROVE  \/ UNCHANGED <<inflight, lease, minted>> /\ held' \subseteq held
             \/ \E S \in SUBSET Jobs : \E score :
                  /\ \A j \in S : inflight[j] = None /\ score[j] \in OptScore
                  /\ minted < MaxToken
                  /\ Grant(S, minted + 1, score)
  <2> DEFINE LiveEntry(e) == inflight[e[2]] = None /\ ingest[e[2]] = e[1] /\ Band(e[1]) = b
             live  == {e \in heap[b] : LiveEntry(e)}
             score == [j \in Jobs |-> IF j \in IngestIds THEN ingest[j] ELSE None]
  <2>1. PICK T \in SUBSET live :
          IF {e[2] : e \in T} = {}
          THEN UNCHANGED <<ingest, count, leaseVars, shIngest, shAttempt,
                           dirty, moved, held, minted>>
          ELSE Grant({e[2] : e \in T}, minted + 1, score)
    BY Zenon, <1>2 DEF ClaimIngest
  <2>2. heap[b] \in SUBSET (Score \X IngestIds)
    BY DEF TypeOK
  <2>3. {e[2] : e \in T} \in SUBSET Jobs /\ \A j \in {e[2] : e \in T} : inflight[j] = None
    BY <2>2 DEF Jobs
  <2>6. \A j \in {e[2] : e \in T} : score[j] \in OptScore
    <3>1. ingest \in [IngestIds -> OptScore]
      BY DEF TypeOK
    <3>2. {e[2] : e \in T} \in SUBSET IngestIds
      BY <2>2
    <3> QED BY <3>1, <3>2, Zenon DEF Jobs
  <2>4. CASE {e[2] : e \in T} = {}
    BY <2>1, <2>4, Zenon DEF leaseVars
  <2>5. CASE {e[2] : e \in T} # {}
    <3> HIDE DEF score
    <3> QED BY <1>2, <2>1, <2>3, <2>5, <2>6, Zenon
  <2> QED BY <2>4, <2>5
<1>3. ASSUME minted < MaxToken, NEW k \in ListKinds, ClaimList(k)
      PROVE  \E S \in SUBSET Jobs : \E score :
                  /\ \A j \in S : inflight[j] = None /\ score[j] \in OptScore
                  /\ minted < MaxToken
                  /\ Grant(S, minted + 1, score)
  <2> DEFINE score == [x \in Jobs |-> None]
  <2>1. PICK n \in DOMAIN list[k] :
          inflight[list[k][n]] = None /\ Grant({list[k][n]}, minted + 1, score)
    BY Zenon, <1>3 DEF ClaimList
  <2>2. list[k] \in Seq(ListIds)
    BY DEF TypeOK
  <2>3. {list[k][n]} \in SUBSET Jobs /\ score[list[k][n]] \in OptScore
    BY <2>2 DEF Jobs, OptScore
  <2> HIDE DEF score
  <2> QED BY <1>3, <2>1, <2>3
<1>4. ASSUME NEW c \in held, Ack(c) \/ RequeueList(c) \/ \E s : RequeueIngest(c, s)
      PROVE  \E S \in SUBSET Jobs :
               Release(S) /\ held' \subseteq held /\ minted' = minted
  <2>1. {c.job} \in SUBSET Jobs
    BY DEF TypeOK, Claims, Jobs
  <2> QED BY <1>4, <2>1, Zenon DEF Ack, RequeueList, RequeueIngest
<1>5. ASSUME NEW c \in held, DropClaim(c) \/ BumpAttempt(c)
      PROVE  UNCHANGED <<inflight, lease, minted>> /\ held' \subseteq held
  BY <1>5 DEF DropClaim, BumpAttempt, leaseVars
<1>6. ASSUME NEW j \in Jobs, TimePasses(j) \/ ExtendInflightDeadline(j)
      PROVE  \E d \in BOOLEAN :
               /\ inflight[j] # None
               /\ inflight' = [inflight EXCEPT ![j].due = d]
               /\ UNCHANGED <<lease, held, minted>>
  BY Zenon, <1>6 DEF TimePasses, ExtendInflightDeadline
<1>7. ASSUME ReapIngest \/ \E k \in ListKinds : ReapList(k)
      PROVE  \E S \in SUBSET Jobs :
               Release(S) /\ held' \subseteq held /\ minted' = minted
  BY Zenon, <1>7 DEF ReapIngest, ReapList, Jobs
<1>8. ASSUME NEW k \in ListKinds, ReorderList(k)
      PROVE  UNCHANGED <<inflight, lease, minted>> /\ held' \subseteq held
  BY <1>8 DEF ReorderList, leaseVars
<1>9. CASE RequestForce \/ Writer
  BY Zenon, <1>9 DEF RequestForce, Writer, WriterWake, WriterCopy, WriterSave,
              WriterSaveFails, WriterMarkClean, WriterDone, leaseVars
<1>10. CASE Restart
  <2>1. Release(Jobs)
    BY <1>10 DEF Restart, Release
  <2> QED BY <1>10, <2>1, Zenon DEF Restart
<1> QED BY Zenon, <1>1, <1>2, <1>3, <1>4, <1>5, <1>6, <1>7, <1>8, <1>9, <1>10
        DEF Next, Claim, Finish, Deadlines

-----------------------------------------------------------------------------
(* Leases. *)

LEMMA LeaseStep ==
  ASSUME TypeOK, LeaseMatchesInflight, Next
  PROVE  LeaseMatchesInflight'
<1>1. CASE UNCHANGED <<inflight, lease, minted>>
  BY <1>1 DEF LeaseMatchesInflight
<1>2. ASSUME NEW S \in SUBSET Jobs, Release(S)
      PROVE  LeaseMatchesInflight'
  BY <1>2, Zenon DEF LeaseMatchesInflight, Release
<1>3. ASSUME NEW S \in SUBSET Jobs, NEW score, Grant(S, minted + 1, score),
             \A j \in S : score[j] \in OptScore
      PROVE  LeaseMatchesInflight'
  <2>1. \A j \in S : Entry(minted + 1, score[j]) # None
                       /\ Entry(minted + 1, score[j]).owner = minted + 1
    <3>1. minted \in Nat
      BY DEF TypeOK
    <3> QED BY Zenon, <1>3, <3>1, EntryIsNotNone
  <2> QED BY <1>3, <2>1 DEF LeaseMatchesInflight, Grant
<1>4. ASSUME NEW j \in Jobs, NEW d \in BOOLEAN, inflight[j] # None,
             inflight' = [inflight EXCEPT ![j].due = d], lease' = lease
      PROVE  LeaseMatchesInflight'
  <2>1. inflight[j] \in [owner : Token, score : OptScore, due : BOOLEAN]
    BY <1>4 DEF TypeOK
  <2>2. inflight'[j] # None /\ inflight'[j].owner = inflight[j].owner
    <3>1. inflight'[j] = [inflight[j] EXCEPT !.due = d]
      BY <1>4 DEF TypeOK
    <3>2. [inflight[j] EXCEPT !.due = d] \in [owner : Token, score : OptScore, due : BOOLEAN]
      BY <2>1
    <3> QED BY Zenon, <2>1, <3>1, <3>2, NoneIsNoEntry
  <2>3. \A x \in Jobs \ {j} : inflight'[x] = inflight[x]
    BY <1>4 DEF TypeOK
  <2> QED BY <1>4, <2>2, <2>3 DEF LeaseMatchesInflight
<1> QED BY LeaseEffects, <1>1, <1>2, <1>3, <1>4, Zenon

LEMMA NewestStep ==
  ASSUME TypeOK, NewestHolds, Next
  PROVE  NewestHolds'
<1>0. minted \in Nat /\ \A c \in held : c.owner \in Nat
  BY DEF TypeOK, Claims, Token
<1>1. ASSUME UNCHANGED <<inflight, lease, minted>>, held' \subseteq held
      PROVE  NewestHolds'
  BY Zenon, <1>1 DEF NewestHolds
<1>2. ASSUME NEW S \in SUBSET Jobs, Release(S), held' \subseteq held, minted' = minted
      PROVE  NewestHolds'
  BY <1>2 DEF NewestHolds, Release
<1>3. ASSUME NEW S \in SUBSET Jobs, NEW score, Grant(S, minted + 1, score),
             \A j \in S : score[j] \in OptScore
      PROVE  NewestHolds'
  <2> DEFINE new == {[job |-> j, owner |-> minted + 1, score |-> score[j]] : j \in S}
  <2>1. held' = held \cup new /\ minted' = minted + 1
    BY <1>3, Zenon DEF Grant
  <2>2. \A c \in new : c.owner = minted + 1 /\ c.job \in S
    OBVIOUS
  <2> HIDE DEF new
  <2>3. \A c \in held' : c.owner <= minted'
    BY <1>0, <2>1, <2>2 DEF NewestHolds
  <2>4. ASSUME NEW j \in Jobs, inflight'[j] # None
        PROVE  /\ inflight'[j].owner <= minted'
               /\ \A c \in held' : c.job = j => c.owner <= inflight'[j].owner
    <3>1. CASE j \in S
      <4>1. inflight'[j].owner = minted + 1
        BY <1>0, <1>3, <3>1, EntryIsNotNone, Zenon DEF Grant
      <4> QED BY <1>0, <2>1, <2>3, <4>1
    <3>2. CASE j \notin S
      <4>1. inflight'[j] = inflight[j]
        BY <1>3, <3>2, Zenon DEF Grant
      <4>2. inflight[j].owner \in Nat
        BY <2>4, <4>1 DEF TypeOK, Token
      <4> QED BY <1>0, <2>1, <2>2, <2>4, <3>2, <4>1, <4>2 DEF NewestHolds
    <3> QED BY <3>1, <3>2
  <2> QED BY <2>3, <2>4, Zenon DEF NewestHolds
<1>4. ASSUME NEW j \in Jobs, NEW d \in BOOLEAN, inflight[j] # None,
             inflight' = [inflight EXCEPT ![j].due = d],
             UNCHANGED <<lease, held, minted>>
      PROVE  NewestHolds'
  <2>1. inflight[j] \in [owner : Token, score : OptScore, due : BOOLEAN]
    BY <1>4 DEF TypeOK
  <2>2. inflight'[j] = [inflight[j] EXCEPT !.due = d]
    BY <1>4 DEF TypeOK
  <2>3. inflight'[j].owner = inflight[j].owner
    BY <2>1, <2>2
  <2>4. \A x \in Jobs \ {j} : inflight'[x] = inflight[x]
    BY <1>4, Zenon DEF TypeOK
  <2> QED BY <1>4, <2>3, <2>4 DEF NewestHolds
<1> QED BY LeaseEffects, <1>1, <1>2, <1>3, <1>4, Zenon

-----------------------------------------------------------------------------
(* The scored queue. *)

\* A step leaves the scored queue alone, sets scores, claims, or restarts.
LEMMA IngestEffects ==
  ASSUME TypeOK, Next
  PROVE  \/ UNCHANGED <<ingest, heap, count, shIngest>>
         \/ \E S \in SUBSET IngestIds : \E new \in [S -> Score] : IngestSet(new)
         \/ \E b \in Bands, n \in 1 .. MaxBatch : ClaimIngest(b, n)
         \/ Restart
<1>1. ASSUME NEW i \in IngestIds, NEW s \in Scores, ZaddIngest(i, s)
      PROVE  \E S \in SUBSET IngestIds : \E new \in [S -> Score] : IngestSet(new)
  <2>1. [x \in {i} |-> s] \in [{i} -> Score] /\ {i} \in SUBSET IngestIds
    BY ConstantsAssumption
  <2>2. IngestSet([x \in {i} |-> s])
    BY <1>1 DEF ZaddIngest
  <2> QED BY Zenon, <2>1, <2>2
<1>2. ASSUME NEW j \in ListIds, EnqueueList(j)
      PROVE  UNCHANGED <<ingest, heap, count, shIngest>>
  BY <1>2 DEF EnqueueList
<1>3. ASSUME NEW k \in ListKinds, ClaimList(k) \/ ReapList(k) \/ ReorderList(k)
      PROVE  UNCHANGED <<ingest, heap, count, shIngest>>
  BY ZenonT(30), <1>3 DEF ClaimList, ReapList, ReorderList
<1>4. ASSUME NEW c, DropClaim(c) \/ Ack(c) \/ RequeueList(c) \/ BumpAttempt(c)
      PROVE  UNCHANGED <<ingest, heap, count, shIngest>>
  BY <1>4 DEF DropClaim, Ack, RequeueList, BumpAttempt, queueVars, shadowVars
<1>5. ASSUME NEW c \in held, c.job \in IngestIds, NEW s \in RequeueScores(c),
             RequeueIngest(c, s)
      PROVE  \E S \in SUBSET IngestIds : \E new \in [S -> Score] : IngestSet(new)
  <2>1. c.score \in Score
    BY <1>5, ConstantsAssumption, Zenon DEF TypeOK, Claims
  <2>2. s \in Score
    BY <1>5, <2>1, ScoreConstants DEF RequeueIngest, RequeueScores, Score
  <2>3. [x \in {c.job} |-> s] \in [{c.job} -> Score] /\ {c.job} \in SUBSET IngestIds
    BY <1>5, <2>2
  <2>4. IngestSet([x \in {c.job} |-> s])
    BY <1>5 DEF RequeueIngest
  <2> QED BY Zenon, <2>3, <2>4
<1>6. ASSUME NEW j \in Jobs, TimePasses(j) \/ ExtendInflightDeadline(j)
      PROVE  UNCHANGED <<ingest, heap, count, shIngest>>
  BY <1>6 DEF TimePasses, ExtendInflightDeadline, queueVars, shadowVars
<1>7. ASSUME ReapIngest
      PROVE  \E S \in SUBSET IngestIds : \E new \in [S -> Score] : IngestSet(new)
  <2> DEFINE Restore(S) == [i \in S |-> (IF inflight[i].score = None THEN CatchupBase
                                 ELSE inflight[i].score) + Penalty]
  <2>1. PICK S \in SUBSET IngestIds :
          /\ Reapable(IngestIds, S)
          /\ \A i \in S : Restore(S)[i] <= MaxScore
          /\ IngestSet(Restore(S))
    BY <1>7, Zenon DEF ReapIngest
  <2>2. ASSUME NEW i \in S PROVE Restore(S)[i] \in Score
    <3>1. inflight[i] # None /\ i \in Jobs
      BY <2>1, Zenon DEF Reapable, Due, Jobs
    <3>2. inflight[i].score \in OptScore
      BY Zenon, <3>1 DEF TypeOK
    <3>3. Restore(S)[i] <= MaxScore
      BY <2>1
    <3>4. Restore(S)[i] = (IF inflight[i].score = None THEN CatchupBase
                           ELSE inflight[i].score) + Penalty
      BY Zenon
    <3> QED BY Zenon, <3>2, <3>3, <3>4, RestoredScore
  <2>3. Restore(S) \in [S -> Score]
    BY <2>2
  <2> HIDE DEF Restore
  <2> QED BY <2>1, <2>3, Zenon
<1>8. CASE RequestForce \/ Writer
  BY Zenon, <1>8 DEF RequestForce, Writer, WriterWake, WriterCopy, WriterSave, shadowVars,
              WriterSaveFails, WriterMarkClean, WriterDone, queueVars
<1> QED BY <1>1, <1>2, <1>3, <1>4, <1>5, <1>6, <1>7, <1>8, Zenon
        DEF Next, Enqueue, Claim, Finish, Deadlines

\* What claim_ingest does to the scored queue: it takes a set of queued jobs of
\* its band, and drops from the heaps only the entries it took or stale ones.
LEMMA ClaimIngestEffect ==
  ASSUME TypeOK, NEW b \in Bands, NEW n \in 1 .. MaxBatch, ClaimIngest(b, n)
  PROVE  \E S \in SUBSET IngestIds :
           /\ \A i \in S : i \in QueuedInBand(b) /\ inflight[i] = None
           /\ ingest' = [i \in IngestIds |-> IF i \in S THEN None ELSE ingest[i]]
           /\ shIngest' = [i \in IngestIds |-> IF i \in S THEN None ELSE shIngest[i]]
           /\ count' = [count EXCEPT ![b] = Minus(@, Cardinality(S))]
           /\ shAttempt' = [j \in Jobs |-> IF j \in S THEN 0 ELSE shAttempt[j]]
           /\ \A j \in Jobs \ S : inflight'[j] = inflight[j]
           /\ \A j \in S : inflight'[j] # None
           /\ \/ S = {} /\ UNCHANGED <<inflight, held, minted>>
              \/ S # {} /\ \E score : Grant(S, minted + 1, score)
           /\ \A i \in IngestIds \ S : \A c \in Bands :
                inflight[i] = None /\ <<ingest[i], i>> \in heap[c] /\ Band(ingest[i]) = c
                  => <<ingest[i], i>> \in heap'[c]
<1> DEFINE LiveEntry(e) == inflight[e[2]] = None /\ ingest[e[2]] = e[1] /\ Band(e[1]) = b
           live  == {e \in heap[b] : LiveEntry(e)}
           stale == heap[b] \ live
           score == [j \in Jobs |-> IF j \in IngestIds THEN ingest[j] ELSE None]
           Taken(T) == {e[2] : e \in T}
           Dropped(T) == IF Cardinality(live) < n THEN stale
                         ELSE {e \in stale : \E f \in T : e[1] <= f[1]}
           Rearmed(T) == {i \in {e[2] : e \in Dropped(T)} :
                            inflight[i] = None /\ ingest[i] # None}
<1>1. PICK T \in SUBSET live :
        /\ heap' = [c \in Bands |->
             ((IF c = b THEN heap[c] \ Dropped(T) ELSE heap[c])
               \cup {<<ingest[i], i>> : i \in {r \in Rearmed(T) : Band(ingest[r]) = c}})
             \ T]
        /\ IF Taken(T) = {}
           THEN UNCHANGED <<ingest, count, leaseVars, shIngest, shAttempt,
                            dirty, moved, held, minted>>
           ELSE /\ IngestPop(b, Taken(T))
                /\ Grant(Taken(T), minted + 1, score)
                /\ MarkDirty
  BY Zenon DEF ClaimIngest
<1>2. /\ heap[b] \in SUBSET (Score \X IngestIds)
      /\ ingest \in [IngestIds -> OptScore] /\ shIngest \in [IngestIds -> OptScore]
      /\ count \in [Bands -> Nat] /\ shAttempt \in [Jobs -> 0 .. MaxAttempt]
  BY Zenon DEF TypeOK
<1>3. \A e \in T : /\ e[2] \in IngestIds /\ e[1] \in Score /\ e = <<e[1], e[2]>>
                   /\ LiveEntry(e)
  BY <1>2
<1>4. Taken(T) \in SUBSET IngestIds
  BY Zenon, <1>3
<1>5. \A i \in Taken(T) : i \in QueuedInBand(b) /\ inflight[i] = None
  <2> SUFFICES ASSUME NEW i \in Taken(T)
               PROVE  i \in QueuedInBand(b) /\ inflight[i] = None
    BY Zenon
  <2>1. PICK e \in T : i = e[2]
    BY Zenon
  <2>2. /\ i \in IngestIds /\ ingest[i] \in Score /\ Band(ingest[i]) = b
        /\ inflight[i] = None
    BY Zenon, <1>3, <2>1
  <2> QED BY Zenon, <2>2, NoneNoScore DEF QueuedInBand, QueuedIngest
<1>6. \A i \in IngestIds \ Taken(T) : \A c \in Bands :
        inflight[i] = None /\ <<ingest[i], i>> \in heap[c] /\ Band(ingest[i]) = c
          => <<ingest[i], i>> \in heap'[c]
  <2> SUFFICES ASSUME NEW i \in IngestIds \ Taken(T), NEW c \in Bands,
                      inflight[i] = None, <<ingest[i], i>> \in heap[c],
                      Band(ingest[i]) = c
               PROVE  <<ingest[i], i>> \in heap'[c]
    BY Zenon
  <2>1. <<ingest[i], i>> \notin T
    <3>1. <<ingest[i], i>>[2] = i
      OBVIOUS
    <3> QED BY Zenon, <3>1
  <2>2. <<ingest[i], i>> \notin Dropped(T) \/ c # b
    OBVIOUS
  <2> HIDE DEF Dropped, Rearmed
  <2> QED BY ZenonT(30), <1>1, <2>1, <2>2
<1>7. /\ ingest' = [i \in IngestIds |-> IF i \in Taken(T) THEN None ELSE ingest[i]]
      /\ shIngest' = [i \in IngestIds |-> IF i \in Taken(T) THEN None ELSE shIngest[i]]
      /\ count' = [count EXCEPT ![b] = Minus(@, Cardinality(Taken(T)))]
      /\ shAttempt' = [j \in Jobs |-> IF j \in Taken(T) THEN 0 ELSE shAttempt[j]]
      /\ \A j \in Jobs \ Taken(T) : inflight'[j] = inflight[j]
      /\ \A j \in Taken(T) : inflight'[j] # None
  <2>1. CASE Taken(T) = {}
    <3>1. Cardinality(Taken(T)) = 0
      BY Zenon, <2>1, FS_EmptySet
    <3>2. Minus(count[b], 0) = count[b]
      BY <1>2 DEF Minus
    <3> HIDE DEF Taken
    <3> QED BY Zenon, <1>1, <1>2, <2>1, <3>1, <3>2 DEF leaseVars
  <2>2. CASE Taken(T) # {}
    <3>1. \A j \in Taken(T) : Entry(minted + 1, score[j]) # None /\ j \in Jobs
      <4>1. \A j \in Taken(T) : score[j] \in OptScore /\ j \in Jobs
        BY ZenonT(30), <1>2, <1>4 DEF Jobs
      <4>2. minted \in Nat
        BY DEF TypeOK
      <4> QED BY Zenon, <4>1, <4>2, EntryIsNotNone
    <3> HIDE DEF Taken, score
    <3>2. \A j \in Taken(T) : inflight'[j] # None
      BY Zenon, <1>1, <2>2, <3>1 DEF Grant
    <3> QED BY Zenon, <1>1, <2>2, <3>2 DEF IngestPop, Grant
  <2> QED BY Zenon, <2>1, <2>2
<1> HIDE DEF Taken
<1>8. \/ Taken(T) = {} /\ UNCHANGED <<inflight, held, minted>>
      \/ Taken(T) # {} /\ \E sc : Grant(Taken(T), minted + 1, sc)
  <2> HIDE DEF score, Dropped, Rearmed, live
  <2> QED BY Zenon, <1>1 DEF leaseVars
<1> QED BY Zenon, <1>4, <1>5, <1>6, <1>7, <1>8

LEMMA ClaimableStep ==
  ASSUME TypeOK, QueuedIsClaimable, Queued \cap Inflight = {}, Next
  PROVE  QueuedIsClaimable'
<1>0. /\ ingest \in [IngestIds -> OptScore] /\ heap \in [Bands -> SUBSET (Score \X IngestIds)]
      /\ \A i \in IngestIds : Band(ingest[i]) \in Bands
  BY Zenon, BandType DEF TypeOK
<1>1. CASE UNCHANGED <<ingest, heap, count, shIngest>>
  BY <1>1 DEF QueuedIsClaimable, QueuedIngest
<1>2. ASSUME NEW S \in SUBSET IngestIds, NEW new \in [S -> Score], IngestSet(new)
      PROVE  QueuedIsClaimable'
  <2>1. /\ ingest' = [i \in IngestIds |-> IF i \in S THEN new[i] ELSE ingest[i]]
        /\ heap' = [b \in Bands |->
             heap[b] \cup {<<new[i], i>> : i \in {x \in S : Band(new[x]) = b}}]
    BY <1>2 DEF IngestSet, HeapPush
  <2> SUFFICES ASSUME NEW i \in IngestIds, ingest'[i] # None
               PROVE  <<ingest'[i], i>> \in heap'[Band(ingest'[i])]
    BY Zenon DEF QueuedIsClaimable, QueuedIngest, Band
  <2>2. CASE i \in S
    BY <2>1, <2>2, BandType
  <2>3. CASE i \notin S
    BY Zenon, <1>0, <2>1, <2>3 DEF QueuedIsClaimable, QueuedIngest
  <2> QED BY Zenon, <2>2, <2>3
<1>3. ASSUME NEW b \in Bands, NEW n \in 1 .. MaxBatch, ClaimIngest(b, n)
      PROVE  QueuedIsClaimable'
  <2>1. PICK S \in SUBSET IngestIds :
          /\ ingest' = [i \in IngestIds |-> IF i \in S THEN None ELSE ingest[i]]
          /\ \A i \in IngestIds \ S : \A c \in Bands :
               inflight[i] = None /\ <<ingest[i], i>> \in heap[c] /\ Band(ingest[i]) = c
                 => <<ingest[i], i>> \in heap'[c]
    BY Zenon, <1>3, ClaimIngestEffect
  <2> SUFFICES ASSUME NEW i \in IngestIds, ingest'[i] # None
               PROVE  <<ingest'[i], i>> \in heap'[Band(ingest'[i])]
    BY Zenon DEF QueuedIsClaimable, QueuedIngest, Band
  <2>2. i \notin S /\ ingest'[i] = ingest[i]
    BY ZenonT(30), <2>1
  <2>3. inflight[i] = None /\ <<ingest[i], i>> \in heap[Band(ingest[i])]
    BY <2>2 DEF QueuedIsClaimable, QueuedIngest, Queued, Inflight, Jobs
  <2> QED BY Zenon, <1>0, <2>1, <2>2, <2>3
<1>4. CASE Restart
  <2> DEFINE In(b) == {x \in IngestIds : disk.ingest[x] # None /\ Band(disk.ingest[x]) = b}
  <2>1. ingest' = disk.ingest /\ heap' = [b \in Bands |-> {<<disk.ingest[i], i>> : i \in In(b)}]
    BY <1>4 DEF Restart
  <2> SUFFICES ASSUME NEW i \in IngestIds, ingest'[i] # None
               PROVE  <<ingest'[i], i>> \in heap'[Band(ingest'[i])]
    BY Zenon DEF QueuedIsClaimable, QueuedIngest, Band
  <2> QED BY ZenonT(30), <2>1, BandType
<1> QED BY Zenon, IngestEffects, <1>1, <1>2, <1>3, <1>4

LEMMA CountStep ==
  ASSUME TypeOK, BandCountsExact, Next
  PROVE  BandCountsExact'
<1> DEFINE Q(f, b) == {i \in IngestIds : f[i] # None /\ Band(f[i]) = b}
<1>0. /\ ingest \in [IngestIds -> OptScore] /\ count \in [Bands -> Nat]
      /\ \A b \in Bands : QueuedInBand(b) = Q(ingest, b) /\ count[b] = Cardinality(Q(ingest, b))
  BY ZenonT(30) DEF TypeOK, BandCountsExact, QueuedInBand, QueuedIngest
<1>00. SUFFICES \A b \in Bands : count'[b] = Cardinality(Q(ingest', b))
  BY DEF BandCountsExact, QueuedInBand, QueuedIngest, Band
<1>1. CASE UNCHANGED <<ingest, heap, count, shIngest>>
  BY Zenon, <1>0, <1>1
<1>2. ASSUME NEW S \in SUBSET IngestIds, NEW new \in [S -> Score], IngestSet(new),
             NEW b \in Bands
      PROVE  count'[b] = Cardinality(Q(ingest', b))
  <2> DEFINE A == {i \in S : Band(new[i]) = b}
             B == Q(ingest, b)
  <2>1. /\ ingest' = [i \in IngestIds |-> IF i \in S THEN new[i] ELSE ingest[i]]
        /\ count' = [c \in Bands |-> CountAfterSet(c, new)]
        /\ DOMAIN new = S
    BY Zenon, <1>2 DEF IngestSet
  <2>2. count'[b] = Minus(Cardinality(B), Cardinality(S \cap B)) + Cardinality(A)
    <3> HIDE DEF B
    <3>1. QueuedInBand(b) = B /\ count[b] = Cardinality(B)
      BY <1>0, Zenon DEF B
    <3>2. count'[b] = CountAfterSet(b, new)
      BY <2>1
    <3> QED BY Zenon, <2>1, <3>1, <3>2 DEF CountAfterSet
  <2>3. None \notin Score
    BY ConstantsAssumption DEF Score
  <2>4. Q(ingest', b) = (B \ S) \cup A
    BY <2>1, <2>3
  <2>5. /\ IsFiniteSet(B) /\ IsFiniteSet(A) /\ IsFiniteSet(S)
        /\ Cardinality(A) \in Nat /\ Cardinality(B) \in Nat
    <3>1. A \in SUBSET IngestIds /\ B \in SUBSET IngestIds
      OBVIOUS
    <3> HIDE DEF A, B
    <3> QED BY <3>1, IngestCardinality
  <2>6. (B \ S) \cap A = {} /\ S \cap B = B \cap S
    OBVIOUS
  <2> HIDE DEF A, B, Q
  <2>7. /\ IsFiniteSet(B \ S)
        /\ Cardinality(B \ S) = Cardinality(B) - Cardinality(B \cap S)
        /\ IsFiniteSet(B \cap S) /\ Cardinality(B \cap S) <= Cardinality(B)
    BY Zenon, <2>5, FS_Difference, FS_Intersection
  <2>8. Cardinality(B \cap S) \in Nat
    BY Zenon, <2>7, FS_CardinalityType
  <2>9. Cardinality((B \ S) \cup A) = Cardinality(B \ S) + Cardinality(A)
    <3>1. Cardinality((B \ S) \cup A)
            = Cardinality(B \ S) + Cardinality(A) - Cardinality((B \ S) \cap A)
      BY Zenon, <2>5, <2>7, FS_Union
    <3>2. Cardinality((B \ S) \cap A) = 0
      BY Zenon, <2>6, FS_EmptySet
    <3>3. Cardinality(B \ S) \in Nat
      BY <2>7, FS_CardinalityType
    <3> QED BY <2>5, <3>1, <3>2, <3>3
  <2>10. Minus(Cardinality(B), Cardinality(S \cap B)) = Cardinality(B \ S)
    <3>1. \A n, m \in Nat : m <= n => Minus(n, m) = n - m
      BY DEF Minus
    <3>2. Minus(Cardinality(B), Cardinality(B \cap S)) = Cardinality(B) - Cardinality(B \cap S)
      BY Zenon, <2>5, <2>7, <2>8, <3>1
    <3> QED BY Zenon, <2>6, <2>7, <3>2
  <2> QED BY Zenon, <2>2, <2>4, <2>9, <2>10
<1>3. ASSUME NEW b \in Bands, NEW n \in 1 .. MaxBatch, ClaimIngest(b, n)
      PROVE  \A c \in Bands : count'[c] = Cardinality(Q(ingest', c))
  <2>1. PICK S \in SUBSET IngestIds :
          /\ \A i \in S : i \in QueuedInBand(b) /\ inflight[i] = None
          /\ ingest' = [i \in IngestIds |-> IF i \in S THEN None ELSE ingest[i]]
          /\ count' = [count EXCEPT ![b] = Minus(@, Cardinality(S))]
    BY Zenon, <1>3, ClaimIngestEffect
  <2>2. S \subseteq Q(ingest, b)
    BY Zenon, <1>0, <2>1
  <2>3. ASSUME NEW c \in Bands \ {b} PROVE count'[c] = Cardinality(Q(ingest', c))
    <3>1. Q(ingest', c) = Q(ingest, c)
      BY <2>1, <2>2
    <3> HIDE DEF Q
    <3> QED BY Zenon, <1>0, <2>1, <3>1
  <2>4. count'[b] = Cardinality(Q(ingest', b))
    <3>1. Q(ingest', b) = Q(ingest, b) \ S /\ Q(ingest, b) \cap S = S
      BY Zenon, <2>1, <2>2
    <3>2. Q(ingest, b) \in SUBSET IngestIds
      OBVIOUS
    <3> HIDE DEF Q
    <3>3. /\ IsFiniteSet(Q(ingest, b)) /\ Cardinality(Q(ingest, b)) \in Nat
          /\ IsFiniteSet(S) /\ Cardinality(S) \in Nat
      BY <3>2, IngestCardinality
    <3>4. /\ Cardinality(Q(ingest, b) \ S) = Cardinality(Q(ingest, b)) - Cardinality(S)
          /\ Cardinality(S) <= Cardinality(Q(ingest, b))
      <4>1. S \subseteq Q(ingest, b)
        BY Zenon, <3>1
      <4> QED BY ZenonT(30), <3>1, <3>3, <4>1, FS_Difference, FS_Subset
    <3>5. count'[b] = Minus(Cardinality(Q(ingest, b)), Cardinality(S))
      BY <1>0, <2>1
    <3>6. Minus(Cardinality(Q(ingest, b)), Cardinality(S))
            = Cardinality(Q(ingest, b)) - Cardinality(S)
      BY Zenon, <3>3, <3>4, MinusWithin
    <3> QED BY Zenon, <3>1, <3>4, <3>5, <3>6
  <2> QED BY Zenon, <2>3, <2>4
<1>4. CASE Restart
  BY <1>4 DEF Restart
<1> HIDE DEF Q
<1> QED BY Zenon, IngestEffects, <1>1, <1>2, <1>3, <1>4

\* The shadow of the scored queue follows it.
LEMMA ShadowIngestStep ==
  ASSUME TypeOK, shIngest = ingest, Next
  PROVE  shIngest' = ingest'
<1>1. ASSUME NEW b \in Bands, NEW n \in 1 .. MaxBatch, ClaimIngest(b, n)
      PROVE  shIngest' = ingest'
  BY <1>1, ClaimIngestEffect, ZenonT(30)
<1>2. ASSUME NEW S \in SUBSET IngestIds, NEW new \in [S -> Score], IngestSet(new)
      PROVE  shIngest' = ingest'
  BY Zenon, <1>2 DEF IngestSet
<1>3. CASE Restart
  BY <1>3, Zenon DEF Restart
<1> QED BY Zenon, <1>1, <1>2, <1>3, IngestEffects

-----------------------------------------------------------------------------
(* The lists and their pending sets. *)

\* The identities waiting in consistent lists are exactly the pending ones.
LEMMA ListsUnion ==
  ASSUME NEW l \in [ListKinds -> Seq(ListIds)], NEW p \in SUBSET ListIds, ListsOK(l, p)
  PROVE  UNION {ElementsOf(l[k]) : k \in ListKinds} = p
<1>1. ASSUME NEW k \in ListKinds, NEW j \in ElementsOf(l[k]) PROVE j \in p
  <2>1. PICK n \in DOMAIN l[k] : j = l[k][n]
    BY Zenon DEF ElementsOf
  <2>2. j \in ListIds /\ ListKind[j] = k
    BY <2>1 DEF ListsOK
  <2> QED BY <2>2, Zenon DEF ListsOK
<1>2. ASSUME NEW j \in p PROVE \E k \in ListKinds : j \in ElementsOf(l[k])
  BY ConstantsAssumption DEF ListsOK
<1> QED BY <1>1, <1>2, Zenon

\* The elements of a concatenation.
LEMMA ElementsConcat ==
  ASSUME NEW T, NEW s \in Seq(T), NEW t \in Seq(T)
  PROVE  ElementsOf(s \o t) = ElementsOf(s) \cup ElementsOf(t)
<1>1. /\ DOMAIN s = 1 .. Len(s) /\ DOMAIN t = 1 .. Len(t)
      /\ Len(s) \in Nat /\ Len(t) \in Nat
      /\ DOMAIN (s \o t) = 1 .. Len(s) + Len(t)
  OBVIOUS
<1>2. \A n \in 1 .. Len(s) : (s \o t)[n] = s[n] /\ n \in DOMAIN (s \o t)
  BY <1>1
<1>3. \A n \in 1 .. Len(t) : (s \o t)[Len(s) + n] = t[n] /\ Len(s) + n \in DOMAIN (s \o t)
  BY <1>1
<1>4. \A n \in DOMAIN (s \o t) : n \in 1 .. Len(s) \/ \E m \in 1 .. Len(t) : n = Len(s) + m
  <2> SUFFICES ASSUME NEW n \in DOMAIN (s \o t), n \notin 1 .. Len(s)
               PROVE  \E m \in 1 .. Len(t) : n = Len(s) + m
    OBVIOUS
  <2>1. n - Len(s) \in 1 .. Len(t) /\ n = Len(s) + (n - Len(s))
    BY <1>1
  <2> QED BY <2>1
<1>5. ElementsOf(s \o t) \subseteq ElementsOf(s) \cup ElementsOf(t)
  <2> SUFFICES ASSUME NEW n \in DOMAIN (s \o t)
               PROVE  (s \o t)[n] \in ElementsOf(s) \cup ElementsOf(t)
    BY Zenon DEF ElementsOf
  <2>1. CASE n \in 1 .. Len(s)
    BY Zenon, <1>1, <1>2, <2>1 DEF ElementsOf
  <2>2. CASE \E m \in 1 .. Len(t) : n = Len(s) + m
    BY Zenon, <1>1, <1>3, <2>2 DEF ElementsOf
  <2> QED BY Zenon, <1>4, <2>1, <2>2
<1>6. ElementsOf(s) \subseteq ElementsOf(s \o t)
  BY <1>1, <1>2 DEF ElementsOf
<1>7. ElementsOf(t) \subseteq ElementsOf(s \o t)
  BY Zenon, <1>1, <1>3 DEF ElementsOf
<1> QED BY <1>5, <1>6, <1>7

LEMMA ListConcat ==
  \A s \in Seq(ListIds), t \in Seq(ListIds) :
    ElementsOf(s \o t) = ElementsOf(s) \cup ElementsOf(t)
BY ElementsConcat

\* Appending identities that are not pending keeps the lists consistent.
LEMMA AppendOK ==
  ASSUME NEW l \in [ListKinds -> Seq(ListIds)], NEW p \in SUBSET ListIds, ListsOK(l, p),
         NEW k \in ListKinds, NEW s \in Seq(ListIds),
         \A m, n \in DOMAIN s : s[m] = s[n] => m = n,
         \A n \in DOMAIN s : ListKind[s[n]] = k,
         ElementsOf(s) \cap p = {}
  PROVE  ListsOK([l EXCEPT ![k] = @ \o s], p \cup ElementsOf(s))
<1> DEFINE t == l[k]
           q == [l EXCEPT ![k] = @ \o s]
<1>1. /\ t \in Seq(ListIds) /\ q[k] = t \o s /\ \A x \in ListKinds \ {k} : q[x] = l[x]
      /\ DOMAIN t = 1 .. Len(t) /\ DOMAIN s = 1 .. Len(s)
      /\ Len(s) \in Nat /\ Len(t) \in Nat
      /\ DOMAIN (t \o s) = 1 .. Len(t) + Len(s)
  <2>1. t \in Seq(ListIds) /\ q[k] = t \o s /\ \A x \in ListKinds \ {k} : q[x] = l[x]
    BY Zenon
  <2> HIDE DEF t, q
  <2> QED BY <2>1
<1>2. ElementsOf(q[k]) = ElementsOf(t) \cup ElementsOf(s)
  <2> HIDE DEF t, q
  <2>1. ElementsOf(t \o s) = ElementsOf(t) \cup ElementsOf(s)
    BY Zenon, <1>1, ListConcat
  <2> QED BY Zenon, <1>1, <2>1
<1>3. ElementsOf(t) \subseteq p
  <2>1. UNION {ElementsOf(l[x]) : x \in ListKinds} = p
    BY ZenonT(30), ListsUnion
  <2> QED BY <2>1
<1>4. \A n \in DOMAIN (t \o s) :
        \/ n \in DOMAIN t /\ (t \o s)[n] = t[n]
        \/ n - Len(t) \in DOMAIN s /\ (t \o s)[n] = s[n - Len(t)]
  BY <1>1
<1>5. \A m, n \in DOMAIN (t \o s) : (t \o s)[m] = (t \o s)[n] => m = n
  <2> SUFFICES ASSUME NEW m \in DOMAIN (t \o s), NEW n \in DOMAIN (t \o s),
                      (t \o s)[m] = (t \o s)[n]
               PROVE  m = n
    OBVIOUS
  <2>1. CASE m \in DOMAIN t /\ (t \o s)[m] = t[m] /\ n \in DOMAIN t /\ (t \o s)[n] = t[n]
    BY ZenonT(30), <2>1 DEF ListsOK
  <2>2. CASE /\ m - Len(t) \in DOMAIN s /\ (t \o s)[m] = s[m - Len(t)]
             /\ n - Len(t) \in DOMAIN s /\ (t \o s)[n] = s[n - Len(t)]
    <3>1. m - Len(t) = n - Len(t)
      BY Zenon, <2>2
    <3> QED BY <1>1, <3>1
  <2>3. CASE /\ m \in DOMAIN t /\ (t \o s)[m] = t[m]
             /\ n - Len(t) \in DOMAIN s /\ (t \o s)[n] = s[n - Len(t)]
    <3>1. t[m] \in ElementsOf(t) /\ s[n - Len(t)] \in ElementsOf(s)
      BY Zenon, <2>3 DEF ElementsOf
    <3> HIDE DEF t
    <3> QED BY Zenon, <1>3, <2>3, <3>1
  <2>4. CASE /\ n \in DOMAIN t /\ (t \o s)[n] = t[n]
             /\ m - Len(t) \in DOMAIN s /\ (t \o s)[m] = s[m - Len(t)]
    <3>1. t[n] \in ElementsOf(t) /\ s[m - Len(t)] \in ElementsOf(s)
      BY <2>4, Zenon DEF ElementsOf
    <3> HIDE DEF t
    <3> QED BY Zenon, <1>3, <2>4, <3>1
  <2> QED BY ZenonT(30), <1>4, <2>1, <2>2, <2>3, <2>4
<1>6. \A n \in DOMAIN (t \o s) : ListKind[(t \o s)[n]] = k
  <2>1. \A n \in DOMAIN t : ListKind[t[n]] = k
    BY Zenon DEF ListsOK
  <2> HIDE DEF t
  <2> SUFFICES ASSUME NEW n \in DOMAIN (t \o s) PROVE ListKind[(t \o s)[n]] = k
    BY Zenon
  <2>2. CASE n \in DOMAIN t /\ (t \o s)[n] = t[n]
    BY Zenon, <2>1, <2>2
  <2>3. CASE n - Len(t) \in DOMAIN s /\ (t \o s)[n] = s[n - Len(t)]
    BY Zenon, <2>3
  <2> QED BY Zenon, <1>4, <2>2, <2>3
<1>7. \A x \in ListKinds : /\ \A m, n \in DOMAIN q[x] : q[x][m] = q[x][n] => m = n
                           /\ \A n \in DOMAIN q[x] : ListKind[q[x][n]] = x
  <2> HIDE DEF q, t
  <2>1. ASSUME NEW x \in ListKinds \ {k}
        PROVE  /\ \A m, n \in DOMAIN q[x] : q[x][m] = q[x][n] => m = n
               /\ \A n \in DOMAIN q[x] : ListKind[q[x][n]] = x
    BY <1>1, ZenonT(30) DEF ListsOK
  <2> QED BY Zenon, <1>1, <1>5, <1>6, <2>1
<1>8. \A j \in ListIds : j \in p \cup ElementsOf(s) <=> j \in ElementsOf(q[ListKind[j]])
  <2> SUFFICES ASSUME NEW j \in ListIds
               PROVE  j \in p \cup ElementsOf(s) <=> j \in ElementsOf(q[ListKind[j]])
    BY ZenonT(30)
  <2> HIDE DEF q, t
  <2>0. ListKind[j] \in ListKinds
    BY ConstantsAssumption
  <2>1. CASE ListKind[j] = k
    BY ZenonT(30), <1>2, <2>1 DEF ListsOK, t
  <2>2. CASE ListKind[j] # k
    <3>1. j \notin ElementsOf(s)
      BY ZenonT(30), <2>2 DEF ElementsOf
    <3> QED BY <1>1, <2>0, <2>2, <3>1, Zenon DEF ListsOK
  <2> QED BY <2>1, <2>2
<1> HIDE DEF q
<1>9. ListsOK(q, p \cup ElementsOf(s))
  BY <1>7, <1>8, Zenon DEF ListsOK
<1> QED BY <1>9, ZenonT(30) DEF q

\* Popping a prefix, and its identities from the pending set, keeps the lists
\* consistent.
LEMMA DropOK ==
  ASSUME NEW l \in [ListKinds -> Seq(ListIds)], NEW p \in SUBSET ListIds, ListsOK(l, p),
         NEW k \in ListKinds, NEW n \in DOMAIN l[k]
  PROVE  ListsOK([l EXCEPT ![k] = SubSeq(@, n + 1, Len(@))],
                 p \ {l[k][m] : m \in 1 .. n})
<1> DEFINE t == l[k]
           r == SubSeq(t, n + 1, Len(t))
           q == [l EXCEPT ![k] = SubSeq(@, n + 1, Len(@))]
           gone == {t[m] : m \in 1 .. n}
<1>1. /\ t \in Seq(ListIds) /\ Len(t) \in Nat /\ n \in 1 .. Len(t)
      /\ DOMAIN t = 1 .. Len(t)
      /\ q[k] = r /\ \A x \in ListKinds \ {k} : q[x] = l[x]
  <2>1. t \in Seq(ListIds)
    BY Zenon
  <2>2. Len(t) \in Nat /\ n \in 1 .. Len(t) /\ DOMAIN t = 1 .. Len(t)
    <3> HIDE DEF r, q
    <3> QED BY <2>1
  <2>3. q[k] = r
    BY Zenon
  <2>4. \A x \in ListKinds \ {k} : q[x] = l[x]
    BY Zenon
  <2> QED BY Zenon, <2>1, <2>2, <2>3, <2>4
<1>2. /\ DOMAIN r = 1 .. Len(t) - n
      /\ \A m \in 1 .. Len(t) - n : r[m] = t[m + n] /\ m + n \in DOMAIN t /\ m + n \notin 1 .. n
  <2> HIDE DEF t
  <2> QED BY Zenon, <1>1, AfterPrefix
<1> HIDE DEF r, q
<1>3. \A i, m \in DOMAIN t : t[i] = t[m] => i = m
  BY Zenon DEF ListsOK
<1>4. \A i, m \in DOMAIN r : r[i] = r[m] => i = m
  <2> SUFFICES ASSUME NEW i \in DOMAIN r, NEW m \in DOMAIN r, r[i] = r[m] PROVE i = m
    OBVIOUS
  <2>1. i + n = m + n
    BY Zenon, <1>2, <1>3
  <2>2. i \in 1 .. Len(t) - n /\ m \in 1 .. Len(t) - n
    BY Zenon, <1>2
  <2> HIDE DEF t
  <2>3. Len(t) \in Nat /\ n \in 1 .. Len(t)
    BY Zenon, <1>1
  <2> QED BY Zenon, <2>1, <2>2, <2>3, SameShift
<1>5. \A m \in DOMAIN r : ListKind[r[m]] = k
  BY <1>2 DEF ListsOK
<1>6. ElementsOf(r) = ElementsOf(t) \ gone
  <2>1. \A m \in DOMAIN r : r[m] \in ElementsOf(t) /\ r[m] \notin gone
    <3> SUFFICES ASSUME NEW m \in DOMAIN r PROVE r[m] \in ElementsOf(t) /\ r[m] \notin gone
      BY Zenon
    <3>1. r[m] = t[m + n] /\ m + n \in DOMAIN t /\ m + n \notin 1 .. n
      BY <1>2, Zenon
    <3>2. 1 .. n \subseteq DOMAIN t
      BY <1>1
    <3> QED BY <1>3, <3>1, <3>2, Zenon DEF ElementsOf
  <2>2. ASSUME NEW x \in ElementsOf(t), x \notin gone PROVE x \in ElementsOf(r)
    <3>1. PICK i \in DOMAIN t : x = t[i]
      BY Zenon DEF ElementsOf
    <3>2. i \notin 1 .. n
      BY <2>2, <3>1, ZenonT(30)
    <3>3. i - n \in 1 .. Len(t) - n /\ (i - n) + n = i
      <4>1. i \in 1 .. Len(t)
        BY Zenon, <1>1, <3>1
      <4> HIDE DEF t
      <4>2. Len(t) \in Nat /\ n \in 1 .. Len(t)
        BY Zenon, <1>1
      <4> QED BY <3>2, <4>1, <4>2
    <3>4. r[i - n] = x /\ i - n \in DOMAIN r
      BY Zenon, <1>2, <3>1, <3>3
    <3> QED BY <3>4, Zenon DEF ElementsOf
  <2> QED BY Zenon, <2>1, <2>2 DEF ElementsOf
<1>7. \A x \in ListKinds : /\ \A i, m \in DOMAIN q[x] : q[x][i] = q[x][m] => i = m
                           /\ \A m \in DOMAIN q[x] : ListKind[q[x][m]] = x
  <2>1. ASSUME NEW x \in ListKinds \ {k}
        PROVE  /\ \A i, m \in DOMAIN q[x] : q[x][i] = q[x][m] => i = m
               /\ \A m \in DOMAIN q[x] : ListKind[q[x][m]] = x
    BY <1>1, Zenon DEF ListsOK
  <2> HIDE DEF t
  <2> QED BY Zenon, <1>1, <1>4, <1>5, <2>1
<1>8. \A j \in ListIds : j \in p \ gone <=> j \in ElementsOf(q[ListKind[j]])
  <2> SUFFICES ASSUME NEW j \in ListIds
               PROVE  j \in p \ gone <=> j \in ElementsOf(q[ListKind[j]])
    BY Zenon
  <2>0. ListKind[j] \in ListKinds
    BY ConstantsAssumption, Zenon
  <2>1. CASE ListKind[j] = k
    <3>1. j \in p <=> j \in ElementsOf(t)
      BY <2>1, Zenon DEF ListsOK
    <3> HIDE DEF t, gone
    <3> QED BY <1>1, <1>6, <2>1, <3>1, Zenon
  <2>2. CASE ListKind[j] # k
    <3>1. j \notin gone
      <4>1. 1 .. n \subseteq DOMAIN t
        BY <1>1
      <4>2. \A m \in DOMAIN t : ListKind[t[m]] = k
        BY Zenon DEF ListsOK
      <4> QED BY ZenonT(30), <2>2, <4>1, <4>2
    <3> HIDE DEF gone
    <3> QED BY ZenonT(30), <1>1, <2>0, <2>2, <3>1 DEF ListsOK
  <2> QED BY <2>1, <2>2, Zenon
<1> HIDE DEF gone
<1>9. ListsOK(q, p \ gone)
  BY <1>7, <1>8, Zenon DEF ListsOK
<1> QED BY <1>9 DEF q, gone

\* Permuting a list keeps the lists consistent.
LEMMA ReorderOK ==
  ASSUME NEW l \in [ListKinds -> Seq(ListIds)], NEW p \in SUBSET ListIds, ListsOK(l, p),
         NEW k \in ListKinds, NEW s \in Orders(ElementsOf(l[k]))
  PROVE  ListsOK([l EXCEPT ![k] = s], p)
<1> DEFINE E == ElementsOf(l[k])
           q == [l EXCEPT ![k] = s]
           C == Cardinality(E)
<1>1. E \in SUBSET ListIds /\ IsFiniteSet(E) /\ C \in Nat
  <2>1. E \in SUBSET ListIds
    BY ElementsType, Zenon
  <2> QED BY <2>1, ConstantsAssumption, FS_Subset, FS_CardinalityType, Zenon
<1>2. s \in [1 .. C -> E] /\ \A m, n \in 1 .. C : s[m] = s[n] => m = n
  BY Zenon DEF Orders
<1>3. ElementsOf(s) = E
  <2> HIDE DEF E
  <2>1. s \in Injection(1 .. C, E)
    BY Zenon, <1>2 DEF Injection, IsInjective
  <2>2. IsFiniteSet(1 .. C) /\ Cardinality(1 .. C) = C
    BY Zenon, <1>1, UpTo
  <2>3. s \in Surjection(1 .. C, E)
    BY Zenon, <1>1, <2>1, <2>2, FS_Injection
  <2> QED BY Zenon, <2>3, SurjectiveElements
<1>4. q[k] = s /\ \A x \in ListKinds \ {k} : q[x] = l[x]
  OBVIOUS
<1>5. \A m \in DOMAIN s : ListKind[s[m]] = k
  <2>1. \A x \in E : ListKind[x] = k
    BY DEF ListsOK, ElementsOf
  <2> QED BY ZenonT(30), <1>2, <2>1
<1> HIDE DEF q
<1>6. \A x \in ListKinds : /\ \A i, m \in DOMAIN q[x] : q[x][i] = q[x][m] => i = m
                           /\ \A m \in DOMAIN q[x] : ListKind[q[x][m]] = x
  <2>1. ASSUME NEW x \in ListKinds \ {k}
        PROVE  /\ \A i, m \in DOMAIN q[x] : q[x][i] = q[x][m] => i = m
               /\ \A m \in DOMAIN q[x] : ListKind[q[x][m]] = x
    BY <1>4 DEF ListsOK
  <2> HIDE DEF E, C
  <2> QED BY ZenonT(30), <1>2, <1>4, <1>5, <2>1
<1>7. \A j \in ListIds : j \in p <=> j \in ElementsOf(q[ListKind[j]])
  BY Zenon, <1>3, <1>4, ConstantsAssumption DEF ListsOK
<1>8. ListsOK(q, p)
  BY Zenon, <1>6, <1>7 DEF ListsOK
<1> QED BY Zenon, <1>8 DEF q

\* A step leaves the lists alone, appends jobs that are neither waiting nor in
\* flight afterwards, claims, reorders, or restarts.
LEMMA ListEffects ==
  ASSUME TypeOK, ListsOK(list, pending), Queued \cap Inflight = {}, Next
  PROVE  \/ UNCHANGED <<list, pending, shList, shPending>>
         \/ \E k \in ListKinds : \E s \in Seq(ListIds) :
              /\ ListAppend(k, s)
              /\ ElementsOf(s) \cap pending = {}
              /\ \A n \in DOMAIN s : ListKind[s[n]] = k
              /\ \A m, n \in DOMAIN s : s[m] = s[n] => m = n
         \/ \E k \in ListKinds : ClaimList(k) \/ ReorderList(k)
         \/ Restart
<1> DEFINE Goal ==
      \E k \in ListKinds : \E s \in Seq(ListIds) :
              /\ ListAppend(k, s)
              /\ ElementsOf(s) \cap pending = {}
              /\ \A n \in DOMAIN s : ListKind[s[n]] = k
              /\ \A m, n \in DOMAIN s : s[m] = s[n] => m = n
<1>0. \A j \in ListIds : inflight[j] # None => j \notin pending
  <2>1. QueuedList = pending
    BY Zenon, ListsUnion DEF QueuedList, TypeOK
  <2> QED BY <2>1 DEF Queued, Inflight, Jobs
<1>1. ASSUME NEW j \in ListIds, j \notin pending, ListAppend(ListKind[j], <<j>>)
      PROVE  Goal
  <2>1. /\ ListKind[j] \in ListKinds /\ <<j>> \in Seq(ListIds)
        /\ ElementsOf(<<j>>) \cap pending = {}
        /\ DOMAIN <<j>> = {1} /\ <<j>>[1] = j
    BY <1>1, ConstantsAssumption DEF ElementsOf
  <2>2. /\ \A n \in DOMAIN <<j>> : ListKind[<<j>>[n]] = ListKind[j]
        /\ \A m, n \in DOMAIN <<j>> : <<j>>[m] = <<j>>[n] => m = n
    BY <2>1
  <2> QED BY Zenon, <1>1, <2>1, <2>2
<1>2. CASE Enqueue
  <2>1. ASSUME NEW i \in IngestIds, NEW s \in Scores, ZaddIngest(i, s)
        PROVE  UNCHANGED <<list, pending, shList, shPending>>
    BY Zenon, <2>1 DEF ZaddIngest
  <2>2. ASSUME NEW j \in ListIds, EnqueueList(j) PROVE Goal
    BY Zenon, <1>1, <2>2 DEF EnqueueList
  <2> HIDE DEF Goal
  <2> QED BY Zenon, <1>2, <2>1, <2>2 DEF Enqueue, Goal
<1>3. ASSUME NEW c \in held, RequeueList(c) PROVE Goal
  <2>1. c.job \in ListIds /\ inflight[c.job] # None
    BY <1>3 DEF RequeueList, Holds
  <2> QED BY ZenonT(30), <1>0, <1>1, <1>3, <2>1 DEF RequeueList
<1>4. ASSUME NEW k \in ListKinds, ReapList(k) PROVE Goal
  <2>1. PICK S \in SUBSET {j \in ListIds : ListKind[j] = k} :
          /\ Reapable({j \in ListIds : ListKind[j] = k}, S)
          /\ \E s \in Orders(S) : ListAppend(k, s)
    BY Zenon, <1>4 DEF ReapList
  <2>2. PICK s \in Orders(S) : ListAppend(k, s)
    BY Zenon, <2>1
  <2>3. Cardinality(S) \in Nat
    <3>1. S \in SUBSET ListIds
      BY Zenon
    <3> QED BY <3>1, ConstantsAssumption, FS_Subset, FS_CardinalityType, Zenon
  <2>4. /\ s \in [1 .. Cardinality(S) -> S]
        /\ \A m, n \in 1 .. Cardinality(S) : s[m] = s[n] => m = n
    BY Zenon DEF Orders
  <2>5. s \in Seq(ListIds) /\ DOMAIN s = 1 .. Cardinality(S)
    BY <2>3, <2>4
  <2>6. \A j \in S : j \notin pending /\ ListKind[j] = k
    BY <1>0, <2>1, Zenon DEF Reapable, Due
  <2>7. ElementsOf(s) \cap pending = {} /\ \A n \in DOMAIN s : ListKind[s[n]] = k
    <3>1. \A n \in DOMAIN s : s[n] \in S
      BY Zenon, <2>4, <2>5
    <3> QED BY Zenon, <2>6, <3>1 DEF ElementsOf
  <2>8. \A m, n \in DOMAIN s : s[m] = s[n] => m = n
    BY <2>4, <2>5
  <2> QED BY Zenon, <2>2, <2>5, <2>7, <2>8
<1>5. ASSUME NEW c \in held, Ack(c) PROVE UNCHANGED <<list, pending, shList, shPending>>
  <2>1. inflight[c.job] # None /\ c.job \in Jobs
    BY Zenon, <1>5 DEF Ack, Holds, TypeOK, Claims, Jobs
  <2>2. c.job \notin pending
    BY Zenon, <1>0, <2>1, ConstantsAssumption DEF Jobs, TypeOK
  <2> QED BY Zenon, <1>5, <2>2 DEF Ack, shadowVars
<1>6. ASSUME NEW c \in held, DropClaim(c) \/ BumpAttempt(c) \/ \E s : RequeueIngest(c, s)
      PROVE  UNCHANGED <<list, pending, shList, shPending>>
  <2>1. CASE DropClaim(c)
    BY <2>1, Zenon DEF DropClaim, queueVars, shadowVars
  <2>2. CASE BumpAttempt(c)
    BY <2>2 DEF BumpAttempt, queueVars
  <2>3. ASSUME NEW s, RequeueIngest(c, s)
        PROVE  UNCHANGED <<list, pending, shList, shPending>>
    <3>1. UNCHANGED <<list, pending, attempt, shList, shPending, writerVars, minted>>
      BY Zenon, <2>3 DEF RequeueIngest
    <3> QED BY Zenon, <3>1
  <2> QED BY Zenon, <1>6, <2>1, <2>2, <2>3
<1>7. ASSUME NEW b \in Bands, NEW n \in 1 .. MaxBatch, ClaimIngest(b, n)
      PROVE  UNCHANGED <<list, pending, shList, shPending>>
  BY <1>7, Zenon DEF ClaimIngest
<1>8. ASSUME NEW j \in Jobs, TimePasses(j) \/ ExtendInflightDeadline(j)
      PROVE  UNCHANGED <<list, pending, shList, shPending>>
  BY <1>8 DEF TimePasses, ExtendInflightDeadline, queueVars, shadowVars
<1>9. CASE ReapIngest \/ RequestForce \/ Writer
  BY Zenon, <1>9 DEF ReapIngest, RequestForce, Writer, WriterWake, WriterCopy, WriterSave,
              WriterSaveFails, WriterMarkClean, WriterDone, queueVars, shadowVars
<1> HIDE DEF Goal
<1>10. Goal \/ UNCHANGED <<list, pending, shList, shPending>>
            \/ (\E k \in ListKinds : ClaimList(k) \/ ReorderList(k)) \/ Restart
  <2>1. CASE Claim
    BY <1>7, <2>1 DEF Claim
  <2>2. CASE Finish
    BY Zenon, <1>3, <1>5, <1>6, <2>2 DEF Finish
  <2>3. CASE Deadlines
    BY Zenon, <1>4, <1>8, <1>9, <2>3 DEF Deadlines, Goal
  <2>4. CASE Enqueue
    BY Zenon, <1>2, <2>4 DEF Goal
  <2>5. CASE RequestForce \/ Writer
    BY Zenon, <1>9, <2>5 DEF Goal
  <2> QED BY <2>1, <2>2, <2>3, <2>4, <2>5, Zenon DEF Next
<1> QED BY <1>10, Zenon DEF Goal

LEMMA ListStep ==
  ASSUME TypeOK, ListsOK(list, pending), Queued \cap Inflight = {}, DocOK(disk),
         shList = list, shPending = pending, Next
  PROVE  ListsOK(list', pending') /\ shList' = list' /\ shPending' = pending'
<1>0. list \in [ListKinds -> Seq(ListIds)] /\ pending \in SUBSET ListIds
  BY DEF TypeOK
<1>1. CASE UNCHANGED <<list, pending, shList, shPending>>
  BY Zenon, <1>1
<1>2. ASSUME NEW k \in ListKinds, NEW s \in Seq(ListIds), ListAppend(k, s),
             ElementsOf(s) \cap pending = {},
             \A n \in DOMAIN s : ListKind[s[n]] = k,
             \A m, n \in DOMAIN s : s[m] = s[n] => m = n
      PROVE  ListsOK(list', pending') /\ shList' = list' /\ shPending' = pending'
  <2>1. ListsOK([list EXCEPT ![k] = @ \o s], pending \cup ElementsOf(s))
    BY Zenon, <1>0, <1>2, AppendOK
  <2> QED BY <1>2, <2>1, Zenon DEF ListAppend
<1>3. ASSUME NEW k \in ListKinds, ClaimList(k)
      PROVE  ListsOK(list', pending') /\ shList' = list' /\ shPending' = pending'
  <2>1. PICK n \in DOMAIN list[k] :
          /\ list' = [list EXCEPT ![k] = SubSeq(@, n + 1, Len(@))]
          /\ pending' = pending \ {list[k][m] : m \in 1 .. n}
          /\ shList' = [shList EXCEPT ![k] = SubSeq(@, n + 1, Len(@))]
          /\ shPending' = shPending \ {list[k][m] : m \in 1 .. n}
    BY Zenon, <1>3 DEF ClaimList
  <2>2. ListsOK([list EXCEPT ![k] = SubSeq(@, n + 1, Len(@))],
                pending \ {list[k][m] : m \in 1 .. n})
    BY Zenon, <1>0, DropOK
  <2> QED BY <2>1, <2>2
<1>4. ASSUME NEW k \in ListKinds, ReorderList(k)
      PROVE  ListsOK(list', pending') /\ shList' = list' /\ shPending' = pending'
  <2>1. PICK s \in Orders(ElementsOf(list[k])) :
          /\ list' = [list EXCEPT ![k] = s] /\ shList' = [shList EXCEPT ![k] = s]
          /\ UNCHANGED <<pending, shPending>>
    BY Zenon, <1>4 DEF ReorderList
  <2>2. ListsOK([list EXCEPT ![k] = s], pending)
    BY Zenon, <1>0, ReorderOK
  <2> QED BY <2>1, <2>2
<1>5. CASE Restart
  BY <1>5, Zenon DEF Restart, DocOK
<1> QED BY ZenonT(30), ListEffects, <1>1, <1>2, <1>3, <1>4, <1>5

=============================================================================
