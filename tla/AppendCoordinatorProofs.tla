----------------------- MODULE AppendCoordinatorProofs -----------------------
(***************************************************************************)
(* The safety invariants of AppendCoordinator for any finite set of files   *)
(* on any days, any batch size, number of workers, capacities and numbers    *)
(* of attempts, faults and restarts: the inductive invariant, what the       *)
(* operators on claims and lists do, then the steps that run beside the      *)
(* coordinator (ingest, discovery, the clock, the archive workers), and the  *)
(* steps of the coordinator, of the main thread and of a restart.            *)
(***************************************************************************)
EXTENDS AppendCoordinator, FiniteSetTheorems, TLAPS

ClaimSet == [file : Files, owner : Tokens]
Stages == {"none", "run", "gated", "gate", "soft", "fail", "ok"}
FlightSet == [jobs : Seq(ClaimSet), st : Stages, hand : SUBSET Files]
Threads == {"append", "ingest"}

\* TypeOK with the sequences typed as such, and the bound of the dead-letter
\* document for the drafts too.
FileTypes ==
  /\ raw \subseteq Files /\ db \subseteq Files /\ arch \subseteq Files
  /\ ing \in [Files -> {"none", "queued", "marked", "queuedAppend", "dead"}]
StoreTypes ==
  /\ list \in Seq(Files) /\ owner \in [Files -> {0} \cup Tokens]
  /\ attempt \in [Files -> 0 .. MaxAttempts - 1] /\ left \in [Days -> Nat]
HandTypes ==
  /\ parked \in [Days -> Seq(ClaimSet)] /\ flight \in [Days -> FlightSet] /\ cur \in FlightSet
LoopTypes ==
  /\ pc \in {"top", "fill", "drain", "reap", "done", "exited", "dead"}
  /\ skipped \in 0 .. SkipBudget /\ todo \subseteq Days
DeadTypes ==
  /\ doc \in Seq(Threads \X Files) /\ Len(doc) <= DeadMax
  /\ draft \in [Threads -> Seq(Threads \X Files)]
  /\ \A t \in Threads : Len(draft[t]) <= DeadMax
Types == FileTypes /\ StoreTypes /\ HandTypes /\ LoopTypes /\ DeadTypes

\* A sequence of claims has no file twice.
Distinct(s) == \A m, n \in DOMAIN s : s[m].file = s[n].file => m = n

\* A file has one place in the coordinator's hands: parked or in the batch of its
\* own day, or in the result at hand.
Places ==
  /\ \A d \in Days : Distinct(parked[d]) /\ Distinct(flight[d].jobs)
  /\ Distinct(cur.jobs)
  /\ \A d \in Days : \A f \in FilesOf(parked[d]) :
       DayOf[f] = d /\ f \notin FilesOf(flight[d].jobs) /\ f \notin FilesOf(cur.jobs)
  /\ \A d \in Days : \A f \in FilesOf(flight[d].jobs) : DayOf[f] = d /\ f \notin FilesOf(cur.jobs)
  /\ \A d \in Days : flight[d].st = "none" => flight[d].jobs = <<>>
  /\ cur.st = "none" => cur.jobs = <<>>
  /\ Alive /\ pc # "drain" => cur.st = "none"

\* Queued, or leased and in somebody's hands, and only leases fall due.
Leases ==
  /\ Alive => \A c \in Held : LeasedTo(c)
  /\ IsInjective(list)
  /\ Alive => \A f \in Range(list) : owner[f] = 0
  /\ Alive => \A f \in Files : owner[f] # 0 => \E c \in Held : c.file = f
  /\ due \subseteq {f \in Files : owner[f] # 0}

IInv == Types /\ Places /\ Leases /\ BatchesGivenBack

-----------------------------------------------------------------------------
(* Sequences of claims.                                                      *)

LEMMA ConstantFacts ==
  /\ Batch \in Nat \ {0} /\ Cap \in Nat \ {0} /\ SkipBudget \in Nat \ {0}
  /\ ListCap \in Nat \ {0} /\ MaxAttempts \in Nat \ {0} /\ DeadMax \in Nat \ {0}
  /\ IsFiniteSet(Files) /\ Cardinality(Files) \in Nat
  /\ \A f \in Files : DayOf[f] \in Days
  /\ 0 \notin Tokens
BY AppendAssumption, FS_CardinalityType DEF AppendAssumption, Tokens

LEMMA AtMostOne ==
  ASSUME NEW S, NEW b, S \subseteq {b}
  PROVE  Cardinality(S) <= 1
<1>1. IsFiniteSet({b}) /\ Cardinality({b}) = 1
  BY FS_Singleton, Zenon
<1> QED
  BY <1>1, FS_Subset

\* The files of a sequence of claims are the files of the claims in it.
LEMMA ClaimsOf ==
  ASSUME NEW s \in Seq(ClaimSet)
  PROVE  /\ FilesOf(s) = {c.file : c \in Range(s)}
         /\ Range(s) \subseteq ClaimSet /\ FilesOf(s) \subseteq Files
<1>1. FilesOf(s) = {c.file : c \in Range(s)}
  BY Zenon DEF FilesOf, Range
<1>2. Range(s) \subseteq ClaimSet
  BY DEF Range
<1>3. \A c \in ClaimSet : c.file \in Files
  BY DEF ClaimSet
<1> QED
  BY <1>1, <1>2, <1>3

LEMMA NoClaims ==
  /\ Range(<<>>) = {} /\ FilesOf(<<>>) = {} /\ Distinct(<<>>)
  /\ <<>> \in Seq(ClaimSet) /\ NoFlight \in FlightSet
  /\ NoFlight.jobs = <<>> /\ NoFlight.st = "none"
BY DEF Range, FilesOf, Distinct, NoFlight, FlightSet, Stages

\* Facts about numbers and sequences, apart from any state.
LEMMA Numbers ==
  /\ \A n \in Nat : 0 \in 0 .. n
  /\ \A n \in Nat, u \in Nat : u <= n => ~(n + 1 <= u)
  /\ \A m \in Nat, n \in Nat : (IF m < n THEN m ELSE n) \in 0 .. m
  /\ \A n \in Nat \ {0} : \A m \in 0 .. n - 1 : ~(m + 1 >= n) => m + 1 \in 0 .. n - 1
OBVIOUS

LEMMA ListAsFunction == \A s \in Seq(Files) : s \in [DOMAIN s -> Files]
OBVIOUS

LEMMA ClaimLengths ==
  \A s \in Seq(ClaimSet) : Len(s) \in Nat /\ (Len(s) = 1 => Tail(s) = <<>>)
<1> SUFFICES ASSUME NEW s \in Seq(ClaimSet)
             PROVE  Len(s) \in Nat /\ (Len(s) = 1 => Tail(s) = <<>>)
  BY Zenon
<1>1. \A t \in Seq(ClaimSet) : Len(t) = 0 => t = <<>>
  OBVIOUS
<1>2. Len(s) \in Nat
  OBVIOUS
<1>3. ASSUME Len(s) = 1
      PROVE  Tail(s) = <<>>
  <2>1. s # <<>>
    BY <1>3
  <2>2. Tail(s) \in Seq(ClaimSet) /\ Len(Tail(s)) = Len(s) - 1
    BY <2>1
  <2>3. Len(Tail(s)) = 0
    BY <1>3, <2>2
  <2> QED
    BY Zenon, <1>1, <2>2, <2>3
<1> QED
  BY Zenon, <1>2, <1>3

LEMMA TailClaims ==
  ASSUME NEW s \in Seq(ClaimSet), s # <<>>, Distinct(s)
  PROVE  /\ Tail(s) \in Seq(ClaimSet) /\ Distinct(Tail(s)) /\ Head(s) \in Range(s)
         /\ Head(s) \in ClaimSet
         /\ Range(s) = Range(Tail(s)) \cup {Head(s)}
         /\ FilesOf(s) = FilesOf(Tail(s)) \cup {Head(s).file}
         /\ Head(s).file \notin FilesOf(Tail(s))
<1>1. /\ Len(s) \in Nat \ {0} /\ DOMAIN s = 1 .. Len(s) /\ Head(s) = s[1]
      /\ Tail(s) \in Seq(ClaimSet) /\ Len(Tail(s)) = Len(s) - 1
      /\ DOMAIN Tail(s) = 1 .. Len(s) - 1
      /\ \A n \in 1 .. Len(s) - 1 : Tail(s)[n] = s[n + 1]
  OBVIOUS
<1>2. \A n \in DOMAIN s : n = 1 \/ (n - 1 \in DOMAIN Tail(s) /\ Tail(s)[n - 1] = s[n])
  BY <1>1
<1>3. \A n \in DOMAIN Tail(s) : n + 1 \in DOMAIN s /\ n + 1 # 1 /\ Tail(s)[n] = s[n + 1]
  BY <1>1
<1>4. 1 \in DOMAIN s
  BY <1>1
<1>5. Range(s) = Range(Tail(s)) \cup {Head(s)}
  <2>1. \A n \in DOMAIN s : s[n] \in Range(Tail(s)) \cup {Head(s)}
    BY Zenon, <1>1, <1>2 DEF Range
  <2>2. \A n \in DOMAIN Tail(s) : Tail(s)[n] \in Range(s)
    BY Zenon, <1>3 DEF Range
  <2>3. Head(s) \in Range(s)
    BY Zenon, <1>1, <1>4 DEF Range
  <2> QED
    BY Zenon, <2>1, <2>2, <2>3 DEF Range
<1>6. FilesOf(s) = FilesOf(Tail(s)) \cup {Head(s).file}
  <2>1. /\ FilesOf(s) = {c.file : c \in Range(s)}
        /\ FilesOf(Tail(s)) = {c.file : c \in Range(Tail(s))}
    BY <1>1, ClaimsOf, Zenon
  <2> QED
    BY <2>1, <1>5, Zenon
<1>7. Distinct(Tail(s))
  BY <1>1, <1>3 DEF Distinct
<1>8. Head(s).file \notin FilesOf(Tail(s))
  BY <1>1, <1>3, <1>4 DEF Distinct, FilesOf
<1>9. Head(s) \in ClaimSet
  BY <1>5, ClaimsOf
<1> QED
  BY Zenon, <1>1, <1>5, <1>6, <1>7, <1>8, <1>9

LEMMA AppendClaims ==
  ASSUME NEW s \in Seq(ClaimSet), Distinct(s), NEW c \in ClaimSet, c.file \notin FilesOf(s)
  PROVE  /\ Append(s, c) \in Seq(ClaimSet) /\ Distinct(Append(s, c))
         /\ Range(Append(s, c)) = Range(s) \cup {c}
         /\ FilesOf(Append(s, c)) = FilesOf(s) \cup {c.file}
<1> DEFINE t == Append(s, c)
<1>1. /\ t \in Seq(ClaimSet) /\ Len(s) \in Nat /\ DOMAIN s = 1 .. Len(s)
      /\ DOMAIN t = 1 .. Len(s) + 1 /\ t[Len(s) + 1] = c
      /\ \A n \in 1 .. Len(s) : t[n] = s[n]
  OBVIOUS
<1> HIDE DEF t
<1>2. /\ DOMAIN t = DOMAIN s \cup {Len(s) + 1} /\ Len(s) + 1 \notin DOMAIN s
      /\ \A n \in DOMAIN s : t[n] = s[n]
  BY <1>1
<1>3. Range(t) = Range(s) \cup {c}
  BY <1>1, <1>2 DEF Range
<1>4. FilesOf(t) = FilesOf(s) \cup {c.file}
  BY <1>1, <1>2 DEF FilesOf
<1>5. Distinct(t)
  BY <1>1, <1>2 DEF Distinct, FilesOf
<1> QED
  BY <1>1, <1>3, <1>4, <1>5 DEF t

\* A sequence of claims cut in two.
LEMMA SplitClaims ==
  ASSUME NEW s \in Seq(ClaimSet), Distinct(s), NEW k \in 0 .. Len(s)
  PROVE  LET a == SubSeq(s, 1, k)
             b == SubSeq(s, k + 1, Len(s))
         IN /\ a \in Seq(ClaimSet) /\ b \in Seq(ClaimSet) /\ Distinct(a) /\ Distinct(b)
            /\ Range(s) = Range(a) \cup Range(b)
            /\ FilesOf(s) = FilesOf(a) \cup FilesOf(b)
            /\ FilesOf(a) \cap FilesOf(b) = {}
<1> DEFINE a == SubSeq(s, 1, k)
           b == SubSeq(s, k + 1, Len(s))
<1>1. Len(s) \in Nat /\ DOMAIN s = 1 .. Len(s) /\ k \in Nat /\ k <= Len(s)
  OBVIOUS
<1>2. /\ a \in Seq(ClaimSet) /\ DOMAIN a = 1 .. k
      /\ \A n \in 1 .. k : a[n] = s[n]
  BY <1>1
<1>3. /\ b \in Seq(ClaimSet) /\ DOMAIN b = 1 .. Len(s) - k
      /\ \A n \in 1 .. Len(s) - k : b[n] = s[n + k]
  BY <1>1
<1> HIDE DEF a, b
<1>4. \A n \in DOMAIN a : n \in DOMAIN s /\ n <= k /\ a[n] = s[n]
  BY <1>1, <1>2
<1>5. \A n \in DOMAIN b : n + k \in DOMAIN s /\ n + k > k /\ b[n] = s[n + k]
  BY <1>1, <1>3
<1>6. \A n \in DOMAIN s : \/ n \in DOMAIN a /\ a[n] = s[n]
                          \/ n - k \in DOMAIN b /\ b[n - k] = s[n]
  BY <1>1, <1>2, <1>3
<1>7. Range(s) = Range(a) \cup Range(b)
  BY <1>4, <1>5, <1>6 DEF Range
<1>8. FilesOf(s) = FilesOf(a) \cup FilesOf(b)
  BY <1>4, <1>5, <1>6 DEF FilesOf
<1>9. Distinct(a)
  BY <1>4 DEF Distinct
<1>10. Distinct(b)
  BY <1>1, <1>3, <1>5 DEF Distinct
<1>11. FilesOf(a) \cap FilesOf(b) = {}
  BY <1>1, <1>2, <1>3, <1>4, <1>5 DEF Distinct, FilesOf
<1> QED
  BY Zenon, <1>2, <1>3, <1>7, <1>8, <1>9, <1>10, <1>11 DEF a, b

-----------------------------------------------------------------------------
(* The list.                                                                 *)

LEMMA TailList ==
  ASSUME NEW s \in Seq(Files), s # <<>>, IsInjective(s)
  PROVE  /\ Tail(s) \in Seq(Files) /\ IsInjective(Tail(s)) /\ Head(s) \in Files
         /\ Head(s) \in Range(s)
         /\ Range(Tail(s)) = Range(s) \ {Head(s)}
<1>1. /\ Len(s) \in Nat \ {0} /\ DOMAIN s = 1 .. Len(s) /\ Head(s) = s[1]
      /\ Tail(s) \in Seq(Files) /\ DOMAIN Tail(s) = 1 .. Len(s) - 1
      /\ \A n \in 1 .. Len(s) - 1 : Tail(s)[n] = s[n + 1]
  OBVIOUS
<1>2. \A n \in DOMAIN s : n = 1 \/ (n - 1 \in DOMAIN Tail(s) /\ Tail(s)[n - 1] = s[n])
  BY <1>1
<1>3. \A n \in DOMAIN Tail(s) : n + 1 \in DOMAIN s /\ n + 1 # 1 /\ Tail(s)[n] = s[n + 1]
  BY <1>1
<1>4. 1 \in DOMAIN s /\ s[1] \in Files
  BY <1>1
<1>5. Range(Tail(s)) = Range(s) \ {Head(s)}
  BY <1>1, <1>2, <1>3, <1>4 DEF Range, IsInjective
<1>6. IsInjective(Tail(s))
  BY <1>1, <1>3 DEF IsInjective
<1> QED
  BY <1>1, <1>4, <1>5, <1>6, Zenon DEF Range

LEMMA AppendList ==
  ASSUME NEW s \in Seq(Files), IsInjective(s), NEW f \in Files, f \notin Range(s)
  PROVE  /\ Append(s, f) \in Seq(Files) /\ IsInjective(Append(s, f))
         /\ Range(Append(s, f)) = Range(s) \cup {f}
<1> DEFINE t == Append(s, f)
<1>1. /\ t \in Seq(Files) /\ Len(s) \in Nat /\ DOMAIN s = 1 .. Len(s)
      /\ DOMAIN t = 1 .. Len(s) + 1 /\ t[Len(s) + 1] = f
      /\ \A n \in 1 .. Len(s) : t[n] = s[n]
  OBVIOUS
<1> HIDE DEF t
<1>2. /\ DOMAIN t = DOMAIN s \cup {Len(s) + 1} /\ Len(s) + 1 \notin DOMAIN s
      /\ \A n \in DOMAIN s : t[n] = s[n]
  BY <1>1
<1>3. Range(t) = Range(s) \cup {f}
  BY <1>1, <1>2 DEF Range
<1>4. IsInjective(t)
  BY <1>1, <1>2 DEF IsInjective, Range
<1> QED
  BY <1>1, <1>3, <1>4 DEF t

\* Files in any order, each once.
LEMMA Ordered ==
  ASSUME NEW S \in SUBSET Files, NEW s \in InSomeOrder(S)
  PROVE  s \in Seq(Files) /\ IsInjective(s) /\ Range(s) \subseteq S
<1>1. IsFiniteSet(S) /\ Cardinality(S) \in Nat
  BY ConstantFacts, FS_Subset, FS_CardinalityType
<1>2. s \in [1 .. Cardinality(S) -> S] /\ IsInjective(s)
  BY DEF InSomeOrder, Injection
<1>3. s \in Seq(Files)
  BY <1>1, <1>2
<1> QED
  BY <1>2, <1>3 DEF Range

LEMMA ConcatList ==
  ASSUME NEW s \in Seq(Files), IsInjective(s), NEW t \in Seq(Files), IsInjective(t),
         Range(s) \cap Range(t) = {}
  PROVE  /\ s \o t \in Seq(Files) /\ IsInjective(s \o t)
         /\ Range(s \o t) = Range(s) \cup Range(t)
<1> DEFINE u == s \o t
<1>1. /\ u \in Seq(Files) /\ Len(s) \in Nat /\ Len(t) \in Nat
      /\ DOMAIN s = 1 .. Len(s) /\ DOMAIN t = 1 .. Len(t)
      /\ DOMAIN u = 1 .. Len(s) + Len(t)
      /\ \A n \in 1 .. Len(s) : u[n] = s[n]
      /\ \A n \in 1 .. Len(t) : u[n + Len(s)] = t[n]
  OBVIOUS
<1> HIDE DEF u
<1>2. \A n \in DOMAIN u : \/ n \in DOMAIN s /\ u[n] = s[n]
                          \/ n - Len(s) \in DOMAIN t /\ u[n] = t[n - Len(s)]
  BY <1>1
<1>3. /\ \A n \in DOMAIN s : n \in DOMAIN u /\ u[n] = s[n]
      /\ \A n \in DOMAIN t : n + Len(s) \in DOMAIN u /\ u[n + Len(s)] = t[n]
  BY <1>1
<1>4. Range(u) = Range(s) \cup Range(t)
  BY <1>2, <1>3 DEF Range
<1>5. ASSUME NEW m \in DOMAIN u, NEW n \in DOMAIN u, u[m] = u[n]
      PROVE  m = n
  <2>1. CASE m \in DOMAIN s /\ n \in DOMAIN s
    BY Zenon, <2>1, <1>3, <1>5 DEF IsInjective
  <2>2. CASE m \notin DOMAIN s /\ n \notin DOMAIN s
    <3>1. m - Len(s) = n - Len(s)
      BY <2>2, <1>2, <1>5 DEF IsInjective
    <3> QED
      BY <3>1, <1>1
  <2>3. CASE m \in DOMAIN s /\ n \notin DOMAIN s
    <3>1. u[m] \in Range(s) /\ u[n] \in Range(t)
      BY <2>3, <1>2 DEF Range
    <3> QED
      BY <3>1, <1>5
  <2>4. CASE m \notin DOMAIN s /\ n \in DOMAIN s
    <3>1. u[m] \in Range(t) /\ u[n] \in Range(s)
      BY <2>4, <1>2 DEF Range
    <3> QED
      BY <3>1, <1>5
  <2> QED
    BY Zenon, <2>1, <2>2, <2>3, <2>4
<1> QED
  BY Zenon, <1>1, <1>4, <1>5 DEF u, IsInjective

-----------------------------------------------------------------------------
(* The claims in hand.                                                       *)

\* The files in somebody's hands: what Places keeps apart.
Away(d) == FilesOf(parked[d]) \cup FilesOf(flight[d].jobs)

LEMMA InHeld ==
  \A c : c \in Held <=> \/ c \in Range(cur.jobs)
                        \/ \E d \in Days : c \in Range(parked[d]) \/ c \in Range(flight[d].jobs)
<1> DEFINE A(d) == Range(parked[d]) \cup Range(flight[d].jobs)
<1>1. \A d, c : c \in A(d) <=> c \in Range(parked[d]) \/ c \in Range(flight[d].jobs)
  OBVIOUS
<1>2. Held = Range(cur.jobs) \cup UNION {A(d) : d \in Days}
  BY DEF Held
<1> HIDE DEF A
<1> QED
  BY <1>1, <1>2

LEMMA InHeldNext ==
  \A c : c \in Held' <=> \/ c \in Range(cur'.jobs)
                         \/ \E d \in Days : c \in Range(parked'[d]) \/ c \in Range(flight'[d].jobs)
<1> DEFINE A(d) == Range(parked'[d]) \cup Range(flight'[d].jobs)
<1>1. \A d, c : c \in A(d) <=> c \in Range(parked'[d]) \/ c \in Range(flight'[d].jobs)
  OBVIOUS
<1>2. Held' = Range(cur'.jobs) \cup UNION {A(d) : d \in Days}
  BY DEF Held
<1> HIDE DEF A
<1> QED
  BY <1>1, <1>2

\* What a step leaves alone keeps its type.
LEMMA TypesKept ==
  /\ FileTypes /\ UNCHANGED <<fileVars, ing>> => FileTypes'
  /\ StoreTypes /\ UNCHANGED <<list, owner, attempt, left>> => StoreTypes'
  /\ HandTypes /\ UNCHANGED <<parked, flight, cur>> => HandTypes'
  /\ LoopTypes /\ UNCHANGED <<pc, skipped, todo>> => LoopTypes'
  /\ DeadTypes /\ UNCHANGED deadVars => DeadTypes'
<1>1. FileTypes /\ UNCHANGED <<fileVars, ing>> => FileTypes'
  BY DEF FileTypes, fileVars
<1>2. StoreTypes /\ UNCHANGED <<list, owner, attempt, left>> => StoreTypes'
  BY DEF StoreTypes
<1>3. HandTypes /\ UNCHANGED <<parked, flight, cur>> => HandTypes'
  BY DEF HandTypes
<1>4. LoopTypes /\ UNCHANGED <<pc, skipped, todo>> => LoopTypes'
  BY DEF LoopTypes
<1>5. DeadTypes /\ UNCHANGED deadVars => DeadTypes'
  BY DEF DeadTypes, deadVars
<1> QED
  BY Zenon, <1>1, <1>2, <1>3, <1>4, <1>5

LEMMA JobTypes ==
  ASSUME Types
  PROVE  /\ \A d \in Days : /\ parked[d] \in Seq(ClaimSet) /\ flight[d] \in FlightSet
                            /\ flight[d].jobs \in Seq(ClaimSet)
         /\ cur \in FlightSet /\ cur.jobs \in Seq(ClaimSet)
<1>1. \A x \in FlightSet : x.jobs \in Seq(ClaimSet)
  BY DEF FlightSet
<1> QED
  BY <1>1 DEF Types, HandTypes

LEMMA HeldFacts ==
  ASSUME Types
  PROVE  /\ Held \subseteq ClaimSet
         /\ \A d \in Days : /\ Range(parked[d]) \subseteq Held
                            /\ Range(flight[d].jobs) \subseteq Held
         /\ Range(cur.jobs) \subseteq Held
         /\ \A c \in Held : c.file \in FilesOf(cur.jobs) \/ \E d \in Days : c.file \in Away(d)
         /\ \A c \in ClaimSet : c.file \in Files /\ c.owner \in Tokens /\ c.owner # 0
<1>4. \A s \in Seq(ClaimSet) : \A c \in Range(s) : c \in ClaimSet /\ c.file \in FilesOf(s)
  BY ClaimsOf
<1>5. \A c \in ClaimSet : c.file \in Files /\ c.owner \in Tokens /\ c.owner # 0
  BY ConstantFacts DEF ClaimSet
<1> QED
  BY Zenon, <1>4, <1>5, JobTypes, InHeld DEF Away

\* A file in somebody's hands is leased.
LEMMA AwayIsLeased ==
  ASSUME Types, Leases, Alive
  PROVE  /\ \A d \in Days : \A f \in Away(d) : f \in Files /\ owner[f] # 0
         /\ \A f \in FilesOf(cur.jobs) : f \in Files /\ owner[f] # 0
<1>1. \A c \in Held : c.file \in Files /\ owner[c.file] # 0
  BY HeldFacts DEF Leases, LeasedTo
<1>4. \A s \in Seq(ClaimSet) : \A f \in FilesOf(s) : \E c \in Range(s) : c.file = f
  BY ClaimsOf
<1>5. /\ \A d \in Days : Range(parked[d]) \subseteq Held /\ Range(flight[d].jobs) \subseteq Held
      /\ Range(cur.jobs) \subseteq Held
  BY HeldFacts
<1> QED
  <2>1. \A s \in Seq(ClaimSet) : Range(s) \subseteq Held =>
          \A f \in FilesOf(s) : f \in Files /\ owner[f] # 0
    <3> SUFFICES ASSUME NEW s \in Seq(ClaimSet), Range(s) \subseteq Held, NEW f \in FilesOf(s)
                 PROVE  f \in Files /\ owner[f] # 0
      BY Zenon
    <3>1. PICK c \in Range(s) : c.file = f
      BY Zenon, <1>4
    <3>2. c.file \in Files /\ owner[c.file] # 0
      BY Zenon, <1>1
    <3> QED
      BY Zenon, <3>1, <3>2
  <2> QED
    BY Zenon, <1>5, <2>1, JobTypes DEF Away

\* A step that moves no claim keeps the places.
LEMMA NothingMoves ==
  ASSUME Places, parked' = parked, cur'.jobs = cur.jobs, cur'.st = cur.st,
         \A d \in Days : flight'[d].jobs = flight[d].jobs,
         \A d \in Days : flight'[d].st = "none" => flight[d].st = "none",
         Alive' /\ pc' # "drain" => cur.st = "none"
  PROVE  Places' /\ Held' = Held
<1>1. Places'
  BY DEF Places
<1>2. \A c : c \in Held' <=> c \in Held
  BY Zenon, InHeld, InHeldNext
<1> QED
  BY Zenon, <1>1, <1>2

\* A step that moves no claim and leaves the store alone.
LEMMA QuietStep ==
  ASSUME IInv, Alive, Types', UNCHANGED <<parked, cur, list, owner, due>>,
         \A d \in Days : flight'[d].jobs = flight[d].jobs,
         \A d \in Days : flight'[d].st = "none" => flight[d].st = "none",
         pc' # "exited", pc' = pc \/ pc' = "drain" \/ cur.st = "none"
  PROVE  IInv'
<1>1. Alive' /\ pc' # "drain" => cur.st = "none"
  BY DEF IInv, Places
<1>2. Places' /\ Held' = Held
  BY Zenon, <1>1, NothingMoves DEF IInv
<1>3. Leases'
  BY <1>2 DEF IInv, Leases, LeasedTo
<1> QED
  BY Zenon, <1>2, <1>3 DEF IInv, BatchesGivenBack

\* A producer queues a job that the store accepts.
LEMMA EnqueueStep ==
  ASSUME IInv, Alive, Types', NEW f \in Files, Accepts(f), Enqueue(f),
         UNCHANGED <<parked, flight, pc>>, cur'.jobs = cur.jobs, cur'.st = cur.st
  PROVE  IInv'
<1>1. Alive' /\ pc' # "drain" => cur.st = "none"
  BY DEF IInv, Places, Alive
<1>2. Places' /\ Held' = Held
  BY Zenon, <1>1, NothingMoves DEF IInv
<1>3. list \in Seq(Files) /\ IsInjective(list) /\ f \notin Range(list) /\ owner[f] = 0
  BY DEF IInv, Types, StoreTypes, Leases, Accepts
<1>4. IsInjective(list') /\ Range(list') = Range(list) \cup {f}
  BY Zenon, <1>3, AppendList DEF Enqueue
<1>5. owner' = owner /\ due' = due
  BY Zenon DEF Enqueue
<1>6. Leases'
  BY Zenon, <1>2, <1>3, <1>4, <1>5 DEF IInv, Leases, LeasedTo, Alive
<1> QED
  BY Zenon, <1>2, <1>6 DEF IInv, BatchesGivenBack, Alive

LEMMA NoteLeftFact ==
  ASSUME Types, NEW d, NEW up, NoteLeft(d, up)
  PROVE  left' \in [Days -> Nat]
<1>1. left \in [Days -> Nat]
  BY DEF Types, StoreTypes
<1>2. \A n \in Nat : n + 1 \in Nat /\ (n = 0 \/ n - 1 \in Nat)
  OBVIOUS
<1> QED
  BY <1>1, <1>2, Zenon DEF NoteLeft

\* A draft fits the document.
LEMMA LoadFact ==
  ASSUME Types, NEW t \in Threads, NEW f \in Files, Load(t, f)
  PROVE  doc' = doc => DeadTypes'
<1> DEFINE s == Append(doc, <<t, f>>)
<1>1. s \in Seq(Threads \X Files)
  BY DEF Types, DeadTypes
<1>2. draft' = [draft EXCEPT ![t] = Trim(s)]
  BY DEF Load
<1> HIDE DEF s
<1>3. Len(s) \in Nat /\ DeadMax \in Nat \ {0}
  BY <1>1, ConstantFacts
<1>4. Trim(s) \in Seq(Threads \X Files) /\ Len(Trim(s)) <= DeadMax
  <2>1. CASE Len(s) > DeadMax
    <3>1. /\ Len(s) - DeadMax + 1 \in 1 .. Len(s) + 1
          /\ Len(s) - (Len(s) - DeadMax + 1) + 1 = DeadMax
      BY <1>3, <2>1
    <3>2. /\ SubSeq(s, Len(s) - DeadMax + 1, Len(s)) \in Seq(Threads \X Files)
          /\ Len(SubSeq(s, Len(s) - DeadMax + 1, Len(s))) = DeadMax
      BY <1>1, <1>3, <2>1, <3>1
    <3> QED
      BY <2>1, <3>2, <1>3 DEF Trim
  <2>2. CASE ~(Len(s) > DeadMax)
    BY <2>2, <1>1, <1>3 DEF Trim
  <2> QED
    BY <2>1, <2>2
<1> QED
  BY <1>2, <1>4 DEF Types, DeadTypes

LEMMA SaveFact ==
  ASSUME Types, NEW t \in Threads, Save(t)
  PROVE  DeadTypes'
<1>1. draft[t] \in Seq(Threads \X Files) /\ Len(draft[t]) <= DeadMax
  BY DEF Types, DeadTypes
<1>2. doc' \in Seq(Threads \X Files) /\ Len(doc') <= DeadMax
  BY <1>1 DEF Types, DeadTypes, Save
<1>3. draft' = [draft EXCEPT ![t] = <<>>]
  BY DEF Save
<1>4. <<>> \in Seq(Threads \X Files) /\ Len(<<>>) = 0 /\ DeadMax \in Nat
  BY ConstantFacts
<1>5. draft' \in [Threads -> Seq(Threads \X Files)]
  BY Zenon, <1>3, <1>4 DEF Types, DeadTypes
<1>6. ASSUME NEW u \in Threads
      PROVE  Len(draft'[u]) <= DeadMax
  <2>1. draft'[u] = <<>> \/ draft'[u] = draft[u]
    BY <1>3 DEF Types, DeadTypes
  <2> QED
    BY <2>1, <1>4 DEF Types, DeadTypes
<1> QED
  BY Zenon, <1>2, <1>5, <1>6 DEF DeadTypes

\* There is always a token nobody holds: the claims in hand have the tokens of
\* their leases, and there are more tokens than files.
LEMMA TokenLeft ==
  ASSUME IInv, Alive
  PROVE  FreshToken \in Tokens
<1> DEFINE N == Cardinality(Files)
           used == {owner[f] : f \in Files}
<1>1. IsFiniteSet(Files) /\ N \in Nat
  BY Zenon, ConstantFacts
<1>2. IsFiniteSet(used) /\ Cardinality(used) <= N
  <2>1. owner \in Surjection(Files, used)
    BY DEF Surjection, IInv, Types, StoreTypes
  <2> QED
    BY Zenon, <1>1, <2>1, FS_Surjection
<1>3. IsFiniteSet(Tokens) /\ Cardinality(Tokens) = 2 * N + 1
  <2>1. 2 * N + 1 \in Int /\ 1 \in Int /\ ~(1 > 2 * N + 1) /\ (2 * N + 1) - 1 + 1 = 2 * N + 1
    BY <1>1
  <2>2. Tokens = 1 .. 2 * N + 1
    BY DEF Tokens
  <2> HIDE DEF N
  <2> QED
    BY Zenon, <2>1, <2>2, FS_Interval
<1>4. Cardinality(used) \in Nat
  BY Zenon, <1>2, FS_CardinalityType
<1>5. ~(Tokens \subseteq used)
  <2>1. Tokens \subseteq used => Cardinality(Tokens) <= Cardinality(used)
    BY Zenon, <1>2, FS_Subset
  <2>2. 2 * N + 1 = N + N + 1 /\ N <= N + N /\ N + N \in Nat
    BY <1>1
  <2> HIDE DEF N, used
  <2>3. Cardinality(used) <= N + N
    BY <1>1, <1>2, <1>4, <2>2
  <2> QED
    BY Zenon, <2>1, <2>2, <2>3, <1>3, <1>4, Numbers
<1>6. PICK o \in Tokens : o \notin used
  BY Zenon, <1>5
<1>7. \A c \in Held : c.owner \in used
  BY HeldFacts DEF IInv, Leases, LeasedTo
<1>8. (\A f \in Files : owner[f] # o) /\ \A c \in Held : c.owner # o
  BY Zenon, <1>6, <1>7
<1> QED
  BY Zenon, <1>6, <1>8 DEF FreshToken

-----------------------------------------------------------------------------
(* The surroundings.                                                         *)

LEMMA IngestStep ==
  ASSUME IInv, Alive, NEW f \in Files, Ingest(f) \/ IngestGivesUp(f)
  PROVE  IInv'
<1> USE DEF storeVars, loopVars, deadVars, boundVars
<1>1. Types /\ FileTypes /\ StoreTypes
  BY Zenon DEF IInv, Types
<1>2. CASE IngestMarks(f)
  <2>1. FileTypes'
    BY Zenon, <1>1, <1>2 DEF IngestMarks, FileTypes
  <2>2. Types'
    BY Zenon, <1>1, <1>2, <2>1, TypesKept DEF IngestMarks, Types
  <2> QED
    BY Zenon, <1>2, <2>2, QuietStep DEF IngestMarks, Alive
<1>3. CASE IngestEnqueues(f)
  <2>1. FileTypes'
    BY Zenon, <1>1, <1>3 DEF IngestEnqueues, FileTypes, fileVars
  <2>2. CASE Accepts(f)
    <3>1. Enqueue(f) /\ UNCHANGED <<left, parked, flight, loopVars, deadVars>>
      BY Zenon, <1>3, <2>2 DEF IngestEnqueues
    <3>2. StoreTypes'
      BY <1>1, <3>1 DEF StoreTypes, Enqueue
    <3>3. Types'
      BY <1>1, <2>1, <3>1, <3>2, TypesKept, Zenon DEF Types
    <3> QED
      BY Zenon, <2>2, <3>1, <3>3, EnqueueStep
  <2>3. CASE ~Accepts(f)
    <3>1. UNCHANGED <<storeVars, left, parked, flight, loopVars, deadVars>>
      BY Zenon, <1>3, <2>3 DEF IngestEnqueues
    <3>2. Types'
      BY Zenon, <1>1, <2>1, <3>1, TypesKept DEF Types
    <3> QED
      BY Zenon, <3>1, <3>2, QuietStep DEF Alive
  <2> QED
    BY Zenon, <2>2, <2>3
<1>4. CASE IngestNotes(f)
  <2>1. left' \in [Days -> Nat]
    BY <1>1, <1>4, NoteLeftFact, Zenon DEF IngestNotes
  <2>2. StoreTypes'
    BY ZenonT(30), <1>1, <1>4, <2>1 DEF IngestNotes, StoreTypes
  <2>3. FileTypes'
    BY <1>1, <1>4 DEF IngestNotes, FileTypes, fileVars
  <2>4. Types'
    BY <1>1, <1>4, <2>2, <2>3, TypesKept, Zenon DEF IngestNotes, Types
  <2> QED
    BY Zenon, <1>4, <2>4, QuietStep DEF IngestNotes, Alive
<1>5. CASE IngestRecords(f)
  <2>1. DeadTypes'
    BY Zenon, <1>1, <1>5, SaveFact DEF IngestRecords, Threads
  <2>2. FileTypes'
    BY Zenon, <1>1, <1>5 DEF IngestRecords, FileTypes, fileVars
  <2>3. Types'
    BY <1>1, <1>5, <2>1, <2>2, TypesKept, Zenon DEF IngestRecords, Types
  <2> QED
    BY Zenon, <1>5, <2>3, QuietStep DEF IngestRecords, Alive
<1>6. CASE IngestGivesUp(f)
  <2>1. DeadTypes'
    BY <1>1, <1>6, LoadFact, Zenon DEF IngestGivesUp, Threads
  <2>2. FileTypes'
    BY Zenon, <1>1, <1>6 DEF IngestGivesUp, FileTypes, fileVars
  <2>3. Types'
    BY ZenonT(30), <1>1, <1>6, <2>1, <2>2, TypesKept DEF IngestGivesUp, Types
  <2> QED
    BY Zenon, <1>6, <2>3, QuietStep DEF IngestGivesUp, Alive
<1> QED
  BY Zenon, <1>2, <1>3, <1>4, <1>5, <1>6 DEF Ingest

LEMMA DiscoverStep ==
  ASSUME IInv, Alive, NEW f \in Files, Discover(f)
  PROVE  IInv'
<1> USE DEF storeVars, loopVars, deadVars, boundVars
<1>1. Types /\ FileTypes /\ StoreTypes
  BY Zenon DEF IInv, Types
<1>2. UNCHANGED <<fileVars, parked, flight, loopVars, deadVars>>
  BY Zenon DEF Discover
<1>3. CASE Accepts(f) /\ Enqueue(f) /\ NoteLeft(DayOf[f], TRUE) /\ UNCHANGED ing
  <2>1. left' \in [Days -> Nat]
    BY <1>1, <1>3, NoteLeftFact, Zenon
  <2>2. StoreTypes'
    BY <1>1, <1>3, <2>1 DEF StoreTypes, Enqueue
  <2>3. Types'
    BY <1>1, <1>2, <1>3, <2>2, TypesKept, ZenonT(30) DEF Types
  <2> QED
    BY Zenon, <1>2, <1>3, <2>3, EnqueueStep
<1>4. CASE ing' = [ing EXCEPT ![f] = "queued"] /\ UNCHANGED <<storeVars, left>>
  <2>1. FileTypes'
    BY <1>1, <1>2, <1>4, Zenon DEF FileTypes, fileVars
  <2>2. Types'
    BY <1>1, <1>2, <1>4, <2>1, TypesKept, Zenon DEF Types
  <2> QED
    BY ZenonT(30), <1>2, <1>4, <2>2, QuietStep DEF Alive
<1> QED
  BY <1>3, <1>4, Zenon DEF Discover

LEMMA DeadlineStep ==
  ASSUME IInv, Alive, NEW f \in Files, Deadline(f)
  PROVE  IInv'
<1>1. UNCHANGED <<list, owner, attempt, left, parked, flight, cur, pc>> /\ due' = due \cup {f}
  BY Zenon DEF Deadline, loopVars
<1>2. Types'
  BY Zenon, TypesKept DEF Deadline, loopVars, IInv, Types
<1>3. Alive' /\ pc' # "drain" => cur.st = "none"
  BY <1>1 DEF IInv, Places, Alive
<1>4. Places' /\ Held' = Held
  BY <1>1, <1>3, NothingMoves, Zenon DEF IInv
<1>5. due' \subseteq {g \in Files : owner[g] # 0}
  BY <1>1, Zenon DEF Deadline, IInv, Leases
<1>6. Leases'
  BY Zenon, <1>1, <1>4, <1>5 DEF IInv, Leases, LeasedTo, Alive
<1> QED
  BY Zenon, <1>1, <1>2, <1>4, <1>6 DEF IInv, BatchesGivenBack, Alive

\* An archive worker changes the stage of its batch, and what it hands back.
LEMMA WorkerStep ==
  ASSUME IInv, Alive, NEW d \in Days, Worker(d)
  PROVE  IInv'
<1> USE DEF storeVars, loopVars, deadVars, boundVars
<1>1. /\ Types /\ FileTypes /\ HandTypes
      /\ flight[d] \in FlightSet /\ FilesOf(flight[d].jobs) \subseteq Files
  BY ZenonT(30), JobTypes, ClaimsOf DEF IInv, Types
<1>2. UNCHANGED <<raw, ing, storeVars, left, parked, loopVars, deadVars>>
  BY DEF Worker, WorkerGate, WorkerAppends, WorkerFails
<1>3. FileTypes'
  BY <1>1, <1>2, Zenon DEF Worker, WorkerGate, WorkerAppends, WorkerFails, Ready, FileTypes
<1>4. ASSUME NEW r \in FlightSet, r.jobs = flight[d].jobs, r.st # "none",
             flight' = [flight EXCEPT ![d] = r]
      PROVE  IInv'
  <2>1. HandTypes'
    BY <1>1, <1>2, <1>4, Zenon DEF HandTypes
  <2>2. Types'
    BY <1>1, <1>2, <1>3, <2>1, TypesKept, Zenon DEF Types
  <2>3. /\ \A e \in Days : flight'[e].jobs = flight[e].jobs
        /\ \A e \in Days : flight'[e].st = "none" => flight[e].st = "none"
    BY ZenonT(30), <1>1, <1>4 DEF HandTypes
  <2> QED
    BY <1>2, <2>2, <2>3, QuietStep, Zenon DEF Alive
<1>5. flight \in [Days -> FlightSet]
  BY <1>1 DEF HandTypes
<1>6. CASE WorkerGate(d)
  <2>1. PICK hand \in SUBSET Files, st \in {"gate", "gated"} :
          flight' = [flight EXCEPT ![d].hand = hand, ![d].st = st]
    BY <1>1, <1>6, Zenon DEF WorkerGate
  <2> DEFINE r == [[flight[d] EXCEPT !.hand = hand] EXCEPT !.st = st]
  <2>2. r \in FlightSet /\ r.jobs = flight[d].jobs /\ r.st = st
    BY <1>1, Zenon DEF FlightSet, Stages
  <2>3. flight' = [flight EXCEPT ![d] = r]
    BY <1>5, <2>1, Zenon
  <2> HIDE DEF r
  <2> QED
    BY <2>2, <2>3, <1>4, Zenon
<1>7. ASSUME NEW st \in {"ok", "soft", "fail"}, flight' = [flight EXCEPT ![d].st = st]
      PROVE  IInv'
  <2> DEFINE r == [flight[d] EXCEPT !.st = st]
  <2>1. r \in FlightSet /\ r.jobs = flight[d].jobs /\ r.st = st
    BY <1>1 DEF FlightSet, Stages
  <2>2. flight' = [flight EXCEPT ![d] = r]
    BY <1>5, <1>7
  <2> HIDE DEF r
  <2> QED
    BY <2>1, <2>2, <1>4, Zenon
<1> QED
  BY <1>6, <1>7, Zenon DEF Worker, WorkerAppends, WorkerFails

LEMMA SurroundingsStep ==
  ASSUME IInv, Alive, Surroundings
  PROVE  IInv'
<1> USE DEF storeVars, loopVars, deadVars, boundVars
<1>1. Types /\ FileTypes
  BY DEF IInv, Types
<1>2. ASSUME NEW f \in Files, RawRemoved(f)
      PROVE  IInv'
  <2>1. FileTypes'
    BY <1>1, <1>2, Zenon DEF RawRemoved, FileTypes
  <2>2. Types'
    BY <1>1, <1>2, <2>1, TypesKept, Zenon DEF RawRemoved, Types
  <2> QED
    BY <1>2, <2>2, QuietStep, Zenon DEF RawRemoved, Alive
<1>3. ASSUME RequestShutdown
      PROVE  IInv'
  <2>1. Types'
    BY Zenon, <1>1, <1>3, TypesKept DEF RequestShutdown, Types
  <2> QED
    BY <1>3, <2>1, QuietStep, Zenon DEF RequestShutdown, Alive
<1> QED
  BY <1>2, <1>3, IngestStep, DiscoverStep, DeadlineStep, WorkerStep, Zenon DEF Surroundings


-----------------------------------------------------------------------------
(* The fill.                                                                 *)

\* The steps of the coordinator that neither move a claim nor touch the store.
LEMMA LoopStep ==
  ASSUME IInv, Alive,
         FillBegins \/ FillSkipped \/ FillEnds \/ ClaimNone \/ DrainGivesUp \/ DrainEnds \/ ReapLater
  PROVE  IInv'
<1> USE DEF storeVars, deadVars, boundVars
<1>1. Types /\ LoopTypes
  BY DEF IInv, Types
<1>2. Flights \subseteq Days /\ 0 \in 0 .. SkipBudget
  BY Zenon, ConstantFacts, Numbers DEF Flights
<1>3. pc \in {"top", "fill", "reap"} => cur.st = "none"
  BY DEF IInv, Places, Alive
<1>4. CASE FillBegins \/ FillSkipped \/ FillEnds \/ ClaimNone \/ DrainEnds \/ ReapLater
  <2>1. /\ UNCHANGED <<fileVars, ing, storeVars, left, parked, flight, cur, deadVars>>
        /\ pc' \in {"top", "fill", "drain", "reap", "done"}
        /\ pc' = pc \/ pc' = "drain" \/ cur.st = "none"
    BY <1>1, <1>3, <1>4, Zenon DEF FillBegins, FillSkipped, FillEnds, ClaimNone, Claiming, DrainEnds,
                            ReapLater, AfterReap, LoopTypes
  <2>2. skipped' \in 0 .. SkipBudget /\ todo' \subseteq Days
    BY <1>1, <1>2, <1>4, Zenon DEF FillBegins, FillSkipped, FillEnds, ClaimNone, DrainEnds, ReapLater,
                            LoopTypes
  <2>3. LoopTypes'
    BY <2>1, <2>2 DEF LoopTypes
  <2>4. Types'
    BY <1>1, <2>1, <2>3, TypesKept, Zenon DEF Types
  <2> QED
    BY <2>1, <2>4, QuietStep, Zenon
<1>5. CASE DrainGivesUp
  <2>1. NextClaim.file \in Files
    <3>1. cur.jobs # <<>> /\ cur.jobs \in Seq(ClaimSet)
      BY <1>1, <1>5, JobTypes, Zenon DEF DrainGivesUp, Draining
    <3>2. Head(cur.jobs) \in ClaimSet
      BY <3>1
    <3> QED
      BY <3>2, Zenon DEF NextClaim, ClaimSet
  <2>2. DeadTypes'
    BY <1>1, <1>5, <2>1, LoadFact, Zenon DEF DrainGivesUp, Threads
  <2>3. UNCHANGED <<fileVars, ing, storeVars, left, parked, flight, loopVars>>
    BY <1>5, Zenon DEF DrainGivesUp
  <2>4. Types'
    BY <1>1, <2>2, <2>3, TypesKept, Zenon DEF Types, loopVars
  <2> QED
    BY <2>3, <2>4, QuietStep, Zenon DEF loopVars, Alive
<1> QED
  BY <1>4, <1>5

\* The job at the head of the list is free: nobody holds its file.
LEMMA HeadIsFree ==
  ASSUME IInv, Alive, list # <<>>
  PROVE  /\ Head(list) \in Files /\ owner[Head(list)] = 0
         /\ list \in Seq(Files) /\ Tail(list) \in Seq(Files) /\ IsInjective(Tail(list))
         /\ Range(Tail(list)) = Range(list) \ {Head(list)} /\ Head(list) \in Range(list)
         /\ \A c \in Held : c.file # Head(list)
         /\ DayOf[Head(list)] \in Days
<1>1. list \in Seq(Files) /\ IsInjective(list)
  BY DEF IInv, Types, StoreTypes, Leases
<1>2. /\ Head(list) \in Files /\ Head(list) \in Range(list)
      /\ Tail(list) \in Seq(Files) /\ IsInjective(Tail(list))
      /\ Range(Tail(list)) = Range(list) \ {Head(list)}
  BY <1>1, TailList, Zenon
<1>3. owner[Head(list)] = 0
  BY <1>2, Zenon DEF IInv, Leases
<1>4. \A c \in Held : owner[c.file] # 0
  BY HeldFacts DEF IInv, Leases, LeasedTo
<1> QED
  BY <1>1, <1>2, <1>3, <1>4, ConstantFacts, Zenon

LEMMA ClaimGoneStep ==
  ASSUME IInv, Alive, ClaimGone
  PROVE  IInv'
<1> USE DEF storeVars, deadVars, boundVars
<1> DEFINE f == Head(list)
<1>1. /\ Types /\ StoreTypes /\ LoopTypes /\ list # <<>>
      /\ UNCHANGED <<fileVars, ing, owner, due, parked, flight, pc, todo, cur, deadVars>>
  BY Zenon DEF IInv, Types, ClaimGone
<1>2. /\ f \in Files /\ Tail(list) \in Seq(Files) /\ IsInjective(Tail(list))
      /\ Range(Tail(list)) \subseteq Range(list)
  BY Zenon, <1>1, HeadIsFree
<1>3. list' = Tail(list) /\ attempt' = [attempt EXCEPT ![f] = 0] /\ skipped' = skipped + 1
  BY DEF ClaimGone
<1>4. left' \in [Days -> Nat]
  BY <1>1, NoteLeftFact, Zenon DEF ClaimGone
<1>5. StoreTypes'
  <2>1. 0 \in 0 .. MaxAttempts - 1
    BY ConstantFacts
  <2> QED
    BY ZenonT(30), <1>1, <1>2, <1>3, <1>4, <2>1 DEF StoreTypes
<1>6. LoopTypes'
  <2>1. skipped < SkipBudget /\ SkipBudget \in Nat /\ skipped \in 0 .. SkipBudget
    BY ZenonT(30), <1>1, ConstantFacts DEF LoopTypes, ClaimGone, Claiming
  <2>2. skipped + 1 \in 0 .. SkipBudget
    BY <2>1
  <2> QED
    BY <1>1, <1>3, <2>2, Zenon DEF LoopTypes
<1>7. Types'
  BY <1>1, <1>5, <1>6, TypesKept, Zenon DEF Types
<1>8. Alive' /\ pc' # "drain" => cur.st = "none"
  BY <1>1 DEF IInv, Places, Alive
<1>9. Places' /\ Held' = Held
  BY <1>1, <1>8, NothingMoves, Zenon DEF IInv
<1>10. Leases'
  BY <1>1, <1>2, <1>3, <1>9, Zenon DEF IInv, Leases, LeasedTo, Alive
<1> QED
  BY <1>1, <1>7, <1>9, <1>10, Zenon DEF IInv, BatchesGivenBack, Alive

LEMMA ClaimBackStep ==
  ASSUME IInv, Alive, ClaimBack
  PROVE  IInv'
<1> USE DEF storeVars, deadVars, boundVars
<1> DEFINE f == Head(list)
<1>1. /\ Types /\ StoreTypes /\ LoopTypes /\ list # <<>>
      /\ UNCHANGED <<fileVars, ing, owner, due, attempt, left, parked, flight, skipped, cur, deadVars>>
      /\ pc' = "drain" /\ todo' = Flights /\ list' = Append(Tail(list), f)
  BY Zenon DEF IInv, Types, ClaimBack
<1>2. /\ f \in Files /\ Tail(list) \in Seq(Files) /\ IsInjective(Tail(list))
      /\ Range(Tail(list)) = Range(list) \ {f} /\ f \in Range(list)
  BY Zenon, <1>1, HeadIsFree
<1>3. list' \in Seq(Files) /\ IsInjective(list') /\ Range(list') = Range(list)
  <2>1. f \notin Range(Tail(list))
    BY <1>2
  <2>2. list' \in Seq(Files) /\ IsInjective(list') /\ Range(list') = Range(Tail(list)) \cup {f}
    BY <1>1, <1>2, <2>1, AppendList, Zenon
  <2> QED
    BY Zenon, <1>2, <2>2
<1>4. StoreTypes'
  BY Zenon, <1>1, <1>3 DEF StoreTypes
<1>5. LoopTypes'
  BY Zenon, <1>1 DEF LoopTypes, Flights
<1>6. Types'
  BY <1>1, <1>4, <1>5, TypesKept, Zenon DEF Types
<1>7. Places' /\ Held' = Held
  BY <1>1, NothingMoves, Zenon DEF IInv
<1>8. Leases'
  BY ZenonT(30), <1>1, <1>3, <1>7 DEF IInv, Leases, LeasedTo, Alive
<1> QED
  BY Zenon, <1>1, <1>6, <1>7, <1>8 DEF IInv, BatchesGivenBack

LEMMA ClaimParksStep ==
  ASSUME IInv, Alive, ClaimParks
  PROVE  IInv'
<1> USE DEF storeVars, loopVars, deadVars, boundVars
<1> DEFINE f == Head(list)
           d == DayOf[f]
           o == FreshToken
           c == Claim(f, o)
<1>1. /\ Types /\ StoreTypes /\ HandTypes /\ list # <<>>
      /\ UNCHANGED <<fileVars, ing, due, attempt, left, flight, loopVars, deadVars>>
      /\ owner' = [owner EXCEPT ![f] = o] /\ list' = Tail(list)
      /\ parked' = [parked EXCEPT ![d] = Append(@, c)]
  BY Zenon DEF IInv, Types, ClaimParks
<1>2. /\ f \in Files /\ d \in Days /\ list' \in Seq(Files) /\ IsInjective(list')
      /\ Range(list') = Range(list) \ {f} /\ owner[f] = 0
      /\ \A b \in Held : b.file # f
  BY ZenonT(30), <1>1, HeadIsFree
<1>3. o \in Tokens /\ o # 0
  BY TokenLeft, ConstantFacts, Zenon
<1>4. c \in ClaimSet /\ c.file = f /\ c.owner = o
  BY <1>2, <1>3, Zenon DEF Claim, ClaimSet
<1> HIDE DEF f, d, o, c
<1>5. \A e \in Days : f \notin Away(e)
  BY <1>1, <1>2, AwayIsLeased, Zenon DEF IInv
<1>6. f \notin FilesOf(cur.jobs)
  BY <1>1, <1>2, AwayIsLeased, Zenon DEF IInv
<1>7. /\ parked'[d] = Append(parked[d], c) /\ parked[d] \in Seq(ClaimSet)
      /\ \A e \in Days \ {d} : parked'[e] = parked[e]
      /\ DOMAIN parked' = Days
  BY <1>1, <1>2, JobTypes, Zenon DEF HandTypes
<1>8. Distinct(parked[d]) /\ f \notin FilesOf(parked[d])
  BY <1>2, <1>5, Zenon DEF IInv, Places, Away
<1>9. /\ parked'[d] \in Seq(ClaimSet) /\ Distinct(parked'[d])
      /\ Range(parked'[d]) = Range(parked[d]) \cup {c}
      /\ FilesOf(parked'[d]) = FilesOf(parked[d]) \cup {f}
  <2> DEFINE s == parked[d]
             t == parked'[d]
  <2>1. s \in Seq(ClaimSet) /\ Distinct(s) /\ c.file \notin FilesOf(s) /\ t = Append(s, c)
    BY <1>4, <1>7, <1>8, Zenon
  <2> HIDE DEF s, t
  <2>2. /\ Append(s, c) \in Seq(ClaimSet) /\ Distinct(Append(s, c))
        /\ Range(Append(s, c)) = Range(s) \cup {c}
        /\ FilesOf(Append(s, c)) = FilesOf(s) \cup {c.file}
    BY <1>4, <2>1, AppendClaims, Zenon
  <2> QED
    BY <1>4, <2>1, <2>2, Zenon DEF s, t
<1>10. HandTypes'
  BY <1>1, <1>2, <1>7, <1>9, Zenon DEF HandTypes
<1>11. StoreTypes'
  BY <1>1, <1>2, <1>3, Zenon DEF StoreTypes
<1>12. Types'
  BY ZenonT(30), <1>1, <1>10, <1>11, TypesKept DEF Types
<1>13. Places'
  <2>1. \A e \in Days : Distinct(parked'[e]) /\ Distinct(flight[e].jobs)
    BY <1>7, <1>9, Zenon DEF IInv, Places
  <2>2. DayOf[f] = d
    BY DEF d
  <2>3. \A e \in Days : \A g \in FilesOf(parked'[e]) : g \in FilesOf(parked[e]) \/ (g = f /\ e = d)
    BY <1>7, <1>9, Zenon
  <2>4. \A e \in Days : f \notin FilesOf(flight[e].jobs)
    BY <1>5, Zenon DEF Away
  <2>5. \A e \in Days : \A g \in FilesOf(parked'[e]) :
          DayOf[g] = e /\ g \notin FilesOf(flight[e].jobs) /\ g \notin FilesOf(cur.jobs)
    <3> SUFFICES ASSUME NEW e \in Days, NEW g \in FilesOf(parked'[e])
                 PROVE  DayOf[g] = e /\ g \notin FilesOf(flight[e].jobs)
                        /\ g \notin FilesOf(cur.jobs)
      BY Zenon
    <3>1. CASE g \in FilesOf(parked[e])
      BY Zenon, <3>1 DEF IInv, Places
    <3>2. CASE g = f /\ e = d
      BY Zenon, <3>2, <1>6, <2>2, <2>4
    <3> QED
      BY Zenon, <2>3, <3>1, <3>2
  <2> QED
    BY <1>1, <2>1, <2>5, Zenon DEF IInv, Places, Alive
<1>14. \A b : b \in Held' <=> b \in Held \/ b = c
  BY <1>1, <1>2, <1>7, <1>9, InHeld, InHeldNext, Zenon
<1>15. \A g \in Files : owner'[g] = IF g = f THEN o ELSE owner[g]
  BY <1>1, <1>2, Zenon DEF StoreTypes
<1>16. Leases'
  <2>1. \A b \in Held' : owner'[b.file] = b.owner
    <3>1. \A b \in Held : b.file \in Files /\ b.file # f /\ owner[b.file] = b.owner
      BY <1>1, <1>2, HeldFacts, Zenon DEF IInv, Leases, LeasedTo
    <3> QED
      BY <3>1, <1>2, <1>4, <1>14, <1>15, Zenon
  <2>2. \A g \in Range(list') : owner'[g] = 0
    <3>1. \A g \in Range(list') : g \in Files /\ g # f /\ owner[g] = 0
      <4>1. \A g \in Range(list') : g \in Files
        <5>1. list' \in [DOMAIN list' -> Files]
          BY Zenon, <1>2, ListAsFunction
        <5> QED
          BY <5>1, Zenon DEF Range
      <4> QED
        BY <1>2, <4>1, Zenon DEF IInv, Leases
    <3> QED
      BY <3>1, <1>15, Zenon
  <2>3. \A g \in Files : owner'[g] # 0 => \E b \in Held' : b.file = g
    BY Zenon, <1>4, <1>14, <1>15 DEF IInv, Leases
  <2>4. due' \subseteq {g \in Files : owner'[g] # 0}
    BY <1>1, <1>3, <1>15, ZenonT(30) DEF IInv, Leases
  <2> QED
    BY <1>2, <2>1, <2>2, <2>3, <2>4, Zenon DEF Leases, LeasedTo
<1> QED
  BY <1>1, <1>12, <1>13, <1>16, Zenon DEF IInv, BatchesGivenBack, Alive

\* The files of some claims in hand go back to the list, each once.
LEMMA RequeueEachFact ==
  ASSUME IInv, Alive, NEW C \in SUBSET Held, RequeueEach(C)
  PROVE  /\ list' \in Seq(Files) /\ IsInjective(list')
         /\ owner' \in [Files -> {0} \cup Tokens]
         /\ due' \subseteq {f \in Files : owner'[f] # 0}
         /\ \A f \in Files : owner'[f] # 0 => owner[f] # 0 /\ \A c \in C : c.file # f
<1> DEFINE own == {c.file : c \in {x \in C : LeasedTo(x)}}
<1>1. /\ owner' = [f \in Files |-> IF f \in own THEN 0 ELSE owner[f]]
      /\ due' = due \ own
      /\ \E s \in InSomeOrder(own) : list' = list \o s
  BY ZenonT(30) DEF RequeueEach, Released
<1>2. \A c \in C : c.file \in Files /\ LeasedTo(c) /\ owner[c.file] # 0
  BY ZenonT(30), HeldFacts DEF IInv, Leases, LeasedTo
<1>3. own = {c.file : c \in C}
  BY Zenon, <1>2
<1> HIDE DEF own
<1>4. own \subseteq Files /\ \A f \in own : owner[f] # 0
  BY Zenon, <1>2, <1>3
<1>5. PICK s \in InSomeOrder(own) : list' = list \o s
  BY Zenon, <1>1
<1>6. s \in Seq(Files) /\ IsInjective(s) /\ Range(s) \subseteq own
  BY Zenon, <1>4, Ordered
<1>7. list \in Seq(Files) /\ IsInjective(list) /\ owner \in [Files -> {0} \cup Tokens]
  BY Zenon DEF IInv, Types, StoreTypes, Leases
<1>8. Range(list) \cap Range(s) = {}
  BY Zenon, <1>4, <1>6 DEF IInv, Leases
<1>9. list' \in Seq(Files) /\ IsInjective(list')
  BY <1>5, <1>6, <1>7, <1>8, ConcatList, Zenon
<1>10. owner' \in [Files -> {0} \cup Tokens]
  BY ZenonT(30), <1>1, <1>7
<1>11. \A f \in Files : owner'[f] = IF f \in own THEN 0 ELSE owner[f]
  BY <1>1, ZenonT(30)
<1>12. due' \subseteq {f \in Files : owner'[f] # 0}
  BY <1>1, <1>11 DEF IInv, Leases
<1>13. \A f \in Files : owner'[f] # 0 => owner[f] # 0 /\ \A c \in C : c.file # f
  BY <1>3, <1>11, Zenon
<1> QED
  BY Zenon, <1>9, <1>10, <1>12, <1>13

LEMMA SubmitDayStep ==
  ASSUME IInv, Alive, NEW d \in Days, SubmitDay(d)
  PROVE  IInv'
<1> USE DEF storeVars, deadVars, boundVars
<1> DEFINE s == parked[d]
           k == Taken(d)
           a == SubSeq(s, 1, k)
           b == SubSeq(s, k + 1, Len(s))
<1>1. /\ Types /\ StoreTypes /\ HandTypes /\ LoopTypes
      /\ UNCHANGED <<fileVars, ing, left, skipped, todo, cur, deadVars>>
      /\ parked' = [parked EXCEPT ![d] = b] /\ pc = "fill" /\ ~Busy(d)
  BY Zenon DEF IInv, Types, SubmitDay, MaySubmit, MustSubmit
<1>2. s \in Seq(ClaimSet) /\ Distinct(s) /\ flight[d].jobs = <<>> /\ cur.st = "none"
  BY <1>1, JobTypes, Zenon DEF IInv, Places, Busy
<1>3. k \in 0 .. Len(s)
  <2>1. Len(s) \in Nat /\ Batch \in Nat
    BY Zenon, <1>2, ConstantFacts, ClaimLengths
  <2> QED
    BY Zenon, <2>1, Numbers DEF Taken
<1>4. /\ a \in Seq(ClaimSet) /\ b \in Seq(ClaimSet) /\ Distinct(a) /\ Distinct(b)
      /\ Range(s) = Range(a) \cup Range(b)
      /\ FilesOf(s) = FilesOf(a) \cup FilesOf(b)
      /\ FilesOf(a) \cap FilesOf(b) = {}
  BY <1>2, <1>3, SplitClaims, Zenon
<1>5. \/ /\ flight' = [flight EXCEPT ![d] = [jobs |-> a, st |-> "run", hand |-> {}]]
         /\ UNCHANGED <<storeVars, pc>>
      \/ RequeueEach(Range(a)) /\ pc' = "dead" /\ UNCHANGED <<flight, attempt>>
  BY Zenon DEF SubmitDay
<1> DEFINE r == [jobs |-> a, st |-> "run", hand |-> {}]
<1> HIDE DEF a, b, k
<1>6. r \in FlightSet /\ r.jobs = a /\ r.st = "run"
  BY <1>4, Zenon DEF FlightSet, Stages
<1> HIDE DEF r
<1>7. /\ parked'[d] = b /\ parked' \in [Days -> Seq(ClaimSet)]
      /\ \A e \in Days \ {d} : parked'[e] = s \/ parked'[e] = parked[e]
      /\ \A e \in Days : e # d => parked'[e] = parked[e]
  BY <1>1, <1>4, Zenon DEF HandTypes
<1>8. \A e \in Days : /\ FilesOf(parked'[e]) \subseteq FilesOf(parked[e])
                      /\ Distinct(parked'[e])
  BY <1>4, <1>7, Zenon DEF IInv, Places
<1>9. CASE flight' = [flight EXCEPT ![d] = r] /\ UNCHANGED <<storeVars, pc>>
  <2>1. /\ flight'[d] = r /\ flight' \in [Days -> FlightSet]
        /\ \A e \in Days : e # d => flight'[e] = flight[e]
    BY <1>1, <1>6, <1>9, Zenon DEF HandTypes
  <2>2. Types'
    <3>1. HandTypes'
      BY ZenonT(30), <1>1, <1>7, <2>1 DEF HandTypes
    <3> QED
      BY <1>1, <1>9, <3>1, TypesKept, Zenon DEF Types
  <2>3. Places'
    <3>1. \A e \in Days : Distinct(flight'[e].jobs)
      BY <1>4, <1>6, <2>1, ZenonT(30) DEF IInv, Places
    <3>2. \A e \in Days : \A f \in FilesOf(flight'[e].jobs) :
            f \in FilesOf(flight[e].jobs) \/ (e = d /\ f \in FilesOf(a) /\ f \in FilesOf(s))
      BY Zenon, <1>4, <1>6, <2>1
    <3>3. \A e \in Days : \A f \in FilesOf(parked'[e]) : e # d \/ f \notin FilesOf(a)
      BY <1>4, <1>7, ZenonT(30)
    <3>4. \A e \in Days : \A f \in FilesOf(parked'[e]) :
            DayOf[f] = e /\ f \notin FilesOf(flight'[e].jobs) /\ f \notin FilesOf(cur.jobs)
      BY ZenonT(30), <1>8, <3>2, <3>3 DEF IInv, Places
    <3>5. \A e \in Days : \A f \in FilesOf(flight'[e].jobs) :
            DayOf[f] = e /\ f \notin FilesOf(cur.jobs)
      BY <3>2, Zenon DEF IInv, Places
    <3>6. \A e \in Days : flight'[e].st = "none" => flight'[e].jobs = <<>>
      BY <1>6, <2>1, Zenon DEF IInv, Places
    <3> QED
      BY <1>1, <1>2, <1>8, <3>1, <3>4, <3>5, <3>6, Zenon DEF IInv, Places
  <2>4. \A c : c \in Held' <=> c \in Held
    <3>1. Range(flight[d].jobs) = {}
      BY <1>2, NoClaims, Zenon
    <3>2. ASSUME NEW c, NEW e \in Days
          PROVE  c \in Range(parked'[e]) \/ c \in Range(flight'[e].jobs)
                   <=> c \in Range(parked[e]) \/ c \in Range(flight[e].jobs)
      <4>1. CASE e = d
        BY <4>1, <3>1, <1>4, <1>6, <1>7, <2>1, Zenon
      <4>2. CASE e # d
        BY <4>2, <1>7, <2>1, Zenon
      <4> QED
        BY <4>1, <4>2, Zenon
    <3> QED
      BY <1>1, <3>2, InHeld, InHeldNext, Zenon
  <2>5. Leases'
    BY <1>9, <2>4, Zenon DEF IInv, Leases, LeasedTo, Alive
  <2> QED
    BY <1>9, <2>2, <2>3, <2>5, Zenon DEF IInv, BatchesGivenBack, Alive
<1>10. CASE RequeueEach(Range(a)) /\ pc' = "dead" /\ UNCHANGED <<flight, attempt>>
  <2>1. Range(a) \subseteq Held
    BY <1>1, <1>4, HeldFacts, Zenon
  <2>2. /\ list' \in Seq(Files) /\ IsInjective(list')
        /\ owner' \in [Files -> {0} \cup Tokens]
        /\ due' \subseteq {f \in Files : owner'[f] # 0}
    BY <1>10, <2>1, RequeueEachFact, Zenon
  <2>3. Types'
    <3>1. StoreTypes'
      BY <1>1, <1>10, <2>2, Zenon DEF StoreTypes
    <3>2. HandTypes'
      BY <1>1, <1>7, <1>10, Zenon DEF HandTypes
    <3>3. LoopTypes'
      BY ZenonT(30), <1>1, <1>10 DEF LoopTypes
    <3> QED
      BY <1>1, <3>1, <3>2, <3>3, TypesKept, Zenon DEF Types
  <2>4. ~Alive'
    BY <1>10 DEF Alive
  <2>5. Places'
    <3>1. \A e \in Days : \A f \in FilesOf(parked'[e]) :
            DayOf[f] = e /\ f \notin FilesOf(flight[e].jobs) /\ f \notin FilesOf(cur.jobs)
      BY <1>8, Zenon DEF IInv, Places
    <3> QED
      BY <1>1, <1>8, <1>10, <2>4, <3>1, Zenon DEF IInv, Places
  <2>6. Leases'
    BY <2>2, <2>4, Zenon DEF Leases
  <2> QED
    BY <1>10, <2>3, <2>5, <2>6, Zenon DEF IInv, BatchesGivenBack
<1> QED
  BY <1>5, <1>9, <1>10, Zenon DEF r

-----------------------------------------------------------------------------
(* The drain.                                                                *)

LEMMA DrainLooksStep ==
  ASSUME IInv, Alive, NEW d \in Days, DrainLooks(d)
  PROVE  IInv'
<1> USE DEF storeVars, deadVars, boundVars
<1>1. /\ Types /\ HandTypes /\ LoopTypes
      /\ UNCHANGED <<fileVars, ing, storeVars, left, parked, pc, skipped, deadVars>>
      /\ pc = "drain" /\ cur.st = "none" /\ todo' = todo \ {d}
  BY DEF IInv, Types, DrainLooks
<1>2. LoopTypes'
  BY <1>1, Zenon DEF LoopTypes
<1>3. CASE UNCHANGED <<flight, cur>>
  <2>1. Types'
    BY <1>1, <1>2, <1>3, TypesKept, Zenon DEF Types
  <2> QED
    BY <1>1, <1>3, <2>1, QuietStep, Zenon
<1>4. CASE cur' = flight[d] /\ flight' = [flight EXCEPT ![d] = NoFlight]
  <2>1. /\ NoFlight \in FlightSet /\ NoFlight.jobs = <<>>
        /\ Range(<<>>) = {} /\ FilesOf(<<>>) = {} /\ Distinct(<<>>)
    BY NoClaims, Zenon
  <2>2. /\ flight'[d] = NoFlight /\ flight' \in [Days -> FlightSet]
        /\ \A e \in Days : e # d => flight'[e] = flight[e]
    BY <1>1, <1>4, <2>1, Zenon DEF HandTypes
  <2>3. HandTypes'
    BY <1>1, <1>4, <2>2, Zenon DEF HandTypes
  <2>4. Types'
    BY <1>1, <1>2, <2>3, TypesKept, Zenon DEF Types
  <2>5. cur.jobs = <<>>
    BY <1>1, Zenon DEF IInv, Places
  <2>6. Places'
    <3>1. \A e \in Days : Distinct(parked[e]) /\ Distinct(flight'[e].jobs)
      BY <2>1, <2>2, Zenon DEF IInv, Places
    <3>2. \A e \in Days : \A f \in FilesOf(flight'[e].jobs) : e # d /\ f \in FilesOf(flight[e].jobs)
      BY <2>1, <2>2, ZenonT(30)
    <3>3. \A e \in Days : \A f \in FilesOf(flight[d].jobs) : f \in FilesOf(parked[e]) => e = d
      BY DEF IInv, Places
    <3>4. \A e \in Days : \A f \in FilesOf(parked[e]) :
            DayOf[f] = e /\ f \notin FilesOf(flight'[e].jobs) /\ f \notin FilesOf(flight[d].jobs)
      BY <3>2, <3>3, Zenon DEF IInv, Places
    <3>5. \A e \in Days : \A f \in FilesOf(flight'[e].jobs) :
            DayOf[f] = e /\ f \notin FilesOf(flight[d].jobs)
      <4>1. \A e \in Days : \A f \in FilesOf(flight[e].jobs) : DayOf[f] = e
        BY Zenon DEF IInv, Places
      <4>2. ASSUME NEW e \in Days, NEW f \in FilesOf(flight'[e].jobs)
            PROVE  DayOf[f] = e /\ f \notin FilesOf(flight[d].jobs)
        <5>1. e # d /\ DayOf[f] = e
          BY <3>2, <4>1, Zenon
        <5>2. f \in FilesOf(flight[d].jobs) => DayOf[f] = d
          BY <4>1, Zenon
        <5> QED
          BY <5>1, <5>2, Zenon
      <4> QED
        BY <4>2, Zenon
    <3>6. \A e \in Days : flight'[e].st = "none" => flight'[e].jobs = <<>>
      BY <2>1, <2>2, Zenon DEF IInv, Places
    <3>7. Distinct(flight[d].jobs) /\ (flight[d].st = "none" => flight[d].jobs = <<>>)
      BY Zenon DEF IInv, Places
    <3> QED
      BY <1>1, <1>4, <3>1, <3>4, <3>5, <3>6, <3>7, Zenon DEF Places
  <2>7. \A c : c \in Held' <=> c \in Held
    <3>1. \A c : c \in Range(cur.jobs) <=> FALSE
      BY <2>1, <2>5, Zenon
    <3>2. \A c, e : e \in Days =>
            (c \in Range(flight'[e].jobs) <=> e # d /\ c \in Range(flight[e].jobs))
      BY <2>1, <2>2, Zenon
    <3> QED
      BY <1>1, <1>4, <3>1, <3>2, InHeld, InHeldNext, Zenon
  <2>8. Leases'
    BY <1>1, <2>7, Zenon DEF IInv, Leases, LeasedTo, Alive
  <2> QED
    BY <1>1, <2>4, <2>6, <2>8, Zenon DEF IInv, BatchesGivenBack
<1> QED
  BY <1>3, <1>4, Zenon DEF DrainLooks

LEMMA HandOffStep ==
  ASSUME IInv, Alive, NEW f \in Files, HandOff(f)
  PROVE  IInv'
<1> USE DEF storeVars, deadVars, boundVars
<1>1. /\ Types /\ FileTypes /\ StoreTypes /\ HandTypes
      /\ UNCHANGED <<fileVars, parked, flight, pc, skipped, todo, deadVars>>
      /\ pc = "drain"
  BY DEF IInv, Types, HandOff
<1>2. cur' \in FlightSet /\ cur'.jobs = cur.jobs /\ cur'.st = cur.st
  BY <1>1, Zenon DEF HandOff, HandTypes, FlightSet
<1>3. HandTypes'
  BY <1>1, <1>2, Zenon DEF HandTypes
<1>4. CASE Accepts(f) /\ Enqueue(f) /\ NoteLeft(DayOf[f], TRUE) /\ UNCHANGED ing
  <2>1. left' \in [Days -> Nat]
    BY <1>1, <1>4, NoteLeftFact, Zenon
  <2>2. StoreTypes'
    BY <1>1, <1>4, <2>1 DEF StoreTypes, Enqueue
  <2>3. Types'
    BY <1>1, <1>3, <1>4, <2>2, TypesKept, Zenon DEF Types
  <2> QED
    BY <1>1, <1>2, <1>4, <2>3, EnqueueStep, Zenon
<1>5. CASE /\ ing' \in {ing, [ing EXCEPT ![f] = "queued"]}
           /\ UNCHANGED <<storeVars, left>>
  <2>1. FileTypes'
    BY <1>1, <1>5, Zenon DEF FileTypes, fileVars
  <2>2. Types'
    BY <1>1, <1>3, <1>5, <2>1, TypesKept, Zenon DEF Types
  <2>3. Places' /\ Held' = Held
    BY <1>1, <1>2, NothingMoves, ZenonT(30) DEF IInv
  <2>4. Leases'
    BY ZenonT(30), <1>1, <1>5, <2>3 DEF IInv, Leases, LeasedTo, Alive
  <2> QED
    BY <1>1, <2>2, <2>3, <2>4, Zenon DEF IInv, BatchesGivenBack
<1> QED
  BY <1>4, <1>5, Zenon DEF HandOff

\* The drain is done with the next claim of its result.
LEMMA Advanced ==
  ASSUME IInv, NEW states, Draining(states), Advance, UNCHANGED <<parked, flight, pc>>
  PROVE  /\ NextClaim \in Held /\ NextClaim.file \in Files /\ HandTypes' /\ Places'
         /\ \A c : c \in Held <=> c \in Held' \/ c = NextClaim
         /\ \A c \in Held' : c.file # NextClaim.file
<1> DEFINE s == cur.jobs
<1>1. /\ Types /\ HandTypes /\ cur \in FlightSet /\ s \in Seq(ClaimSet)
      /\ s # <<>> /\ Distinct(s) /\ pc = "drain"
  BY JobTypes, Zenon DEF IInv, Types, Draining, Places
<1>2. /\ Tail(s) \in Seq(ClaimSet) /\ Distinct(Tail(s)) /\ NextClaim \in Range(s)
      /\ NextClaim \in ClaimSet
      /\ Range(s) = Range(Tail(s)) \cup {NextClaim}
      /\ FilesOf(s) = FilesOf(Tail(s)) \cup {NextClaim.file}
      /\ NextClaim.file \notin FilesOf(Tail(s))
  BY <1>1, TailClaims, Zenon DEF NextClaim
<1>3. cur' \in FlightSet /\ cur'.jobs = Tail(s) /\ (cur'.st = "none" => Tail(s) = <<>>)
  <2>1. CASE Len(s) = 1
    <3>1. Tail(s) = <<>>
      BY Zenon, <1>1, <2>1, ClaimLengths
    <3> QED
      BY <2>1, <3>1, NoClaims, Zenon DEF Advance
  <2>2. CASE Len(s) # 1
    <3>1. cur' = [cur EXCEPT !.jobs = Tail(s)]
      BY <2>2, ZenonT(30) DEF Advance
    <3>2. cur.st # "none"
      BY <1>1, Zenon DEF IInv, Places
    <3> QED
      BY <1>1, <1>2, <3>1, <3>2, Zenon DEF FlightSet
  <2> QED
    BY ZenonT(30), <2>1, <2>2
<1> HIDE DEF s
<1>4. HandTypes'
  BY ZenonT(30), <1>1, <1>3 DEF HandTypes
<1>5. Places'
  <2>1. FilesOf(cur'.jobs) \subseteq FilesOf(cur.jobs) /\ Distinct(cur'.jobs)
    BY <1>2, <1>3, Zenon DEF s
  <2>2. \A d \in Days : \A f \in FilesOf(parked[d]) :
          DayOf[f] = d /\ f \notin FilesOf(flight[d].jobs) /\ f \notin FilesOf(cur'.jobs)
    BY <2>1, ZenonT(30) DEF IInv, Places
  <2>3. \A d \in Days : \A f \in FilesOf(flight[d].jobs) :
          DayOf[f] = d /\ f \notin FilesOf(cur'.jobs)
    BY Zenon, <2>1 DEF IInv, Places
  <2>4. cur'.st = "none" => cur'.jobs = <<>>
    BY <1>3, Zenon
  <2> QED
    BY <1>1, <2>1, <2>2, <2>3, <2>4, Zenon DEF IInv, Places
<1>6. \A c : c \in Held <=> c \in Held' \/ c = NextClaim
  BY <1>2, <1>3, InHeld, InHeldNext, Zenon DEF s
<1>7. NextClaim \in Held /\ NextClaim.file \in Files
  BY <1>1, <1>2, <1>6, HeldFacts, Zenon
<1>8. \A c \in Held' : c.file # NextClaim.file
  <2>0. \A t \in Seq(ClaimSet) : \A c \in Range(t) : c.file \in FilesOf(t)
    BY ClaimsOf
  <2>1. NextClaim.file \in FilesOf(cur.jobs)
    BY <1>2, Zenon DEF s
  <2>2. \A d \in Days : NextClaim.file \notin Away(d)
    BY <2>1, ZenonT(30) DEF IInv, Places, Away
  <2>3. \A d \in Days : \A c \in Range(parked[d]) \cup Range(flight[d].jobs) : c.file \in Away(d)
    BY ZenonT(30), <1>1, <2>0, JobTypes DEF Away
  <2>4. \A c \in Range(cur'.jobs) : c.file # NextClaim.file
    BY <1>2, <1>3, <2>0, Zenon
  <2> QED
    BY <2>2, <2>3, <2>4, InHeldNext, Zenon
<1> QED
  BY <1>4, <1>5, <1>6, <1>7, <1>8, Zenon

\* The lease of the next claim is released; its job leaves the store or goes to
\* the end of the list.
LEMMA Released1 ==
  ASSUME IInv, Alive, NEW states, Draining(states), Advance, UNCHANGED <<parked, flight, pc>>,
         owner' = [f \in Files |-> IF f \in {NextClaim.file} THEN 0 ELSE owner[f]],
         due' = due \ {NextClaim.file},
         list' \in {list, Append(list, NextClaim.file)}
  PROVE  Leases' /\ list' \in Seq(Files) /\ owner' \in [Files -> {0} \cup Tokens]
<1> DEFINE g == NextClaim.file
<1>1. /\ list \in Seq(Files) /\ IsInjective(list) /\ owner \in [Files -> {0} \cup Tokens]
      /\ due \subseteq {f \in Files : owner[f] # 0}
      /\ \A f \in Range(list) : owner[f] = 0
      /\ \A f \in Files : owner[f] # 0 => \E c \in Held : c.file = f
  BY Zenon DEF IInv, Types, StoreTypes, Leases
<1>2. /\ g \in Files /\ NextClaim \in Held
      /\ \A c : c \in Held <=> c \in Held' \/ c = NextClaim
      /\ \A c \in Held' : c.file # g
  BY Advanced, ZenonT(30)
<1>3. \A c \in Held : c.file \in Files /\ owner[c.file] = c.owner /\ c.owner # 0
  BY ZenonT(30), HeldFacts DEF IInv, Leases, LeasedTo
<1> HIDE DEF g
<1>4. \A f \in Files : owner'[f] = IF f = g THEN 0 ELSE owner[f]
  BY DEF g
<1>5. g \notin Range(list)
  BY <1>1, <1>2, <1>3, Zenon DEF g
<1>6. list' \in Seq(Files) /\ IsInjective(list') /\ Range(list') \subseteq Range(list) \cup {g}
  <2>1. CASE list' = list
    BY <1>1, <2>1, Zenon
  <2>2. CASE list' = Append(list, g)
    BY <1>1, <1>2, <1>5, <2>2, AppendList, Zenon
  <2> QED
    BY <2>1, <2>2, Zenon DEF g
<1>7. \A c \in Held' : owner'[c.file] = c.owner
  BY <1>2, <1>3, <1>4, Zenon
<1>8. \A f \in Range(list') : owner'[f] = 0
  <2>1. \A f \in Range(list') : f \in Files
    BY <1>6 DEF Range
  <2> QED
    BY <1>1, <1>4, <1>6, <2>1, ZenonT(30)
<1>9. \A f \in Files : owner'[f] # 0 => \E c \in Held' : c.file = f
  BY <1>1, <1>2, <1>4, Zenon DEF g
<1>10. due' \subseteq {f \in Files : owner'[f] # 0}
  BY <1>1, <1>4, Zenon DEF g
<1>11. owner' \in [Files -> {0} \cup Tokens]
  BY <1>1, Zenon
<1> QED
  BY <1>6, <1>7, <1>8, <1>9, <1>10, <1>11, Zenon DEF Leases, LeasedTo

LEMMA DrainStep ==
  ASSUME IInv, Alive, DrainDone \/ DrainSoft \/ DrainRetry \/ DrainRecords
  PROVE  IInv'
<1> USE DEF storeVars, deadVars, boundVars
<1>1. Types /\ StoreTypes /\ LoopTypes
  BY DEF IInv, Types
<1>2. PICK states : Draining(states)
  BY Zenon DEF DrainDone, DrainSoft, DrainRetry, DrainRecords
<1>3. /\ Advance /\ pc = "drain"
      /\ UNCHANGED <<fileVars, ing, parked, flight, pc, skipped, todo>>
  BY Zenon DEF DrainDone, DrainSoft, DrainRetry, DrainRecords, Draining
<1>4. /\ NextClaim \in Held /\ NextClaim.file \in Files /\ HandTypes' /\ Places'
  BY <1>2, <1>3, Advanced, Zenon
<1>5. LeasedTo(NextClaim)
  BY <1>4 DEF IInv, Leases
<1>6. /\ owner' = [f \in Files |-> IF f \in {NextClaim.file} THEN 0 ELSE owner[f]]
      /\ due' = due \ {NextClaim.file}
      /\ list' \in {list, Append(list, NextClaim.file)}
  BY <1>5, Zenon DEF DrainDone, DrainSoft, DrainRetry, DrainRecords, Ack, Requeue, Released
<1>7. Leases' /\ list' \in Seq(Files) /\ owner' \in [Files -> {0} \cup Tokens]
  BY Zenon, <1>2, <1>3, <1>6, Released1
<1>8. left' \in [Days -> Nat]
  <2>1. CASE left' = left
    BY ZenonT(30), <1>1, <2>1 DEF StoreTypes
  <2>2. CASE NoteLeft(DayOf[NextClaim.file], FALSE)
    BY <1>1, <2>2, NoteLeftFact, Zenon
  <2> QED
    BY <2>1, <2>2, Zenon DEF DrainDone, DrainSoft, DrainRetry, DrainRecords
<1>9. attempt' \in [Files -> 0 .. MaxAttempts - 1]
  <2>1. /\ MaxAttempts \in Nat \ {0} /\ attempt \in [Files -> 0 .. MaxAttempts - 1]
        /\ attempt[NextClaim.file] \in 0 .. MaxAttempts - 1
    BY ZenonT(30), <1>1, <1>4, ConstantFacts DEF StoreTypes
  <2>2. 0 \in 0 .. MaxAttempts - 1
    BY <2>1
  <2>3. CASE DrainDone \/ DrainRecords
    <3>1. attempt' = [attempt EXCEPT ![NextClaim.file] = 0]
      BY <1>5, <2>3, Zenon DEF DrainDone, DrainRecords, Ack
    <3> QED
      BY <2>1, <2>2, <3>1, Zenon
  <2>4. CASE DrainSoft
    BY Zenon, <2>1, <2>4 DEF DrainSoft
  <2>5. CASE DrainRetry
    <3>1. /\ ~(attempt[NextClaim.file] + 1 >= MaxAttempts)
          /\ attempt' = [attempt EXCEPT ![NextClaim.file] = @ + 1]
      BY Zenon, <2>5 DEF DrainRetry, LastAttempt
    <3>2. attempt[NextClaim.file] + 1 \in 0 .. MaxAttempts - 1
      BY Zenon, <2>1, <3>1, Numbers
    <3> QED
      BY <2>1, <3>1, <3>2, Zenon
  <2> QED
    BY <2>3, <2>4, <2>5, Zenon
<1>10. StoreTypes'
  BY Zenon, <1>7, <1>8, <1>9 DEF StoreTypes
<1>11. DeadTypes'
  <2>1. CASE doc' = doc /\ draft' = draft
    BY ZenonT(30), <1>1, <2>1, TypesKept DEF Types
  <2>2. CASE Save("append")
    BY <1>1, <2>2, SaveFact, Zenon DEF Threads
  <2> QED
    BY <2>1, <2>2, Zenon DEF DrainDone, DrainSoft, DrainRetry, DrainRecords
<1>12. Types'
  BY <1>1, <1>3, <1>4, <1>10, <1>11, TypesKept, Zenon DEF Types
<1> QED
  BY ZenonT(30), <1>3, <1>4, <1>7, <1>12 DEF IInv, BatchesGivenBack

-----------------------------------------------------------------------------
(* The end of the tick, and of the process.                                  *)

\* The reaper never finds a lease to take: what is due is leased, what is leased is
\* in hand, and the reaper is told of all that is.
LEMMA NothingReaped ==
  ASSUME IInv, Alive, pc = "reap"
  PROVE  due \subseteq Protected
<1>1. Types /\ cur.jobs = <<>>
  BY Zenon DEF IInv, Places
<1>2. FilesOf(cur.jobs) = {}
  BY <1>1, NoClaims, Zenon
<1>3. \A c \in Held : \E d \in Days : c.file \in Away(d)
  BY <1>1, <1>2, HeldFacts, Zenon
<1>4. \A d \in Days : Away(d) \subseteq Protected
  BY Zenon DEF Protected, Away
<1>5. \A f \in due : \E c \in Held : c.file = f
  BY Zenon DEF IInv, Leases
<1> QED
  BY <1>3, <1>4, <1>5, Zenon

LEMMA ReapStaleStep ==
  ASSUME IInv, Alive, ReapStale
  PROVE  IInv'
<1> USE DEF deadVars, boundVars
<1>1. /\ Types /\ StoreTypes /\ LoopTypes
      /\ UNCHANGED <<fileVars, ing, attempt, left, parked, flight, skipped, todo, cur, deadVars>>
      /\ pc = "reap" /\ pc' = AfterReap /\ due' = {}
      /\ owner' = [f \in Files |-> IF f \in due \ Protected THEN 0 ELSE owner[f]]
      /\ \E s \in InSomeOrder(due \ Protected) : list' = list \o s
  BY Zenon DEF IInv, Types, ReapStale
<1>2. due \ Protected = {}
  BY <1>1, NothingReaped, Zenon
<1>3. owner' = owner
  BY <1>1, <1>2, Zenon DEF StoreTypes
<1>4. list' \in Seq(Files) /\ IsInjective(list') /\ Range(list') = Range(list)
  <2>1. PICK s \in InSomeOrder({}) : list' = list \o s
    BY <1>1, <1>2, Zenon
  <2>2. s \in Seq(Files) /\ IsInjective(s) /\ Range(s) = {}
    BY <2>1, Ordered
  <2>3. list \in Seq(Files) /\ IsInjective(list)
    BY <1>1, Zenon DEF StoreTypes, IInv, Leases
  <2> QED
    <3>1. Range(list) \cap Range(s) = {} /\ Range(list) \cup Range(s) = Range(list)
      BY <2>2
    <3>2. list \o s \in Seq(Files) /\ IsInjective(list \o s) /\ Range(list \o s) = Range(list) \cup Range(s)
      BY <2>2, <2>3, <3>1, ConcatList, Zenon
    <3> QED
      BY <2>1, <3>1, <3>2, Zenon
<1>5. pc' \in {"top", "done"} /\ cur.st = "none"
  BY <1>1, Zenon DEF AfterReap, IInv, Places, Alive
<1>6. StoreTypes'
  BY <1>1, <1>3, <1>4, Zenon DEF StoreTypes
<1>7. LoopTypes'
  BY <1>1, <1>5, Zenon DEF LoopTypes
<1>8. Types'
  BY <1>1, <1>6, <1>7, TypesKept, Zenon DEF Types
<1>9. Places' /\ Held' = Held
  BY <1>1, <1>5, NothingMoves, Zenon DEF IInv
<1>10. Leases'
  BY <1>1, <1>3, <1>4, <1>9, Zenon DEF IInv, Leases, LeasedTo, Alive
<1> QED
  BY ZenonT(30), <1>5, <1>8, <1>9, <1>10 DEF IInv, BatchesGivenBack

LEMMA MainExitsStep ==
  ASSUME IInv, Alive, MainExits
  PROVE  IInv'
<1> USE DEF deadVars, boundVars
<1> DEFINE C == UNION {Range(flight[d].jobs) : d \in Days}
<1>1. /\ Types /\ StoreTypes /\ HandTypes /\ LoopTypes
      /\ UNCHANGED <<fileVars, ing, attempt, left, parked, skipped, todo, cur, deadVars>>
      /\ pc' = "exited" /\ flight' = [d \in Days |-> NoFlight] /\ RequeueEach(C)
  BY Zenon DEF IInv, Types, MainExits
<1>2. C \subseteq Held
  BY ZenonT(30), <1>1, HeldFacts
<1>3. \A d \in Days : Range(flight[d].jobs) \subseteq C
  BY Zenon
<1> HIDE DEF C
<1>4. /\ list' \in Seq(Files) /\ IsInjective(list')
      /\ owner' \in [Files -> {0} \cup Tokens]
      /\ due' \subseteq {f \in Files : owner'[f] # 0}
      /\ \A f \in Files : owner'[f] # 0 => owner[f] # 0 /\ \A c \in C : c.file # f
  BY <1>1, <1>2, RequeueEachFact, Zenon
<1>5. NoFlight \in FlightSet /\ NoFlight.jobs = <<>> /\ FilesOf(<<>>) = {} /\ Distinct(<<>>)
  BY NoClaims, Zenon
<1>6. StoreTypes'
  BY <1>1, <1>4, Zenon DEF StoreTypes
<1>7. HandTypes'
  BY <1>1, <1>5, Zenon DEF HandTypes
<1>8. LoopTypes'
  BY <1>1, Zenon DEF LoopTypes
<1>9. Types'
  BY <1>1, <1>6, <1>7, <1>8, TypesKept, Zenon DEF Types
<1>10. ~Alive'
  BY <1>1, Zenon DEF Alive
<1>11. Places'
  <2>1. \A d \in Days : flight'[d].jobs = <<>>
    BY <1>1, <1>5, Zenon
  <2>2. \A d \in Days : \A f \in FilesOf(parked[d]) :
          DayOf[f] = d /\ f \notin FilesOf(flight'[d].jobs) /\ f \notin FilesOf(cur.jobs)
    BY <1>5, <2>1, Zenon DEF IInv, Places
  <2>3. \A d \in Days : Distinct(flight'[d].jobs) /\ FilesOf(flight'[d].jobs) = {}
    BY <1>5, <2>1, Zenon
  <2> QED
    BY <1>1, <1>10, <2>1, <2>2, <2>3, Zenon DEF IInv, Places
<1>12. Leases'
  BY <1>4, <1>10, Zenon DEF Leases
<1>13. ASSUME NEW f \in Files, owner'[f] # 0
       PROVE  f \in FilesOf(cur.jobs) \cup UNION {FilesOf(parked[d]) : d \in Days}
  <2>1. PICK c \in Held : c.file = f
    BY <1>4, <1>13, Zenon DEF IInv, Leases
  <2>2. c \notin C
    BY <1>4, <1>13, <2>1, Zenon
  <2>3. c \in Range(cur.jobs) \/ \E d \in Days : c \in Range(parked[d])
    BY <1>3, <2>1, <2>2, InHeld, Zenon
  <2>4. \A t \in Seq(ClaimSet) : \A b \in Range(t) : b.file \in FilesOf(t)
    BY ClaimsOf, Zenon
  <2> QED
    BY <1>1, <2>1, <2>3, <2>4, JobTypes, Zenon
<1>14. BatchesGivenBack'
  BY <1>1, <1>13, Zenon DEF BatchesGivenBack
<1> QED
  BY <1>9, <1>11, <1>12, <1>14, Zenon DEF IInv

\* A new process starts from nothing but a list without duplicates.
LEMMA RestartStep ==
  ASSUME IInv, Restart
  PROVE  IInv'
<1>1. /\ Types /\ FileTypes /\ StoreTypes /\ UNCHANGED <<fileVars, doc>>
      /\ owner' = [f \in Files |-> 0] /\ due' = {} /\ left' = [d \in Days |-> 0]
      /\ parked' = [d \in Days |-> <<>>] /\ flight' = [d \in Days |-> NoFlight] /\ cur' = NoFlight
      /\ pc' = "top" /\ skipped' = 0 /\ todo' = {} /\ ing' = [f \in Files |-> "none"]
      /\ attempt' = [f \in Files |-> IF f \in Range(list') THEN attempt[f] ELSE 0]
      /\ draft' = [t \in DOMAIN draft |-> <<>>]
  BY Zenon DEF IInv, Types, Restart
<1>2. list' \in Seq(Files) /\ IsInjective(list')
  <2>1. CASE list' = list
    BY <1>1, <2>1, Zenon DEF StoreTypes, IInv, Leases
  <2>2. CASE \E S \in SUBSET db : list' \in InSomeOrder(S)
    <3>1. PICK S \in SUBSET Files : list' \in InSomeOrder(S)
      BY <1>1, <2>2, Zenon DEF FileTypes
    <3> QED
      BY <3>1, Ordered, Zenon
  <2> QED
    BY <2>1, <2>2, Zenon DEF Restart
<1>3. /\ NoFlight \in FlightSet /\ NoFlight.jobs = <<>> /\ NoFlight.st = "none"
      /\ <<>> \in Seq(ClaimSet) /\ Range(<<>>) = {} /\ FilesOf(<<>>) = {} /\ Distinct(<<>>)
  BY NoClaims, Zenon
<1>4. StoreTypes'
  <2>1. 0 \in 0 .. MaxAttempts - 1
    BY ConstantFacts
  <2>2. attempt' \in [Files -> 0 .. MaxAttempts - 1]
    BY <1>1, <2>1, Zenon DEF StoreTypes
  <2> QED
    BY <1>1, <1>2, <2>2, Zenon DEF StoreTypes
<1>5. HandTypes'
  BY <1>1, <1>3, ZenonT(30) DEF HandTypes
<1>6. LoopTypes'
  BY <1>1, ConstantFacts DEF LoopTypes
<1>7. FileTypes'
  BY <1>1, Zenon DEF FileTypes, fileVars
<1>8. DeadTypes'
  <2>1. /\ doc \in Seq(Threads \X Files) /\ Len(doc) <= DeadMax /\ DOMAIN draft = Threads
    BY ZenonT(30), <1>1 DEF Types, DeadTypes
  <2>2. <<>> \in Seq(Threads \X Files) /\ Len(<<>>) <= DeadMax
    BY ConstantFacts
  <2>3. draft' = [t \in Threads |-> <<>>]
    BY <1>1, <2>1, Zenon
  <2> QED
    BY <1>1, <2>1, <2>2, <2>3, Zenon DEF DeadTypes
<1>9. /\ \A d \in Days : parked'[d] = <<>> /\ flight'[d].jobs = <<>> /\ cur'.jobs = <<>>
      /\ cur'.st = "none" /\ cur'.jobs = <<>>
  BY <1>1, <1>3, Zenon
<1>10. Places'
  BY <1>3, <1>9, Zenon DEF Places
<1>11. \A c : c \notin Held'
  BY <1>3, <1>9, InHeldNext, Zenon
<1>12. \A f \in Files : owner'[f] = 0
  BY <1>1, Zenon
<1>13. \A f \in Range(list') : owner'[f] = 0
  <2>1. list' \in [DOMAIN list' -> Files]
    BY Zenon, <1>2, ListAsFunction
  <2> QED
    BY Zenon, <1>12, <2>1 DEF Range
<1>14. Leases'
  BY <1>1, <1>2, <1>11, <1>12, <1>13, Zenon DEF Leases
<1>15. BatchesGivenBack'
  BY <1>1, Zenon DEF BatchesGivenBack
<1> QED
  BY <1>4, <1>5, <1>6, <1>7, <1>8, <1>10, <1>14, <1>15, Zenon DEF IInv, Types

-----------------------------------------------------------------------------
(* The invariant, and the theorems.                                          *)

LEMMA InitIInv == Init => IInv
<1> SUFFICES ASSUME Init
             PROVE  IInv
  BY Zenon
<1>1. /\ NoFlight \in FlightSet /\ NoFlight.jobs = <<>> /\ NoFlight.st = "none"
      /\ <<>> \in Seq(ClaimSet) /\ Range(<<>>) = {} /\ FilesOf(<<>>) = {} /\ Distinct(<<>>)
  BY Zenon, NoClaims
<1>2. 0 \in 0 .. MaxAttempts - 1 /\ 0 \in 0 .. SkipBudget /\ Len(<<>>) <= DeadMax
  BY ConstantFacts
<1>3. FileTypes
  BY Zenon DEF Init, FileTypes
<1>4. StoreTypes
  BY <1>2 DEF Init, StoreTypes
<1>5. HandTypes
  BY <1>1, Zenon DEF Init, HandTypes
<1>6. LoopTypes
  BY ZenonT(30), <1>2 DEF Init, LoopTypes
<1>7. DeadTypes
  <2>1. draft = [t \in Threads |-> <<>>] /\ doc = <<>>
    BY Zenon DEF Init, Threads
  <2> QED
    BY <1>2, <2>1 DEF DeadTypes
<1>8. /\ \A d \in Days : parked[d] = <<>> /\ flight[d].jobs = <<>>
      /\ cur.st = "none" /\ cur.jobs = <<>>
  BY <1>1, Zenon DEF Init
<1>9. Places
  BY <1>1, <1>8, Zenon DEF Places
<1>10. \A c : c \notin Held
  BY <1>1, <1>8, InHeld, Zenon
<1>11. Range(list) = {} /\ IsInjective(list) /\ due = {} /\ \A f \in Files : owner[f] = 0
  <2>1. IsInjective(<<>>)
    BY DEF IsInjective
  <2> QED
    BY Zenon, <1>1, <2>1, NoClaims DEF Init
<1>12. Leases
  BY Zenon, <1>10, <1>11 DEF Leases
<1> QED
  BY <1>3, <1>4, <1>5, <1>6, <1>7, <1>9, <1>12, Zenon DEF IInv, Types, Init, BatchesGivenBack

LEMMA NextIInv == IInv /\ [Next]_vars => IInv'
<1> SUFFICES ASSUME IInv, [Next]_vars
             PROVE  IInv'
  OBVIOUS
<1>1. CASE UNCHANGED vars
  <2>1. UNCHANGED <<fileVars, ing, list, owner, due, attempt, left, parked, flight, pc, skipped,
                    todo, cur, deadVars>>
    BY <1>1, Zenon DEF vars, storeVars, loopVars
  <2>2. Types'
    BY <2>1, TypesKept, Zenon DEF IInv, Types
  <2>3. Places' /\ Held' = Held
    <3>1. Alive' /\ pc' # "drain" => cur.st = "none"
      BY <2>1, Zenon DEF IInv, Places, Alive
    <3> QED
      BY <2>1, <3>1, NothingMoves, Zenon DEF IInv
  <2>4. Leases'
    BY <2>1, <2>3, Zenon DEF IInv, Leases, LeasedTo, Alive
  <2>5. BatchesGivenBack'
    BY <2>1, Zenon DEF IInv, BatchesGivenBack
  <2> QED
    BY <2>2, <2>3, <2>4, <2>5, Zenon DEF IInv
<1>2. CASE Alive /\ Coordinator
  BY Zenon, <1>2, LoopStep, SubmitDayStep, DrainLooksStep, ClaimGoneStep, ClaimBackStep, ClaimParksStep,
     HandOffStep, DrainStep, ReapStaleStep DEF Coordinator
<1>3. CASE Alive /\ Surroundings
  BY Zenon, <1>3, SurroundingsStep
<1>4. CASE Alive /\ MainExits
  BY ZenonT(30), <1>4, MainExitsStep
<1>5. CASE Restart
  BY <1>5, RestartStep
<1> QED
  BY <1>1, <1>2, <1>3, <1>4, <1>5, Zenon DEF Next

LEMMA Inductive == Spec => []IInv
<1>1. Init => IInv
  BY InitIInv
<1>2. IInv /\ [Next]_vars => IInv'
  BY NextIInv
<1> QED
  BY <1>1, <1>2, PTL DEF Spec

\* Every variable stays within the values the code can give it: an attempt counter
\* stays below job_max_attempts, the fill's skip count within its budget, the
\* dead-letter document within max_entries.
THEOREM TypeCorrect == Spec => []TypeOK
<1>1. IInv => TypeOK
  <2> SUFFICES ASSUME IInv
               PROVE  TypeOK
    OBVIOUS
  <2>1. Types /\ FileTypes /\ StoreTypes /\ LoopTypes /\ DeadTypes
    BY Zenon DEF IInv, Types
  <2>2. \A c \in Held : c.file \in Files /\ c.owner \in Tokens
    BY <2>1, HeldFacts, Zenon
  <2>3. \A d \in Days : flight[d].st \in {"none", "run", "gated", "gate", "soft", "fail", "ok"}
    BY <2>1, JobTypes, Zenon DEF FlightSet, Stages
  <2>4. Range(list) \subseteq Files
    BY <2>1 DEF StoreTypes, Range
  <2>5. due \subseteq Files
    BY Zenon DEF IInv, Leases
  <2> QED
    BY <2>1, <2>2, <2>3, <2>4, <2>5, Zenon DEF TypeOK, FileTypes, StoreTypes, LoopTypes, DeadTypes
<1> QED
  BY <1>1, Inductive, PTL

\* A parked or written claim keeps its lease, whatever the deadlines do: the reaper
\* is told of the batches being written and of the claims parked by day.
THEOREM ClaimsKeepLeases == Spec => []HeldIsLeased
<1>1. IInv => HeldIsLeased
  BY Zenon DEF IInv, Leases, HeldIsLeased
<1> QED
  BY <1>1, Inductive, PTL

\* No file is queued twice, nor queued while it is parked or written, nor in two
\* hands, whichever of ingest, discovery and hand-off was faster.
THEOREM OneHand == Spec => []OneHandPerFile
<1>1. IInv => OneHandPerFile
  <2> SUFFICES ASSUME IInv
               PROVE  OneHandPerFile
    OBVIOUS
  <2>1. ASSUME Alive, NEW f \in Files
        PROVE  Cardinality({c \in Held : c.file = f}) <= 1
    <3> DEFINE S == {c \in Held : c.file = f}
               b == Claim(f, owner[f])
    <3>1. \A c \in ClaimSet : c.file = f /\ c.owner = owner[f] => c = b
      BY DEF ClaimSet, Claim
    <3>2. \A c \in Held : c \in ClaimSet /\ owner[c.file] = c.owner
      BY <2>1, HeldFacts, ZenonT(30) DEF IInv, Leases, LeasedTo
    <3>3. S \subseteq {b}
      BY Zenon, <3>1, <3>2
    <3> HIDE DEF S, b
    <3>4. Cardinality(S) <= 1
      BY <3>3, AtMostOne, Zenon
    <3> QED
      BY Zenon, <3>4 DEF S
  <2>2. IsInjective(list) /\ (Alive => \A f \in Range(list) : owner[f] = 0)
    BY Zenon DEF IInv, Leases
  <2> QED
    BY <2>1, <2>2, Zenon DEF OneHandPerFile
<1> QED
  BY <1>1, Inductive, PTL

\* While the process lives, what the store counts as in flight is parked, being
\* written, or the result at hand: no break, error path or early return of the
\* coordinator drops a claim.
THEOREM NoClaimDropped == Spec => []NoOrphanLease
<1>1. IInv => NoOrphanLease
  BY Zenon DEF IInv, Leases, NoOrphanLease
<1> QED
  BY <1>1, Inductive, PTL

\* A shutdown gives back every claim but the parked ones and those of a result the
\* drain was cut off in, also when it comes after the drain timeout.
THEOREM ShutdownGivesBack == Spec => []BatchesGivenBack
<1>1. IInv => BatchesGivenBack
  BY DEF IInv
<1> QED
  BY <1>1, Inductive, PTL

=============================================================================
