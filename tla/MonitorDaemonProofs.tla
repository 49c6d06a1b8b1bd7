------------------------- MODULE MonitorDaemonProofs -------------------------
(***************************************************************************)
(* The safety invariants of MonitorDaemon for any ring, batch and file       *)
(* limits, any job ids and any finite set of dumpfile names: every callback  *)
(* takes a good state of the node to good states, step by step.              *)
(***************************************************************************)
EXTENDS MonitorDaemon, FiniteSetTheorems, TLAPS

-----------------------------------------------------------------------------
(* Induction over an initial segment of the naturals, without parameters.    *)

LEMMA LeastOf ==
  ASSUME NEW T \in SUBSET Nat, T # {}
  PROVE  \E n \in T : \A k \in T : n <= k
<1>1. PICK n \in T : \A k \in T : ~(<<k, n>> \in OpToRel(<, Nat))
  BY NatLessThanWellFounded, WFMin, Zenon
<1>2. \A k \in T : ~(k < n)
  BY <1>1, Zenon DEF OpToRel
<1> QED
  BY <1>2

LEMMA GreatestOf ==
  ASSUME NEW N \in Nat, NEW T \in SUBSET (0 .. N), T # {}
  PROVE  \E n \in T : \A k \in T : k <= n
<1> DEFINE U == {m \in Nat : \E k \in T : m = N - k}
<1>1. U # {} /\ U \in SUBSET Nat
  <2>1. PICK k \in T : k \in 0 .. N
    BY Zenon
  <2>2. N - k \in U
    BY <2>1
  <2> QED
    BY <2>2, Zenon
<1>2. PICK m \in U : \A k \in U : m <= k
  BY <1>1, LeastOf, Zenon
<1>3. PICK n \in T : m = N - n
  BY <1>2
<1>4. \A k \in T : N - k \in U
  OBVIOUS
<1> QED
  BY <1>2, <1>3, <1>4

LEMMA Induction ==
  ASSUME NEW N \in Nat, NEW T, 0 \in T, \A n \in 1 .. N : n - 1 \in T => n \in T
  PROVE  \A n \in 0 .. N : n \in T
<1> DEFINE U == {n \in 0 .. N : n \notin T}
<1> SUFFICES ASSUME U # {} PROVE FALSE
  OBVIOUS
<1>1. PICK n \in U : \A k \in U : n <= k
  <2>1. U \in SUBSET Nat
    OBVIOUS
  <2> QED
    BY <2>1, LeastOf, Zenon
<1>2. n \in 1 .. N /\ n - 1 \in 0 .. N
  BY <1>1
<1>3. n - 1 \notin U
  BY <1>1, <1>2
<1> QED
  BY <1>2, <1>3

\* f starts with e and goes on with G; such a function exists.
Recursion(N, e, G, f) ==
  \A n \in 0 .. N : f[n] = IF n = 0 THEN e ELSE G[<<n, f[n - 1]>>]

LEMMA RecursionExists ==
  ASSUME NEW N \in Nat, NEW S, NEW e \in S, NEW G \in [(1 .. N) \X S -> S]
  PROVE  \E f \in [0 .. N -> S] : Recursion(N, e, G, f)
<1> DEFINE Ok(m, f) == \A n \in 0 .. m : f[n] = IF n = 0 THEN e ELSE G[<<n, f[n - 1]>>]
           T == {m \in 0 .. N : \E f \in [0 .. m -> S] : Ok(m, f)}
<1>1. 0 \in T
  <2>1. [n \in 0 .. 0 |-> e] \in [0 .. 0 -> S] /\ Ok(0, [n \in 0 .. 0 |-> e])
    OBVIOUS
  <2>2. 0 \in 0 .. N
    OBVIOUS
  <2> HIDE DEF Ok
  <2> QED
    BY <2>1, <2>2, Zenon
<1>2. ASSUME NEW m \in 1 .. N, m - 1 \in T PROVE m \in T
  <2>1. PICK f \in [0 .. (m - 1) -> S] : Ok(m - 1, f)
    BY <1>2
  <2> DEFINE g == [n \in 0 .. m |-> IF n = m THEN G[<<m, f[m - 1]>>] ELSE f[n]]
  <2>2. f[m - 1] \in S
    BY <2>1
  <2>3. g \in [0 .. m -> S]
    BY <2>1, <2>2
  <2>4. Ok(m, g)
    <3> SUFFICES ASSUME NEW n \in 0 .. m
                 PROVE  g[n] = IF n = 0 THEN e ELSE G[<<n, g[n - 1]>>]
      BY Zenon
    <3>1. CASE n = m
      <4>1. m # 0 /\ m - 1 \in 0 .. m /\ m - 1 # m /\ m \in 0 .. m
        OBVIOUS
      <4> QED
        BY <3>1, <4>1, Zenon
    <3>2. CASE n # m
      <4>1. /\ n \in 0 .. (m - 1)
            /\ n # 0 => n - 1 \in 0 .. m /\ n - 1 # m
        BY <3>2
      <4>2. f[n] = IF n = 0 THEN e ELSE G[<<n, f[n - 1]>>]
        BY <2>1, <4>1, Zenon
      <4>3. g[n] = f[n] /\ (n # 0 => g[n - 1] = f[n - 1])
        BY <3>2, <4>1, Zenon
      <4> QED
        BY <4>2, <4>3, Zenon
    <3> QED
      BY <3>1, <3>2
  <2>5. m \in 0 .. N
    OBVIOUS
  <2> HIDE DEF Ok, g
  <2> QED
    BY <2>3, <2>4, <2>5, Zenon
<1>3. \A m \in 0 .. N : m \in T
  <2> HIDE DEF T
  <2> QED
    BY <1>1, <1>2, Induction
<1>4. \E f \in [0 .. N -> S] : Ok(N, f)
  BY <1>3
<1> QED
  BY <1>4, Zenon DEF Recursion

-----------------------------------------------------------------------------
(* Texts and sequences of texts: where a piece is.                           *)

Lines == Piece \cup {Blank}
Text == Seq(Lines)

\* Text t has the line x; has it at most once.
In(t, x) == \E i \in DOMAIN t : t[i] = x
Once(t, x) == \A i, j \in DOMAIN t : t[i] = x /\ t[j] = x => i = j

\* One of the texts, the payloads of the ring or the dumpfiles, has x; together
\* they have it at most once.
Has(F, x) == \E a \in DOMAIN F : In(F[a], x)
HaveOnce(F, x) ==
  /\ \A a, b \in DOMAIN F : In(F[a], x) /\ In(F[b], x) => a = b
  /\ \A a \in DOMAIN F : Once(F[a], x)

LEMMA ConcatPlaces ==
  ASSUME NEW S, NEW r \in Seq(S), NEW t \in Seq(S)
  PROVE  /\ r \o t \in Seq(S)
         /\ \A n \in DOMAIN (r \o t) :
              \/ n \in DOMAIN r /\ (r \o t)[n] = r[n]
              \/ n - Len(r) \in DOMAIN t /\ (r \o t)[n] = t[n - Len(r)]
                 /\ n = (n - Len(r)) + Len(r)
         /\ \A n \in DOMAIN r : n \in DOMAIN (r \o t) /\ (r \o t)[n] = r[n]
         /\ \A n \in DOMAIN t : n + Len(r) \in DOMAIN (r \o t) /\ (r \o t)[n + Len(r)] = t[n]
<1>1. /\ DOMAIN r = 1 .. Len(r) /\ DOMAIN t = 1 .. Len(t) /\ Len(r) \in Nat /\ Len(t) \in Nat
      /\ r \o t \in Seq(S) /\ DOMAIN (r \o t) = 1 .. Len(r) + Len(t)
  OBVIOUS
<1>2. ASSUME NEW n \in DOMAIN (r \o t)
      PROVE  \/ n \in DOMAIN r /\ (r \o t)[n] = r[n]
             \/ n - Len(r) \in DOMAIN t /\ (r \o t)[n] = t[n - Len(r)]
                /\ n = (n - Len(r)) + Len(r)
  BY <1>1
<1>3. ASSUME NEW n \in DOMAIN r PROVE n \in DOMAIN (r \o t) /\ (r \o t)[n] = r[n]
  BY <1>1
<1>4. ASSUME NEW n \in DOMAIN t
      PROVE  n + Len(r) \in DOMAIN (r \o t) /\ (r \o t)[n + Len(r)] = t[n]
  BY <1>1
<1> QED
  BY <1>1, <1>2, <1>3, <1>4, Zenon

LEMMA ConcatTexts ==
  ASSUME NEW t \in Text, NEW u \in Text, NEW x
  PROVE  /\ t \o u \in Text
         /\ In(t \o u, x) <=> In(t, x) \/ In(u, x)
         /\ Once(t, x) /\ Once(u, x) /\ ~(In(t, x) /\ In(u, x)) => Once(t \o u, x)
<1>1. /\ t \o u \in Text
      /\ \A n \in DOMAIN (t \o u) :
           \/ n \in DOMAIN t /\ (t \o u)[n] = t[n]
           \/ n - Len(t) \in DOMAIN u /\ (t \o u)[n] = u[n - Len(t)] /\ n = (n - Len(t)) + Len(t)
      /\ \A n \in DOMAIN t : n \in DOMAIN (t \o u) /\ (t \o u)[n] = t[n]
      /\ \A n \in DOMAIN u : n + Len(t) \in DOMAIN (t \o u) /\ (t \o u)[n + Len(t)] = u[n]
  BY ConcatPlaces DEF Text
<1>2. In(t \o u, x) <=> In(t, x) \/ In(u, x)
  BY <1>1, Zenon DEF In
<1>3. ASSUME Once(t, x), Once(u, x), ~(In(t, x) /\ In(u, x)),
             NEW m \in DOMAIN (t \o u), NEW n \in DOMAIN (t \o u),
             (t \o u)[m] = x, (t \o u)[n] = x
      PROVE  m = n
  <2>1. CASE m \in DOMAIN t /\ (t \o u)[m] = t[m] /\ n \in DOMAIN t /\ (t \o u)[n] = t[n]
    BY <1>3, <2>1, Zenon DEF Once
  <2>2. CASE m - Len(t) \in DOMAIN u /\ (t \o u)[m] = u[m - Len(t)] /\ m = (m - Len(t)) + Len(t)
             /\ n - Len(t) \in DOMAIN u /\ (t \o u)[n] = u[n - Len(t)] /\ n = (n - Len(t)) + Len(t)
    <3>1. m - Len(t) = n - Len(t)
      BY <1>3, <2>2, Zenon DEF Once
    <3> QED
      BY <2>2, <3>1, Zenon
  <2> QED
    BY <1>1, <1>3, <2>1, <2>2, Zenon DEF In
<1> QED
  BY <1>1, <1>2, <1>3, Zenon DEF Once

\* The order of the numbers, and how a place divides the places of a ring.
LEMMA Orders ==
  \A a, b, c \in Int : /\ a < b /\ b <= c => a < c
                       /\ ~(a < b /\ b <= a)
                       /\ a < b \/ b <= a
OBVIOUS

LEMMA Reaches ==
  /\ \A a, b \in Nat : ~(a < b) => a >= b
  /\ \A a, b, c \in Nat : a <= b /\ a >= c => b >= c
OBVIOUS

LEMMA AroundPlace ==
  ASSUME NEW N \in Nat, NEW v \in 1 .. N
  PROVE  /\ \A i \in 1 .. N : i = v \/ i \in v + 1 .. N \/ i \in 1 .. v - 1
         /\ \A i \in v + 1 .. N : i # v
         /\ \A i \in 1 .. v - 1 : i # v
OBVIOUS

LEMMA RingPlaces == \A sq \in Seq(Text) : DOMAIN sq = 1 .. Len(sq) /\ Len(sq) \in Nat
OBVIOUS

LEMMA OneTo ==
  ASSUME NEW N \in Nat
  PROVE  1 \in Int /\ N \in Int /\ ((IF 1 > N THEN 0 ELSE N - 1 + 1) = N)
OBVIOUS

LEMMA ConcatRings ==
  ASSUME NEW r \in Seq(Text), NEW q \in Seq(Text), NEW x
  PROVE  /\ r \o q \in Seq(Text)
         /\ Has(r \o q, x) <=> Has(r, x) \/ Has(q, x)
         /\ HaveOnce(r, x) /\ HaveOnce(q, x) /\ ~(Has(r, x) /\ Has(q, x)) => HaveOnce(r \o q, x)
<1>1. /\ r \o q \in Seq(Text)
      /\ \A n \in DOMAIN (r \o q) :
           \/ n \in DOMAIN r /\ (r \o q)[n] = r[n]
           \/ n - Len(r) \in DOMAIN q /\ (r \o q)[n] = q[n - Len(r)] /\ n = (n - Len(r)) + Len(r)
      /\ \A n \in DOMAIN r : n \in DOMAIN (r \o q) /\ (r \o q)[n] = r[n]
      /\ \A n \in DOMAIN q : n + Len(r) \in DOMAIN (r \o q) /\ (r \o q)[n + Len(r)] = q[n]
  BY ConcatPlaces
<1>2. Has(r \o q, x) <=> Has(r, x) \/ Has(q, x)
  BY <1>1, Zenon DEF Has
<1>3. ASSUME HaveOnce(r, x), HaveOnce(q, x), ~(Has(r, x) /\ Has(q, x)),
             NEW m \in DOMAIN (r \o q), NEW n \in DOMAIN (r \o q),
             In((r \o q)[m], x), In((r \o q)[n], x)
      PROVE  m = n
  <2>1. CASE m \in DOMAIN r /\ (r \o q)[m] = r[m] /\ n \in DOMAIN r /\ (r \o q)[n] = r[n]
    BY <1>3, <2>1, Zenon DEF HaveOnce
  <2>2. CASE m - Len(r) \in DOMAIN q /\ (r \o q)[m] = q[m - Len(r)] /\ m = (m - Len(r)) + Len(r)
             /\ n - Len(r) \in DOMAIN q /\ (r \o q)[n] = q[n - Len(r)] /\ n = (n - Len(r)) + Len(r)
    <3>1. m - Len(r) = n - Len(r)
      BY <1>3, <2>2, Zenon DEF HaveOnce
    <3> QED
      BY <2>2, <3>1, Zenon
  <2> QED
    BY <1>1, <1>3, <2>1, <2>2, Zenon DEF Has
<1>4. ASSUME HaveOnce(r, x), HaveOnce(q, x), NEW n \in DOMAIN (r \o q)
      PROVE  Once((r \o q)[n], x)
  BY <1>1, <1>4, Zenon DEF HaveOnce
<1> QED
  BY <1>1, <1>2, <1>3, <1>4, Zenon DEF HaveOnce

\* A segment of the ring, and what it shares with another one.
LEMMA SegmentPlaces ==
  ASSUME NEW r \in Seq(Text), NEW m \in 1 .. Len(r) + 1, NEW n \in 0 .. Len(r)
  PROVE  /\ SubSeq(r, m, n) \in Seq(Text)
         /\ \A i \in DOMAIN SubSeq(r, m, n) :
              i + m - 1 \in DOMAIN r /\ i + m - 1 \in m .. n /\ SubSeq(r, m, n)[i] = r[i + m - 1]
         /\ \A i \in m .. n : /\ i \in DOMAIN r /\ i - m + 1 \in DOMAIN SubSeq(r, m, n)
                              /\ SubSeq(r, m, n)[i - m + 1] = r[i]
         /\ Len(SubSeq(r, m, n)) = IF m <= n THEN n - m + 1 ELSE 0
OBVIOUS

LEMMA Segment ==
  ASSUME NEW r \in Seq(Text), NEW m \in 1 .. Len(r) + 1, NEW n \in 0 .. Len(r), NEW x
  PROVE  /\ Has(SubSeq(r, m, n), x) <=> \E i \in m .. n : i \in DOMAIN r /\ In(r[i], x)
         /\ HaveOnce(r, x) => HaveOnce(SubSeq(r, m, n), x)
<1> DEFINE s == SubSeq(r, m, n)
<1>1. /\ \A i \in DOMAIN s : i + m - 1 \in DOMAIN r /\ i + m - 1 \in m .. n /\ s[i] = r[i + m - 1]
      /\ \A i \in m .. n : i \in DOMAIN r /\ i - m + 1 \in DOMAIN s /\ s[i - m + 1] = r[i]
  BY SegmentPlaces, Zenon
<1>2. DOMAIN s \subseteq Nat /\ m \in Nat
  OBVIOUS
<1> HIDE DEF s
<1>3. Has(s, x) <=> \E i \in m .. n : i \in DOMAIN r /\ In(r[i], x)
  BY <1>1, Zenon DEF Has
<1>4. ASSUME HaveOnce(r, x), NEW i \in DOMAIN s, NEW j \in DOMAIN s, In(s[i], x), In(s[j], x)
      PROVE  i = j
  <2>1. i + m - 1 = j + m - 1
    BY <1>1, <1>4, Zenon DEF HaveOnce
  <2> QED
    BY <1>2, <2>1
<1>5. ASSUME HaveOnce(r, x), NEW i \in DOMAIN s PROVE Once(s[i], x)
  BY <1>1, <1>5, Zenon DEF HaveOnce
<1>6. HaveOnce(r, x) => HaveOnce(s, x)
  BY <1>4, <1>5, Zenon DEF HaveOnce
<1> QED
  BY <1>3, <1>6, Zenon DEF s

LEMMA SegmentRange ==
  ASSUME NEW r \in Seq(Text), NEW m \in 1 .. Len(r) + 1, NEW n \in 0 .. Len(r)
  PROVE  /\ SubSeq(r, m, n) \in Seq(Text)
         /\ \A i \in DOMAIN SubSeq(r, m, n) : SubSeq(r, m, n)[i] \in Range(r)
<1> DEFINE w == SubSeq(r, m, n)
<1>1. w \in Seq(Text) /\ \A i \in DOMAIN w : i + m - 1 \in DOMAIN r /\ w[i] = r[i + m - 1]
  BY SegmentPlaces, Zenon
<1> HIDE DEF w
<1>2. w \in Seq(Text) /\ \A i \in DOMAIN w : w[i] \in Range(r)
  BY <1>1, Zenon DEF Range
<1> QED
  BY <1>2, Zenon DEF w

LEMMA OneText ==
  ASSUME NEW t \in Text, NEW x
  PROVE  /\ <<t>> \in Seq(Text)
         /\ Has(<<t>>, x) <=> In(t, x)
         /\ Once(t, x) => HaveOnce(<<t>>, x)
<1>1. <<t>> \in Seq(Text) /\ DOMAIN <<t>> = {1} /\ <<t>>[1] = t
  OBVIOUS
<1> QED
  BY <1>1, Zenon DEF Has, HaveOnce

LEMMA OneLine ==
  ASSUME NEW line \in Lines, NEW x
  PROVE  /\ <<line>> \in Text /\ <<>> \in Text
         /\ In(<<line>>, x) <=> line = x
         /\ Once(<<line>>, x)
         /\ ~In(<<>>, x) /\ Once(<<>>, x) /\ ~Has(<<>>, x) /\ HaveOnce(<<>>, x)
<1>1. <<line>> \in Text /\ <<>> \in Text
  BY DEF Text
<1>2. DOMAIN <<line>> = {1} /\ <<line>>[1] = line /\ DOMAIN <<>> = {}
  OBVIOUS
<1> QED
  BY <1>1, <1>2, Zenon DEF In, Once, Has, HaveOnce

\* A text is replaced by another one.
LEMMA ReplaceText ==
  ASSUME NEW D, NEW F \in [D -> Text], NEW a \in D, NEW u \in Text, NEW x
  PROVE  /\ [F EXCEPT ![a] = u] \in [D -> Text]
         /\ Has([F EXCEPT ![a] = u], x) <=> In(u, x) \/ \E b \in D \ {a} : In(F[b], x)
         /\ /\ HaveOnce(F, x) /\ Once(u, x)
            /\ In(u, x) => \A b \in D \ {a} : ~In(F[b], x)
            => HaveOnce([F EXCEPT ![a] = u], x)
<1> DEFINE H == [F EXCEPT ![a] = u]
<1>1. H \in [D -> Text] /\ DOMAIN H = D /\ DOMAIN F = D /\ H[a] = u /\ \A b \in D \ {a} : H[b] = F[b]
  OBVIOUS
<1> HIDE DEF H
<1>2. Has(H, x) <=> In(u, x) \/ \E b \in D \ {a} : In(F[b], x)
  BY <1>1, Zenon DEF Has
<1>3. ASSUME HaveOnce(F, x), Once(u, x), In(u, x) => \A b \in D \ {a} : ~In(F[b], x)
      PROVE  HaveOnce(H, x)
  <2>1. \A b \in D : Once(H[b], x)
    BY <1>1, <1>3, Zenon DEF HaveOnce
  <2>2. ASSUME NEW b \in D, NEW c \in D, In(H[b], x), In(H[c], x) PROVE b = c
    <3>1. CASE b = a \/ c = a
      BY <1>1, <1>3, <2>2, <3>1, Zenon
    <3>2. CASE b # a /\ c # a
      BY <1>1, <1>3, <2>2, <3>2, Zenon DEF HaveOnce
    <3> QED
      BY <3>1, <3>2, Zenon
  <2> QED
    BY <1>1, <2>1, <2>2, Zenon DEF HaveOnce
<1> QED
  BY <1>1, <1>2, <1>3, Zenon DEF H

\* More lines at the end of one of the texts.
LEMMA ExtendText ==
  ASSUME NEW D, NEW F \in [D -> Text], NEW a \in D, NEW u \in Text, NEW x
  PROVE  /\ [F EXCEPT ![a] = @ \o u] \in [D -> Text]
         /\ Has([F EXCEPT ![a] = @ \o u], x) <=> Has(F, x) \/ In(u, x)
         /\ HaveOnce(F, x) /\ Once(u, x) /\ ~(Has(F, x) /\ In(u, x))
              => HaveOnce([F EXCEPT ![a] = @ \o u], x)
<1>1. /\ F[a] \o u \in Text
      /\ In(F[a] \o u, x) <=> In(F[a], x) \/ In(u, x)
      /\ Once(F[a], x) /\ Once(u, x) /\ ~(In(F[a], x) /\ In(u, x)) => Once(F[a] \o u, x)
  BY ConcatTexts, Zenon
<1>2. DOMAIN F = D /\ [F EXCEPT ![a] = @ \o u] = [F EXCEPT ![a] = F[a] \o u]
  OBVIOUS
<1>3. /\ [F EXCEPT ![a] = F[a] \o u] \in [D -> Text]
      /\ Has([F EXCEPT ![a] = F[a] \o u], x) <=>
           In(F[a] \o u, x) \/ \E b \in D \ {a} : In(F[b], x)
      /\ /\ HaveOnce(F, x) /\ Once(F[a] \o u, x)
         /\ In(F[a] \o u, x) => \A b \in D \ {a} : ~In(F[b], x)
         => HaveOnce([F EXCEPT ![a] = F[a] \o u], x)
  BY <1>1, ReplaceText, Zenon
<1>4. Has(F, x) <=> In(F[a], x) \/ \E b \in D \ {a} : In(F[b], x)
  BY <1>2, Zenon DEF Has
<1>5. HaveOnce(F, x) => Once(F[a], x) /\ (In(F[a], x) => \A b \in D \ {a} : ~In(F[b], x))
  BY <1>2, Zenon DEF HaveOnce
<1> HIDE DEF Has, HaveOnce, In, Once
<1> QED
  BY <1>1, <1>2, <1>3, <1>4, <1>5, Zenon

-----------------------------------------------------------------------------
(* A dumpfile read back.                                                     *)

LEMMA BlankIsNoPiece == Blank \notin Piece /\ Blank \in Lines /\ Piece \subseteq Lines
<1>1. \A i : Hdr(i) # Blank /\ Sample(i) # Blank
  BY DEF Hdr, Sample, Blank
<1> QED
  BY <1>1, Zenon DEF Piece, Lines

LEMMA ReadLineText ==
  ASSUME NEW ps \in Seq(Text), NEW line \in Lines
  PROVE  ReadLine(ps, line) \in Seq(Text)
<1>1. <<>> \in Text /\ <<line>> \in Text /\ <<<<line>>>> \in Seq(Text)
  BY DEF Text
<1>2. Append(ps, <<>>) \in Seq(Text)
  BY <1>1
<1>3. ASSUME ps # <<>> PROVE [ps EXCEPT ![Len(ps)] = Append(@, line)] \in Seq(Text)
  <2>1. Len(ps) \in DOMAIN ps /\ ps[Len(ps)] \in Text
    BY <1>3
  <2>2. Append(ps[Len(ps)], line) \in Text
    BY <2>1 DEF Text
  <2> QED
    BY <2>1, <2>2
<1> QED
  BY <1>1, <1>2, <1>3, Zenon DEF ReadLine

LEMMA ReloadParts ==
  ASSUME NEW text \in Text
  PROVE  \E parts \in [0 .. Len(text) -> Seq(Text)] :
           /\ parts[0] = <<>>
           /\ \A n \in 1 .. Len(text) : parts[n] = ReadLine(parts[n - 1], text[n])
           /\ Reload(text) = parts[Len(text)]
<1> DEFINE N == Len(text)
           G == [z \in (1 .. N) \X Seq(Text) |-> ReadLine(z[2], text[z[1]])]
           parts[n \in 0 .. Len(text)] ==
             IF n = 0 THEN <<>> ELSE ReadLine(parts[n - 1], text[n])
<1>1. N \in Nat /\ <<>> \in Seq(Text) /\ \A n \in 1 .. N : text[n] \in Lines
  BY DEF Text
<1>2. G \in [(1 .. N) \X Seq(Text) -> Seq(Text)]
  BY <1>1, ReadLineText
<1>3. PICK f \in [0 .. N -> Seq(Text)] : Recursion(N, <<>>, G, f)
  <2> HIDE DEF G, N
  <2> QED
    BY <1>1, <1>2, RecursionExists, Zenon
<1>4. f = [n \in 0 .. N |-> IF n = 0 THEN <<>> ELSE ReadLine(f[n - 1], text[n])]
  <2>1. ASSUME NEW n \in 0 .. N, n # 0 PROVE f[n] = ReadLine(f[n - 1], text[n])
    <3>1. n \in 1 .. N /\ n - 1 \in 0 .. N
      BY <1>1, <2>1
    <3>2. f[n - 1] \in Seq(Text)
      BY <3>1, Zenon
    <3>3. G[<<n, f[n - 1]>>] = ReadLine(f[n - 1], text[n])
      BY <3>1, <3>2
    <3> HIDE DEF G
    <3> QED
      BY <1>3, <2>1, <3>3, Zenon DEF Recursion
  <2>2. ASSUME NEW n \in 0 .. N
        PROVE  f[n] = IF n = 0 THEN <<>> ELSE ReadLine(f[n - 1], text[n])
    <3> HIDE DEF G
    <3> QED
      BY <1>3, <2>1, Zenon DEF Recursion
  <2> HIDE DEF N
  <2> QED
    BY <2>2
<1>5. parts = [n \in 0 .. N |-> IF n = 0 THEN <<>> ELSE ReadLine(parts[n - 1], text[n])]
  BY <1>4, Zenon
<1>6. Reload(text) = parts[N]
  BY Zenon DEF Reload
<1> HIDE DEF parts, N, G
<1>7. /\ parts[0] = <<>>
      /\ \A n \in 1 .. N : parts[n] = ReadLine(parts[n - 1], text[n])
  BY <1>1, <1>5
<1>8. \A n \in 0 .. N : parts[n] \in Seq(Text)
  <2> DEFINE T == {n \in 0 .. N : parts[n] \in Seq(Text)}
  <2>1. 0 \in T
    <3>1. 0 \in 0 .. N
      BY <1>1
    <3> QED
      BY <1>1, <1>7, <3>1, Zenon
  <2>2. ASSUME NEW n \in 1 .. N, n - 1 \in T PROVE n \in T
    <3>1. ReadLine(parts[n - 1], text[n]) \in Seq(Text)
      BY <1>1, <2>2, ReadLineText, Zenon
    <3> QED
      BY <1>1, <1>7, <3>1
  <2>3. \A n \in 0 .. N : n \in T
    <3> HIDE DEF T
    <3> QED
      BY <1>1, <2>1, <2>2, Induction, Zenon
  <2> QED
    BY <2>3, Zenon
<1>9. parts \in [0 .. N -> Seq(Text)]
  BY <1>5, <1>8
<1> QED
  BY <1>6, <1>7, <1>9, Zenon DEF N

LEMMA ReloadSeq ==
  ASSUME NEW text \in Text
  PROVE  Reload(text) \in Seq(Text)
<1>1. PICK parts \in [0 .. Len(text) -> Seq(Text)] : Reload(text) = parts[Len(text)]
  BY ReloadParts, Zenon
<1>2. Len(text) \in 0 .. Len(text)
  BY DEF Text
<1> QED
  BY <1>1, <1>2, Zenon

LEMMA ReadLineKeeps ==
  ASSUME NEW ps \in Seq(Text), NEW line \in Lines, NEW x \in Piece
  PROVE  /\ Has(ReadLine(ps, line), x) <=> Has(ps, x) \/ line = x
         /\ HaveOnce(ps, x) /\ ~(Has(ps, x) /\ line = x) => HaveOnce(ReadLine(ps, line), x)
<1>1. CASE line = Blank
  <2>1. line # x
    BY <1>1, BlankIsNoPiece, Zenon
  <2>2. CASE ps = <<>>
    BY <1>1, <2>1, <2>2, Zenon DEF ReadLine
  <2>3. CASE ps # <<>>
    <3>1. ReadLine(ps, line) = ps \o <<<<>>>>
      <4>1. ReadLine(ps, line) = Append(ps, <<>>)
        BY <1>1, <2>3, Zenon DEF ReadLine
      <4>2. Append(ps, <<>>) = ps \o <<<<>>>>
        OBVIOUS
      <4> QED
        BY <4>1, <4>2, Zenon
    <3>2. <<>> \in Text /\ ~In(<<>>, x) /\ Once(<<>>, x)
      BY OneLine, Zenon
    <3>3. <<<<>>>> \in Seq(Text) /\ ~Has(<<<<>>>>, x) /\ HaveOnce(<<<<>>>>, x)
      BY <3>2, OneText, Zenon
    <3> QED
      <4>1. /\ Has(ps \o <<<<>>>>, x) <=> Has(ps, x) \/ Has(<<<<>>>>, x)
            /\ HaveOnce(ps, x) /\ HaveOnce(<<<<>>>>, x) /\ ~(Has(ps, x) /\ Has(<<<<>>>>, x))
                 => HaveOnce(ps \o <<<<>>>>, x)
        BY <3>3, ConcatRings, Zenon
      <4> QED
        BY <2>1, <3>1, <3>3, <4>1, Zenon
  <2> QED
    BY <2>2, <2>3, Zenon
<1>2. CASE line # Blank /\ ps = <<>>
  <2>1. ReadLine(ps, line) = <<<<line>>>>
    BY <1>2, Zenon DEF ReadLine
  <2>2. ~Has(ps, x)
    BY <1>2, OneLine, Zenon
  <2> QED
    <3>1. <<line>> \in Text /\ (In(<<line>>, x) <=> line = x) /\ Once(<<line>>, x)
      BY OneLine, Zenon
    <3>2. (Has(<<<<line>>>>, x) <=> In(<<line>>, x)) /\ (HaveOnce(<<<<line>>>>, x) <=> Once(<<line>>, x))
      BY <3>1, OneText, Zenon
    <3> QED
      BY <2>1, <2>2, <3>1, <3>2, Zenon
<1>3. CASE line # Blank /\ ps # <<>>
  <2>1. Len(ps) \in DOMAIN ps /\ ps \in [DOMAIN ps -> Text]
    BY <1>3
  <2>2. ReadLine(ps, line) = [ps EXCEPT ![Len(ps)] = Append(@, line)]
    BY <1>3, Zenon DEF ReadLine
  <2>3. [ps EXCEPT ![Len(ps)] = Append(@, line)] = [ps EXCEPT ![Len(ps)] = @ \o <<line>>]
    <3>1. ps[Len(ps)] \in Seq(Lines)
      BY <2>1, Zenon DEF Text
    <3>2. Append(ps[Len(ps)], line) = ps[Len(ps)] \o <<line>>
      BY <3>1
    <3> QED
      BY <3>2, Zenon
  <2> QED
    <3>1. <<line>> \in Text /\ (In(<<line>>, x) <=> line = x) /\ Once(<<line>>, x)
      BY OneLine, Zenon
    <3> DEFINE qs == [ps EXCEPT ![Len(ps)] = @ \o <<line>>]
    <3>2. /\ Has(qs, x) <=> Has(ps, x) \/ In(<<line>>, x)
          /\ HaveOnce(ps, x) /\ Once(<<line>>, x) /\ ~(Has(ps, x) /\ In(<<line>>, x)) => HaveOnce(qs, x)
      BY <2>1, <3>1, ExtendText, Zenon
    <3> HIDE DEF qs
    <3>3. ReadLine(ps, line) = qs
      BY <2>2, <2>3, Zenon DEF qs
    <3> QED
      BY <3>1, <3>2, <3>3, Zenon
<1> QED
  BY <1>1, <1>2, <1>3, Zenon

\* ring_buffer_load_file keeps every piece, and duplicates none.
LEMMA ReloadKeeps ==
  ASSUME NEW text \in Text, NEW x \in Piece
  PROVE  /\ Reload(text) \in Seq(Text)
         /\ Has(Reload(text), x) <=> In(text, x)
         /\ Once(text, x) => HaveOnce(Reload(text), x)
<1> DEFINE N == Len(text)
           Before(n) == \E i \in 1 .. n : text[i] = x
<1>1. PICK parts \in [0 .. N -> Seq(Text)] :
        /\ parts[0] = <<>>
        /\ \A n \in 1 .. N : parts[n] = ReadLine(parts[n - 1], text[n])
        /\ Reload(text) = parts[N]
  BY ReloadParts, Zenon
<1>2. N \in Nat /\ DOMAIN text = 1 .. N /\ \A n \in 1 .. N : text[n] \in Lines
  BY DEF Text
<1> HIDE DEF N
<1> DEFINE T == {n \in 0 .. N : /\ Has(parts[n], x) <=> Before(n)
                                /\ Once(text, x) => HaveOnce(parts[n], x)}
<1>3. 0 \in T
  <2>1. 0 \in 0 .. N /\ ~Before(0)
    BY <1>2
  <2>2. ~Has(<<>>, x) /\ HaveOnce(<<>>, x)
    BY OneLine, BlankIsNoPiece, Zenon
  <2> HIDE DEF Before
  <2> QED
    BY <1>1, <2>1, <2>2, Zenon
<1>4. ASSUME NEW n \in 1 .. N, n - 1 \in T PROVE n \in T
  <2>1. n - 1 \in 0 .. N /\ n \in 0 .. N
    BY <1>2
  <2>2. Before(n) <=> Before(n - 1) \/ text[n] = x
    <3>1. \A i \in 1 .. n : i \in 1 .. (n - 1) \/ i = n
      OBVIOUS
    <3>2. n \in 1 .. n /\ \A i \in 1 .. (n - 1) : i \in 1 .. n
      OBVIOUS
    <3> QED
      BY <3>1, <3>2, Zenon
  <2>3. Once(text, x) => ~(Before(n - 1) /\ text[n] = x)
    <3>1. \A i \in 1 .. (n - 1) : i \in 1 .. N /\ i # n
      BY <1>2
    <3> QED
      BY <1>2, <3>1, Zenon DEF Once
  <2> HIDE DEF Before
  <2>4. /\ Has(ReadLine(parts[n - 1], text[n]), x) <=> Has(parts[n - 1], x) \/ text[n] = x
        /\ HaveOnce(parts[n - 1], x) /\ ~(Has(parts[n - 1], x) /\ text[n] = x)
             => HaveOnce(ReadLine(parts[n - 1], text[n]), x)
    <3>1. parts[n - 1] \in Seq(Text) /\ text[n] \in Lines
      BY <1>2, <2>1, Zenon
    <3> QED
      BY <3>1, ReadLineKeeps, Zenon
  <2> QED
    BY <1>1, <1>4, <2>1, <2>2, <2>3, <2>4, Zenon
<1>5. N \in T
  <2>1. \A n \in 0 .. N : n \in T
    <3> HIDE DEF T
    <3> QED
      BY <1>2, <1>3, <1>4, Induction, Zenon
  <2> QED
    BY <1>2, <2>1
<1>6. Before(N) <=> In(text, x)
  BY <1>2, Zenon DEF In
<1>7. Reload(text) \in Seq(Text)
  BY <1>1, <1>2
<1> HIDE DEF Before
<1> QED
  BY <1>1, <1>5, <1>6, <1>7, Zenon

-----------------------------------------------------------------------------
(* The ring written out as one text.                                         *)

LEMMA JoinedParts ==
  ASSUME NEW r \in Seq(Text)
  PROVE  \E upTo : /\ upTo[0] = <<>>
                   /\ \A n \in 1 .. Len(r) : upTo[n] = upTo[n - 1] \o r[n]
                   /\ Joined(r) = upTo[Len(r)]
<1> DEFINE N == Len(r)
           G == [z \in (1 .. N) \X Text |-> z[2] \o r[z[1]]]
           upTo[n \in 0 .. Len(r)] == IF n = 0 THEN <<>> ELSE upTo[n - 1] \o r[n]
<1>1. N \in Nat /\ \A n \in 1 .. N : r[n] \in Text
  OBVIOUS
<1>2. <<>> \in Text
  BY DEF Text
<1>3. G \in [(1 .. N) \X Text -> Text]
  BY <1>1, ConcatTexts
<1>4. PICK f \in [0 .. N -> Text] : Recursion(N, <<>>, G, f)
  <2> HIDE DEF G, N
  <2> QED
    BY <1>1, <1>2, <1>3, RecursionExists, Zenon
<1>5. ASSUME NEW n \in 0 .. N PROVE f[n] = IF n = 0 THEN <<>> ELSE f[n - 1] \o r[n]
  <2>1. CASE n = 0
    <3> HIDE DEF G, N
    <3> QED
      BY <1>4, <2>1, Zenon DEF Recursion
  <2>2. CASE n # 0
    <3>1. n \in 1 .. N /\ n - 1 \in 0 .. N
      BY <1>1, <2>2
    <3>2. f[n - 1] \in Text
      BY <3>1, Zenon
    <3>3. G[<<n, f[n - 1]>>] = f[n - 1] \o r[n]
      BY <3>1, <3>2, Zenon
    <3> HIDE DEF G
    <3> QED
      BY <1>4, <2>2, <3>3, Zenon DEF Recursion
  <2> QED
    BY <2>1, <2>2, Zenon
<1>6. f = [n \in 0 .. N |-> IF n = 0 THEN <<>> ELSE f[n - 1] \o r[n]]
  <2> HIDE DEF N, G
  <2> QED
    BY <1>5, Zenon
<1>7. upTo = [n \in 0 .. N |-> IF n = 0 THEN <<>> ELSE upTo[n - 1] \o r[n]]
  BY <1>6, Zenon
<1>8. Joined(r) = upTo[N]
  BY Zenon DEF Joined
<1> HIDE DEF upTo, N, G
<1>9. ASSUME NEW n \in 0 .. N PROVE upTo[n] = IF n = 0 THEN <<>> ELSE upTo[n - 1] \o r[n]
  BY <1>7, Zenon
<1>10. 0 \in 0 .. N /\ \A n \in 1 .. N : n \in 0 .. N /\ n # 0
  BY <1>1
<1>11. upTo[0] = <<>> /\ \A n \in 1 .. N : upTo[n] = upTo[n - 1] \o r[n]
  BY <1>9, <1>10, Zenon
<1> QED
  BY <1>8, <1>11, Zenon DEF N

\* save_file_ring_buffer writes every piece of the ring, each once.
LEMMA JoinedKeeps ==
  ASSUME NEW r \in Seq(Text), NEW x
  PROVE  /\ Joined(r) \in Text
         /\ In(Joined(r), x) <=> Has(r, x)
         /\ HaveOnce(r, x) => Once(Joined(r), x)
<1> DEFINE N == Len(r)
           Before(n) == \E i \in 1 .. n : In(r[i], x)
<1>1. PICK upTo : /\ upTo[0] = <<>>
                  /\ \A n \in 1 .. N : upTo[n] = upTo[n - 1] \o r[n]
                  /\ Joined(r) = upTo[N]
  BY JoinedParts, Zenon
<1>2. N \in Nat /\ DOMAIN r = 1 .. N /\ \A n \in 1 .. N : r[n] \in Text
  OBVIOUS
<1> HIDE DEF N
<1> DEFINE Ok(n) == /\ upTo[n] \in Text
                    /\ In(upTo[n], x) <=> Before(n)
                    /\ HaveOnce(r, x) => Once(upTo[n], x)
           T == {n \in 0 .. N : Ok(n)}
<1>3. 0 \in T
  <2>1. 0 \in 0 .. N /\ ~Before(0)
    BY <1>2
  <2>2. <<>> \in Text /\ ~In(<<>>, x) /\ Once(<<>>, x)
    BY OneLine, BlankIsNoPiece, Zenon
  <2> HIDE DEF Before
  <2> QED
    BY <1>1, <2>1, <2>2, Zenon
<1>4. ASSUME NEW n \in 1 .. N, n - 1 \in T PROVE n \in T
  <2>1. n \in 0 .. N
    BY <1>2
  <2>2. Ok(n - 1)
    BY <1>4, Zenon
  <2>3. Before(n) <=> Before(n - 1) \/ In(r[n], x)
    <3>1. \A i \in 1 .. n : i \in 1 .. (n - 1) \/ i = n
      OBVIOUS
    <3>2. n \in 1 .. n /\ \A i \in 1 .. (n - 1) : i \in 1 .. n
      OBVIOUS
    <3> QED
      BY <3>1, <3>2, Zenon
  <2>4. HaveOnce(r, x) => Once(r[n], x) /\ ~(Before(n - 1) /\ In(r[n], x))
    <3>1. \A i \in 1 .. (n - 1) : i \in 1 .. N /\ i # n
      BY <1>2
    <3> QED
      BY <1>2, <3>1, Zenon DEF HaveOnce
  <2> HIDE DEF Before
  <2>5. r[n] \in Text /\ upTo[n] = upTo[n - 1] \o r[n]
    BY <1>1, <1>2, Zenon
  <2>6. upTo[n - 1] \in Text
    BY <2>2, Zenon
  <2>7. /\ upTo[n - 1] \o r[n] \in Text
        /\ In(upTo[n - 1] \o r[n], x) <=> In(upTo[n - 1], x) \/ In(r[n], x)
        /\ Once(upTo[n - 1], x) /\ Once(r[n], x) /\ ~(In(upTo[n - 1], x) /\ In(r[n], x))
             => Once(upTo[n - 1] \o r[n], x)
    BY <2>5, <2>6, ConcatTexts, Zenon
  <2>8. Ok(n)
    BY <2>2, <2>3, <2>4, <2>5, <2>7, Zenon
  <2> QED
    BY <2>1, <2>8, Zenon
<1>5. N \in T
  <2> HIDE DEF T
  <2>1. \A n \in 0 .. N : n \in T
    BY <1>2, <1>3, <1>4, Induction, Zenon
  <2> QED
    BY <1>2, <2>1
<1>6. Ok(N)
  BY <1>5, Zenon
<1>7. Before(N) <=> Has(r, x)
  BY <1>2, Zenon DEF Has
<1> HIDE DEF Before
<1> QED
  BY <1>1, <1>6, <1>7, Zenon

-----------------------------------------------------------------------------
(* A good state of the node: whatever is collected is in one place at most.  *)

Sent(o, x) == \E m \in o : Has(m, x)

Apart(r, f, o, x) ==
  /\ HaveOnce(r, x) /\ HaveOnce(f, x) /\ ~(Has(r, x) /\ Has(f, x))
  /\ Sent(o, x) => ~Has(r, x) /\ ~Has(f, x)

Messages == Seq(Text) \ {<<>>}

Node ==
  [ring : Seq(Text), files : [Days -> Text], mode : BOOLEAN, succ : 0 .. SuccMax,
   out : SUBSET Messages, broker : {"down", "slow", "up"}, disk : BOOLEAN]

Good == {s \in Node : \A x \in Piece : Apart(s.ring, s.files, s.out, x)}

Fresh(s, p) ==
  /\ p \in Text
  /\ \A x \in Piece : /\ Once(p, x)
                      /\ In(p, x) => ~Has(s.ring, x) /\ ~Has(s.files, x) /\ ~Sent(s.out, x)

LEMMA GoodFields ==
  ASSUME NEW s \in Good
  PROVE  /\ s \in Node
         /\ s.ring \in Seq(Text) /\ s.files \in [Days -> Text] /\ s.mode \in BOOLEAN
         /\ s.succ \in 0 .. SuccMax /\ s.out \in SUBSET Messages
         /\ s.broker \in {"down", "slow", "up"} /\ s.disk \in BOOLEAN
         /\ \A x \in Piece : Apart(s.ring, s.files, s.out, x)
<1>1. s \in Node /\ \A x \in Piece : Apart(s.ring, s.files, s.out, x)
  BY Zenon DEF Good
<1> QED
  BY <1>1 DEF Node

\* The sets of pieces of the model, as occurrences.
LEMMA PiecesAreHeld ==
  ASSUME NEW x \in Piece
  PROVE  /\ \A m \in Seq(Text) : x \in PiecesOf(m) <=> Has(m, x)
         /\ \A f \in [Days -> Text] : x \in InFiles(f) <=> Has(f, x)
         /\ \A o \in SUBSET Messages : x \in Published(o) <=> Sent(o, x)
<1>1. x # Blank
  BY BlankIsNoPiece, Zenon
<1>2. \A p : x \in Pieces(p) <=> In(p, x)
  BY <1>1, Zenon DEF Pieces, Range, In
<1>3. \A m : x \in PiecesOf(m) <=> Has(m, x)
  <2> TAKE m
  <2>1. x \in PiecesOf(m) <=> \E p \in Range(m) : x \in Pieces(p)
    BY Zenon DEF PiecesOf
  <2>2. (\E p \in Range(m) : In(p, x)) <=> \E n \in DOMAIN m : In(m[n], x)
    BY Zenon DEF Range
  <2> QED
    BY <1>2, <2>1, <2>2, Zenon DEF Has
<1>4. ASSUME NEW f \in [Days -> Text] PROVE x \in InFiles(f) <=> Has(f, x)
  <2>1. DOMAIN f = Days
    OBVIOUS
  <2> QED
    <3>1. x \in InFiles(f) <=> \E d \in Days : x \in Pieces(f[d])
      BY Zenon DEF InFiles
    <3> QED
      BY <1>2, <2>1, <3>1, Zenon DEF Has
<1>5. \A o : x \in Published(o) <=> Sent(o, x)
  BY <1>3, Zenon DEF Published, Sent
<1> QED
  BY <1>3, <1>4, <1>5, Zenon

LEMMA SetSucc ==
  ASSUME NEW s \in Good, NEW c \in 0 .. SuccMax
  PROVE  [s EXCEPT !.succ = c] \in Good
<1> DEFINE t == [s EXCEPT !.succ = c]
<1>1. s \in Node
  BY GoodFields, Zenon
<1>2. t \in Node /\ t.ring = s.ring /\ t.files = s.files /\ t.out = s.out
  BY <1>1 DEF Node
<1> HIDE DEF t
<1>3. t \in Good
  BY <1>2, GoodFields, Zenon DEF Good
<1> QED
  BY <1>3, Zenon DEF t

LEMMA SetMode ==
  ASSUME NEW s \in Good, NEW m \in BOOLEAN
  PROVE  [s EXCEPT !.mode = m] \in Good
<1> DEFINE t == [s EXCEPT !.mode = m]
<1>1. s \in Node
  BY GoodFields, Zenon
<1>2. t \in Node /\ t.ring = s.ring /\ t.files = s.files /\ t.out = s.out
  BY ZenonT(30), <1>1 DEF Node
<1> HIDE DEF t
<1>3. t \in Good
  BY <1>2, GoodFields, Zenon DEF Good
<1> QED
  BY <1>3, Zenon DEF t

LEMMA ZeroSucc == 0 \in 0 .. SuccMax /\ SuccMax \in Nat /\ Cardinality(Days) \in Nat
<1>1. SuccMax \in Nat /\ IsFiniteSet(Days)
  BY MonitorAssumption
<1> QED
  BY <1>1, FS_CardinalityType

LEMMA CountUp == \A c \in 0 .. SuccMax : c < SuccMax => c + 1 \in 0 .. SuccMax
BY ZeroSucc

\* A ring emptied by the end of the process.
LEMMA DropRing ==
  ASSUME NEW s \in Good
  PROVE  [s EXCEPT !.ring = <<>>] \in Good
<1> DEFINE t == [s EXCEPT !.ring = <<>>]
<1>1. s \in Node
  BY GoodFields, Zenon
<1>2. t \in Node /\ t.ring = <<>> /\ t.files = s.files /\ t.out = s.out
  <2>1. <<>> \in Seq(Text)
    OBVIOUS
  <2> QED
    BY <1>1, <2>1, Zenon DEF Node
<1>3. \A x \in Piece : ~Has(<<>>, x) /\ HaveOnce(<<>>, x)
  BY OneLine, BlankIsNoPiece, Zenon
<1> HIDE DEF t
<1>4. t \in Good
  BY <1>2, <1>3, GoodFields, Zenon DEF Good, Apart
<1> QED
  BY <1>4, Zenon DEF t

-----------------------------------------------------------------------------
(* A payload enters the ring.                                                *)

LEMMA FreshPayload ==
  ASSUME NEW s \in Good, NEW i \in FreeIds(s), NEW hdr
  PROVE  Fresh(s, Payload(i, hdr))
<1>1. i \in 1 .. NumIds /\ Hdr(i) \in Piece /\ Sample(i) \in Piece /\ Hdr(i) # Sample(i)
  BY DEF FreeIds, Piece, Hdr, Sample
<1>2. Blank \in Lines /\ Blank # Hdr(i) /\ Blank # Sample(i) /\ Hdr(i) \in Lines /\ Sample(i) \in Lines
  BY <1>1, BlankIsNoPiece, Zenon
<1> DEFINE long == <<Hdr(i), Blank, Sample(i)>>
           short == <<Blank, Sample(i)>>
<1>3. /\ long \in Text /\ DOMAIN long = {1, 2, 3}
      /\ long[1] = Hdr(i) /\ long[2] = Blank /\ long[3] = Sample(i)
      /\ short \in Text /\ DOMAIN short = {1, 2} /\ short[1] = Blank /\ short[2] = Sample(i)
  BY <1>2 DEF Text
<1>4. Payload(i, hdr) = long \/ Payload(i, hdr) = short
  BY Zenon DEF Payload
<1> HIDE DEF long, short
<1>5. ASSUME NEW x \in Piece
      PROVE  /\ Once(long, x) /\ (In(long, x) => x \in {Hdr(i), Sample(i)})
             /\ Once(short, x) /\ (In(short, x) => x \in {Hdr(i), Sample(i)})
  <2>1. x # Blank
    BY BlankIsNoPiece, Zenon
  <2>2. In(long, x) => x \in {Hdr(i), Sample(i)}
    BY <1>3, <2>1 DEF In
  <2>3. In(short, x) => x \in {Hdr(i), Sample(i)}
    BY <1>3, <2>1 DEF In
  <2>4. Once(long, x)
    BY <1>1, <1>3, <2>1 DEF Once
  <2>5. Once(short, x)
    BY <1>3, <2>1 DEF Once
  <2> QED
    BY <2>2, <2>3, <2>4, <2>5, Zenon
<1>6. ASSUME NEW x \in Piece, x \in {Hdr(i), Sample(i)}
      PROVE  ~Has(s.ring, x) /\ ~Has(s.files, x) /\ ~Sent(s.out, x)
  <2>1. x \notin PiecesOf(s.ring) \cup InFiles(s.files) \cup Published(s.out)
    BY <1>6, Zenon DEF FreeIds
  <2>2. s.ring \in Seq(Text) /\ s.files \in [Days -> Text] /\ s.out \in SUBSET Messages
    BY GoodFields, Zenon
  <2> QED
    BY <2>1, <2>2, PiecesAreHeld, Zenon
<1> QED
  BY <1>3, <1>4, <1>5, <1>6, Zenon DEF Fresh

LEMMA AppendGood ==
  ASSUME NEW s \in Good, NEW p, Fresh(s, p)
  PROVE  [s EXCEPT !.ring = Append(s.ring, p)] \in Good
<1> DEFINE t == [s EXCEPT !.ring = Append(s.ring, p)]
<1>1. p \in Text /\ s \in Node /\ s.ring \in Seq(Text)
  BY GoodFields, Zenon DEF Fresh
<1>2. Append(s.ring, p) = s.ring \o <<p>> /\ Append(s.ring, p) \in Seq(Text)
  BY <1>1
<1>3. t \in Node /\ t.ring = s.ring \o <<p>> /\ t.files = s.files /\ t.out = s.out
  BY <1>1, <1>2, Zenon DEF Node
<1>4. ASSUME NEW x \in Piece PROVE Apart(s.ring \o <<p>>, s.files, s.out, x)
  <2>1. /\ <<p>> \in Seq(Text)
        /\ Has(<<p>>, x) <=> In(p, x)
        /\ Once(p, x) => HaveOnce(<<p>>, x)
    BY <1>1, OneText, Zenon
  <2>2. /\ Has(s.ring \o <<p>>, x) <=> Has(s.ring, x) \/ Has(<<p>>, x)
        /\ HaveOnce(s.ring, x) /\ HaveOnce(<<p>>, x) /\ ~(Has(s.ring, x) /\ Has(<<p>>, x))
             => HaveOnce(s.ring \o <<p>>, x)
    BY <1>1, <2>1, ConcatRings, Zenon
  <2>3. Apart(s.ring, s.files, s.out, x)
    BY GoodFields, Zenon
  <2>4. Once(p, x) /\ (In(p, x) => ~Has(s.ring, x) /\ ~Has(s.files, x) /\ ~Sent(s.out, x))
    BY Zenon DEF Fresh
  <2> QED
    BY <2>1, <2>2, <2>3, <2>4, Zenon DEF Apart
<1> HIDE DEF t
<1>5. t \in Good
  BY <1>3, <1>4, Zenon DEF Good
<1> QED
  BY <1>5, Zenon DEF t

\* The overwritten payload leaves, what was before it moves behind the rest.
LEMMA OverwriteGood ==
  ASSUME NEW s \in Good, NEW p, Fresh(s, p), NEW v \in DOMAIN s.ring
  PROVE  [s EXCEPT !.ring = SubSeq(s.ring, v + 1, Len(s.ring)) \o SubSeq(s.ring, 1, v - 1) \o <<p>>] \in Good
<1> DEFINE r == s.ring
           a == SubSeq(r, v + 1, Len(r))
           b == SubSeq(r, 1, v - 1)
           q == a \o b \o <<p>>
           t == [s EXCEPT !.ring = q]
<1>1. p \in Text /\ s \in Node /\ r \in Seq(Text)
  BY GoodFields, Zenon DEF Fresh
<1> HIDE DEF r
<1>2. v \in 1 .. Len(r) /\ v + 1 \in 1 .. Len(r) + 1 /\ Len(r) \in 0 .. Len(r)
      /\ 1 \in 1 .. Len(r) + 1 /\ v - 1 \in 0 .. Len(r)
  BY <1>1 DEF r
<1>3. a \in Seq(Text) /\ b \in Seq(Text)
  BY <1>1, <1>2, SegmentPlaces, Zenon
<1>4. ASSUME NEW x
      PROVE  /\ Has(a, x) <=> \E i \in v + 1 .. Len(r) : i \in DOMAIN r /\ In(r[i], x)
             /\ Has(b, x) <=> \E i \in 1 .. v - 1 : i \in DOMAIN r /\ In(r[i], x)
             /\ HaveOnce(r, x) => HaveOnce(a, x) /\ HaveOnce(b, x)
  BY <1>1, <1>2, Segment, Zenon
<1>5. \A i \in v + 1 .. Len(r), j \in 1 .. v - 1 : i # j
  BY <1>2
<1> HIDE DEF a, b
<1>6. a \o b \in Seq(Text) /\ <<p>> \in Seq(Text) /\ q \in Seq(Text)
  BY <1>1, <1>3
<1>7. ASSUME NEW x \in Piece PROVE Apart(q, s.files, s.out, x)
  <2>1. Apart(r, s.files, s.out, x)
    BY GoodFields, Zenon DEF r
  <2>2. Once(p, x) /\ (In(p, x) => ~Has(r, x) /\ ~Has(s.files, x) /\ ~Sent(s.out, x))
    BY Zenon DEF Fresh, r
  <2>3. HaveOnce(a, x) /\ HaveOnce(b, x)
    BY <1>4, <2>1, Zenon DEF Apart
  <2>4. (Has(a, x) => Has(r, x)) /\ (Has(b, x) => Has(r, x))
    BY <1>4, Zenon DEF Has
  <2>5. ~(Has(a, x) /\ Has(b, x))
    <3>1. SUFFICES ASSUME Has(a, x), Has(b, x) PROVE FALSE
      BY Zenon
    <3>2. PICK i \in v + 1 .. Len(r) : i \in DOMAIN r /\ In(r[i], x)
      BY <1>4, <3>1, Zenon
    <3>3. PICK j \in 1 .. v - 1 : j \in DOMAIN r /\ In(r[j], x)
      BY <1>4, <3>1, Zenon
    <3> QED
      BY <1>5, <2>1, <3>2, <3>3, Zenon DEF Apart, HaveOnce
  <2>6. /\ Has(<<p>>, x) <=> In(p, x)
        /\ Once(p, x) => HaveOnce(<<p>>, x)
    BY <1>1, OneText, Zenon
  <2>7. /\ Has(a \o b, x) <=> Has(a, x) \/ Has(b, x)
        /\ HaveOnce(a, x) /\ HaveOnce(b, x) /\ ~(Has(a, x) /\ Has(b, x)) => HaveOnce(a \o b, x)
    BY <1>3, ConcatRings, Zenon
  <2>8. /\ Has(q, x) <=> Has(a \o b, x) \/ Has(<<p>>, x)
        /\ HaveOnce(a \o b, x) /\ HaveOnce(<<p>>, x) /\ ~(Has(a \o b, x) /\ Has(<<p>>, x))
             => HaveOnce(q, x)
    BY <1>6, ConcatRings, Zenon
  <2> HIDE DEF q
  <2>9. HaveOnce(q, x) /\ (Has(q, x) => Has(r, x) \/ In(p, x))
    BY <2>2, <2>3, <2>4, <2>5, <2>6, <2>7, <2>8, Zenon
  <2> QED
    BY <2>1, <2>2, <2>9, Zenon DEF Apart
<1> HIDE DEF q
<1>8. t \in Node /\ t.ring = q /\ t.files = s.files /\ t.out = s.out
  BY <1>1, <1>6, Zenon DEF Node
<1> HIDE DEF t
<1>9. t \in Good
  BY <1>7, <1>8, Zenon DEF Good
<1> QED
  BY <1>9, Zenon DEF t, q, a, b, r

\* Lines appended to a dumpfile that are nowhere else.
LEMMA SpoolGood ==
  ASSUME NEW s \in Good, NEW p, Fresh(s, p), NEW d \in Days
  PROVE  [s EXCEPT !.files[d] = @ \o p] \in Good
<1> DEFINE f == [s.files EXCEPT ![d] = @ \o p]
           t == [s EXCEPT !.files = f]
<1>1. p \in Text /\ s \in Node /\ s.files \in [Days -> Text]
  BY GoodFields, Zenon DEF Fresh
<1>2. ASSUME NEW x
      PROVE  /\ f \in [Days -> Text]
             /\ Has(f, x) <=> Has(s.files, x) \/ In(p, x)
             /\ HaveOnce(s.files, x) /\ Once(p, x) /\ ~(Has(s.files, x) /\ In(p, x)) => HaveOnce(f, x)
  BY <1>1, ExtendText, Zenon
<1> HIDE DEF f
<1>3. t \in Node /\ t.ring = s.ring /\ t.files = f /\ t.out = s.out
  BY <1>1, <1>2, Zenon DEF Node
<1>4. ASSUME NEW x \in Piece PROVE Apart(s.ring, f, s.out, x)
  <2>1. Apart(s.ring, s.files, s.out, x)
    BY GoodFields, Zenon
  <2>2. Once(p, x) /\ (In(p, x) => ~Has(s.ring, x) /\ ~Has(s.files, x) /\ ~Sent(s.out, x))
    BY Zenon DEF Fresh
  <2> QED
    BY <1>2, <2>1, <2>2, Zenon DEF Apart
<1> HIDE DEF t
<1>5. t \in Good
  BY <1>3, <1>4, Zenon DEF Good
<1>6. t = [s EXCEPT !.files[d] = @ \o p]
  BY Zenon DEF t, f
<1> QED
  BY <1>5, <1>6, Zenon

LEMMA RefusedGood ==
  ASSUME NEW s \in Good, NEW p, Fresh(s, p), day \in Days
  PROVE  Refused(s, p) \in Good
<1> DEFINE t == [s EXCEPT !.files[day] = @ \o p]
           u == [t EXCEPT !.mode = TRUE]
<1>1. t \in Good
  BY SpoolGood, Zenon
<1> HIDE DEF t
<1>2. u \in Good
  BY <1>1, SetMode, Zenon
<1> HIDE DEF u
<1>3. [u EXCEPT !.succ = 0] \in Good
  BY <1>2, SetSucc, ZeroSucc, Zenon
<1>4. Refused(s, p) = [u EXCEPT !.succ = 0]
  BY Zenon DEF Refused, u, t
<1> QED
  BY <1>3, <1>4, Zenon

LEMMA InsertGood ==
  ASSUME NEW s \in Good, NEW p, Fresh(s, p), day \in Days
  PROVE  Insert(s, p) \in Good
<1> DEFINE r == s.ring
           v == CHOOSE n \in Victims(r) : \A k \in Victims(r) : n <= k
           over == [s EXCEPT !.ring = SubSeq(r, v + 1, Len(r)) \o SubSeq(r, 1, v - 1) \o <<p>>]
<1>1. [s EXCEPT !.ring = Append(r, p)] \in Good
  BY AppendGood, Zenon
<1>2. ASSUME Victims(r) # {} PROVE over \in Good
  <2>1. Victims(r) \in SUBSET Nat /\ Victims(r) \subseteq DOMAIN r
    <3>1. r \in Seq(Text)
      BY GoodFields, Zenon
    <3> HIDE DEF r
    <3> QED
      BY <3>1 DEF Victims
  <2>2. \E n \in Victims(r) : \A k \in Victims(r) : n <= k
    BY <1>2, <2>1, LeastOf, Zenon
  <2>3. v \in DOMAIN r
    BY <2>1, <2>2, Zenon
  <2> HIDE DEF v
  <2> QED
    BY <2>3, OverwriteGood, Zenon
<1>3. Refused(s, p) \in Good
  BY RefusedGood, Zenon
<1>4. \/ Insert(s, p) = [s EXCEPT !.ring = Append(r, p)]
      \/ Victims(r) # {} /\ Insert(s, p) = over
      \/ Insert(s, p) = Refused(s, p)
      \/ Insert(s, p) = s
  BY Zenon DEF Insert
<1> HIDE DEF over
<1> QED
  BY <1>1, <1>2, <1>3, <1>4, Zenon

LEMMA CollectGood ==
  ASSUME NEW s \in Good, NEW hdr, day \in Days
  PROVE  Collect(s, hdr) \subseteq Good
<1>1. ASSUME NEW i \in FreeIds(s) PROVE Insert(s, Payload(i, hdr)) \in Good
  BY FreshPayload, InsertGood, Zenon
<1> QED
  BY <1>1, Zenon DEF Collect

-----------------------------------------------------------------------------
(* Messages leave the ring.                                                  *)

\* A message of a cut is a segment of the ring that ends at or before its last cut.
LEMMA MessageSegments ==
  ASSUME NEW r \in Seq(Text), NEW C \in SUBSET DOMAIN r, NEW last \in C,
         \A k \in C : k <= last, NEW m \in MessagesOf(r, C)
  PROVE  /\ m \in Messages
         /\ \A x : Has(m, x) => \E i \in 1 .. last : i \in DOMAIN r /\ In(r[i], x)
<1>1. PICK y \in (C \cup {0}) \X C : y[1] < y[2] /\ m = SubSeq(r, y[1] + 1, y[2])
  BY Zenon DEF MessagesOf
<1> DEFINE a == y[1]
           b == y[2]
<1>2. a \in C \cup {0} /\ b \in C
  OBVIOUS
<1>3. a < b /\ m = SubSeq(r, a + 1, b)
  BY <1>1, Zenon
<1> HIDE DEF a, b
<1>4. /\ a + 1 \in 1 .. Len(r) + 1 /\ b \in 0 .. Len(r) /\ b <= last /\ a + 1 <= b
      /\ a \in Nat /\ b \in Nat /\ last \in Nat
  <2> DEFINE N == Len(r)
  <2>1. DOMAIN r = 1 .. N /\ N \in Nat
    OBVIOUS
  <2>2. (a = 0 \/ a \in 1 .. N) /\ b \in 1 .. N /\ last \in 1 .. N /\ b <= last
    BY <1>2, <2>1, Zenon
  <2> HIDE DEF N
  <2>3. /\ a + 1 \in 1 .. N + 1 /\ b \in 0 .. N /\ b <= last /\ a + 1 <= b
        /\ a \in Nat /\ b \in Nat /\ last \in Nat
    BY <1>3, <2>1, <2>2
  <2> QED
    BY <2>3, Zenon DEF N
<1>5. m \in Seq(Text) /\ Len(m) = IF a + 1 <= b THEN b - (a + 1) + 1 ELSE 0
  BY <1>3, <1>4, SegmentPlaces, Zenon
<1>6. m # <<>>
  BY <1>4, <1>5
<1>7. ASSUME NEW x, Has(m, x) PROVE \E i \in 1 .. last : i \in DOMAIN r /\ In(r[i], x)
  <2>1. PICK i \in a + 1 .. b : i \in DOMAIN r /\ In(r[i], x)
    BY <1>3, <1>4, <1>7, Segment, Zenon
  <2>2. i \in 1 .. last
    BY <1>4
  <2> QED
    BY <2>1, <2>2, Zenon
<1> QED
  BY <1>5, <1>6, <1>7, Zenon DEF Messages

LEMMA ResendGood ==
  ASSUME NEW s \in Good
  PROVE  Resend(s) \subseteq Good
<1> DEFINE r == s.ring
           After(C) == [s EXCEPT !.ring = Drop(@, CHOOSE n \in C : \A k \in C : k <= n),
                                 !.out = @ \cup MessagesOf(s.ring, C)]
<1>1. r \in Seq(Text) /\ s \in Node /\ s.out \in SUBSET Messages
  BY GoodFields, Zenon
<1>2. ASSUME NEW C \in Cuts(r, s.broker) PROVE After(C) \in Good
  <2> HIDE DEF r
  <2> DEFINE last == CHOOSE n \in C : \A k \in C : k <= n
             q == Drop(r, last)
             o == s.out \cup MessagesOf(r, C)
             t == [s EXCEPT !.ring = q, !.out = o]
  <2>1. C \in SUBSET DOMAIN r /\ C # {}
    BY Zenon DEF Cuts
  <2>2. C \in SUBSET (0 .. Len(r)) /\ Len(r) \in Nat
    BY <1>1, <2>1
  <2>3. \E n \in C : \A k \in C : k <= n
    BY <2>1, <2>2, GreatestOf, Zenon
  <2>4. last \in C /\ \A k \in C : k <= last
    BY <2>3, Zenon
  <2> HIDE DEF last
  <2>5. last + 1 \in 1 .. Len(r) + 1 /\ Len(r) \in 0 .. Len(r) /\ last \in 1 .. Len(r)
    BY <1>1, <2>1, <2>2, <2>4
  <2>6. q \in Seq(Text)
    BY <1>1, <2>5, SegmentPlaces, Zenon DEF Drop
  <2>7. ASSUME NEW x
        PROVE  /\ Has(q, x) <=> \E i \in last + 1 .. Len(r) : i \in DOMAIN r /\ In(r[i], x)
               /\ HaveOnce(r, x) => HaveOnce(q, x)
    BY <1>1, <2>5, Segment, Zenon DEF Drop
  <2>8. ASSUME NEW m \in MessagesOf(r, C)
        PROVE  /\ m \in Messages
               /\ \A x : Has(m, x) => \E i \in 1 .. last : i \in DOMAIN r /\ In(r[i], x)
    BY <1>1, <2>1, <2>4, MessageSegments, Zenon
  <2>9. \A i \in last + 1 .. Len(r), j \in 1 .. last : i # j
    BY <2>5
  <2>10. o \in SUBSET Messages
    BY <1>1, <2>8, Zenon
  <2> HIDE DEF q
  <2>11. ASSUME NEW x \in Piece PROVE Apart(q, s.files, o, x)
    <3>1. Apart(r, s.files, s.out, x)
      BY GoodFields, Zenon DEF r
    <3>2. Has(q, x) => Has(r, x)
      BY <2>7, Zenon DEF Has
    <3>3. ASSUME NEW m \in MessagesOf(r, C), Has(m, x) PROVE ~Has(q, x) /\ ~Has(s.files, x)
      <4>1. PICK j \in 1 .. last : j \in DOMAIN r /\ In(r[j], x)
        BY <2>8, <3>3, Zenon
      <4>2. ~Has(s.files, x)
        BY <3>1, <4>1, Zenon DEF Apart, Has
      <4>3. ASSUME Has(q, x) PROVE FALSE
        <5>1. PICK i \in last + 1 .. Len(r) : i \in DOMAIN r /\ In(r[i], x)
          BY <2>7, <4>3, Zenon
        <5> QED
          BY <2>9, <3>1, <4>1, <5>1, Zenon DEF Apart, HaveOnce
      <4> QED
        BY <4>2, <4>3, Zenon
    <3>4. Sent(o, x) => ~Has(q, x) /\ ~Has(s.files, x)
      <4>1. SUFFICES ASSUME NEW m \in o, Has(m, x) PROVE ~Has(q, x) /\ ~Has(s.files, x)
        BY Zenon DEF Sent
      <4>2. CASE m \in s.out
        BY <3>1, <3>2, <4>1, <4>2, Zenon DEF Apart, Sent
      <4>3. CASE m \in MessagesOf(r, C)
        BY <3>3, <4>1, <4>3, Zenon
      <4> QED
        BY <4>1, <4>2, <4>3, Zenon
    <3> HIDE DEF o
    <3> QED
      BY <2>7, <3>1, <3>2, <3>4, Zenon DEF Apart
  <2> HIDE DEF o
  <2>12. t \in Node /\ t.ring = q /\ t.files = s.files /\ t.out = o
    BY <1>1, <2>6, <2>10, Zenon DEF Node
  <2>13. After(C) = t
    BY Zenon DEF t, q, o, r, last
  <2> HIDE DEF t
  <2>14. t \in Good
    BY <2>11, <2>12, Zenon DEF Good
  <2> QED
    BY <2>13, <2>14, Zenon
<1>3. \A t \in Resend(s) : t = s \/ \E C \in Cuts(r, s.broker) : t = After(C)
  BY Zenon DEF Resend
<1> HIDE DEF After
<1> QED
  BY <1>2, <1>3, Zenon

LEMMA ResendIfNonemptyGood ==
  ASSUME NEW s \in Good
  PROVE  ResendIfNonempty(s) \subseteq Good
<1>1. ASSUME NEW t \in Resend(s) PROVE [t EXCEPT !.succ = IF t.ring = <<>> THEN @ ELSE 0] \in Good
  <2>1. t \in Good /\ t.succ \in 0 .. SuccMax /\ 0 \in 0 .. SuccMax
    BY ResendGood, GoodFields, ZeroSucc, Zenon
  <2>2. [t EXCEPT !.succ = t.succ] \in Good /\ [t EXCEPT !.succ = 0] \in Good
    BY <2>1, SetSucc, Zenon
  <2> QED
    BY <2>2, Zenon
<1> QED
  BY <1>1, Zenon DEF ResendIfNonempty

LEMMA RotateFlushGood ==
  ASSUME NEW s \in Good, day \in Days
  PROVE  RotateFlush(s) \subseteq Good
<1>1. Collect(s, TRUE) \subseteq Good
  BY CollectGood, Zenon
<1>2. RotateFlush(s) = UNION {ResendIfNonempty(t) : t \in Collect(s, TRUE)}
  BY DEF RotateFlush, Then
<1> QED
  BY <1>1, <1>2, ResendIfNonemptyGood, Zenon

-----------------------------------------------------------------------------
(* Dumpfiles are replayed.                                                   *)

LEMMA EraseText ==
  ASSUME NEW F \in [Days -> Text], NEW d \in Days, NEW x
  PROVE  /\ [F EXCEPT ![d] = <<>>] \in [Days -> Text]
         /\ Has([F EXCEPT ![d] = <<>>], x) <=> \E e \in Days \ {d} : In(F[e], x)
         /\ HaveOnce(F, x) => HaveOnce([F EXCEPT ![d] = <<>>], x)
<1> DEFINE none == <<>>
<1>1. none \in Text /\ ~In(none, x) /\ Once(none, x)
  BY OneLine, BlankIsNoPiece, Zenon
<1> HIDE DEF none
<1>2. /\ [F EXCEPT ![d] = none] \in [Days -> Text]
      /\ Has([F EXCEPT ![d] = none], x) <=> In(none, x) \/ \E b \in Days \ {d} : In(F[b], x)
      /\ /\ HaveOnce(F, x) /\ Once(none, x)
         /\ In(none, x) => \A b \in Days \ {d} : ~In(F[b], x)
         => HaveOnce([F EXCEPT ![d] = none], x)
  BY <1>1, ReplaceText, Zenon
<1>3. /\ [F EXCEPT ![d] = none] \in [Days -> Text]
      /\ Has([F EXCEPT ![d] = none], x) <=> \E e \in Days \ {d} : In(F[e], x)
      /\ HaveOnce(F, x) => HaveOnce([F EXCEPT ![d] = none], x)
  BY <1>1, <1>2, Zenon
<1> QED
  BY <1>3, Zenon DEF none

\* The payloads of a dumpfile are in the ring, the file is gone.
LEMMA LoadGood ==
  ASSUME NEW s \in Good, NEW d \in Days
  PROVE  Unlink([s EXCEPT !.ring = @ \o Reload(s.files[d])], d) \in Good
<1> DEFINE text == s.files[d]
           q == s.ring \o Reload(text)
           f == [s.files EXCEPT ![d] = <<>>]
           t == [s EXCEPT !.ring = q, !.files = f]
<1>1. /\ s \in Node /\ s.ring \in Seq(Text) /\ s.files \in [Days -> Text]
      /\ DOMAIN s.files = Days /\ text \in Text /\ <<>> \in Text
  <2>1. s \in Node /\ s.ring \in Seq(Text) /\ s.files \in [Days -> Text]
    BY GoodFields, Zenon
  <2> QED
    BY <2>1 DEF Text
<1>2. ASSUME NEW x \in Piece
      PROVE  /\ Reload(text) \in Seq(Text)
             /\ Has(Reload(text), x) <=> In(text, x)
             /\ Once(text, x) => HaveOnce(Reload(text), x)
  BY <1>1, ReloadKeeps, Zenon
<1>3. Reload(text) \in Seq(Text)
  <2> HIDE DEF text
  <2> QED
    BY <1>1, ReloadSeq, Zenon
<1> HIDE DEF text
<1>4. q \in Seq(Text)
  BY <1>1, <1>3, ConcatRings, Zenon
<1>5. ASSUME NEW x \in Piece
      PROVE  /\ f \in [Days -> Text]
             /\ Has(f, x) <=> \E e \in Days \ {d} : In(s.files[e], x)
             /\ HaveOnce(s.files, x) => HaveOnce(f, x)
  BY <1>1, EraseText, Zenon
<1>6. f \in [Days -> Text]
  BY <1>1
<1> HIDE DEF f
<1>7. ASSUME NEW x \in Piece PROVE Apart(q, f, s.out, x)
  <2>1. Apart(s.ring, s.files, s.out, x)
    BY GoodFields, Zenon
  <2>2. /\ In(text, x) => Has(s.files, x)
        /\ HaveOnce(s.files, x) => Once(text, x)
        /\ Has(f, x) => Has(s.files, x)
        /\ HaveOnce(s.files, x) => ~(In(text, x) /\ Has(f, x))
    <3>1. Has(f, x) => Has(s.files, x)
      BY <1>1, <1>5, Zenon DEF Has
    <3>2. HaveOnce(s.files, x) => ~(In(text, x) /\ Has(f, x))
      BY <1>1, <1>5, Zenon DEF HaveOnce, text
    <3>3. In(text, x) => Has(s.files, x)
      BY <1>1, Zenon DEF Has, text
    <3>4. HaveOnce(s.files, x) => Once(text, x)
      BY <1>1, Zenon DEF HaveOnce, text
    <3> QED
      BY <3>1, <3>2, <3>3, <3>4, Zenon
  <2>3. /\ Has(q, x) <=> Has(s.ring, x) \/ Has(Reload(text), x)
        /\ HaveOnce(s.ring, x) /\ HaveOnce(Reload(text), x) /\ ~(Has(s.ring, x) /\ Has(Reload(text), x))
             => HaveOnce(q, x)
    BY <1>1, <1>3, ConcatRings, Zenon
  <2> HIDE DEF q
  <2>4. HaveOnce(s.files, x) /\ HaveOnce(s.ring, x) /\ ~(Has(s.ring, x) /\ Has(s.files, x))
    BY <2>1, Zenon DEF Apart
  <2>5. HaveOnce(q, x) /\ HaveOnce(f, x) /\ ~(Has(q, x) /\ Has(f, x))
    BY <1>2, <1>5, <2>2, <2>3, <2>4, Zenon
  <2>6. Sent(s.out, x) => ~Has(q, x) /\ ~Has(f, x)
    BY <1>2, <2>1, <2>2, <2>3, Zenon DEF Apart
  <2> QED
    BY <2>5, <2>6, Zenon DEF Apart
<1> HIDE DEF q
<1>8. t \in Node /\ t.ring = q /\ t.files = f /\ t.out = s.out
  BY <1>1, <1>4, <1>6, Zenon DEF Node
<1>9. Unlink([s EXCEPT !.ring = @ \o Reload(s.files[d])], d) = t
  <2>1. s \in [ring : Seq(Text), files : [Days -> Text], mode : BOOLEAN, succ : 0 .. SuccMax,
               out : SUBSET Messages, broker : {"down", "slow", "up"}, disk : BOOLEAN]
    BY <1>1, Zenon DEF Node
  <2>2. [s EXCEPT !.ring = @ \o Reload(s.files[d])] = [s EXCEPT !.ring = q]
    BY Zenon DEF q, text
  <2>3. [[s EXCEPT !.ring = q] EXCEPT !.files[d] = <<>>] = t
    BY <2>1 DEF f
  <2> QED
    BY <2>2, <2>3, Zenon DEF Unlink
<1> HIDE DEF t
<1>10. t \in Good
  BY <1>7, <1>8, Zenon DEF Good
<1> QED
  BY <1>9, <1>10, Zenon

\* What a replay carries from one dumpfile to the next.
Replay == [s : Good, left : SUBSET Days, whole : Nat, go : BOOLEAN]

LEMMA ReplayOneGood ==
  ASSUME NEW x \in Replay, NEW d \in Days
  PROVE  ReplayOne(x, d) \subseteq Replay
<1> DEFINE loaded == Unlink([x.s EXCEPT !.ring = @ \o Reload(x.s.files[d])], d)
           After(t) ==
             IF t.ring = <<>> THEN [s |-> t, left |-> x.left \ {d}, whole |-> x.whole + 1, go |-> TRUE]
             ELSE [s |-> [t EXCEPT !.succ = 0], left |-> x.left \ {d}, whole |-> x.whole, go |-> FALSE]
           stuck == [x EXCEPT !.s.succ = 0, !.go = FALSE]
<1>1. x.s \in Good /\ x.left \in SUBSET Days /\ x.whole \in Nat /\ x.go \in BOOLEAN
  BY DEF Replay
<1>2. Resend(loaded) \subseteq Good
  <2>1. loaded \in Good
    BY <1>1, LoadGood, Zenon
  <2> HIDE DEF loaded
  <2> QED
    BY <2>1, ResendGood, Zenon
<1>3. \A t \in Good : [t EXCEPT !.succ = 0] \in Good
  BY SetSucc, ZeroSucc, Zenon
<1>4. ASSUME NEW t \in Good PROVE After(t) \in Replay
  <2>1. [t EXCEPT !.succ = 0] \in Good
    BY <1>3, Zenon
  <2>2. x.left \ {d} \in SUBSET Days /\ x.whole + 1 \in Nat
    BY <1>1
  <2>3. [s |-> t, left |-> x.left \ {d}, whole |-> x.whole + 1, go |-> TRUE] \in Replay
    BY <2>2, Zenon DEF Replay
  <2>4. [s |-> [t EXCEPT !.succ = 0], left |-> x.left \ {d}, whole |-> x.whole, go |-> FALSE] \in Replay
    BY <1>1, <2>1, <2>2, Zenon DEF Replay
  <2> QED
    BY <2>3, <2>4, Zenon
<1>5. stuck \in Replay
  <2>1. [x.s EXCEPT !.succ = 0] \in Good
    BY <1>1, <1>3, Zenon
  <2> DEFINE u == [x.s EXCEPT !.succ = 0]
  <2>2. stuck = [[x EXCEPT !.s = u] EXCEPT !.go = FALSE]
    BY Zenon
  <2> HIDE DEF u
  <2>3. u \in Good
    BY <2>1, Zenon DEF u
  <2>4. [[x EXCEPT !.s = u] EXCEPT !.go = FALSE] \in Replay
    BY <2>3, Zenon DEF Replay
  <2> QED
    BY <2>2, <2>4, Zenon
<1>6. ReplayOne(x, d) = {stuck} \/ ReplayOne(x, d) = {After(t) : t \in Resend(loaded)}
  BY Zenon DEF ReplayOne
<1> HIDE DEF loaded, After, stuck
<1> QED
  BY <1>2, <1>4, <1>5, <1>6, Zenon

LEMMA RoundGood ==
  ASSUME NEW x \in Replay
  PROVE  Round(x) \subseteq Replay
<1>1. x.left \in SUBSET Days
  BY DEF Replay
<1> QED
  BY <1>1, ReplayOneGood, Zenon DEF Round

Listed(s) == {d \in Days : s.files[d] # <<>>}
First(s) == [s |-> s, left |-> Listed(s), whole |-> 0, go |-> TRUE]
Ends(x) == {x.s, [x.s EXCEPT !.mode = FALSE]}

\* What holds of the first round and is kept by every round holds at the end.
LEMMA SendDumpsRounds ==
  ASSUME NEW s \in Good, NEW R, First(s) \in R, \A x \in R : Round(x) \subseteq R
  PROVE  \A t \in SendDumps(s) : t = s \/ \E x \in R : t \in Ends(x)
<1> DEFINE listed == {d \in Days : s.files[d] # <<>>}
           N == Cardinality(Days)
           S == SUBSET R
           first == {[s |-> s, left |-> listed, whole |-> 0, go |-> TRUE]}
           Rest(X) == UNION {Round(x) : x \in X}
           G == [z \in (1 .. N) \X S |-> Rest(z[2])]
           rounds[n \in 0 .. Cardinality(Days)] ==
             IF n = 0 THEN {[s |-> s, left |-> listed, whole |-> 0, go |-> TRUE]}
             ELSE Then(rounds[n - 1], Round)
           End(x) == IF x.left = {} THEN [x.s EXCEPT !.mode = FALSE] ELSE x.s
<1>1. N \in Nat
  BY ZeroSucc, Zenon
<1>2. first \in S
  BY Zenon DEF First, Listed
<1>3. \A X \in S : Rest(X) \in S
  BY Zenon
<1>4. G \in [(1 .. N) \X S -> S]
  <2> HIDE DEF S, Rest, N
  <2> QED
    BY <1>3
<1>5. PICK f \in [0 .. N -> S] : Recursion(N, first, G, f)
  <2> HIDE DEF S, G, first, N
  <2> QED
    BY <1>1, <1>2, <1>4, RecursionExists, Zenon
<1>6. ASSUME NEW n \in 0 .. N PROVE f[n] = IF n = 0 THEN first ELSE Then(f[n - 1], Round)
  <2>1. CASE n = 0
    <3> HIDE DEF first, G, N
    <3> QED
      BY <1>5, <2>1, Zenon DEF Recursion
  <2>2. CASE n # 0
    <3> HIDE DEF first, S, N, listed
    <3>1. n \in 1 .. N /\ n - 1 \in 0 .. N
      BY <1>1, <2>2
    <3>2. f[n - 1] \in S
      BY <3>1, Zenon
    <3>3. G[<<n, f[n - 1]>>] = Rest(f[n - 1])
      <4> HIDE DEF Rest
      <4> QED
        BY <3>1, <3>2
    <3>4. Rest(f[n - 1]) = Then(f[n - 1], Round)
      BY DEF Then
    <3> HIDE DEF G, Rest
    <3> QED
      BY <1>5, <2>2, <3>3, <3>4, Zenon DEF Recursion
  <2> QED
    BY <2>1, <2>2, Zenon
<1>7. f = [n \in 0 .. N |-> IF n = 0 THEN first ELSE Then(f[n - 1], Round)]
  <2> HIDE DEF first, S, N, G
  <2> QED
    BY <1>6
<1>8. rounds = [n \in 0 .. N |-> IF n = 0 THEN first ELSE Then(rounds[n - 1], Round)]
  BY <1>7, Zenon
<1> HIDE DEF rounds
<1>9. \A n \in 0 .. N : rounds[n] \in S
  <2> DEFINE T == {n \in 0 .. N : rounds[n] \in S}
  <2> HIDE DEF first, S, N, G
  <2>1. 0 \in T
    <3>1. 0 \in 0 .. N
      BY <1>1
    <3>2. rounds[0] = first
      BY <1>8, <3>1
    <3> QED
      BY <1>2, <3>1, <3>2, Zenon
  <2>2. ASSUME NEW n \in 1 .. N, n - 1 \in T PROVE n \in T
    <3>1. n \in 0 .. N /\ n # 0
      BY <1>1
    <3>2. rounds[n] = Then(rounds[n - 1], Round)
      BY <1>8, <3>1, Zenon
    <3>3. rounds[n] = Rest(rounds[n - 1])
      BY <3>2, Zenon DEF Then
    <3> HIDE DEF Rest
    <3> QED
      BY <1>3, <2>2, <3>1, <3>3, Zenon
  <2> HIDE DEF T
  <2>3. \A n \in 0 .. N : n \in T
    BY <1>1, <2>1, <2>2, Induction, Zenon
  <2> QED
    BY <2>3, Zenon DEF T
<1>10. rounds[N] \subseteq R
  <2>1. N \in 0 .. N
    BY <1>1
  <2> QED
    BY <1>9, <2>1, Zenon
<1>11. SendDumps(s) = {s} \/ SendDumps(s) = {End(x) : x \in rounds[N]}
  BY Zenon DEF SendDumps, rounds
<1>12. \A x : End(x) \in Ends(x)
  BY Zenon DEF Ends
<1> HIDE DEF End, N
<1>13. ASSUME NEW t \in SendDumps(s), t # s PROVE \E x \in R : t \in Ends(x)
  <2>1. PICK x \in rounds[N] : t = End(x)
    BY <1>11, <1>13, Zenon
  <2> QED
    BY <1>10, <1>12, <2>1, Zenon
<1> QED
  BY <1>13, Zenon

LEMMA FirstReplay ==
  ASSUME NEW s \in Good
  PROVE  First(s) \in Replay
<1>1. Listed(s) \in SUBSET Days
  BY Zenon DEF Listed
<1> QED
  BY <1>1 DEF First, Replay

LEMMA SendDumpsGood ==
  ASSUME NEW s \in Good
  PROVE  SendDumps(s) \subseteq Good
<1>1. First(s) \in Replay /\ \A x \in Replay : Round(x) \subseteq Replay
  BY FirstReplay, RoundGood, Zenon
<1>2. \A t \in SendDumps(s) : t = s \/ \E x \in Replay : t \in Ends(x)
  BY <1>1, SendDumpsRounds, Zenon
<1>3. \A x \in Replay : x.s \in Good
  BY DEF Replay
<1> QED
  BY <1>2, <1>3, SetMode, Zenon DEF Ends

LEMMA PrimeGood ==
  ASSUME NEW s \in Good
  PROVE  Prime(s) \in Good
<1>1. [s EXCEPT !.mode = TRUE] \in Good
  BY SetMode, Zenon
<1>2. [[s EXCEPT !.mode = TRUE] EXCEPT !.succ = 0] \in Good
  BY <1>1, SetSucc, ZeroSucc, Zenon
<1> QED
  BY <1>2, Zenon DEF Prime

\* The ring is written to a dumpfile and the process ends.
LEMMA SaveRingGood ==
  ASSUME NEW s \in Good, day \in Days
  PROVE  [SaveRing(s) EXCEPT !.ring = <<>>] \in Good
<1> DEFINE text == Joined(s.ring)
           u == [s EXCEPT !.ring = <<>>]
           t == [u EXCEPT !.files[day] = @ \o text]
<1>1. u \in Good
  BY DropRing, Zenon
<1>2. s \in Node /\ s.ring \in Seq(Text)
  BY GoodFields, Zenon
<1>3. u.ring = <<>> /\ u.files = s.files /\ u.out = s.out
  BY <1>2 DEF Node
<1>4. ASSUME NEW x PROVE /\ text \in Text
                         /\ In(text, x) <=> Has(s.ring, x)
                         /\ HaveOnce(s.ring, x) => Once(text, x)
  BY <1>2, JoinedKeeps, Zenon
<1>5. text \in Text
  BY <1>2, JoinedKeeps
<1> HIDE DEF text
<1>6. Fresh(u, text)
  <2>1. ASSUME NEW x \in Piece
        PROVE  /\ Once(text, x)
               /\ In(text, x) => ~Has(u.ring, x) /\ ~Has(u.files, x) /\ ~Sent(u.out, x)
    <3>1. Apart(s.ring, s.files, s.out, x)
      BY GoodFields, Zenon
    <3>2. ~Has(<<>>, x)
      BY OneLine, BlankIsNoPiece, Zenon
    <3> HIDE DEF u
    <3> QED
      BY <1>3, <1>4, <3>1, <3>2, Zenon DEF Apart
  <2> QED
    BY <1>5, <2>1, Zenon DEF Fresh
<1>7. t \in Good
  <2> HIDE DEF u
  <2> QED
    BY <1>1, <1>6, SpoolGood, Zenon
<1>8. CASE s.disk
  <2>1. SaveRing(s) = [s EXCEPT !.files[day] = @ \o text]
    BY <1>8, Zenon DEF SaveRing, text
  <2>2. s \in [ring : Seq(Text), files : [Days -> Text], mode : BOOLEAN, succ : 0 .. SuccMax,
               out : SUBSET Messages, broker : {"down", "slow", "up"}, disk : BOOLEAN]
    BY <1>2, Zenon DEF Node
  <2>3. [[s EXCEPT !.files[day] = @ \o text] EXCEPT !.ring = <<>>] = t
    BY <2>2, Zenon
  <2> QED
    BY <1>7, <2>1, <2>3, Zenon
<1>9. CASE ~s.disk
  <2>1. SaveRing(s) = s
    BY <1>9, Zenon DEF SaveRing
  <2> QED
    BY <1>1, <2>1, Zenon
<1> QED
  BY <1>8, <1>9, Zenon

-----------------------------------------------------------------------------
(* The callbacks.                                                            *)

\* The node between callbacks, as the state a callback starts from.
Rest == [ring |-> ring, files |-> files, mode |-> mode, succ |-> succ, out |-> out,
         broker |-> "up", disk |-> TRUE]

\* The inductive invariant.
IInv ==
  /\ Rest \in Good
  /\ running \in {"up", "down", "crashed"} /\ (running # "up" => ring = <<>>)
  /\ day \in Days /\ jobid \in JobIds \cup {NoJob}

LEMMA SameGood ==
  ASSUME NEW s \in Good, NEW t \in Node,
         t.ring = s.ring, t.files = s.files, t.out = s.out \/ t.out = {}
  PROVE  t \in Good
<1>1. ASSUME NEW x \in Piece PROVE Apart(t.ring, t.files, t.out, x)
  <2>1. Apart(s.ring, s.files, s.out, x)
    BY GoodFields, Zenon
  <2>2. ~Sent({}, x)
    BY Zenon DEF Sent
  <2> QED
    BY <2>1, <2>2, Zenon DEF Apart
<1> QED
  BY <1>1, Zenon DEF Good

LEMMA HereGood ==
  ASSUME Rest \in Good, NEW broker \in {"down", "slow", "up"}, NEW disk \in BOOLEAN
  PROVE  Here(broker, disk) \in Good
<1> DEFINE h == Here(broker, disk)
<1>1. Rest \in Node
  BY GoodFields, Zenon
<1>2. h \in Node /\ h.ring = ring /\ h.files = files /\ h.out = {}
  BY <1>1 DEF Here, Node, Rest
<1>3. Rest.ring = ring /\ Rest.files = files
  BY DEF Rest
<1> HIDE DEF h
<1>4. h \in Good
  BY <1>2, <1>3, SameGood, Zenon
<1> QED
  BY <1>4, Zenon DEF h

LEMMA BecomesGood ==
  ASSUME NEW S \in SUBSET Good, Becomes(S)
  PROVE  Rest' \in Good
<1>1. PICK s \in S : ring' = s.ring /\ files' = s.files /\ mode' = s.mode /\ succ' = s.succ /\ out' = s.out
  BY Zenon DEF Becomes
<1>2. s \in Good /\ s \in Node
  BY <1>1, GoodFields, Zenon
<1>3. /\ Rest'.ring = s.ring /\ Rest'.files = s.files /\ Rest'.out = s.out
      /\ Rest' \in Node
  BY <1>1, <1>2 DEF Rest, Node
<1> QED
  BY <1>2, <1>3, SameGood, Zenon

\* A step that publishes nothing and leaves the node alone.
LEMMA QuietGood ==
  ASSUME Rest \in Good, UNCHANGED <<ring, files, mode, succ>>, out' = {} \/ out' = out
  PROVE  Rest' \in Good
<1>1. Rest \in Node
  BY GoodFields, Zenon
<1>2. /\ Rest'.ring = Rest.ring /\ Rest'.files = Rest.files
      /\ Rest'.out = Rest.out \/ Rest'.out = {}
  BY ZenonT(30) DEF Rest
<1>3. Rest' \in Node
  BY <1>1 DEF Rest, Node
<1> QED
  BY <1>2, <1>3, SameGood, Zenon

LEMMA StartGood ==
  ASSUME NEW h \in Good, day \in Days, Start(h)
  PROVE  Rest' \in Good
<1> DEFINE a == [h EXCEPT !.mode = FALSE, !.succ = 0]
           A == RotateFlush(Prime(a))
           B == UNION {SendDumps(s) : s \in A}
<1>1. a \in Good
  <2>1. [h EXCEPT !.mode = FALSE] \in Good
    BY SetMode, Zenon
  <2>2. [[h EXCEPT !.mode = FALSE] EXCEPT !.succ = 0] \in Good
    BY <2>1, SetSucc, ZeroSucc, Zenon
  <2> QED
    BY <2>2, Zenon
<1>2. Becomes(B)
  BY Zenon DEF Start, Then
<1> HIDE DEF a
<1>3. A \subseteq Good
  BY <1>1, PrimeGood, RotateFlushGood, Zenon
<1> HIDE DEF A
<1>4. B \subseteq Good
  BY <1>3, SendDumpsGood, Zenon
<1> HIDE DEF B
<1> QED
  BY <1>2, <1>4, BecomesGood, Zenon

LEMMA SendTimerGood ==
  ASSUME NEW h \in Good, SendTimer(h)
  PROVE  Rest' \in Good
<1> DEFINE Count(s) ==
             {[s EXCEPT !.succ = IF Len(s.ring) < Len(ring)
                                   THEN IF @ < SuccMax THEN @ + 1 ELSE @
                                   ELSE IF s.ring # <<>> THEN 0 ELSE @]}
           Dumps(s) ==
             IF s.mode /\ s.ring = <<>> /\ s.succ >= SuccMax THEN SendDumps(s) ELSE {s}
           A == ResendIfNonempty(h)
           B == UNION {Count(s) : s \in A}
           C == UNION {Dumps(s) : s \in B}
<1>1. Becomes(C)
  BY Zenon DEF SendTimer, Then
<1>2. A \subseteq Good
  BY ResendIfNonemptyGood, Zenon
<1>3. ASSUME NEW s \in Good PROVE Count(s) \subseteq Good
  <2> DEFINE c == IF Len(s.ring) < Len(ring) THEN IF s.succ < SuccMax THEN s.succ + 1 ELSE s.succ
                  ELSE IF s.ring # <<>> THEN 0 ELSE s.succ
  <2>1. s.succ \in 0 .. SuccMax /\ SuccMax \in Nat
    BY GoodFields, ZeroSucc, Zenon
  <2>2. c \in 0 .. SuccMax
    BY <2>1
  <2>3. Count(s) = {[s EXCEPT !.succ = c]}
    BY Zenon
  <2> HIDE DEF c, Count
  <2> QED
    BY <2>2, <2>3, SetSucc, Zenon
<1>4. ASSUME NEW s \in Good PROVE Dumps(s) \subseteq Good
  BY SendDumpsGood, Zenon
<1> HIDE DEF A, Count, Dumps
<1>5. B \subseteq Good
  BY <1>2, <1>3, Zenon
<1> HIDE DEF B
<1>6. C \subseteq Good
  BY <1>4, <1>5, Zenon
<1> HIDE DEF C
<1> QED
  BY <1>1, <1>6, BecomesGood, Zenon

LEMMA JobChangeGood ==
  ASSUME NEW h \in Good, day \in Days, JobChange(h)
  PROVE  Rest' \in Good
<1> DEFINE Dumps(s) ==
             IF s.mode /\ s.ring = <<>> /\ jobid' = NoJob /\ s.succ > 0
               THEN SendDumps(s) ELSE {s}
           A == Collect(h, jobid' = NoJob)
           B == UNION {Dumps(s) : s \in A}
<1>1. Becomes(B)
  BY Zenon DEF JobChange, Then
<1>2. A \subseteq Good
  BY CollectGood, Zenon
<1>3. ASSUME NEW s \in Good PROVE Dumps(s) \subseteq Good
  BY SendDumpsGood, Zenon
<1> HIDE DEF A, Dumps
<1>4. B \subseteq Good
  BY <1>2, <1>3, Zenon
<1> HIDE DEF B
<1> QED
  BY <1>1, <1>4, BecomesGood, Zenon

LEMMA HupGood ==
  ASSUME NEW h \in Good, day \in Days, Hup(h)
  PROVE  Rest' \in Good
<1> DEFINE Dumps(s) == IF s.ring = <<>> THEN SendDumps(s) ELSE {s}
           Reset(s) == {[s EXCEPT !.succ = 0]}
           A == ResendIfNonempty(Prime(h))
           B == UNION {Dumps(s) : s \in A}
           C == UNION {Reset(s) : s \in B}
           D == UNION {RotateFlush(s) : s \in C}
<1>1. Becomes(D)
  BY Zenon DEF Hup, Then
<1>2. A \subseteq Good
  BY PrimeGood, ResendIfNonemptyGood, Zenon
<1>3. ASSUME NEW s \in Good PROVE Dumps(s) \subseteq Good /\ Reset(s) \subseteq Good
  BY SendDumpsGood, SetSucc, ZeroSucc, Zenon
<1> HIDE DEF A, Dumps, Reset
<1>4. B \subseteq Good
  BY <1>2, <1>3, Zenon
<1> HIDE DEF B
<1>5. C \subseteq Good
  BY <1>3, <1>4, Zenon
<1> HIDE DEF C
<1>6. D \subseteq Good
  BY <1>5, RotateFlushGood, Zenon
<1> HIDE DEF D
<1> QED
  BY <1>1, <1>6, BecomesGood, Zenon

\* A stop and a crash leave the ring empty.
LEMMA StopGood ==
  ASSUME NEW h \in Good, day \in Days, Term(h) \/ Crash(h)
  PROVE  Rest' \in Good /\ ring' = <<>>
<1> DEFINE After(s) == [SaveRing(s) EXCEPT !.ring = <<>>]
           A == {After(s) : s \in ResendIfNonempty(h)}
           B == {[h EXCEPT !.ring = <<>>]}
<1>1. CASE Term(h)
  <2>1. Becomes(A)
    BY <1>1, Zenon DEF Term
  <2>2. ASSUME NEW s \in ResendIfNonempty(h) PROVE After(s) \in Good /\ After(s).ring = <<>>
    <3>1. s \in Good
      BY ResendIfNonemptyGood, Zenon
    <3>2. After(s) \in Good
      BY <3>1, SaveRingGood, Zenon
    <3>3. s \in Node
      BY <3>1, GoodFields, Zenon
    <3>4. After(s).ring = <<>>
      BY <3>3 DEF SaveRing, Node
    <3> QED
      BY <3>2, <3>4, Zenon
  <2> HIDE DEF After
  <2>3. A \subseteq Good /\ \A s \in A : s.ring = <<>>
    BY <2>2, Zenon
  <2> HIDE DEF A
  <2> QED
    BY <2>1, <2>3, BecomesGood, Zenon DEF Becomes
<1>2. CASE Crash(h)
  <2>1. Becomes(B)
    BY <1>2, Zenon DEF Crash
  <2>2. h \in Node /\ [h EXCEPT !.ring = <<>>] \in Good
    BY DropRing, GoodFields, Zenon
  <2>3. [h EXCEPT !.ring = <<>>].ring = <<>>
    BY <2>2 DEF Node
  <2>4. B \subseteq Good /\ \A s \in B : s.ring = <<>>
    BY <2>2, <2>3, Zenon
  <2> HIDE DEF B
  <2> QED
    BY <2>1, <2>4, BecomesGood, Zenon DEF Becomes
<1> QED
  BY <1>1, <1>2, Zenon

LEMMA TimersStep ==
  ASSUME IInv, NEW h \in Good, Timers(h)
  PROVE  IInv'
<1>1. running = "up" /\ UNCHANGED <<jobid, running, day>>
  BY Zenon DEF Timers, RotateTimer, SampleTimer, SendTimer
<1>2. day \in Days
  BY Zenon DEF IInv
<1>3. Rest' \in Good
  <2>1. CASE RotateTimer(h)
    <3>1. Becomes(RotateFlush(h)) /\ RotateFlush(h) \subseteq Good
      BY <1>2, <2>1, RotateFlushGood, Zenon DEF RotateTimer
    <3> QED
      BY <3>1, BecomesGood, Zenon
  <2>2. CASE SampleTimer(h)
    <3>1. Becomes(Collect(h, FALSE)) /\ Collect(h, FALSE) \subseteq Good
      BY <1>2, <2>2, CollectGood, Zenon DEF SampleTimer
    <3> QED
      BY <3>1, BecomesGood, Zenon
  <2>3. CASE SendTimer(h)
    BY <2>3, SendTimerGood, Zenon
  <2> QED
    BY <2>1, <2>2, <2>3, Zenon DEF Timers
<1>4. /\ running' = running /\ running' = "up"
      /\ day' = day /\ jobid' = jobid
  BY <1>1
<1> QED
  BY <1>3, <1>4, Zenon DEF IInv

LEMMA SignalsStep ==
  ASSUME IInv, NEW h \in Good, Signals(h)
  PROVE  IInv'
<1>1. day \in Days /\ jobid \in JobIds \cup {NoJob}
  BY Zenon DEF IInv
<1>2. day' = day
  BY Zenon DEF Signals, Start, JobChange, Hup, Term, Crash
<1>3. jobid' \in JobIds \cup {NoJob}
  <2>1. jobid' \in JobIds \cup {NoJob} \/ jobid' = jobid
    BY Zenon DEF Signals, Start, JobChange, Hup, Term, Crash
  <2> QED
    BY <1>1, <2>1, Zenon
<1>4. CASE Term(h) \/ Crash(h)
  <2>1. running' \in {"down", "crashed"}
    BY <1>4, Zenon DEF Term, Crash
  <2>2. running' \in {"up", "down", "crashed"}
    BY <2>1, Zenon
  <2> QED
    BY <1>1, <1>2, <1>3, <1>4, <2>2, StopGood, Zenon DEF IInv
<1>5. CASE Start(h) \/ JobChange(h) \/ Hup(h)
  <2>1. running' = "up"
    BY <1>5, Zenon DEF Start, JobChange, Hup
  <2>2. running' \in {"up", "down", "crashed"}
    BY <2>1, Zenon
  <2>3. Rest' \in Good
    BY <1>1, <1>5, StartGood, JobChangeGood, HupGood, Zenon
  <2> QED
    BY <1>1, <1>2, <1>3, <2>1, <2>2, <2>3, Zenon DEF IInv
<1> QED
  BY <1>4, <1>5, Zenon DEF Signals

LEMMA InitIInv == Init => IInv
<1>1. SUFFICES ASSUME Init PROVE IInv
  BY Zenon
<1>2. /\ ring = <<>> /\ files = [d \in Days |-> <<>>] /\ mode = FALSE /\ succ = 0 /\ out = {}
      /\ jobid = NoJob /\ running = "down" /\ day \in Days
  BY <1>1, Zenon DEF Init
<1>3. Rest \in Node
  <2>1. <<>> \in Seq(Text) /\ <<>> \in Text
    BY DEF Text
  <2>2. files \in [Days -> Text]
    BY ZenonT(30), <1>2, <2>1
  <2> QED
    BY <1>2, <2>1, <2>2, ZeroSucc, Zenon DEF Rest, Node
<1>4. Rest.ring = <<>> /\ Rest.files = files /\ Rest.out = {}
  BY <1>2 DEF Rest
<1>5. ASSUME NEW x \in Piece PROVE Apart(<<>>, files, {}, x)
  <2>1. ~Has(<<>>, x) /\ HaveOnce(<<>>, x) /\ ~In(<<>>, x) /\ Once(<<>>, x)
    BY OneLine, BlankIsNoPiece, Zenon
  <2>2. DOMAIN files = Days /\ \A d \in Days : files[d] = <<>>
    BY <1>2
  <2>3. ~Has(files, x) /\ HaveOnce(files, x)
    BY <2>1, <2>2, Zenon DEF Has, HaveOnce
  <2>4. ~Sent({}, x)
    BY Zenon DEF Sent
  <2> QED
    BY <2>1, <2>3, <2>4, Zenon DEF Apart
<1>6. Rest \in Good
  BY <1>3, <1>4, <1>5, Zenon DEF Good
<1> QED
  BY <1>2, <1>6 DEF IInv

LEMMA NextIInv == IInv /\ [Next]_vars => IInv'
<1>1. SUFFICES ASSUME IInv, [Next]_vars PROVE IInv'
  BY Zenon
<1>2. Rest \in Good
  BY <1>1, Zenon DEF IInv
<1>3. CASE Troubled
  <2>1. PICK broker \in Brokers, disk \in BOOLEAN :
          Timers(Here(broker, disk)) \/ Signals(Here(broker, disk))
    BY <1>3, Zenon DEF Troubled
  <2>2. broker \in {"down", "slow", "up"}
    BY MonitorAssumption, Zenon
  <2>3. Here(broker, disk) \in Good
    BY <1>2, <2>2, HereGood, Zenon
  <2> QED
    BY <1>1, <2>1, <2>3, TimersStep, SignalsStep, Zenon
<1>4. CASE Healthy
  <2>1. Timers(Here("up", TRUE))
    BY <1>4, Zenon DEF Healthy
  <2>2. Here("up", TRUE) \in Good
    <3>1. "up" \in {"down", "slow", "up"} /\ TRUE \in BOOLEAN
      OBVIOUS
    <3> QED
      BY <1>2, <3>1, HereGood, Zenon
  <2> QED
    BY <1>1, <2>1, <2>2, TimersStep, Zenon
<1>5. CASE Recovered \/ NextDay \/ UNCHANGED vars
  <2>1. /\ UNCHANGED <<ring, files, mode, succ>> /\ (out' = {} \/ out' = out)
        /\ ring' = ring /\ running' = running /\ jobid' = jobid /\ (day' = day \/ day' \in Days)
    BY <1>5 DEF Recovered, NextDay, vars, node
  <2>2. Rest' \in Good
    BY <1>2, <2>1, QuietGood, Zenon
  <2> QED
    BY <1>1, <2>1, <2>2, Zenon DEF IInv
<1> QED
  BY <1>1, <1>3, <1>4, <1>5, Zenon DEF Next

-----------------------------------------------------------------------------
(* The theorems.                                                             *)

LEMMA IInvTypeOK == IInv => TypeOK
<1>1. SUFFICES ASSUME IInv PROVE TypeOK
  BY Zenon
<1>2. Rest \in Node
  BY <1>1, GoodFields, Zenon DEF IInv
<1>3. /\ ring \in Seq(Text) /\ files \in [Days -> Text] /\ mode \in BOOLEAN /\ succ \in 0 .. SuccMax
      /\ out \in SUBSET Messages
  BY <1>2 DEF Rest, Node
<1>4. \A t \in Texts : t \in Text
  BY <1>3 DEF Texts, Range
<1>5. \A t \in Text : Range(t) \subseteq Lines
  BY DEF Text, Range
<1>6. ASSUME NEW m \in out PROVE m # <<>> /\ m \in Seq(Range(m))
  <2>1. m \in Seq(Text) /\ m # <<>>
    BY <1>3, Zenon DEF Messages
  <2> QED
    BY <2>1 DEF Range
<1>7. \A t \in Texts : Range(t) \subseteq Piece \cup {Blank}
  BY <1>4, <1>5, Zenon DEF Lines
<1> QED
  BY <1>1, <1>3, <1>6, <1>7, Zenon DEF TypeOK, IInv

LEMMA PlacesCount ==
  ASSUME NEW f, NEW x
  PROVE  /\ ~Has(f, x) => Cardinality(Places(f, x)) = 0
         /\ HaveOnce(f, x) => Cardinality(Places(f, x)) \in {0, 1}
<1>1. \A z : z \in Places(f, x) <=> \E n \in DOMAIN f : \E k \in DOMAIN f[n] : f[n][k] = x /\ z = <<n, k>>
  <2> DEFINE In1(n) == {<<n, k>> : k \in {j \in DOMAIN f[n] : f[n][j] = x}}
  <2>1. \A n, z : z \in In1(n) <=> \E k \in DOMAIN f[n] : f[n][k] = x /\ z = <<n, k>>
    BY Zenon
  <2>2. Places(f, x) = UNION {In1(n) : n \in DOMAIN f}
    BY Zenon DEF Places
  <2> HIDE DEF In1
  <2>3. \A z : z \in Places(f, x) <=> \E n \in DOMAIN f : z \in In1(n)
    BY <2>2, Zenon
  <2> QED
    BY <2>1, <2>3, ZenonT(30)
<1>2. CASE Places(f, x) = {}
  BY <1>2, FS_EmptySet, Zenon
<1>3. CASE Places(f, x) # {}
  <2>1. PICK z : z \in Places(f, x)
    BY <1>3, Zenon
  <2>2. PICK n, k : n \in DOMAIN f /\ k \in DOMAIN f[n] /\ f[n][k] = x /\ z = <<n, k>>
    BY <1>1, <2>1, Zenon
  <2>3. Has(f, x)
    BY <2>2, Zenon DEF Has, In
  <2>4. ASSUME HaveOnce(f, x) PROVE Cardinality(Places(f, x)) = 1
    <3>1. ASSUME NEW y \in Places(f, x) PROVE y = z
      <4>1. PICK a, b : a \in DOMAIN f /\ b \in DOMAIN f[a] /\ f[a][b] = x /\ y = <<a, b>>
        BY <1>1, <3>1, Zenon
      <4>2. a = n
        BY <2>2, <2>4, <4>1, Zenon DEF HaveOnce, In
      <4>3. b = k
        BY <2>2, <2>4, <4>1, <4>2, Zenon DEF HaveOnce, Once
      <4> QED
        BY <2>2, <4>1, <4>2, <4>3, Zenon
    <3>2. Places(f, x) = {z}
      BY <2>1, <3>1, Zenon
    <3> QED
      BY <3>2, FS_Singleton, Zenon
  <2> QED
    BY <2>3, <2>4, Zenon
<1> QED
  BY <1>2, <1>3, Zenon

LEMMA IInvHeldOnce == IInv => HeldOnce
<1>1. SUFFICES ASSUME IInv, NEW x \in Piece
               PROVE  Occurrences(x) <= IF x \in Published(out) THEN 0 ELSE 1
  BY Zenon DEF HeldOnce
<1>2. Rest \in Good
  BY <1>1, Zenon DEF IInv
<1>3. Rest.ring = ring /\ Rest.files = files /\ Rest.out = out
  BY DEF Rest
<1>4. Apart(ring, files, out, x)
  BY <1>2, <1>3, GoodFields, Zenon
<1>5. x \in Published(out) <=> Sent(out, x)
  <2>1. out \in SUBSET Messages
    BY <1>2, <1>3, GoodFields, Zenon
  <2> QED
    BY <2>1, PiecesAreHeld, Zenon
<1> DEFINE a == Cardinality(Places(ring, x))
           b == Cardinality(Places(files, x))
<1>6. /\ a \in {0, 1} /\ b \in {0, 1}
      /\ ~Has(ring, x) => a = 0
      /\ ~Has(files, x) => b = 0
  BY <1>4, PlacesCount, Zenon DEF Apart
<1>7. a = 0 \/ b = 0
  BY <1>4, <1>6, Zenon DEF Apart
<1>8. x \in Published(out) => a = 0 /\ b = 0
  BY <1>4, <1>5, <1>6, Zenon DEF Apart
<1>9. Occurrences(x) = a + b
  BY Zenon DEF Occurrences
<1> HIDE DEF a, b
<1> QED
  BY <1>6, <1>7, <1>8, <1>9

\* Payloads and dumpfiles only hold the lines of collected payloads, a stopped or
\* crashed daemon has an empty ring, the success counter stays below its maximum,
\* and no empty message is published, whatever the broker and the disk do.
THEOREM TypeCorrect == Spec => []TypeOK
<1> QED
  BY InitIInv, NextIInv, IInvTypeOK, PTL DEF Spec

\* A collected piece is in one place of the ring or of one dumpfile at most, and in
\* none when the callback that just ran has published it: through overwriting, spooling,
\* reloading a dumpfile, batched sending, a stop and a crash, for any ring and batch size.
THEOREM NothingHeldTwice == Spec => []HeldOnce
<1> QED
  BY InitIInv, NextIInv, IInvHeldOnce, PTL DEF Spec

-----------------------------------------------------------------------------
(* Nothing disappears.  A blank line is followed by a piece, so that no payload *)
(* is without one, in the ring or reloaded from a dumpfile.                      *)

Ended(t) == \A i \in DOMAIN t : t[i] = Blank => i + 1 \in DOMAIN t /\ t[i + 1] # Blank

NoneEmpty(ps) == \A i \in DOMAIN ps : ps[i] # <<>>
LastOnly(ps) == \A i \in DOMAIN ps : ps[i] = <<>> => i = Len(ps)
Clean(ps) == \A i \in DOMAIN ps : \A k \in DOMAIN ps[i] : ps[i][k] # Blank

LEMMA ConcatEnded ==
  ASSUME NEW t \in Text, NEW u \in Text, Ended(t), Ended(u)
  PROVE  Ended(t \o u)
<1> DEFINE w == t \o u
<1>1. /\ Len(t) \in Nat /\ DOMAIN t = 1 .. Len(t)
      /\ \A n \in DOMAIN w :
           \/ n \in DOMAIN t /\ w[n] = t[n]
           \/ n - Len(t) \in DOMAIN u /\ w[n] = u[n - Len(t)] /\ n = (n - Len(t)) + Len(t)
      /\ \A n \in DOMAIN t : n \in DOMAIN w /\ w[n] = t[n]
      /\ \A n \in DOMAIN u : n + Len(t) \in DOMAIN w /\ w[n + Len(t)] = u[n]
  BY ConcatPlaces DEF Text
<1>2. \A n \in DOMAIN w : n \in Int
  <2>1. w \in Seq(Lines)
    BY ConcatTexts DEF Text
  <2> HIDE DEF w
  <2> QED
    BY <2>1
<1> HIDE DEF w
<1>3. ASSUME NEW n \in DOMAIN w, w[n] = Blank PROVE n + 1 \in DOMAIN w /\ w[n + 1] # Blank
  <2>1. CASE n \in DOMAIN t /\ w[n] = t[n]
    <3>1. n + 1 \in DOMAIN t /\ t[n + 1] # Blank
      BY <1>3, <2>1, Zenon DEF Ended
    <3> QED
      BY <1>1, <3>1, Zenon
  <2>2. CASE n - Len(t) \in DOMAIN u /\ w[n] = u[n - Len(t)]
    <3>1. n - Len(t) + 1 \in DOMAIN u /\ u[n - Len(t) + 1] # Blank
      BY <1>3, <2>2, Zenon DEF Ended
    <3>2. n - Len(t) + 1 + Len(t) = n + 1
      BY <1>1, <1>2
    <3>3. n - Len(t) + 1 + Len(t) \in DOMAIN w /\ w[n - Len(t) + 1 + Len(t)] # Blank
      BY <1>1, <3>1, Zenon
    <3> QED
      BY <3>2, <3>3, Zenon
  <2> QED
    BY <1>1, <2>1, <2>2, Zenon
<1> QED
  BY <1>3, Zenon DEF Ended, w

LEMMA PayloadEnded ==
  ASSUME NEW i \in 1 .. NumIds, NEW hdr
  PROVE  Ended(Payload(i, hdr)) /\ Payload(i, hdr) # <<>>
<1>1. Hdr(i) # Blank /\ Sample(i) # Blank
  BY DEF Hdr, Sample, Blank
<1>2. Ended(<<Hdr(i), Blank, Sample(i)>>)
  BY <1>1 DEF Ended
<1>3. Ended(<<Blank, Sample(i)>>)
  BY <1>1 DEF Ended
<1>4. <<Hdr(i), Blank, Sample(i)>> # <<>> /\ <<Blank, Sample(i)>> # <<>>
  OBVIOUS
<1> QED
  BY <1>2, <1>3, <1>4, Zenon DEF Payload

\* A text that is not empty has a piece.
LEMMA EndedHasPiece ==
  ASSUME NEW t \in Text, Ended(t), t # <<>>
  PROVE  \E x \in Piece : In(t, x)
<1>1. 1 \in DOMAIN t /\ \A i \in DOMAIN t : t[i] \in Lines
  BY DEF Text
<1>2. \E i \in DOMAIN t : t[i] # Blank
  <2>1. CASE t[1] = Blank
    BY <1>1, <2>1, Zenon DEF Ended
  <2>2. CASE t[1] # Blank
    BY <1>1, <2>2, Zenon
  <2> QED
    BY <2>1, <2>2, Zenon
<1> QED
  BY <1>1, <1>2, Zenon DEF Lines, In

LEMMA ReadLineNeat ==
  ASSUME NEW ps \in Seq(Text), NEW line \in Lines, Clean(ps), LastOnly(ps),
         line = Blank => NoneEmpty(ps)
  PROVE  /\ Clean(ReadLine(ps, line)) /\ LastOnly(ReadLine(ps, line))
         /\ line # Blank => NoneEmpty(ReadLine(ps, line))
<1>1. CASE line = Blank /\ ps = <<>>
  <2>1. ReadLine(ps, line) = ps
    BY <1>1, Zenon DEF ReadLine
  <2> QED
    BY <1>1, <2>1, Zenon
<1>2. CASE line = Blank /\ ps # <<>>
  <2> DEFINE qs == Append(ps, <<>>)
  <2>1. ReadLine(ps, line) = qs
    BY <1>2, Zenon DEF ReadLine
  <2>2. /\ \A i \in DOMAIN qs :
             (i \in DOMAIN ps /\ qs[i] = ps[i]) \/ (i = Len(qs) /\ qs[i] = <<>>)
        /\ DOMAIN <<>> = {}
    OBVIOUS
  <2> HIDE DEF qs
  <2>3. NoneEmpty(ps)
    BY <1>2, Zenon
  <2>4. LastOnly(qs)
    BY <2>2, <2>3, Zenon DEF LastOnly, NoneEmpty
  <2>5. Clean(qs)
    BY <2>2, Zenon DEF Clean
  <2> QED
    BY <1>2, <2>1, <2>4, <2>5, Zenon
<1>3. CASE line # Blank /\ ps = <<>>
  <2>1. ReadLine(ps, line) = <<<<line>>>>
    BY <1>3, Zenon DEF ReadLine
  <2>2. DOMAIN <<<<line>>>> = {1} /\ <<<<line>>>>[1] = <<line>> /\ <<line>> # <<>>
        /\ DOMAIN <<line>> = {1} /\ <<line>>[1] = line
    OBVIOUS
  <2>3. Clean(<<<<line>>>>) /\ NoneEmpty(<<<<line>>>>)
    BY <1>3, <2>2, Zenon DEF Clean, NoneEmpty
  <2>4. LastOnly(<<<<line>>>>)
    BY <2>3, Zenon DEF NoneEmpty, LastOnly
  <2> QED
    BY <2>1, <2>3, <2>4, Zenon
<1>4. CASE line # Blank /\ ps # <<>>
  <2> DEFINE N == Len(ps)
             u == Append(ps[N], line)
             qs == [ps EXCEPT ![N] = u]
  <2>1. ReadLine(ps, line) = qs
    BY <1>4, Zenon DEF ReadLine
  <2>2. N \in DOMAIN ps /\ ps[N] \in Seq(Lines)
    BY <1>4 DEF Text
  <2>3. u # <<>> /\ \A k \in DOMAIN u : (k \in DOMAIN ps[N] /\ u[k] = ps[N][k]) \/ u[k] = line
    BY <2>2
  <2> HIDE DEF u, N
  <2>4. DOMAIN qs = DOMAIN ps /\ qs[N] = u /\ \A i \in DOMAIN ps : i # N => qs[i] = ps[i]
    BY <2>2
  <2> HIDE DEF qs
  <2>5. \A k \in DOMAIN u : u[k] # Blank
    BY <1>4, <2>2, <2>3, Zenon DEF Clean
  <2>6. Clean(qs)
    BY <2>4, <2>5, Zenon DEF Clean
  <2>7. NoneEmpty(qs)
    BY <2>3, <2>4, Zenon DEF NoneEmpty, LastOnly, N
  <2>8. LastOnly(qs)
    BY <2>7, Zenon DEF NoneEmpty, LastOnly
  <2> QED
    BY <2>1, <2>6, <2>7, <2>8, Zenon
<1> QED
  BY <1>1, <1>2, <1>3, <1>4, Zenon

LEMMA ReloadNeat ==
  ASSUME NEW text \in Text, Ended(text)
  PROVE  /\ Reload(text) \in Seq(Text)
         /\ \A i \in DOMAIN Reload(text) : Ended(Reload(text)[i]) /\ Reload(text)[i] # <<>>
<1> DEFINE N == Len(text)
<1>1. PICK parts \in [0 .. N -> Seq(Text)] :
        /\ parts[0] = <<>>
        /\ \A n \in 1 .. N : parts[n] = ReadLine(parts[n - 1], text[n])
        /\ Reload(text) = parts[N]
  BY ReloadParts, Zenon
<1>2. N \in Nat /\ DOMAIN text = 1 .. N /\ \A n \in 1 .. N : text[n] \in Lines
  BY DEF Text
<1> HIDE DEF N
<1> DEFINE Ok(n) == /\ Clean(parts[n]) /\ LastOnly(parts[n])
                    /\ (n = 0 \/ text[n] # Blank) => NoneEmpty(parts[n])
           T == {n \in 0 .. N : Ok(n)}
<1>3. 0 \in T
  <2>1. 0 \in 0 .. N /\ DOMAIN <<>> = {}
    BY <1>2
  <2>2. Clean(<<>>) /\ LastOnly(<<>>) /\ NoneEmpty(<<>>)
    BY <2>1, Zenon DEF Clean, LastOnly, NoneEmpty
  <2> QED
    BY <1>1, <2>1, <2>2, Zenon
<1>4. ASSUME NEW n \in 1 .. N, n - 1 \in T PROVE n \in T
  <2>1. n - 1 \in 0 .. N /\ n \in 0 .. N /\ n # 0 /\ (n - 1) + 1 = n /\ (n - 1 # 0 => n - 1 \in 1 .. N)
    BY <1>2
  <2>2. Ok(n - 1)
    BY <1>4, Zenon
  <2>3. text[n] = Blank => n - 1 = 0 \/ text[n - 1] # Blank
    <3>1. ASSUME n - 1 # 0, text[n - 1] = Blank PROVE text[n] # Blank
      <4>1. text[(n - 1) + 1] # Blank
        BY <1>2, <2>1, <3>1, Zenon DEF Ended
      <4> QED
        BY <2>1, <4>1, Zenon
    <3> QED
      BY <3>1, Zenon
  <2>4. parts[n - 1] \in Seq(Text) /\ text[n] \in Lines
    BY <1>2, <2>1, Zenon
  <2>5. text[n] = Blank => NoneEmpty(parts[n - 1])
    BY <2>2, <2>3, Zenon
  <2>6. /\ Clean(ReadLine(parts[n - 1], text[n])) /\ LastOnly(ReadLine(parts[n - 1], text[n]))
        /\ text[n] # Blank => NoneEmpty(ReadLine(parts[n - 1], text[n]))
    BY <2>2, <2>4, <2>5, ReadLineNeat, Zenon
  <2>7. Ok(n)
    BY <1>1, <2>1, <2>6, Zenon
  <2> QED
    BY <2>1, <2>7, Zenon
<1>5. N \in T
  <2> HIDE DEF T
  <2>1. \A n \in 0 .. N : n \in T
    BY <1>2, <1>3, <1>4, Induction, Zenon
  <2> QED
    BY <1>2, <2>1
<1>6. N = 0 \/ text[N] # Blank
  <2>1. N # 0 => N \in DOMAIN text /\ N + 1 \notin DOMAIN text
    BY <1>2
  <2> QED
    BY <2>1, Zenon DEF Ended
<1>7. Clean(parts[N]) /\ NoneEmpty(parts[N])
  BY <1>5, <1>6, Zenon
<1>8. parts[N] \in Seq(Text)
  BY <1>2
<1>9. \A i \in DOMAIN parts[N] : Ended(parts[N][i])
  BY <1>7, Zenon DEF Clean, Ended
<1> QED
  BY <1>1, <1>7, <1>8, <1>9, Zenon DEF NoneEmpty

LEMMA JoinedEnded ==
  ASSUME NEW r \in Seq(Text), \A i \in DOMAIN r : Ended(r[i])
  PROVE  Ended(Joined(r))
<1> DEFINE N == Len(r)
<1>1. PICK upTo : /\ upTo[0] = <<>>
                  /\ \A n \in 1 .. N : upTo[n] = upTo[n - 1] \o r[n]
                  /\ Joined(r) = upTo[N]
  BY JoinedParts, Zenon
<1>2. N \in Nat /\ DOMAIN r = 1 .. N /\ \A n \in 1 .. N : r[n] \in Text
  OBVIOUS
<1> HIDE DEF N
<1> DEFINE T == {n \in 0 .. N : upTo[n] \in Text /\ Ended(upTo[n])}
<1>3. 0 \in T
  <2>1. 0 \in 0 .. N /\ <<>> \in Text /\ DOMAIN <<>> = {}
    BY <1>2 DEF Text
  <2>2. Ended(<<>>)
    BY <2>1, Zenon DEF Ended
  <2> QED
    BY <1>1, <2>1, <2>2, Zenon
<1>4. ASSUME NEW n \in 1 .. N, n - 1 \in T PROVE n \in T
  <2>1. n \in 0 .. N
    BY <1>2
  <2>2. upTo[n - 1] \in Text /\ Ended(upTo[n - 1]) /\ r[n] \in Text /\ Ended(r[n])
    BY <1>2, <1>4, Zenon
  <2>3. upTo[n - 1] \o r[n] \in Text /\ Ended(upTo[n - 1] \o r[n])
    BY <2>2, ConcatTexts, ConcatEnded, Zenon
  <2> QED
    BY <1>1, <2>1, <2>3, Zenon
<1>5. N \in T
  <2> HIDE DEF T
  <2>1. \A n \in 0 .. N : n \in T
    BY <1>2, <1>3, <1>4, Induction, Zenon
  <2> QED
    BY <1>2, <2>1
<1> QED
  BY <1>1, <1>5, Zenon

-----------------------------------------------------------------------------
(* Steps that carry every piece along.                                       *)

Known(s, x) == Has(s.ring, x) \/ Has(s.files, x) \/ Sent(s.out, x)

Neat(s) ==
  /\ \A i \in DOMAIN s.ring : Ended(s.ring[i]) /\ s.ring[i] # <<>>
  /\ \A d \in Days : Ended(s.files[d])

\* The payloads in the ring and, reloaded, in the dumpfiles are among P.
From(P, s) ==
  /\ \A i \in DOMAIN s.ring : s.ring[i] \in P
  /\ \A d \in Days : \A i \in DOMAIN Reload(s.files[d]) : Reload(s.files[d])[i] \in P

Carries(s, t) ==
  /\ \A x \in Piece : Known(t, x) <=> Known(s, x)
  /\ Neat(s) => Neat(t)
  /\ \A P : From(P, s) => From(P, t)

LEMMA SameCarries ==
  ASSUME NEW s, NEW t, t.ring = s.ring, t.files = s.files, t.out = s.out
  PROVE  Carries(s, t)
BY Zenon DEF Carries, Known, Neat, From

LEMMA CarriesOn ==
  ASSUME NEW s, NEW t, NEW u, Carries(s, t), Carries(t, u)
  PROVE  Carries(s, u)
<1> HIDE DEF Known, Neat, From
<1> QED
  BY Zenon DEF Carries

LEMMA SetSuccCarries ==
  ASSUME NEW s \in Good, NEW c
  PROVE  Carries(s, [s EXCEPT !.succ = c])
<1> DEFINE t == [s EXCEPT !.succ = c]
<1>1. s \in Node
  BY GoodFields, Zenon
<1>2. t.ring = s.ring /\ t.files = s.files /\ t.out = s.out
  BY <1>1 DEF Node
<1> HIDE DEF t
<1>3. Carries(s, t)
  BY <1>2, SameCarries, Zenon
<1> QED
  BY <1>3, Zenon DEF t

LEMMA SetModeCarries ==
  ASSUME NEW s \in Good, NEW m
  PROVE  Carries(s, [s EXCEPT !.mode = m])
<1> DEFINE t == [s EXCEPT !.mode = m]
<1>1. s \in Node
  BY GoodFields, Zenon
<1>2. t.ring = s.ring /\ t.files = s.files /\ t.out = s.out
  BY ZenonT(30), <1>1 DEF Node
<1> HIDE DEF t
<1>3. Carries(s, t)
  BY <1>2, SameCarries, Zenon
<1> QED
  BY <1>3, Zenon DEF t

LEMMA CarriesItself ==
  ASSUME NEW s
  PROVE  Carries(s, s)
BY SameCarries, Zenon

\* Every payload up to the last cut is in a message.
LEMMA MessagesCover ==
  ASSUME NEW r \in Seq(Text), NEW C \in SUBSET DOMAIN r, NEW last \in C, NEW i \in 1 .. last
  PROVE  \E m \in MessagesOf(r, C) : \E j \in DOMAIN m : m[j] = r[i]
<1>1. C \in SUBSET (1 .. Len(r)) /\ Len(r) \in Nat /\ last \in 1 .. Len(r)
  OBVIOUS
<1>2. PICK n \in C : i <= n /\ \A c \in C : i <= c => n <= c
  <2> DEFINE U == {c \in C : i <= c}
  <2>1. U \in SUBSET Nat /\ U # {}
    <3>1. last \in U
      BY <1>1
    <3> QED
      BY <1>1, <3>1
  <2>2. PICK n \in U : \A k \in U : n <= k
    <3> HIDE DEF U
    <3> QED
      BY <2>1, LeastOf, Zenon
  <2> QED
    BY <2>2, Zenon
<1>3. PICK k \in C \cup {0} : k < i /\ \A c \in C : c < i => c <= k
  <2> DEFINE L == {c \in C \cup {0} : c < i}
  <2>1. L \in SUBSET (0 .. Len(r)) /\ L # {}
    <3>1. 0 \in L
      BY <1>1
    <3> QED
      BY <1>1, <3>1
  <2>2. PICK k \in L : \A c \in L : c <= k
    <3> HIDE DEF L
    <3> QED
      BY <1>1, <2>1, GreatestOf, Zenon
  <2> QED
    BY <2>2, Zenon
<1>4. /\ k \in 0 .. Len(r) /\ n \in 1 .. Len(r) /\ i \in 1 .. Len(r)
      /\ k \in Int /\ n \in Int /\ i \in Int
  BY <1>1
<1>5. k < n /\ \A c \in C : ~(k < c /\ c < n)
  <2>1. k < n
    BY <1>2, <1>3, <1>4, Orders, Zenon
  <2>2. ASSUME NEW c \in C, k < c, c < n PROVE FALSE
    <3>1. c \in Int
      BY <1>1
    <3>2. CASE c < i
      <4>1. c <= k
        BY <1>3, <3>2, Zenon
      <4> QED
        BY <1>4, <2>2, <3>1, <4>1, Orders, Zenon
    <3>3. CASE i <= c
      <4>1. n <= c
        BY <1>2, <3>3, Zenon
      <4> QED
        BY <1>4, <2>2, <3>1, <4>1, Orders, Zenon
    <3> QED
      BY <1>4, <3>1, <3>2, <3>3, Orders, Zenon
  <2> QED
    BY <2>1, <2>2, Zenon
<1> DEFINE y == <<k, n>>
           m == SubSeq(r, k + 1, n)
<1>6. y \in (C \cup {0}) \X C /\ y[1] = k /\ y[2] = n
  OBVIOUS
<1>7. m \in MessagesOf(r, C)
  <2> HIDE DEF y
  <2> QED
    BY <1>5, <1>6, Zenon DEF MessagesOf
<1>8. k + 1 \in 1 .. Len(r) + 1 /\ n \in 0 .. Len(r) /\ i \in k + 1 .. n
  BY <1>2, <1>3, <1>4
<1>9. i - (k + 1) + 1 \in DOMAIN m /\ m[i - (k + 1) + 1] = r[i]
  BY <1>8, SegmentPlaces, Zenon
<1> QED
  BY <1>7, <1>9, Zenon

LEMMA ResendCarries ==
  ASSUME NEW s \in Good, NEW t \in Resend(s)
  PROVE  Carries(s, t)
<1> DEFINE r == s.ring
           Top(C) == CHOOSE n \in C : \A k \in C : k <= n
           After(C) == [s EXCEPT !.ring = Drop(@, Top(C)), !.out = @ \cup MessagesOf(s.ring, C)]
<1>1. r \in Seq(Text) /\ s \in Node
  BY GoodFields, Zenon
<1>2. t = s \/ \E C \in Cuts(r, s.broker) : t = After(C)
  BY Zenon DEF Resend
<1>3. CASE t = s
  BY <1>3, CarriesItself, Zenon
<1>4. ASSUME NEW C \in Cuts(r, s.broker), t = After(C) PROVE Carries(s, t)
  <2> HIDE DEF r
  <2> DEFINE last == Top(C)
             q == Drop(r, last)
             o == s.out \cup MessagesOf(r, C)
  <2>1. C \in SUBSET DOMAIN r /\ C # {}
    BY Zenon DEF Cuts
  <2>2. C \in SUBSET (0 .. Len(r)) /\ Len(r) \in Nat
    BY <1>1, <2>1
  <2>3. \E n \in C : \A k \in C : k <= n
    BY <2>1, <2>2, GreatestOf, Zenon
  <2>4. last \in C /\ \A k \in C : k <= last
    BY <2>3, Zenon
  <2>5. t.ring = q /\ t.out = o /\ t.files = s.files
    <3>1. t = [s EXCEPT !.ring = q, !.out = o]
      BY <1>4, Zenon DEF r
    <3> HIDE DEF q, o
    <3> QED
      BY <1>1, <3>1 DEF Node
  <2> HIDE DEF last
  <2>6. last + 1 \in 1 .. Len(r) + 1 /\ Len(r) \in 0 .. Len(r) /\ last \in 1 .. Len(r)
    BY <1>1, <2>1, <2>2, <2>4
  <2>7. /\ \A i \in DOMAIN q : i + (last + 1) - 1 \in DOMAIN r /\ q[i] = r[i + (last + 1) - 1]
        /\ \A i \in last + 1 .. Len(r) :
             i - (last + 1) + 1 \in DOMAIN q /\ q[i - (last + 1) + 1] = r[i]
    BY <1>1, <2>6, SegmentPlaces, Zenon DEF Drop
  <2>8. ASSUME NEW m \in MessagesOf(r, C), NEW x, Has(m, x) PROVE Has(r, x)
    BY <1>1, <2>1, <2>4, <2>8, MessageSegments, Zenon DEF Has
  <2>9. \A i \in DOMAIN r : i \in 1 .. last \/ i \in last + 1 .. Len(r)
    BY <1>1, <2>6
  <2> HIDE DEF q
  <2>10. ASSUME NEW x PROVE Has(q, x) \/ Sent(o, x) <=> Has(r, x) \/ Sent(s.out, x)
    <3>1. Has(q, x) => Has(r, x)
      BY <2>7, Zenon DEF Has
    <3>2. Sent(o, x) => Has(r, x) \/ Sent(s.out, x)
      BY <2>8, Zenon DEF Sent
    <3>3. Sent(s.out, x) => Sent(o, x)
      BY Zenon DEF Sent
    <3>4. ASSUME NEW i \in DOMAIN r, In(r[i], x) PROVE Has(q, x) \/ Sent(o, x)
      <4>1. CASE i \in 1 .. last
        <5>1. PICK m \in MessagesOf(r, C) : \E j \in DOMAIN m : m[j] = r[i]
          BY <1>1, <2>1, <2>4, <4>1, MessagesCover, Zenon
        <5>2. m \in o /\ Has(m, x)
          BY <3>4, <5>1, Zenon DEF Has
        <5> QED
          BY <5>2, Zenon DEF Sent
      <4>2. CASE i \in last + 1 .. Len(r)
        <5>1. \E j \in DOMAIN q : q[j] = r[i]
          BY <2>7, <4>2, Zenon
        <5> QED
          BY <3>4, <5>1, Zenon DEF Has
      <4> QED
        BY <2>9, <4>1, <4>2, Zenon
    <3>5. Has(r, x) => Has(q, x) \/ Sent(o, x)
      BY <3>4, Zenon DEF Has
    <3> QED
      BY <3>1, <3>2, <3>3, <3>5, Zenon
  <2> HIDE DEF o
  <2>11. \A x \in Piece : Known(t, x) <=> Known(s, x)
    BY <2>5, <2>10, Zenon DEF Known, r
  <2>12. Neat(s) => Neat(t)
    BY <2>5, <2>7, Zenon DEF Neat, r
  <2>13. \A P : From(P, s) => From(P, t)
    BY <2>5, <2>7, Zenon DEF From, r
  <2> QED
    BY <2>11, <2>12, <2>13, Zenon DEF Carries
<1> HIDE DEF After
<1> QED
  BY <1>2, <1>3, <1>4, Zenon

LEMMA ResendIfNonemptyCarries ==
  ASSUME NEW s \in Good, NEW t \in ResendIfNonempty(s)
  PROVE  Carries(s, t)
<1>1. PICK u \in Resend(s) : t = [u EXCEPT !.succ = IF u.ring = <<>> THEN u.succ ELSE 0]
  BY Zenon DEF ResendIfNonempty
<1>2. u \in Good
  BY ResendGood, Zenon
<1>3. Carries(u, t)
  BY <1>1, <1>2, SetSuccCarries, Zenon
<1> QED
  BY <1>3, ResendCarries, CarriesOn, Zenon

LEMMA LoadCarries ==
  ASSUME NEW s \in Good, NEW d \in Days
  PROVE  Carries(s, Unlink([s EXCEPT !.ring = @ \o Reload(s.files[d])], d))
<1> DEFINE text == s.files[d]
           ps == Reload(text)
           q == s.ring \o ps
           f == [s.files EXCEPT ![d] = <<>>]
           t == Unlink([s EXCEPT !.ring = @ \o Reload(s.files[d])], d)
<1>1. /\ s \in Node /\ s.ring \in Seq(Text) /\ s.files \in [Days -> Text]
      /\ DOMAIN s.files = Days /\ text \in Text
  <2>1. s \in Node /\ s.ring \in Seq(Text) /\ s.files \in [Days -> Text]
    BY GoodFields, Zenon
  <2> QED
    BY Zenon, <2>1
<1>2. t.ring = q /\ t.files = f /\ t.out = s.out
  BY <1>1 DEF Unlink, Node
<1> HIDE DEF t, text
<1>3. ps \in Seq(Text)
  BY <1>1, ReloadSeq, Zenon DEF text
<1>4. /\ \A e \in Days \ {d} : f[e] = s.files[e]
      /\ f[d] = <<>>
  BY Zenon, <1>1
<1>5. /\ \A n \in DOMAIN q : (n \in DOMAIN s.ring /\ q[n] = s.ring[n])
           \/ (n - Len(s.ring) \in DOMAIN ps /\ q[n] = ps[n - Len(s.ring)])
  <2> HIDE DEF ps
  <2> QED
    BY <1>1, <1>3, ConcatPlaces
<1>6. ASSUME NEW x \in Piece PROVE Known(t, x) <=> Known(s, x)
  <2>1. Has(ps, x) <=> In(text, x)
    BY <1>1, ReloadKeeps, Zenon
  <2> HIDE DEF ps
  <2>2. Has(q, x) <=> Has(s.ring, x) \/ Has(ps, x)
    BY <1>1, <1>3, ConcatRings, Zenon
  <2>3. Has(f, x) <=> \E e \in Days \ {d} : In(s.files[e], x)
    BY <1>1, EraseText, Zenon
  <2> HIDE DEF q, f
  <2>4. Has(s.files, x) <=> In(text, x) \/ Has(f, x)
    BY <1>1, <2>3, Zenon DEF Has, text
  <2> QED
    BY <1>2, <2>1, <2>2, <2>4, Zenon DEF Known
<1>7. ASSUME Neat(s) PROVE Neat(t)
  <2>1. Ended(text) /\ Ended(<<>>)
    <3>1. DOMAIN <<>> = {}
      OBVIOUS
    <3> QED
      BY <1>7, <3>1, Zenon DEF Neat, Ended, text
  <2>2. \A i \in DOMAIN ps : Ended(ps[i]) /\ ps[i] # <<>>
    BY <1>1, <2>1, ReloadNeat, Zenon
  <2> HIDE DEF ps, q, f
  <2>3. \A n \in DOMAIN q : Ended(q[n]) /\ q[n] # <<>>
    BY <1>5, <1>7, <2>2, Zenon DEF Neat
  <2>4. \A e \in Days : Ended(f[e])
    BY <1>4, <1>7, <2>1, Zenon DEF Neat
  <2> QED
    BY <1>2, <2>3, <2>4, Zenon DEF Neat
<1>8. Reload(<<>>) = <<>>
  <2>1. <<>> \in Text /\ Len(<<>>) = 0
    BY DEF Text
  <2>2. PICK parts : parts[0] = <<>> /\ Reload(<<>>) = parts[Len(<<>>)]
    BY <2>1, ReloadParts, Zenon
  <2> QED
    BY <2>1, <2>2, Zenon
<1>9. ASSUME NEW P, From(P, s) PROVE From(P, t)
  <2>1. \A i \in DOMAIN ps : ps[i] \in P
    BY <1>9, Zenon DEF From, text
  <2> HIDE DEF ps, q, f
  <2>2. \A n \in DOMAIN q : q[n] \in P
    BY <1>5, <1>9, <2>1, Zenon DEF From
  <2>3. DOMAIN <<>> = {}
    OBVIOUS
  <2>4. ASSUME NEW e \in Days, NEW i \in DOMAIN Reload(f[e]) PROVE Reload(f[e])[i] \in P
    <3>1. e # d
      BY <1>4, <1>8, <2>3, <2>4, Zenon
    <3> QED
      BY <1>4, <1>9, <2>4, <3>1, Zenon DEF From
  <2> QED
    BY <1>2, <2>2, <2>4, Zenon DEF From
<1> HIDE DEF ps, q, f
<1>10. Carries(s, t)
  BY <1>6, <1>7, <1>9, Zenon DEF Carries
<1> QED
  BY <1>10, Zenon DEF t

LEMMA ReplayOneCarries ==
  ASSUME NEW x \in Replay, NEW d \in Days, NEW y \in ReplayOne(x, d)
  PROVE  Carries(x.s, y.s)
<1> DEFINE loaded == Unlink([x.s EXCEPT !.ring = @ \o Reload(x.s.files[d])], d)
           After(t) ==
             IF t.ring = <<>> THEN [s |-> t, left |-> x.left \ {d}, whole |-> x.whole + 1, go |-> TRUE]
             ELSE [s |-> [t EXCEPT !.succ = 0], left |-> x.left \ {d}, whole |-> x.whole, go |-> FALSE]
           stuck == [x EXCEPT !.s.succ = 0, !.go = FALSE]
<1>1. x.s \in Good
  BY DEF Replay
<1>2. loaded \in Good /\ Carries(x.s, loaded)
  BY <1>1, LoadGood, LoadCarries, Zenon
<1>3. y = stuck \/ \E t \in Resend(loaded) : y = After(t)
  BY Zenon DEF ReplayOne
<1> HIDE DEF loaded
<1>4. CASE y = stuck
  <2>1. y.s = [x.s EXCEPT !.succ = 0]
    BY <1>4 DEF Replay
  <2> QED
    BY <1>1, <2>1, SetSuccCarries, Zenon
<1>5. ASSUME NEW t \in Resend(loaded), y = After(t) PROVE Carries(x.s, y.s)
  <2>1. t \in Good /\ Carries(loaded, t)
    BY <1>2, ResendGood, ResendCarries, Zenon
  <2>2. y.s = t \/ y.s = [t EXCEPT !.succ = 0]
    BY <1>5
  <2>3. Carries(t, y.s)
    BY <2>1, <2>2, CarriesItself, SetSuccCarries, Zenon
  <2>4. Carries(x.s, t)
    BY <1>2, <2>1, CarriesOn, Zenon
  <2> QED
    BY <2>3, <2>4, CarriesOn, Zenon
<1> HIDE DEF After, stuck
<1> QED
  BY <1>3, <1>4, <1>5, Zenon

LEMMA SendDumpsCarries ==
  ASSUME NEW s \in Good, NEW t \in SendDumps(s)
  PROVE  Carries(s, t)
<1> DEFINE R == {x \in Replay : Carries(s, x.s)}
<1>1. First(s) \in R
  <2>1. First(s).s = s
    BY DEF First
  <2> QED
    BY <2>1, FirstReplay, CarriesItself, Zenon
<1>2. ASSUME NEW x \in R, NEW y \in Round(x) PROVE y \in R
  <2>1. y = x \/ \E d \in x.left : y \in ReplayOne(x, d)
    BY Zenon DEF Round
  <2>2. x.left \in SUBSET Days /\ x \in Replay
    BY DEF Replay
  <2>3. ASSUME NEW d \in x.left, y \in ReplayOne(x, d) PROVE y \in R
    <3>1. y \in Replay /\ Carries(x.s, y.s)
      BY <2>2, <2>3, ReplayOneGood, ReplayOneCarries, Zenon
    <3>2. Carries(s, y.s)
      BY <3>1, CarriesOn, Zenon
    <3> QED
      BY <3>1, <3>2, Zenon
  <2> QED
    BY <2>1, <2>3, Zenon
<1>3. t = s \/ \E x \in R : t \in Ends(x)
  <2>1. \A x \in R : Round(x) \subseteq R
    <3> HIDE DEF R
    <3> QED
      BY <1>2, Zenon
  <2> HIDE DEF R
  <2> QED
    BY <1>1, <2>1, SendDumpsRounds, Zenon
<1>4. ASSUME NEW x \in R, t \in Ends(x) PROVE Carries(s, t)
  <2>1. x.s \in Good /\ Carries(s, x.s)
    BY DEF Replay
  <2>2. Carries(x.s, t)
    BY <1>4, <2>1, CarriesItself, SetModeCarries, Zenon DEF Ends
  <2> QED
    BY <2>1, <2>2, CarriesOn, Zenon
<1> HIDE DEF R
<1> QED
  BY <1>3, <1>4, CarriesItself, Zenon

LEMMA PrimeCarries ==
  ASSUME NEW s \in Good
  PROVE  Carries(s, Prime(s))
<1> DEFINE u == [s EXCEPT !.mode = TRUE]
<1>1. u \in Good /\ Carries(s, u)
  BY SetMode, SetModeCarries, Zenon
<1> HIDE DEF u
<1>2. Carries(u, [u EXCEPT !.succ = 0])
  BY <1>1, SetSuccCarries, Zenon
<1>3. Carries(s, [u EXCEPT !.succ = 0])
  BY <1>1, <1>2, CarriesOn, Zenon
<1>4. Prime(s) = s \/ Prime(s) = [u EXCEPT !.succ = 0]
  BY Zenon DEF Prime, u
<1> QED
  BY <1>3, <1>4, CarriesItself, Zenon

-----------------------------------------------------------------------------
(* A collected payload, and the one that may be overwritten for it.          *)

\* One payload without a leading `$` is gone, the one at v, and nothing else.
LostAt(s, t, v) ==
  /\ Len(s.ring) >= MaxBuffer /\ v \in DOMAIN s.ring /\ ~IsSchema(s.ring[v])
  /\ \A x \in Piece : Known(s, x) /\ ~Known(t, x) <=> In(s.ring[v], x)

KeepsAll(s, t) == \A x \in Piece : Known(s, x) => Known(t, x)

Collected(s, t) ==
  /\ Neat(s) => Neat(t)
  /\ KeepsAll(s, t) \/ \E v : LostAt(s, t, v)

LEMMA AppendCollected ==
  ASSUME NEW s \in Good, NEW p \in Text, Ended(p), p # <<>>
  PROVE  Collected(s, [s EXCEPT !.ring = Append(s.ring, p)])
<1> DEFINE q == Append(s.ring, p)
           t == [s EXCEPT !.ring = q]
<1>1. s \in Node /\ s.ring \in Seq(Text)
  BY GoodFields, Zenon
<1>2. /\ \A n \in DOMAIN q : (n \in DOMAIN s.ring /\ q[n] = s.ring[n]) \/ q[n] = p
      /\ \A n \in DOMAIN s.ring : n \in DOMAIN q /\ q[n] = s.ring[n]
  BY <1>1
<1> HIDE DEF q
<1>3. t.ring = q /\ t.files = s.files /\ t.out = s.out
  BY <1>1 DEF Node
<1> HIDE DEF t
<1>4. KeepsAll(s, t)
  BY <1>2, <1>3, Zenon DEF KeepsAll, Known, Has
<1>5. Neat(s) => Neat(t)
  BY <1>2, <1>3, Zenon DEF Neat
<1>6. Collected(s, t)
  BY <1>4, <1>5, Zenon DEF Collected
<1> QED
  BY <1>6, Zenon DEF t, q

LEMMA OverwriteCollected ==
  ASSUME NEW s \in Good, NEW p, Fresh(s, p), Ended(p), p # <<>>, NEW v \in DOMAIN s.ring,
         ~IsSchema(s.ring[v]), Len(s.ring) >= MaxBuffer
  PROVE  Collected(s, [s EXCEPT !.ring =
                         SubSeq(s.ring, v + 1, Len(s.ring)) \o SubSeq(s.ring, 1, v - 1) \o <<p>>])
<1> DEFINE r == s.ring
           a == SubSeq(r, v + 1, Len(r))
           b == SubSeq(r, 1, v - 1)
           q == a \o b \o <<p>>
           t == [s EXCEPT !.ring = q]
<1>1. p \in Text /\ s \in Node /\ r \in Seq(Text)
  BY GoodFields, Zenon DEF Fresh
<1> HIDE DEF r
<1>2. v \in 1 .. Len(r) /\ v + 1 \in 1 .. Len(r) + 1 /\ Len(r) \in 0 .. Len(r)
      /\ 1 \in 1 .. Len(r) + 1 /\ v - 1 \in 0 .. Len(r) /\ v \in DOMAIN r
  BY <1>1 DEF r
<1>3. /\ a \in Seq(Text) /\ b \in Seq(Text)
      /\ \A i \in DOMAIN a : a[i] \in Range(r)
      /\ \A i \in DOMAIN b : b[i] \in Range(r)
  BY <1>1, <1>2, SegmentRange, Zenon
<1>4. ASSUME NEW x
      PROVE  /\ Has(a, x) <=> \E i \in v + 1 .. Len(r) : i \in DOMAIN r /\ In(r[i], x)
             /\ Has(b, x) <=> \E i \in 1 .. v - 1 : i \in DOMAIN r /\ In(r[i], x)
  BY <1>1, <1>2, Segment, Zenon
<1>5. /\ \A i \in DOMAIN r : i = v \/ i \in v + 1 .. Len(r) \/ i \in 1 .. v - 1
      /\ \A i \in v + 1 .. Len(r) : i # v
      /\ \A i \in 1 .. v - 1 : i # v
  <2>1. DOMAIN r = 1 .. Len(r) /\ Len(r) \in Nat
    BY <1>1, RingPlaces, Zenon
  <2> QED
    BY <1>2, <2>1, AroundPlace, Zenon
<1> HIDE DEF a, b
<1>6. a \o b \in Seq(Text) /\ <<p>> \in Seq(Text) /\ DOMAIN <<p>> = {1} /\ <<p>>[1] = p
  BY <1>1, <1>3
<1>7. \A n \in DOMAIN (a \o b) : (a \o b)[n] \in Range(r)
  <2>1. \A n \in DOMAIN (a \o b) :
          \/ n \in DOMAIN a /\ (a \o b)[n] = a[n]
          \/ n - Len(a) \in DOMAIN b /\ (a \o b)[n] = b[n - Len(a)]
    BY <1>3, ConcatPlaces
  <2> QED
    BY <1>3, <2>1, Zenon
<1>8. \A n \in DOMAIN q : q[n] \in Range(r) \/ q[n] = p
  <2> DEFINE c == a \o b
  <2>1. c \in Seq(Text) /\ \A n \in DOMAIN c : c[n] \in Range(r)
    BY <1>6, <1>7, Zenon
  <2> HIDE DEF c
  <2>2. \A n \in DOMAIN (c \o <<p>>) :
          \/ n \in DOMAIN c /\ (c \o <<p>>)[n] = c[n]
          \/ n - Len(c) \in DOMAIN <<p>> /\ (c \o <<p>>)[n] = <<p>>[n - Len(c)]
    BY <1>6, <2>1, ConcatPlaces
  <2>3. \A n \in DOMAIN (c \o <<p>>) : (c \o <<p>>)[n] \in Range(r) \/ (c \o <<p>>)[n] = p
    BY <1>6, <2>1, <2>2, Zenon
  <2> QED
    BY <2>3, Zenon DEF c
<1>9. ASSUME NEW x PROVE Has(q, x) <=> In(p, x) \/ \E i \in DOMAIN r : i # v /\ In(r[i], x)
  <2>1. Has(<<p>>, x) <=> In(p, x)
    BY <1>1, OneText, Zenon
  <2>2. Has(a \o b, x) <=> Has(a, x) \/ Has(b, x)
    BY <1>3, ConcatRings, Zenon
  <2>3. Has(q, x) <=> Has(a \o b, x) \/ Has(<<p>>, x)
    BY <1>6, ConcatRings, Zenon
  <2>4. (Has(a, x) \/ Has(b, x)) <=> \E i \in DOMAIN r : i # v /\ In(r[i], x)
    BY <1>4, <1>5, Zenon
  <2> HIDE DEF q
  <2> QED
    BY <2>1, <2>2, <2>3, <2>4, Zenon
<1> HIDE DEF q
<1>10. t.ring = q /\ t.files = s.files /\ t.out = s.out
  BY <1>1 DEF Node
<1> HIDE DEF t
<1>11. Neat(s) => Neat(t)
  <2>1. SUFFICES ASSUME Neat(s) PROVE Neat(t)
    BY Zenon
  <2>2. \A u \in Range(r) : Ended(u) /\ u # <<>>
    BY <2>1, Zenon DEF Neat, Range, r
  <2> QED
    BY <1>8, <1>10, <2>1, <2>2, Zenon DEF Neat
<1>12. ASSUME NEW x \in Piece PROVE Known(s, x) /\ ~Known(t, x) <=> In(r[v], x)
  <2>1. Apart(r, s.files, s.out, x)
    BY GoodFields, Zenon DEF r
  <2>2. In(p, x) => ~Has(r, x)
    BY Zenon DEF Fresh, r
  <2>3. ASSUME In(r[v], x) PROVE Known(s, x) /\ ~Known(t, x)
    <3>1. Has(r, x)
      BY <1>2, <2>3, Zenon DEF Has
    <3>2. ~Has(s.files, x) /\ ~Sent(s.out, x)
      BY <2>1, <3>1, Zenon DEF Apart
    <3>3. \A i \in DOMAIN r : In(r[i], x) => i = v
      BY <1>2, <2>1, <2>3, Zenon DEF Apart, HaveOnce
    <3>4. ~Has(q, x)
      BY <1>9, <2>2, <3>1, <3>3, Zenon
    <3> QED
      BY <1>10, <3>1, <3>2, <3>4, Zenon DEF Known, r
  <2>4. ASSUME Known(s, x), ~Known(t, x) PROVE In(r[v], x)
    <3>1. Has(r, x) /\ ~Has(q, x)
      BY <1>10, <2>4, Zenon DEF Known, r
    <3> QED
      BY <1>9, <3>1, Zenon DEF Has
  <2> QED
    BY <2>3, <2>4, Zenon
<1>13. LostAt(s, t, v)
  BY <1>12, Zenon DEF LostAt, r
<1>14. Collected(s, t)
  BY <1>11, <1>13, Zenon DEF Collected
<1> QED
  BY <1>14, Zenon DEF t, q, a, b, r

\* Lines appended to a dumpfile.
LEMMA SpoolKeeps ==
  ASSUME NEW s \in Good, NEW p \in Text, Ended(p), NEW d \in Days, NEW t,
         t.ring = s.ring, t.files = [s.files EXCEPT ![d] = @ \o p], t.out = s.out
  PROVE  Collected(s, t)
<1> DEFINE f == [s.files EXCEPT ![d] = @ \o p]
<1>1. s.files \in [Days -> Text] /\ DOMAIN s.files = Days
  <2>1. s.files \in [Days -> Text]
    BY GoodFields, Zenon
  <2> QED
    BY <2>1
<1>2. ASSUME NEW x PROVE Has(f, x) <=> Has(s.files, x) \/ In(p, x)
  BY <1>1, ExtendText, Zenon
<1>3. f[d] = s.files[d] \o p /\ \A e \in Days \ {d} : f[e] = s.files[e]
  BY <1>1
<1>4. t.files = f
  BY Zenon
<1> HIDE DEF f
<1>5. KeepsAll(s, t)
  BY <1>2, <1>4, Zenon DEF KeepsAll, Known
<1>6. Neat(s) => Neat(t)
  <2>1. SUFFICES ASSUME Neat(s) PROVE Neat(t)
    BY Zenon
  <2>2. s.files[d] \in Text /\ Ended(s.files[d])
    BY <1>1, <2>1, Zenon DEF Neat
  <2>3. Ended(f[d])
    BY <1>3, <2>2, ConcatEnded, Zenon
  <2> QED
    BY <1>3, <1>4, <2>1, <2>3, Zenon DEF Neat
<1> QED
  BY <1>5, <1>6, Zenon DEF Collected

LEMMA InsertCollected ==
  ASSUME NEW s \in Good, NEW p, Fresh(s, p), Ended(p), p # <<>>, day \in Days
  PROVE  Collected(s, Insert(s, p))
<1> DEFINE r == s.ring
           v == CHOOSE n \in Victims(r) : \A k \in Victims(r) : n <= k
           over == [s EXCEPT !.ring = SubSeq(r, v + 1, Len(r)) \o SubSeq(r, 1, v - 1) \o <<p>>]
<1>1. p \in Text /\ r \in Seq(Text) /\ s \in Node
  BY GoodFields, Zenon DEF Fresh
<1>2. Collected(s, [s EXCEPT !.ring = Append(r, p)])
  BY <1>1, AppendCollected, Zenon
<1>3. ASSUME Victims(r) # {}, ~(Len(r) < MaxBuffer) PROVE Collected(s, over)
  <2>1. Victims(r) \in SUBSET Nat /\ Victims(r) \subseteq DOMAIN r
    <3> HIDE DEF r
    <3> QED
      BY <1>1 DEF Victims
  <2>2. \E n \in Victims(r) : \A k \in Victims(r) : n <= k
    BY <1>3, <2>1, LeastOf, Zenon
  <2>3. v \in Victims(r)
    BY <2>2, Zenon
  <2> HIDE DEF v
  <2>4. v \in DOMAIN r /\ ~IsSchema(r[v])
    BY <2>3, Zenon DEF Victims
  <2>5. Len(r) >= MaxBuffer
    <3>1. MaxBuffer \in Nat
      BY MonitorAssumption
    <3>2. Len(r) \in Nat
      BY <1>1, RingPlaces, Zenon
    <3> QED
      BY <1>3, <3>1, <3>2, Reaches, Zenon
  <2> QED
    BY <2>4, <2>5, OverwriteCollected, Zenon
<1>4. Collected(s, Refused(s, p))
  <2> DEFINE t == Refused(s, p)
  <2>1. t.ring = s.ring /\ t.files = [s.files EXCEPT ![day] = @ \o p] /\ t.out = s.out
    BY <1>1 DEF Refused, Node
  <2> HIDE DEF t
  <2>2. Collected(s, t)
    BY <1>1, <2>1, SpoolKeeps, Zenon
  <2> QED
    BY <2>2, Zenon DEF t
<1>5. Collected(s, s)
  BY Zenon DEF Collected, KeepsAll
<1>6. \/ Insert(s, p) = [s EXCEPT !.ring = Append(r, p)]
      \/ Victims(r) # {} /\ ~(Len(r) < MaxBuffer) /\ Insert(s, p) = over
      \/ Insert(s, p) = Refused(s, p)
      \/ Insert(s, p) = s
  BY Zenon DEF Insert
<1> HIDE DEF over
<1> QED
  BY <1>2, <1>3, <1>4, <1>5, <1>6, Zenon

LEMMA CollectCollected ==
  ASSUME NEW s \in Good, NEW hdr, day \in Days, NEW t \in Collect(s, hdr)
  PROVE  Collected(s, t)
<1>1. ASSUME NEW i \in FreeIds(s) PROVE Collected(s, Insert(s, Payload(i, hdr)))
  <2>1. i \in 1 .. NumIds
    BY Zenon DEF FreeIds
  <2>2. Ended(Payload(i, hdr)) /\ Payload(i, hdr) # <<>>
    BY <2>1, PayloadEnded, Zenon
  <2>3. Fresh(s, Payload(i, hdr))
    BY FreshPayload, Zenon
  <2> QED
    BY <2>2, <2>3, InsertCollected, Zenon
<1>2. Collected(s, s)
  BY Zenon DEF Collected, KeepsAll
<1> QED
  BY <1>1, <1>2, Zenon DEF Collect

-----------------------------------------------------------------------------
(* A callback collects once at most: every piece it starts with is kept, or  *)
(* only those of one payload of a full ring are gone.                        *)

Accounted(h, u) ==
  /\ Neat(h) => Neat(u)
  /\ KeepsAll(h, u) \/ \E s \in Good : Carries(h, s) /\ \E v : LostAt(s, u, v)

LEMMA CarriedAccounted ==
  ASSUME NEW h, NEW u, Carries(h, u)
  PROVE  Accounted(h, u)
BY Zenon DEF Carries, Accounted, KeepsAll

LEMMA CollectedAccounted ==
  ASSUME NEW h, NEW s \in Good, NEW t, NEW u, Carries(h, s), Collected(s, t), Carries(t, u)
  PROVE  Accounted(h, u)
<1>1. Neat(h) => Neat(u)
  BY Zenon DEF Carries, Collected
<1>2. ASSUME NEW x \in Piece PROVE (Known(h, x) <=> Known(s, x)) /\ (Known(t, x) <=> Known(u, x))
  BY Zenon DEF Carries
<1>3. CASE KeepsAll(s, t)
  BY <1>1, <1>2, <1>3, Zenon DEF KeepsAll, Accounted
<1>4. ASSUME NEW v, LostAt(s, t, v) PROVE LostAt(s, u, v)
  BY <1>2, <1>4, Zenon DEF LostAt
<1> QED
  BY <1>1, <1>3, <1>4, Zenon DEF Collected, Accounted

\* The node after the callback.
Arrives(u) == ring' = u.ring /\ files' = u.files /\ out' = u.out

LEMMA BecomesArrives ==
  ASSUME NEW S, Becomes(S)
  PROVE  \E u \in S : Arrives(u)
BY Zenon DEF Becomes, Arrives

LEMMA RotateFlushCollected ==
  ASSUME NEW s \in Good, day \in Days, NEW t \in RotateFlush(s)
  PROVE  \E c \in Good : Collected(s, c) /\ Carries(c, t)
<1>1. PICK c \in Collect(s, TRUE) : t \in ResendIfNonempty(c)
  BY Zenon DEF RotateFlush, Then
<1>2. c \in Good /\ Collected(s, c)
  BY CollectGood, CollectCollected, Zenon
<1>3. Carries(c, t)
  BY <1>1, <1>2, ResendIfNonemptyCarries, Zenon
<1> QED
  BY <1>2, <1>3, Zenon

LEMMA StartAccounted ==
  ASSUME NEW h \in Good, day \in Days, Start(h)
  PROVE  \E u : Accounted(h, u) /\ Arrives(u)
<1> DEFINE b == [h EXCEPT !.mode = FALSE]
           a == [b EXCEPT !.succ = 0]
           A == RotateFlush(Prime(a))
           B == UNION {SendDumps(s) : s \in A}
<1>1. b \in Good /\ Carries(h, b)
  BY SetMode, SetModeCarries, Zenon
<1>2. a \in Good /\ Carries(b, a)
  <2> HIDE DEF b
  <2> QED
    BY <1>1, SetSucc, ZeroSucc, SetSuccCarries, Zenon
<1>3. Becomes(B)
  BY Zenon DEF Start, Then
<1> HIDE DEF a, b
<1>4. Prime(a) \in Good /\ Carries(h, Prime(a))
  <2>1. Prime(a) \in Good /\ Carries(a, Prime(a))
    BY <1>2, PrimeGood, PrimeCarries, Zenon
  <2>2. Carries(h, a)
    BY <1>1, <1>2, CarriesOn, Zenon
  <2> QED
    BY <2>1, <2>2, CarriesOn, Zenon
<1>5. PICK u \in B : Arrives(u)
  BY <1>3, BecomesArrives, Zenon
<1>6. PICK s \in A : u \in SendDumps(s)
  BY <1>5, Zenon
<1>7. s \in Good
  BY <1>4, <1>6, RotateFlushGood, Zenon
<1>8. PICK c \in Good : Collected(Prime(a), c) /\ Carries(c, s)
  BY <1>4, <1>6, RotateFlushCollected, Zenon
<1>9. Carries(s, u)
  BY <1>6, <1>7, SendDumpsCarries, Zenon
<1>10. Carries(c, u)
  BY <1>8, <1>9, CarriesOn, Zenon
<1>11. Accounted(h, u)
  BY <1>4, <1>8, <1>10, CollectedAccounted, Zenon
<1> QED
  BY <1>5, <1>11, Zenon

LEMMA SendTimerAccounted ==
  ASSUME NEW h \in Good, SendTimer(h)
  PROVE  \E u : Accounted(h, u) /\ Arrives(u)
<1> DEFINE Succ(s) == IF Len(s.ring) < Len(ring)
                        THEN IF s.succ < SuccMax THEN s.succ + 1 ELSE s.succ
                        ELSE IF s.ring # <<>> THEN 0 ELSE s.succ
           Count(s) == {[s EXCEPT !.succ = Succ(s)]}
           Dumps(s) ==
             IF s.mode /\ s.ring = <<>> /\ s.succ >= SuccMax THEN SendDumps(s) ELSE {s}
           A == ResendIfNonempty(h)
           B == UNION {Count(s) : s \in A}
           C == UNION {Dumps(s) : s \in B}
<1>1. Becomes(C)
  BY Zenon DEF SendTimer, Then
<1>2. ASSUME NEW s \in Good PROVE Succ(s) \in 0 .. SuccMax
  <2>1. s.succ \in 0 .. SuccMax /\ SuccMax \in Nat
    BY GoodFields, ZeroSucc, Zenon
  <2> QED
    BY <2>1, CountUp, ZeroSucc, Zenon
<1> HIDE DEF Succ
<1>3. PICK u \in C : Arrives(u)
  BY <1>1, BecomesArrives, Zenon
<1>4. PICK t \in B : u \in Dumps(t)
  BY <1>3, Zenon
<1>5. PICK s \in A : t = [s EXCEPT !.succ = Succ(s)]
  BY <1>4, Zenon
<1>6. s \in Good /\ Carries(h, s)
  BY <1>5, ResendIfNonemptyGood, ResendIfNonemptyCarries, Zenon
<1>7. t \in Good /\ Carries(s, t)
  BY <1>2, <1>5, <1>6, SetSucc, SetSuccCarries, Zenon
<1>8. Carries(t, u)
  BY <1>4, <1>7, SendDumpsCarries, CarriesItself, Zenon
<1>9. Carries(h, t)
  BY <1>6, <1>7, CarriesOn, Zenon
<1>10. Carries(h, u)
  BY <1>8, <1>9, CarriesOn, Zenon
<1> QED
  BY <1>3, <1>10, CarriedAccounted, Zenon

LEMMA JobChangeAccounted ==
  ASSUME NEW h \in Good, day \in Days, JobChange(h)
  PROVE  \E u : Accounted(h, u) /\ Arrives(u)
<1> DEFINE Dumps(s) ==
             IF s.mode /\ s.ring = <<>> /\ jobid' = NoJob /\ s.succ > 0
               THEN SendDumps(s) ELSE {s}
           A == Collect(h, jobid' = NoJob)
           B == UNION {Dumps(s) : s \in A}
<1>1. Becomes(B)
  BY Zenon DEF JobChange, Then
<1>2. PICK u \in B : Arrives(u)
  BY <1>1, BecomesArrives, Zenon
<1>3. PICK s \in A : u \in Dumps(s)
  BY <1>2, Zenon
<1>4. s \in Good /\ Collected(h, s)
  BY <1>3, CollectGood, CollectCollected, Zenon
<1>5. Carries(s, u)
  BY <1>3, <1>4, SendDumpsCarries, CarriesItself, Zenon
<1>6. Accounted(h, u)
  BY <1>4, <1>5, CarriesItself, CollectedAccounted, Zenon
<1> QED
  BY <1>2, <1>6, Zenon

LEMMA HupAccounted ==
  ASSUME NEW h \in Good, day \in Days, Hup(h)
  PROVE  \E u : Accounted(h, u) /\ Arrives(u)
<1> DEFINE Dumps(s) == IF s.ring = <<>> THEN SendDumps(s) ELSE {s}
           Reset(s) == {[s EXCEPT !.succ = 0]}
           p == Prime(h)
           A == ResendIfNonempty(p)
           B == UNION {Dumps(s) : s \in A}
           C == UNION {Reset(s) : s \in B}
           D == UNION {RotateFlush(s) : s \in C}
<1>1. Becomes(D)
  BY Zenon DEF Hup, Then
<1>2. PICK u \in D : Arrives(u)
  BY <1>1, BecomesArrives, Zenon
<1>3. PICK s \in C : u \in RotateFlush(s)
  BY <1>2, Zenon
<1>4. PICK t \in B : s = [t EXCEPT !.succ = 0]
  BY <1>3, Zenon
<1>5. PICK q \in A : t \in Dumps(q)
  BY <1>4, Zenon
<1>6. p \in Good /\ Carries(h, p)
  BY PrimeGood, PrimeCarries, Zenon
<1> HIDE DEF p
<1>7. q \in Good /\ Carries(p, q)
  BY <1>5, <1>6, ResendIfNonemptyGood, ResendIfNonemptyCarries, Zenon
<1>8. t \in Good /\ Carries(q, t)
  BY <1>5, <1>7, SendDumpsGood, SendDumpsCarries, CarriesItself, Zenon
<1>9. s \in Good /\ Carries(t, s)
  BY <1>4, <1>8, SetSucc, ZeroSucc, SetSuccCarries, Zenon
<1>10. Carries(h, q)
  BY <1>6, <1>7, CarriesOn, Zenon
<1>11. Carries(h, t)
  BY <1>8, <1>10, CarriesOn, Zenon
<1>12. Carries(h, s)
  BY <1>9, <1>11, CarriesOn, Zenon
<1>13. PICK c \in Good : Collected(s, c) /\ Carries(c, u)
  BY <1>3, <1>9, RotateFlushCollected, Zenon
<1>14. Accounted(h, u)
  BY <1>9, <1>12, <1>13, CollectedAccounted, Zenon
<1> QED
  BY <1>2, <1>14, Zenon

LEMMA TimersAccounted ==
  ASSUME NEW h \in Good, day \in Days, Timers(h)
  PROVE  \E u : Accounted(h, u) /\ Arrives(u)
<1>1. CASE RotateTimer(h)
  <2>1. PICK u \in RotateFlush(h) : Arrives(u)
    BY <1>1, BecomesArrives, Zenon DEF RotateTimer
  <2>2. PICK c \in Good : Collected(h, c) /\ Carries(c, u)
    BY RotateFlushCollected, Zenon
  <2>3. Accounted(h, u)
    BY <2>2, CarriesItself, CollectedAccounted, Zenon
  <2> QED
    BY <2>1, <2>3, Zenon
<1>2. CASE SampleTimer(h)
  <2>1. PICK u \in Collect(h, FALSE) : Arrives(u)
    BY <1>2, BecomesArrives, Zenon DEF SampleTimer
  <2>2. Collected(h, u)
    BY CollectCollected, Zenon
  <2>3. Accounted(h, u)
    BY <2>2, CarriesItself, CollectedAccounted, Zenon
  <2> QED
    BY <2>1, <2>3, Zenon
<1> QED
  BY <1>1, <1>2, SendTimerAccounted, Zenon DEF Timers

-----------------------------------------------------------------------------
(* A full ring was full of payloads that were there before the callback.     *)

LEMMA PayloadsFinite ==
  ASSUME ring \in Seq(Text), files \in [Days -> Text]
  PROVE  IsFiniteSet(Payloads)
<1>1. ASSUME NEW m \in Seq(Text) PROVE IsFiniteSet(Range(m))
  <2>1. IsFiniteSet(1 .. Len(m))
    <3>1. 1 \in Int /\ Len(m) \in Int
      OBVIOUS
    <3> QED
      BY <3>1, FS_Interval, Zenon
  <2>2. m \in Surjection(1 .. Len(m), Range(m))
    BY DEF Surjection, Range
  <2> QED
    BY <2>1, <2>2, FS_Surjection, Zenon
<1> DEFINE R(d) == Range(Reload(files[d]))
           S == {R(d) : d \in Days}
           f == [d \in Days |-> R(d)]
<1>2. ASSUME NEW d \in Days PROVE IsFiniteSet(R(d))
  <2>1. Reload(files[d]) \in Seq(Text)
    <3>1. files[d] \in Text
      OBVIOUS
    <3> QED
      BY <3>1, ReloadSeq, Zenon
  <2> QED
    BY <1>1, <2>1, Zenon
<1>3. Payloads = Range(ring) \cup UNION S
  BY Zenon DEF Payloads
<1> HIDE DEF R
<1>4. f \in Surjection(Days, S)
  <2>1. f \in [Days -> S]
    OBVIOUS
  <2>2. \A t \in S : \E d \in Days : f[d] = t
    BY Zenon
  <2> HIDE DEF f, S
  <2> QED
    BY <2>1, <2>2, Zenon DEF Surjection
<1>5. \A T \in S : IsFiniteSet(T)
  BY <1>2, Zenon
<1> HIDE DEF f, S
<1>6. IsFiniteSet(S)
  BY <1>4, MonitorAssumption, FS_Surjection, Zenon
<1>7. IsFiniteSet(UNION S)
  BY <1>5, <1>6, FS_UNION, Zenon
<1>8. IsFiniteSet(Range(ring))
  BY <1>1, Zenon
<1> QED
  BY <1>3, <1>7, <1>8, FS_Union, Zenon

LEMMA FullOfPayloads ==
  ASSUME ring \in Seq(Text), files \in [Days -> Text], NEW s \in Good, Neat(s),
         From(Payloads, s), Len(s.ring) >= MaxBuffer
  PROVE  Cardinality(Payloads) >= MaxBuffer
<1> DEFINE r == s.ring
           N == Len(r)
<1>1. r \in Seq(Text)
  BY GoodFields, Zenon
<1>2. \A i \in DOMAIN r : r[i] \in Payloads /\ Ended(r[i]) /\ r[i] # <<>>
  BY Zenon DEF From, Neat
<1>3. \A x \in Piece : HaveOnce(r, x)
  BY GoodFields, Zenon DEF Apart
<1>4. Len(r) >= MaxBuffer
  BY Zenon
<1> HIDE DEF r
<1>5. ASSUME NEW i \in DOMAIN r, NEW j \in DOMAIN r, r[i] = r[j] PROVE i = j
  <2>1. r[i] \in Text
    BY <1>1
  <2>2. PICK x \in Piece : In(r[i], x)
    BY <1>2, <2>1, EndedHasPiece, Zenon
  <2>3. In(r[j], x)
    BY <1>5, <2>2, Zenon
  <2> QED
    BY <1>3, <2>2, <2>3, Zenon DEF HaveOnce
<1>6. r \in [1 .. N -> Payloads] /\ DOMAIN r = 1 .. N /\ N \in Nat
  BY <1>1, <1>2
<1>7. r \in Injection(1 .. N, Payloads)
  BY <1>5, <1>6, Zenon DEF Injection, IsInjective
<1>8. Cardinality(1 .. N) <= Cardinality(Payloads)
  BY <1>7, PayloadsFinite, FS_Injection, Zenon
<1>9. Cardinality(1 .. N) = N
  <2> HIDE DEF N
  <2>1. 1 \in Int /\ N \in Int
    BY <1>6, OneTo, Zenon
  <2>2. Cardinality(1 .. N) = IF 1 > N THEN 0 ELSE N - 1 + 1
    BY <2>1, FS_Interval, Zenon
  <2> QED
    BY <1>6, <2>2, OneTo, Zenon
<1>10. Cardinality(Payloads) \in Nat
  BY PayloadsFinite, FS_CardinalityType, Zenon
<1>11. MaxBuffer \in Nat
  BY MonitorAssumption
<1> HIDE DEF N
<1>12. N >= MaxBuffer
  BY <1>4, Zenon DEF N
<1> QED
  BY <1>6, <1>8, <1>9, <1>10, <1>11, <1>12, Reaches, Zenon

LEMMA TextPieces ==
  ASSUME NEW t \in Text
  PROVE  Pieces(t) \subseteq Piece /\ \A x \in Piece : x \in Pieces(t) <=> In(t, x)
<1>1. \A i \in DOMAIN t : t[i] \in Lines
  BY DEF Text
<1>2. \A x \in Piece : x # Blank
  BY BlankIsNoPiece, Zenon
<1> QED
  BY <1>1, <1>2, Zenon DEF Pieces, Range, Lines, In

LEMMA HeldArePieces ==
  ASSUME ring \in Seq(Text), files \in [Days -> Text]
  PROVE  Held \subseteq Piece
<1>1. \A p \in Range(ring) : p \in Text
  BY DEF Range
<1>2. \A d \in Days : files[d] \in Text
  OBVIOUS
<1>3. PiecesOf(ring) \subseteq Piece
  BY <1>1, TextPieces, Zenon DEF PiecesOf
<1>4. InFiles(files) \subseteq Piece
  BY <1>2, TextPieces, Zenon DEF InFiles
<1> QED
  BY <1>3, <1>4, Zenon DEF Held

\* What a step loses, in terms of the states its callback starts and ends with.
LEMMA LostPieces ==
  ASSUME NEW h \in Good, h.ring = ring, h.files = files, h.out = {},
         NEW u, Arrives(u), Rest' \in Good
  PROVE  /\ Lost \subseteq Piece
         /\ \A x \in Piece : x \in Lost <=> Known(h, x) /\ ~Known(u, x)
<1>1. /\ ring \in Seq(Text) /\ files \in [Days -> Text]
      /\ ring' \in Seq(Text) /\ files' \in [Days -> Text] /\ out' \in SUBSET Messages
  <2>1. Rest'.ring = ring' /\ Rest'.files = files' /\ Rest'.out = out'
    BY DEF Rest
  <2> QED
    BY <2>1, GoodFields, Zenon
<1>2. ASSUME NEW x \in Piece
      PROVE  /\ x \in Held <=> Has(ring, x) \/ Has(files, x)
             /\ x \in Held' <=> Has(ring', x) \/ Has(files', x)
             /\ x \in Published(out') <=> Sent(out', x)
  BY <1>1, PiecesAreHeld, Zenon DEF Held
<1>3. ASSUME NEW x \in Piece
      PROVE  /\ x \in Held <=> Known(h, x)
             /\ x \in Held' \cup Published(out') <=> Known(u, x)
  <2>1. ~Sent({}, x)
    BY Zenon DEF Sent
  <2>2. x \in Held <=> Known(h, x)
    BY <1>2, <2>1, Zenon DEF Known
  <2>3. Known(u, x) <=> Has(ring', x) \/ Has(files', x) \/ Sent(out', x)
    BY Zenon DEF Known, Arrives
  <2> QED
    BY <1>2, <2>2, <2>3, Zenon
<1> QED
  BY <1>1, <1>3, HeldArePieces, Zenon DEF Lost

LEMMA LossWhileUp ==
  ASSUME NEW h \in Good, h.ring = ring, h.files = files, h.out = {}, Neat(h),
         NEW u, Arrives(u), Rest' \in Good, Accounted(h, u)
  PROVE  Lost = {} \/ Overwritten(Lost)
<1>1. Lost \subseteq Piece /\ \A x \in Piece : x \in Lost <=> Known(h, x) /\ ~Known(u, x)
  BY LostPieces, Zenon
<1>2. ring \in Seq(Text) /\ files \in [Days -> Text]
  BY GoodFields, Zenon
<1>3. CASE KeepsAll(h, u)
  BY <1>1, <1>3, Zenon DEF KeepsAll
<1>4. CASE \E s \in Good : Carries(h, s) /\ \E v : LostAt(s, u, v)
  <2>1. PICK s \in Good : Carries(h, s) /\ \E v : LostAt(s, u, v)
    BY <1>4, Zenon
  <2>2. PICK v : LostAt(s, u, v)
    BY <2>1, Zenon
  <2> DEFINE p == s.ring[v]
  <2>3. From(Payloads, h)
    <3>1. \A i \in DOMAIN ring : ring[i] \in Payloads
      BY Zenon DEF Payloads, Range
    <3>2. ASSUME NEW d \in Days, NEW i \in DOMAIN Reload(files[d])
          PROVE  Reload(files[d])[i] \in Payloads
      <4>1. Reload(files[d])[i] \in Range(Reload(files[d]))
        BY Zenon DEF Range
      <4> QED
        BY <4>1, Zenon DEF Payloads
    <3> QED
      BY <3>1, <3>2, Zenon DEF From
  <2>4. Neat(s) /\ From(Payloads, s) /\ \A x \in Piece : Known(s, x) <=> Known(h, x)
    BY <2>1, <2>3, Zenon DEF Carries
  <2>5. /\ Len(s.ring) >= MaxBuffer /\ v \in DOMAIN s.ring /\ ~IsSchema(p)
        /\ \A x \in Piece : Known(s, x) /\ ~Known(u, x) <=> In(p, x)
    BY <2>2, Zenon DEF LostAt
  <2>6. p \in Payloads /\ p \in Text
    <3>1. s.ring \in Seq(Text)
      BY GoodFields, Zenon
    <3>2. p \in Text
      BY <2>5, <3>1
    <3> QED
      BY <2>4, <2>5, <3>2, Zenon DEF From
  <2> HIDE DEF p
  <2>7. Pieces(p) \subseteq Piece /\ \A x \in Piece : x \in Pieces(p) <=> In(p, x)
    BY <2>6, TextPieces, Zenon
  <2>8. \A x \in Piece : x \in Lost <=> x \in Pieces(p)
    BY <1>1, <2>4, <2>5, <2>7, Zenon
  <2>9. Lost = Pieces(p)
    BY <1>1, <2>7, <2>8, Zenon
  <2>10. Cardinality(Payloads) >= MaxBuffer
    BY <1>2, <2>4, <2>5, FullOfPayloads, Zenon
  <2> QED
    BY <2>5, <2>6, <2>9, <2>10, Zenon DEF Overwritten
<1> QED
  BY <1>3, <1>4, Zenon DEF Accounted

-----------------------------------------------------------------------------
(* Every step explains what it loses.                                        *)

\* No payload is without a piece, in the ring or in a dumpfile.
Tidy == Neat(Rest)

LEMMA SameNeat ==
  ASSUME NEW s, Neat(s), NEW t, t.ring = s.ring, t.files = s.files
  PROVE  Neat(t)
BY Zenon DEF Neat

LEMMA ArrivesTidy ==
  ASSUME NEW u, Neat(u), Arrives(u)
  PROVE  Tidy'
<1>1. Rest'.ring = u.ring /\ Rest'.files = u.files
  BY DEF Rest, Arrives
<1> QED
  BY <1>1, SameNeat, Zenon DEF Tidy

LEMMA HereTidy ==
  ASSUME Tidy, NEW broker, NEW disk
  PROVE  /\ Neat(Here(broker, disk))
         /\ Here(broker, disk).ring = ring /\ Here(broker, disk).files = files
         /\ Here(broker, disk).out = {}
<1> DEFINE h == Here(broker, disk)
<1>1. h.ring = ring /\ h.files = files /\ h.out = {}
  BY DEF Here
<1>2. Rest.ring = ring /\ Rest.files = files
  BY DEF Rest
<1> HIDE DEF h
<1>3. Neat(h)
  BY <1>1, <1>2, SameNeat, Zenon DEF Tidy
<1> QED
  BY <1>1, <1>3, Zenon DEF h

LEMMA CallbackLoss ==
  ASSUME NEW h \in Good, h.ring = ring, h.files = files, h.out = {}, Neat(h),
         day \in Days, Rest' \in Good, Timers(h) \/ Start(h) \/ JobChange(h) \/ Hup(h)
  PROVE  Tidy' /\ (Lost = {} \/ Overwritten(Lost))
<1>1. PICK u : Accounted(h, u) /\ Arrives(u)
  BY TimersAccounted, StartAccounted, JobChangeAccounted, HupAccounted, Zenon
<1>2. Neat(u)
  BY <1>1, Zenon DEF Accounted
<1> QED
  BY <1>1, <1>2, ArrivesTidy, LossWhileUp, Zenon

\* A stop saves the ring, if it can.
LEMMA SaveKeeps ==
  ASSUME NEW s \in Good, day \in Days, NEW u, u = [SaveRing(s) EXCEPT !.ring = <<>>]
  PROVE  /\ Neat(s) => Neat(u)
         /\ s.disk => KeepsAll(s, u)
<1> DEFINE j == Joined(s.ring)
           f == [s.files EXCEPT ![day] = @ \o j]
<1>1. s \in Node /\ s.ring \in Seq(Text) /\ s.files \in [Days -> Text]
  BY GoodFields, Zenon
<1>2. j \in Text /\ \A x \in Piece : In(j, x) <=> Has(s.ring, x)
  BY <1>1, JoinedKeeps, Zenon
<1>3. (\A i \in DOMAIN s.ring : Ended(s.ring[i])) => Ended(j)
  BY <1>1, JoinedEnded, Zenon
<1>4. u.ring = <<>> /\ u.out = s.out /\ u.files = IF s.disk THEN f ELSE s.files
  <2> HIDE DEF j
  <2>1. SaveRing(s) = IF s.disk THEN [s EXCEPT !.files = f] ELSE s
    BY Zenon DEF SaveRing, j
  <2> HIDE DEF f
  <2> QED
    BY ZenonT(30), <1>1, <2>1 DEF Node
<1> HIDE DEF j
<1>5. ASSUME NEW x \in Piece PROVE Has(f, x) <=> Has(s.files, x) \/ In(j, x)
  <2>1. DOMAIN s.files = Days
    BY <1>1
  <2>2. j \in Text
    BY <1>2, Zenon
  <2> QED
    BY <1>1, <2>1, <2>2, ExtendText, Zenon
<1>6. f[day] = s.files[day] \o j /\ \A e \in Days \ {day} : f[e] = s.files[e]
  BY <1>1
<1> HIDE DEF f
<1>7. ASSUME s.disk PROVE KeepsAll(s, u)
  BY <1>2, <1>4, <1>5, <1>7, Zenon DEF KeepsAll, Known
<1>8. ASSUME Neat(s) PROVE Neat(u)
  <2>1. s.files[day] \in Text
    BY <1>1
  <2>2. Ended(f[day])
    BY <1>2, <1>3, <1>6, <1>8, <2>1, ConcatEnded, Zenon DEF Neat
  <2>3. \A d \in Days : Ended(u.files[d])
    <3>1. \A d \in Days : Ended(s.files[d])
      BY <1>8, Zenon DEF Neat
    <3>2. \A d \in Days : Ended(f[d])
      BY <1>6, <2>2, <3>1, Zenon
    <3>3. u.files = f \/ u.files = s.files
      BY <1>4, Zenon
    <3> QED
      BY <3>1, <3>2, <3>3, Zenon
  <2>4. DOMAIN u.ring = {}
    BY <1>4
  <2> QED
    BY <2>3, <2>4, Zenon DEF Neat
<1> QED
  BY <1>7, <1>8, Zenon

LEMMA SameDisk ==
  ASSUME NEW s \in Good, NEW t \in ResendIfNonempty(s)
  PROVE  t.disk = s.disk
<1>1. PICK u \in Resend(s) : t = [u EXCEPT !.succ = IF u.ring = <<>> THEN u.succ ELSE 0]
  BY Zenon DEF ResendIfNonempty
<1>2. s \in Node /\ u \in Node
  BY ResendGood, GoodFields, Zenon
<1>3. ASSUME NEW v \in Node, NEW c, NEW r, NEW o
      PROVE  [v EXCEPT !.succ = c].disk = v.disk /\ [v EXCEPT !.ring = r, !.out = o].disk = v.disk
  BY DEF Node
<1>4. t.disk = u.disk
  BY <1>1, <1>2, <1>3, Zenon
<1>5. u.disk = s.disk
  <2>1. u = s \/ \E r, o : u = [s EXCEPT !.ring = r, !.out = o]
    BY Zenon DEF Resend
  <2>2. ASSUME NEW r, NEW o, u = [s EXCEPT !.ring = r, !.out = o] PROVE u.disk = s.disk
    <3>1. [s EXCEPT !.ring = r, !.out = o].disk = s.disk
      BY <1>2, <1>3, Zenon
    <3> QED
      BY <2>2, <3>1, Zenon
  <2> QED
    BY <2>1, <2>2, Zenon
<1> QED
  BY <1>4, <1>5, Zenon

LEMMA TermLoss ==
  ASSUME NEW h \in Good, h.ring = ring, h.files = files, h.out = {}, Neat(h),
         day \in Days, Rest' \in Good, Term(h)
  PROVE  Tidy' /\ (h.disk => Lost = {})
<1> DEFINE A == {[SaveRing(s) EXCEPT !.ring = <<>>] : s \in ResendIfNonempty(h)}
<1>1. PICK u \in A : Arrives(u)
  BY BecomesArrives, Zenon DEF Term
<1>2. PICK s \in ResendIfNonempty(h) : u = [SaveRing(s) EXCEPT !.ring = <<>>]
  BY <1>1, Zenon
<1>3. s \in Good /\ Carries(h, s) /\ s.disk = h.disk
  BY <1>2, ResendIfNonemptyGood, ResendIfNonemptyCarries, SameDisk, Zenon
<1>4. (Neat(s) => Neat(u)) /\ (s.disk => KeepsAll(s, u))
  BY <1>2, <1>3, SaveKeeps, Zenon
<1>5. Neat(u)
  BY <1>3, <1>4, Zenon DEF Carries
<1>6. ASSUME h.disk PROVE Lost = {}
  <2>1. Lost \subseteq Piece /\ \A x \in Piece : x \in Lost <=> Known(h, x) /\ ~Known(u, x)
    BY <1>1, LostPieces, Zenon
  <2>2. \A x \in Piece : Known(h, x) => Known(u, x)
    BY <1>3, <1>4, <1>6, Zenon DEF Carries, KeepsAll
  <2> QED
    BY <2>1, <2>2, Zenon
<1> QED
  BY <1>1, <1>5, <1>6, ArrivesTidy, Zenon

LEMMA CrashLoss ==
  ASSUME NEW h \in Good, h.files = files, Neat(h), Crash(h)
  PROVE  Tidy' /\ files' = files
<1> DEFINE u == [h EXCEPT !.ring = <<>>]
<1>1. h \in Node
  BY GoodFields, Zenon
<1>2. u.ring = <<>> /\ u.files = files
  BY Zenon, <1>1 DEF Node
<1>3. Arrives(u)
  <2> DEFINE S == {u}
  <2>1. Becomes(S)
    BY Zenon DEF Crash
  <2> HIDE DEF S, u
  <2>2. \E t \in S : Arrives(t)
    BY <2>1, BecomesArrives, Zenon
  <2> QED
    BY <2>2, Zenon DEF S
<1> HIDE DEF u
<1>4. DOMAIN u.ring = {}
  BY <1>2
<1>5. Neat(u)
  BY <1>2, <1>4, Zenon DEF Neat
<1> QED
  BY <1>2, <1>3, <1>5, ArrivesTidy, Zenon DEF Arrives

\* A step that leaves ring and dumpfiles alone, and one that leaves the dumpfiles alone.
LEMMA QuietLoss ==
  /\ UNCHANGED <<ring, files>> => Lost = {}
  /\ files' = files => Lost \subseteq PiecesOf(ring)
<1>1. ASSUME UNCHANGED <<ring, files>> PROVE Lost = {}
  <2>1. ring' = ring /\ files' = files
    BY ZenonT(30), <1>1
  <2>2. Held' = Held
    BY <2>1, Zenon DEF Held
  <2> QED
    BY <2>2, Zenon DEF Lost
<1>2. ASSUME files' = files PROVE Lost \subseteq PiecesOf(ring)
  BY <1>2, Zenon DEF Lost, Held
<1> QED
  BY <1>1, <1>2, Zenon

LEMMA QuietTidy ==
  ASSUME Tidy, ring' = ring, files' = files
  PROVE  Tidy'
<1>1. Rest'.ring = Rest.ring /\ Rest'.files = Rest.files
  BY DEF Rest
<1> QED
  BY <1>1, SameNeat, Zenon DEF Tidy

\* A step is a callback of a running daemon, a stop, a crash, or leaves the node alone.
LEMMA StepKinds ==
  ASSUME IInv, Tidy, Next
  PROVE  \/ \E h \in Good :
              /\ h.ring = ring /\ h.files = files /\ h.out = {} /\ Neat(h)
              /\ \/ Timers(h) \/ Start(h) \/ JobChange(h) \/ Hup(h)
                 \/ Term(h) \/ Crash(h)
         \/ ring' = ring /\ files' = files
<1>1. Rest \in Good
  BY Zenon DEF IInv
<1>2. CASE Troubled
  <2>1. PICK broker \in Brokers, disk \in BOOLEAN :
          Timers(Here(broker, disk)) \/ Signals(Here(broker, disk))
    BY <1>2, Zenon DEF Troubled
  <2>2. broker \in {"down", "slow", "up"}
    BY MonitorAssumption, Zenon
  <2> DEFINE h == Here(broker, disk)
  <2>3. h \in Good
    BY <1>1, <2>2, HereGood, Zenon
  <2>4. h.ring = ring /\ h.files = files /\ h.out = {} /\ Neat(h)
    BY HereTidy, Zenon
  <2>5. Timers(h) \/ Signals(h)
    BY <2>1, Zenon
  <2> HIDE DEF h
  <2> QED
    BY <2>3, <2>4, <2>5, Zenon DEF Signals
<1>3. CASE Healthy
  <2> DEFINE h == Here("up", TRUE)
  <2>1. Timers(h)
    BY <1>3, Zenon DEF Healthy
  <2>2. "up" \in {"down", "slow", "up"} /\ TRUE \in BOOLEAN
    OBVIOUS
  <2>3. h \in Good
    BY <1>1, <2>2, HereGood, Zenon
  <2>4. h.ring = ring /\ h.files = files /\ h.out = {} /\ Neat(h)
    BY HereTidy, Zenon
  <2> HIDE DEF h
  <2> QED
    BY <2>1, <2>3, <2>4, Zenon
<1>4. CASE Recovered \/ NextDay
  BY ZenonT(30), <1>4 DEF Recovered, NextDay
<1> QED
  BY <1>2, <1>3, <1>4, Zenon DEF Next

LEMMA InitTidy == Init => Tidy
<1>1. SUFFICES ASSUME Init PROVE Tidy
  BY Zenon
<1>2. Rest.ring = <<>> /\ Rest.files = [d \in Days |-> <<>>] /\ DOMAIN <<>> = {}
  BY <1>1 DEF Init, Rest
<1>3. \A d \in Days : Rest.files[d] = <<>>
  BY <1>2
<1> QED
  BY <1>2, <1>3, Zenon DEF Tidy, Neat, Ended

LEMMA NextTidy == IInv /\ IInv' /\ Tidy /\ [Next]_vars => Tidy'
<1>1. SUFFICES ASSUME IInv, IInv', Tidy, [Next]_vars PROVE Tidy'
  BY Zenon
<1>2. day \in Days /\ Rest' \in Good
  BY <1>1, Zenon DEF IInv
<1>3. CASE UNCHANGED vars
  BY <1>1, <1>3, QuietTidy, Zenon DEF vars, node
<1>4. CASE Next
  BY <1>1, <1>2, <1>4, StepKinds, QuietTidy, CallbackLoss, TermLoss, CrashLoss, Zenon
<1> QED
  BY <1>1, <1>3, <1>4, Zenon

LEMMA StopKeeps ==
  ASSUME IInv, IInv', Tidy, NEW broker \in Brokers, Term(Here(broker, TRUE))
  PROVE  Lost = {}
<1> DEFINE h == Here(broker, TRUE)
<1>1. broker \in {"down", "slow", "up"} /\ TRUE \in BOOLEAN
  BY MonitorAssumption, Zenon
<1>2. day \in Days /\ Rest \in Good /\ Rest' \in Good
  BY Zenon DEF IInv
<1>3. h \in Good /\ h.ring = ring /\ h.files = files /\ h.out = {} /\ Neat(h)
  <2>1. h \in Good
    BY <1>1, <1>2, HereGood, Zenon
  <2>2. h.ring = ring /\ h.files = files /\ h.out = {} /\ Neat(h)
    BY HereTidy, Zenon
  <2> HIDE DEF h
  <2> QED
    BY <2>1, <2>2, Zenon
<1>4. Term(h) /\ h.disk = TRUE
  <2>1. h.disk = TRUE
    BY DEF Here
  <2> HIDE DEF h
  <2> QED
    BY <2>1, Zenon DEF h
<1> HIDE DEF h
<1>5. h.disk => Lost = {}
  BY <1>2, <1>3, <1>4, TermLoss, Zenon
<1> QED
  BY <1>4, <1>5, Zenon

LEMMA NextExplained == IInv /\ IInv' /\ Tidy /\ [Next]_vars => [LossExplained]_vars
<1>1. SUFFICES ASSUME IInv, IInv', Tidy, Next PROVE LossExplained
  BY Zenon
<1>2. day \in Days /\ Rest' \in Good /\ running' \in {"up", "down", "crashed"}
  BY <1>1, Zenon DEF IInv
<1>3. CASE running' = "up"
  <2>1. ASSUME NEW h, Term(h) \/ Crash(h) PROVE running' # "up"
    BY <2>1, Zenon DEF Term, Crash
  <2>2. Lost = {} \/ Overwritten(Lost)
    <3>1. CASE ring' = ring /\ files' = files
      BY <3>1, QuietLoss, Zenon
    <3>2. ASSUME ~(ring' = ring /\ files' = files) PROVE Lost = {} \/ Overwritten(Lost)
      BY <1>1, <1>2, <1>3, <2>1, <3>2, StepKinds, CallbackLoss, Zenon
    <3> QED
      BY <3>1, <3>2, Zenon
  <2> QED
    BY <1>3, <2>2, Zenon DEF LossExplained
<1>4. CASE running' = "crashed"
  <2>1. ASSUME NEW h, Timers(h) \/ Start(h) \/ JobChange(h) \/ Hup(h) \/ Term(h)
        PROVE  running' # "crashed"
    BY <2>1, Zenon DEF Timers, RotateTimer, SampleTimer, SendTimer, Start, JobChange, Hup, Term
  <2>2. files' = files
    BY <1>1, <1>4, <2>1, StepKinds, CrashLoss, Zenon
  <2>3. Lost \subseteq PiecesOf(ring)
    BY <2>2, QuietLoss, Zenon
  <2> QED
    BY <1>4, <2>3, Zenon DEF LossExplained
<1>5. CASE running' = "down"
  <2>1. Lost # {} => ~ \E broker \in Brokers : Term(Here(broker, TRUE))
    BY <1>1, StopKeeps, Zenon
  <2> QED
    BY <1>5, <2>1, Zenon DEF LossExplained
<1> QED
  BY <1>2, <1>3, <1>4, <1>5, Zenon

\* While the daemon runs, a callback drops held pieces unpublished only as those of one
\* payload without a leading `$` of a full ring; a stop with a writable dump directory
\* drops none, and a crash none that a dumpfile holds: for any sizes and any outages.
THEOREM LossesAccounted == Spec => LossAccounted
<1> QED
  BY InitIInv, NextIInv, InitTidy, NextTidy, NextExplained, PTL DEF Spec, LossAccounted

=============================================================================
