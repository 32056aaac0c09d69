---------------------------- MODULE TablesProofs -----------------------------
(***************************************************************************)
(* The proofs that a TTL rule expires by age, for integers of any width;   *)
(* that a range query and Get agree, for any layers and records; that      *)
(* Downsample counts each record once, for any interval; that the block    *)
(* cache accounts for its entries, for any capacity, keys and blocks; that *)
(* the memtable finds what was written, for any heights and keys; and that *)
(* the queries of an SSTable find what was added to it and what was        *)
(* written to its memtable, for any block size, hashes, cache and number   *)
(* of readers; that every series of timestamps is decoded to itself, for   *)
(* integers and codes of any width.                                        *)
(***************************************************************************)
EXTENDS TableFlush, Queries, Compression, TLAPS, SequenceTheorems,
        NaturalsInduction, WellFoundedInduction

-----------------------------------------------------------------------------
\* A non-empty set of numbers has a least one.
LEMMA LeastExists ==
  ASSUME NEW T \in SUBSET Nat, T # {}
  PROVE  \E m \in T : \A t \in T : m <= t
<1>1. \E m \in T : \A t \in T : ~(<<t, m>> \in OpToRel(<, Nat))
  BY WFMin, NatLessThanWellFounded
<1>2. PICK m \in T : \A t \in T : ~(t < m)
  BY <1>1 DEF OpToRel
<1> QED  BY <1>2

-----------------------------------------------------------------------------
(* The elements of a sequence.                                             *)

\* By index, and what Append and \o add.
LEMMA SetOf ==
  ASSUME NEW S, NEW s \in Seq(S)
  PROVE  ToSet(s) = {s[i] : i \in 1 .. Len(s)}
<1>1. DOMAIN s = 1 .. Len(s)
  OBVIOUS
<1> QED  BY ONLY <1>1 DEF ToSet

LEMMA SetOfAppend ==
  ASSUME NEW S, NEW s \in Seq(S), NEW e \in S
  PROVE  ToSet(Append(s, e)) = ToSet(s) \cup {e}
<1>1. PICK n \in Nat : n = Len(s)
  OBVIOUS
<1>2. PICK t : t = Append(s, e)
  OBVIOUS
<1>3. t \in Seq(S) /\ Len(t) = n + 1 /\ t[n + 1] = e
      /\ \A i \in 1 .. n : t[i] = s[i]
  BY <1>1, <1>2, AppendProperties
<1>4. ToSet(t) = {t[i] : i \in 1 .. n + 1} /\ ToSet(s) = {s[i] : i \in 1 .. n}
  BY <1>1, <1>3 DEF ToSet
<1>5. 1 .. n + 1 = (1 .. n) \cup {n + 1}
  OBVIOUS
<1> QED  BY <1>2, <1>3, <1>4, <1>5

LEMMA SetOfConcat ==
  ASSUME NEW S, NEW u \in Seq(S), NEW v \in Seq(S)
  PROVE  ToSet(u \o v) = ToSet(u) \cup ToSet(v)
<1>1. PICK n \in Nat, m \in Nat : n = Len(u) /\ m = Len(v)
  OBVIOUS
<1>2. PICK t : t = u \o v
  OBVIOUS
<1>3. t \in Seq(S) /\ Len(t) = n + m
      /\ \A i \in 1 .. n + m : t[i] = IF i <= n THEN u[i] ELSE v[i - n]
  BY <1>1, <1>2, ConcatProperties
<1>4. /\ ToSet(t) = {t[i] : i \in 1 .. n + m}
      /\ ToSet(u) = {u[i] : i \in 1 .. n} /\ ToSet(v) = {v[i] : i \in 1 .. m}
  BY <1>1, <1>3 DEF ToSet
<1>5. \A i \in 1 .. n + m :
        IF i <= n THEN i \in 1 .. n ELSE i - n \in 1 .. m
  OBVIOUS
<1>6. ToSet(t) \subseteq ToSet(u) \cup ToSet(v)
  BY <1>3, <1>4, <1>5
<1>7. ASSUME NEW i \in 1 .. n PROVE u[i] \in ToSet(t)
  <2>1. i \in 1 .. n + m /\ t[i] = u[i]
    BY <1>3
  <2> QED  BY <1>4, <2>1
<1>8. ASSUME NEW i \in 1 .. m PROVE v[i] \in ToSet(t)
  <2>1. n + i \in 1 .. n + m /\ ~(n + i <= n) /\ (n + i) - n = i
    OBVIOUS
  <2>2. t[n + i] = v[i]
    BY <1>3, <2>1
  <2> QED  BY <1>4, <2>1, <2>2
<1> QED  BY <1>2, <1>4, <1>6, <1>7, <1>8

-----------------------------------------------------------------------------
(* Recursive functions: f[x] is base[x], or, while there is more to do,    *)
(* step[x, f[nx[x]]], where nx[x] is smaller than x.                       *)

\* nx leads down from where there is more to do.
Descends(D, size, more, nx) ==
  /\ size \in [D -> Nat] /\ more \subseteq D
  /\ \A x \in more : nx[x] \in D /\ size[nx[x]] < size[x]

\* Set G goes up along nx.
IsInductive(G, D, more, nx) ==
  /\ \A x \in D : x \notin more => x \in G
  /\ \A x \in more : nx[x] \in G => x \in G

\* Induction along nx.
LEMMA Descent ==
  ASSUME NEW D, NEW size, NEW more, NEW nx, Descends(D, size, more, nx),
         NEW G, IsInductive(G, D, more, nx)
  PROVE  D \subseteq G
<1> USE DEF Descends, IsInductive
<1> DEFINE Bad == {c \in Nat : \E x \in D : x \notin G /\ size[x] = c}
<1>1. SUFFICES ASSUME NEW x \in D, x \notin G PROVE FALSE
  OBVIOUS
<1>2. size[x] \in Bad
  BY <1>1
<1>3. PICK c \in Bad : \A y \in Bad : c <= y
  <2>1. Bad \in SUBSET Nat /\ Bad # {}
    BY <1>2
  <2> HIDE DEF Bad
  <2> QED  BY <2>1, LeastExists
<1>4. PICK y \in D : y \notin G /\ size[y] = c /\ c \in Nat
  OBVIOUS
<1>5. y \in more /\ nx[y] \in D /\ nx[y] \notin G /\ size[nx[y]] < c
  BY <1>4
<1>6. size[nx[y]] \in Bad /\ size[nx[y]] \in Nat
  BY <1>5
<1> HIDE DEF Bad
<1> QED  BY <1>3, <1>4, <1>5, <1>6

\* f is that function on the set P.
Computes(f, P, more, nx, base, step) ==
  \A x \in P : f[x] = IF x \in more THEN step[x, f[nx[x]]] ELSE base[x]

\* There is such a function.
LEMMA RecursionExists ==
  ASSUME NEW D, NEW V, NEW size, NEW more, NEW nx, Descends(D, size, more, nx),
         NEW base, \A x \in D : x \notin more => base[x] \in V,
         NEW step \in [D \X V -> V]
  PROVE  \E f \in [D -> V] : Computes(f, D, more, nx, base, step)
<1> USE DEF Descends, Computes
\* It is defined where the size is at most c.
<1> DEFINE Part(c) == {x \in D : size[x] <= c}
           IsDefined(f, P) == Computes(f, P, more, nx, base, step)
           Of(c) == {f \in [Part(c) -> V] : IsDefined(f, Part(c))}
           Bad == {c \in Nat : Of(c) = {}}
<1>1. Bad = {}
  <2>1. SUFFICES ASSUME Bad # {} PROVE FALSE
    OBVIOUS
  <2>2. PICK c \in Nat : Of(c) = {} /\ \A y \in Nat : Of(y) = {} => c <= y
    <3>1. PICK c \in Bad : \A y \in Bad : c <= y
      <4>1. Bad \in SUBSET Nat
        OBVIOUS
      <4> HIDE DEF Bad
      <4> QED  BY <2>1, <4>1, LeastExists
    <3> HIDE DEF Of
    <3> QED  BY <3>1
\* Below c there is one, or nothing to define.
  <2>3. PICK P, f : /\ P = {x \in D : size[x] < c}
                    /\ f \in [P -> V] /\ IsDefined(f, P)
    <3>1. CASE c = 0
      <4>1. {x \in D : size[x] < c} = {}
        BY <3>1
      <4>2. [x \in {} |-> x] \in [{} -> V] /\ IsDefined([x \in {} |-> x], {})
        OBVIOUS
      <4> HIDE DEF IsDefined
      <4> QED  BY <4>1, <4>2
    <3>2. CASE c # 0
      <4>1. c - 1 \in Nat /\ ~(c <= c - 1)
        BY <3>2
      <4>2. PICK f : f \in Of(c - 1)
        <5> HIDE DEF Of
        <5> QED  BY <2>2, <4>1
      <4>3. Part(c - 1) = {x \in D : size[x] < c}
        BY <4>1
      <4> HIDE DEF IsDefined, Part
      <4> QED  BY <4>2, <4>3
    <3> QED  BY <3>1, <3>2
  <2> DEFINE g == [x \in Part(c) |->
                     IF x \in more THEN step[x, f[nx[x]]] ELSE base[x]]
  <2>4. ASSUME NEW x \in Part(c), x \in more PROVE nx[x] \in P /\ f[nx[x]] \in V
    <3>1. nx[x] \in D /\ size[nx[x]] < size[x] /\ size[x] <= c
          /\ size[x] \in Nat /\ size[nx[x]] \in Nat
      BY <2>4
    <3>2. size[nx[x]] < c
      BY <3>1
    <3>3. nx[x] \in P
      BY <2>3, <3>1, <3>2
    <3> QED  BY <2>3, <3>3
  <2>5. g \in [Part(c) -> V]
    <3>1. ASSUME NEW x \in Part(c)
          PROVE  (IF x \in more THEN step[x, f[nx[x]]] ELSE base[x]) \in V
      <4>1. x \in D
        OBVIOUS
      <4> HIDE DEF Part
      <4> QED  BY <2>4, <4>1
    <3> HIDE DEF Part
    <3> QED  BY <3>1
  <2>6. \A x \in P : x \in Part(c) /\ g[x] = f[x]
    <3>1. ASSUME NEW x \in P PROVE x \in Part(c)
      <4>1. x \in D /\ size[x] \in Nat /\ size[x] < c
        BY <2>3
      <4> QED  BY <4>1
    <3> HIDE DEF Part
    <3> QED  BY <2>3, <3>1
  <2>7. ASSUME NEW x \in Part(c)
        PROVE  g[x] = IF x \in more THEN step[x, g[nx[x]]] ELSE base[x]
    <3>1. x \in more => g[nx[x]] = f[nx[x]]
      <4> HIDE DEF g, Part
      <4> QED  BY <2>4, <2>6
    <3> HIDE DEF Part
    <3> QED  BY <3>1
  <2>8. g \in Of(c)
    <3> HIDE DEF g, Part
    <3> QED  BY <2>5, <2>7
  <2> HIDE DEF g, Of
  <2> QED  BY <2>2, <2>8
\* Each x has its value from the part it is in.
<1>2. \A c \in Nat : \E f : f \in [Part(c) -> V] /\ IsDefined(f, Part(c))
  <2>1. ASSUME NEW c \in Nat PROVE \E f : f \in Of(c)
    <3> HIDE DEF Of
    <3> QED  BY <1>1
  <2> HIDE DEF IsDefined, Part
  <2> QED  BY <2>1
<1> DEFINE h(c) == CHOOSE f : f \in [Part(c) -> V] /\ IsDefined(f, Part(c))
<1>3. ASSUME NEW c \in Nat
      PROVE  h(c) \in [Part(c) -> V] /\ IsDefined(h(c), Part(c))
  <2> HIDE DEF IsDefined, Part
  <2> QED  BY <1>2
<1> HIDE DEF h
\* All parts agree.
<1>4. ASSUME NEW c \in Nat, NEW d \in Nat, c <= d
      PROVE  \A x \in Part(c) : h(c)[x] = h(d)[x]
  <2>1. PICK u, v : u = h(c) /\ v = h(d)
    OBVIOUS
  <2>2. IsDefined(u, Part(c)) /\ IsDefined(v, Part(d))
    <3> HIDE DEF IsDefined, Part
    <3> QED  BY <1>3, <2>1
  <2> DEFINE G == {x \in D : x \in Part(c) => u[x] = v[x]}
  <2>3. \A x \in Part(c) : x \in D /\ x \in Part(d)
    <3>1. ASSUME NEW x \in Part(c) PROVE x \in D /\ size[x] <= d
      <4>1. x \in D /\ size[x] \in Nat /\ size[x] <= c
        OBVIOUS
      <4> QED  BY <1>4, <4>1
    <3> QED  BY <3>1
  <2>4. \A x \in D : x \notin more => x \in G
    <3> HIDE DEF Part
    <3> QED  BY <2>2, <2>3
  <2>5. \A x \in more : nx[x] \in G => x \in G
    <3>1. \A x \in more : x \in Part(c) => nx[x] \in Part(c)
      <4>1. ASSUME NEW x \in more, x \in Part(c) PROVE nx[x] \in Part(c)
        <5>1. size[nx[x]] \in Nat /\ size[x] \in Nat /\ size[nx[x]] < size[x]
              /\ size[x] <= c /\ nx[x] \in D
          BY <4>1
        <5> QED  BY <5>1
      <4> QED  BY <4>1
    <3> HIDE DEF Part
    <3> QED  BY <2>2, <2>3, <3>1
  <2>6. D \subseteq G
    <3>1. IsInductive(G, D, more, nx)
      <4> HIDE DEF G
      <4> QED  BY <2>4, <2>5 DEF IsInductive
    <3> HIDE DEF G, Descends
    <3> QED  BY <3>1, Descent
  <2> HIDE DEF Part
  <2> QED  BY <2>1, <2>3, <2>6
<1> DEFINE f == [x \in D |-> h(size[x])[x]]
<1>5. \A x \in D : size[x] \in Nat /\ x \in Part(size[x])
  OBVIOUS
<1>6. f \in [D -> V]
  <2>1. ASSUME NEW x \in D PROVE h(size[x])[x] \in V
    <3> HIDE DEF IsDefined, Part
    <3> QED  BY <1>3, <1>5
  <2> QED  BY <2>1
<1>7. ASSUME NEW x \in D
      PROVE  f[x] = IF x \in more THEN step[x, f[nx[x]]] ELSE base[x]
  <2>1. PICK c \in Nat : c = size[x] /\ x \in Part(c) /\ f[x] = h(c)[x]
    <3> HIDE DEF IsDefined, Part
    <3> QED  BY <1>5
  <2>2. h(c)[x] = IF x \in more THEN step[x, h(c)[nx[x]]] ELSE base[x]
    <3> HIDE DEF Part
    <3> QED  BY <1>3, <2>1
  <2>3. CASE x \in more
    <3>1. PICK y \in D : y = nx[x] /\ size[y] < c
      BY <2>1, <2>3
    <3>2. PICK d \in Nat : d = size[y] /\ d <= c /\ y \in Part(d)
      BY <2>1, <3>1
    <3>3. h(d)[y] = h(c)[y]
      <4> HIDE DEF Part
      <4> QED  BY <1>4, <3>2
    <3>4. f[y] = h(c)[y]
      BY <3>1, <3>2, <3>3
    <3> HIDE DEF f
    <3> QED  BY <2>1, <2>2, <2>3, <3>1, <3>4
  <2>4. CASE x \notin more
    BY <2>1, <2>2, <2>4
  <2> QED  BY <2>3, <2>4
<1> HIDE DEF f
<1> QED  BY <1>6, <1>7

-----------------------------------------------------------------------------
(* TTL rules.                                                              *)

\* A number that fits keeps its value.
LEMMA SignedFits ==
  ASSUME NEW x \in Int64
  PROVE  Signed(x) = x
<1>1. PICK P \in Nat \ {0}, W \in Nat :
        P = 2 ^ (WordBits - 1) /\ W = 2 ^ WordBits /\ W = 2 * P
  BY WordPowersAssumption
<1>2. x \in -P .. P - 1 /\ MaxInt = P - 1
  BY <1>1 DEF Int64, MinInt, MaxInt
<1>3. x % W = IF x >= 0 THEN x ELSE x + W
  <2>1. CASE x >= 0
    BY <1>1, <1>2, <2>1
  <2>2. CASE x < 0
    BY <1>1, <1>2, <2>2
  <2> QED  BY <1>2, <2>1, <2>2
<1>4. Unsigned(x) = IF x >= 0 THEN x ELSE x + W
  BY <1>1, <1>3 DEF Unsigned
<1>5. Signed(x) = IF Unsigned(x) > P - 1 THEN Unsigned(x) - W ELSE Unsigned(x)
  BY <1>1, <1>2 DEF Signed
<1> QED  BY <1>1, <1>2, <1>4, <1>5

LEMMA ExpiredByAge ==
  ASSUME NEW rule \in TtlRules, NEW t \in Int64,
         rule.ttl > 0, rule.ttl * SecondNanos <= MaxInt, rule.latest >= -1
  PROVE  IsExpiredByRule(rule, t)
           <=> rule.latest - t > rule.ttl * SecondNanos
<1>1. PICK P \in Nat \ {0} :
        P = 2 ^ (WordBits - 1) /\ MinInt = -P /\ MaxInt = P - 1
  BY WordPowersAssumption DEF MinInt, MaxInt
<1>2. PICK ttl \in Int, latest \in Int :
        /\ ttl = rule.ttl /\ latest = rule.latest
        /\ ttl > 0 /\ -1 <= latest /\ latest <= P - 1
  <2>1. rule.ttl \in Int64 /\ rule.latest \in Int64
    BY DEF TtlRules
  <2>2. Int64 = -P .. P - 1
    BY <1>1 DEF Int64
  <2> QED  BY <2>1, <2>2
<1>3. PICK age \in Int : age = ttl * SecondNanos /\ age > 0 /\ age <= P - 1
  <2>1. SecondNanos \in Nat \ {0}
    BY QueriesRangeAssumption
  <2>2. ttl * SecondNanos \in Int /\ ttl * SecondNanos > 0
    BY <1>2, <2>1
  <2> QED  BY <1>1, <1>2, <2>2
<1>4. age \in Int64 /\ latest - age \in Int64 /\ latest # MinInt /\ t \in Int
  <2>1. Int64 = -P .. P - 1
    BY <1>1 DEF Int64
  <2>2. age \in -P .. P - 1 /\ latest - age \in -P .. P - 1 /\ latest # -P
    BY <1>2, <1>3
  <2> QED  BY <1>1, <2>1, <2>2
<1>5. Signed(age) = age /\ Signed(latest - age) = latest - age
  BY <1>4, SignedFits
<1>6. IsExpiredByRule(rule, t) <=> t < latest - age
  BY <1>2, <1>3, <1>4, <1>5 DEF IsExpiredByRule
<1> QED  BY <1>2, <1>3, <1>4, <1>6

\* As long as ttl_seconds * 10^9 fits and the newest timestamp is not
\* negative (-1 still does), a rule expires exactly the timestamps more than
\* its seconds older than the newest one.
THEOREM RulesExpireByAge == QueriesSpec => []TtlExpiresByAge
<1>1. call = NoCall => TtlExpiresByAge
  BY DEF NoCall, TtlExpiresByAge
<1>2. TtlExpiresByAge /\ [Ask]_call => TtlExpiresByAge'
  <2> SUFFICES ASSUME TtlExpiresByAge, [Ask]_call PROVE TtlExpiresByAge'
    OBVIOUS
  <2>1. CASE AskExpired
    <3>1. PICK rule \in TtlRules, t \in Int64 :
            call' = [op |-> "expired", rule |-> rule, timestamp |-> t,
                     out |-> IsExpiredByRule(rule, t)]
      BY <2>1 DEF AskExpired
    <3>2. /\ call'.rule = rule /\ call'.timestamp = t
          /\ call'.out = IsExpiredByRule(rule, t)
      BY <3>1
    <3> QED  BY <3>2, ExpiredByAge DEF TtlExpiresByAge
  <2>2. CASE AskRange
    <3>1. call'.op = "range"
      BY <2>2 DEF AskRange
    <3> QED  BY <3>1 DEF TtlExpiresByAge
  <2>3. CASE AskDownsample
    <3>1. call'.op = "downsample"
      BY <2>3 DEF AskDownsample
    <3> QED  BY <3>1 DEF TtlExpiresByAge
  <2>4. CASE UNCHANGED call
    BY <2>4 DEF TtlExpiresByAge
  <2> QED  BY <2>1, <2>2, <2>3, <2>4 DEF Ask
<1> QED  BY <1>1, <1>2, PTL DEF QueriesSpec
-----------------------------------------------------------------------------
(* Get and RangeQuery.                                                     *)

\* Ranks order the layers as Get searches them: the files of a level fit in
\* between its ranks and those of the next level.
LEMMA RanksOrderLayers ==
  ASSUME NEW y \in Layers, NEW z \in Layers
  PROVE  /\ SearchedBefore(y, z) <=> Rank(y) < Rank(z)
         /\ y = z <=> Rank(y) = Rank(z)
<1> DEFINE R(S, l, n) == IF l < 0 THEN l + 2 ELSE 2 + l * S + n
           Placed(S, l, n) == \/ l \in {-2, -1} /\ n = 0
                              \/ l \in Nat /\ n \in 0 .. S - 1
<1>1. PICK S \in Nat \ {0} : S = RankStride
  BY QueriesRangeAssumption
<1>2. ASSUME NEW x \in Layers
      PROVE  /\ x = <<x[1], x[2]>> /\ Placed(S, x[1], x[2])
             /\ Rank(x) = R(S, x[1], x[2])
  <2>1. x \in ({-2, -1} \X {0}) \cup (Nat \X (0 .. S - 1))
    BY <1>1, LayersAssumption
  <2> QED  BY <1>1, <2>1 DEF Rank
<1>3. ASSUME NEW l \in Int, NEW n \in Nat, Placed(S, l, n),
             NEW i \in Int, NEW m \in Nat, Placed(S, i, m)
      PROVE  l < i => R(S, l, n) < R(S, i, m)
  <2> SUFFICES ASSUME l < i PROVE R(S, l, n) < R(S, i, m)
    OBVIOUS
  <2>1. CASE l < 0 /\ i < 0
    BY <2>1
  <2>2. CASE l < 0 /\ i >= 0
    <3>1. i * S \in Nat
      BY <2>2
    <3> QED  BY <1>3, <2>2, <3>1
  <2>3. CASE l >= 0
    <3>1. (i - l) * S >= S /\ (i - l) * S = i * S - l * S
      OBVIOUS
    <3>2. n < S
      BY <1>3, <2>3
    <3>3. l * S \in Int /\ i * S \in Int
      OBVIOUS
    <3> QED  BY <2>3, <3>1, <3>2, <3>3
  <2> QED  BY <2>1, <2>2, <2>3
<1>4. PICK l \in Int, n \in Nat, i \in Int, m \in Nat :
        /\ y = <<l, n>> /\ z = <<i, m>> /\ Placed(S, l, n) /\ Placed(S, i, m)
        /\ Rank(y) = R(S, l, n) /\ Rank(z) = R(S, i, m)
  BY <1>2
<1>5. l < i => R(S, l, n) < R(S, i, m)
  BY <1>3, <1>4
<1>6. i < l => R(S, i, m) < R(S, l, n)
  BY <1>3, <1>4
<1>7. l = i => /\ R(S, l, n) < R(S, i, m) <=> n < m
               /\ R(S, l, n) = R(S, i, m) <=> n = m
  <2>1. l * S \in Int
    OBVIOUS
  <2> QED  BY <1>4, <2>1
<1>8. R(S, l, n) \in Int /\ R(S, i, m) \in Int
  OBVIOUS
<1>9. SearchedBefore(y, z) <=> (l < i \/ (l = i /\ n < m))
  BY <1>4 DEF SearchedBefore
<1> HIDE DEF R, Placed
<1> QED  BY <1>4, <1>5, <1>6, <1>7, <1>8, <1>9

\* The versions of timestamp t: a file that has one has it in its range.
LEMMA HitsAre ==
  ASSUME NEW view, NEW t \in QueryTimes
  PROVE  Hits(view, t) = {y \in Layers : view.at[y][t] # "none"}
<1>1. ASSUME NEW y \in Layers, view.at[y][t] # "none"
      PROVE  \E a, b \in Held(view.at[y]) : a <= t /\ t <= b
  <2>1. t \in Held(view.at[y]) /\ t <= t
    BY <1>1, QueriesRangeAssumption DEF Held, Int64
  <2> QED  BY <2>1
<1> QED  BY <1>1 DEF Hits

\* The record that the loop over the sorted records lets decide is the one
\* of the layer that Get finds first.
LEMMA RangeIsGets ==
  ASSUME NEW view, NEW a \in QueryTimes, NEW b \in QueryTimes
  PROVE  RangeQuery(view, a, b)
           = {r \in QueryTimes \X Layers :
                a <= r[1] /\ r[1] <= b /\ r[2] \in Get(view, r[1])}
<1> DEFINE all == {r \in QueryTimes \X Layers :
                     a <= r[1] /\ r[1] <= b /\ view.at[r[2]][r[1]] # "none"}
           latest == {r \in all : \A x \in all :
                        x[1] = r[1] => x = r \/ Rank(r[2]) < Rank(x[2])}
<1>1. RangeQuery(view, a, b) =
        {r \in latest : /\ view.at[r[2]][r[1]] = "put"
                        /\ ~IsExpiredByRule(view.rule, r[1])}
  BY DEF RangeQuery
<1>2. ASSUME NEW t \in QueryTimes, NEW y \in Layers, a <= t, t <= b
      PROVE  <<t, y>> \in latest
               <=> /\ y \in Hits(view, t)
                   /\ \A z \in Hits(view, t) : z = y \/ SearchedBefore(y, z)
  <2>1. \A z \in Layers : <<t, z>> \in all <=> z \in Hits(view, t)
    BY <1>2, HitsAre
  <2>2. \A x \in all : x[1] = t => x[2] \in Layers /\ x = <<t, x[2]>>
    OBVIOUS
  <2>3. Hits(view, t) \subseteq Layers
    BY DEF Hits
  <2>4. <<t, y>> \in latest
          <=> /\ <<t, y>> \in all
              /\ \A z \in Layers : <<t, z>> \in all =>
                   z = y \/ Rank(y) < Rank(z)
    <3> HIDE DEF all
    <3> QED  BY <2>2
  <2>5. \A z \in Layers : SearchedBefore(y, z) <=> Rank(y) < Rank(z)
    BY RanksOrderLayers
  <2> HIDE DEF all, latest
  <2> QED  BY <2>1, <2>3, <2>4, <2>5
<1>3. \A r \in latest : /\ r \in QueryTimes \X Layers
                        /\ a <= r[1] /\ r[1] <= b
  OBVIOUS
<1>4. ASSUME NEW t \in QueryTimes, NEW y \in Layers
      PROVE  <<t, y>> \in RangeQuery(view, a, b)
               <=> a <= t /\ t <= b /\ y \in Get(view, t)
  <2>1. <<t, y>> \in RangeQuery(view, a, b)
          <=> /\ <<t, y>> \in latest /\ view.at[y][t] = "put"
              /\ ~IsExpiredByRule(view.rule, t)
    <3> HIDE DEF latest
    <3> QED  BY <1>1
  <2>2. <<t, y>> \in latest => a <= t /\ t <= b
    BY <1>3
  <2>3. y \in Get(view, t)
          <=> /\ y \in Hits(view, t)
              /\ \A z \in Hits(view, t) : z = y \/ SearchedBefore(y, z)
              /\ ~IsExpiredByRule(view.rule, t)
              /\ view.at[y][t] = "put"
    BY DEF Get
  <2> HIDE DEF latest
  <2> QED  BY <1>2, <2>1, <2>2, <2>3
<1>5. RangeQuery(view, a, b) \subseteq QueryTimes \X Layers
  <2> HIDE DEF latest
  <2> QED  BY <1>1, <1>3
<1>6. ASSUME NEW r
      PROVE  r \in RangeQuery(view, a, b)
               <=> /\ r \in QueryTimes \X Layers
                   /\ a <= r[1] /\ r[1] <= b /\ r[2] \in Get(view, r[1])
  <2>1. r \in QueryTimes \X Layers
          => r = <<r[1], r[2]>> /\ r[1] \in QueryTimes /\ r[2] \in Layers
    OBVIOUS
  <2> HIDE DEF latest
  <2> QED  BY <1>4, <1>5, <2>1
<1> HIDE DEF latest
<1> QED  BY <1>6

\* Over any layers, with tombstones, holes and expired records, a range
\* query returns for each timestamp exactly the version a Get returns.
THEOREM RangesAgreeWithGets == QueriesSpec => []RangeQueryAgreesWithGet
<1>1. call = NoCall => RangeQueryAgreesWithGet
  BY DEF NoCall, RangeQueryAgreesWithGet
<1>2. RangeQueryAgreesWithGet /\ [Ask]_call => RangeQueryAgreesWithGet'
  <2> SUFFICES ASSUME RangeQueryAgreesWithGet, [Ask]_call
               PROVE  RangeQueryAgreesWithGet'
    OBVIOUS
  <2>1. CASE AskRange
    <3>1. PICK view \in Views, a \in QueryTimes, b \in QueryTimes :
            call' = [op |-> "range", view |-> view, start |-> a, end |-> b,
                     out |-> RangeQuery(view, a, b)]
      BY <2>1 DEF AskRange
    <3>2. /\ call'.view = view /\ call'.start = a /\ call'.end = b
          /\ call'.out = RangeQuery(view, a, b)
      BY <3>1
    <3> QED  BY <3>2, RangeIsGets DEF RangeQueryAgreesWithGet
  <2>2. CASE AskExpired
    <3>1. call'.op = "expired"
      BY <2>2 DEF AskExpired
    <3> QED  BY <3>1 DEF RangeQueryAgreesWithGet
  <2>3. CASE AskDownsample
    <3>1. call'.op = "downsample"
      BY <2>3 DEF AskDownsample
    <3> QED  BY <3>1 DEF RangeQueryAgreesWithGet
  <2>4. CASE UNCHANGED call
    BY <2>4 DEF RangeQueryAgreesWithGet
  <2> QED  BY <2>1, <2>2, <2>3, <2>4 DEF Ask
<1> QED  BY <1>1, <1>2, PTL DEF QueriesSpec
-----------------------------------------------------------------------------
(* Downsample.                                                             *)

\* m[n] is n * i.
AreMultiples(m, i) ==
  /\ m \in [Nat -> Nat] /\ m[0] = 0
  /\ \A n \in Nat : m[n] = n * i /\ m[n + 1] = m[n] + i

\* The multiples of i, and the quotients they belong to.
LEMMA Multiples ==
  ASSUME NEW i \in Nat \ {0}
  PROVE  \E m : /\ AreMultiples(m, i)
                /\ \A d \in Nat : /\ d \div i \in Nat
                                  /\ m[d \div i] <= d /\ d < m[d \div i] + i
                /\ \A p, n \in Nat : p < n => m[p] + i <= m[n]
<1> DEFINE m == [n \in Nat |-> n * i]
<1>1. \A n \in Nat : n * i \in Nat
  OBVIOUS
<1>2. m \in [Nat -> Nat] /\ m[0] = 0 /\ \A n \in Nat : m[n] = n * i
  BY <1>1
<1>3. \A n \in Nat : m[n + 1] = m[n] + i
  <2>1. ASSUME NEW n \in Nat PROVE (n + 1) * i = n * i + i
    OBVIOUS
  <2> QED  BY <1>2, <2>1
<1>4. ASSUME NEW d \in Nat
      PROVE  d \div i \in Nat /\ m[d \div i] <= d /\ d < m[d \div i] + i
  <2>1. PICK q \in Int, r \in 0 .. i - 1 : q = d \div i /\ d = i * q + r
    <3>1. d \div i \in Int /\ d % i \in 0 .. i - 1
          /\ d = i * (d \div i) + (d % i)
      OBVIOUS
    <3> QED  BY <3>1
  <2>2. q \in Nat
    <3>1. q < 0 => i * q <= -i
      OBVIOUS
    <3> QED  BY ONLY <2>1, <3>1, d \in Nat, i \in Nat
  <2>3. m[q] = i * q
    <3>1. q * i = i * q
      OBVIOUS
    <3> QED  BY <1>2, <2>2, <3>1
  <2> HIDE DEF m
  <2> QED  BY <2>1, <2>2, <2>3
<1>5. ASSUME NEW p \in Nat, NEW n \in Nat, p < n PROVE m[p] + i <= m[n]
  <2>1. PICK k \in Nat : n = p + 1 + k
    <3>1. n - p - 1 \in Nat /\ n = p + 1 + (n - p - 1)
      BY <1>5
    <3> QED  BY <3>1
  <2>2. n * i = p * i + i + k * i /\ k * i \in Nat
    BY <2>1
  <2>3. p * i \in Nat /\ n * i \in Nat
    OBVIOUS
  <2>4. p * i + i <= n * i
    BY <2>2, <2>3
  <2> HIDE DEF m
  <2> QED  BY <1>2, <2>4
<1> HIDE DEF m
<1> QED  BY <1>2, <1>3, <1>4, <1>5 DEF AreMultiples

\* Sequences of pairs in the order of their first components.
LeadsTo(e, s) == \A x \in ToSet(s) : e[1] < x[1]

Ascends(s) == \A a, b \in 1 .. Len(s) : a < b => s[a][1] < s[b][1]

LEMMA FirstBelow ==
  ASSUME NEW T, NEW one \in Seq(T), Len(one) = 1, NEW s \in Seq(T),
         Ascends(s), LeadsTo(one[1], s)
  PROVE  Ascends(one \o s)
<1>1. PICK n \in Nat : n = Len(s)
  OBVIOUS
<1>2. PICK u : u = one \o s
  OBVIOUS
<1>3. /\ u \in Seq(T) /\ Len(u) = n + 1 /\ u[1] = one[1]
      /\ \A a \in 2 .. n + 1 : u[a] = s[a - 1]
  <2>1. /\ one \o s \in Seq(T) /\ Len(one \o s) = Len(one) + Len(s)
        /\ \A a \in 1 .. Len(one) + Len(s) :
             (one \o s)[a] = IF a <= Len(one) THEN one[a] ELSE s[a - Len(one)]
    BY ConcatProperties
  <2>2. /\ u \in Seq(T) /\ Len(u) = 1 + n
        /\ \A a \in 1 .. 1 + n : u[a] = IF a <= 1 THEN one[a] ELSE s[a - 1]
    BY <1>1, <1>2, <2>1
  <2>3. 1 \in 1 .. 1 + n
    BY <1>1
  <2>4. \A a \in 2 .. n + 1 : a \in 1 .. 1 + n /\ ~(a <= 1)
    BY <1>1
  <2>5. u[1] = one[1]
    BY <2>2, <2>3
  <2>6. \A a \in 2 .. n + 1 : u[a] = s[a - 1]
    BY <2>2, <2>4
  <2> QED  BY <2>2, <2>5, <2>6
<1>4. ASSUME NEW a \in 1 .. n + 1, NEW b \in 1 .. n + 1, a < b
      PROVE  u[a][1] < u[b][1]
  <2>1. b \in 2 .. n + 1 /\ b - 1 \in 1 .. n /\ u[b] = s[b - 1]
    BY <1>3, <1>4
  <2>2. CASE a = 1
    <3>1. s[b - 1] \in ToSet(s)
      BY <1>1, <2>1 DEF ToSet
    <3> QED  BY <1>3, <2>1, <2>2, <3>1 DEF LeadsTo
  <2>3. CASE a # 1
    <3>1. a \in 2 .. n + 1 /\ a - 1 \in 1 .. n /\ a - 1 < b - 1
      BY <1>4, <2>3
    <3>2. u[a] = s[a - 1]
      BY <1>3, <3>1
    <3> QED  BY <1>1, <2>1, <3>1, <3>2 DEF Ascends
  <2> QED  BY <2>2, <2>3
<1> QED  BY <1>2, <1>3, <1>4 DEF Ascends

\* s has the buckets that are not empty, in order.
HasBuckets(s, raw, start, i, m) ==
  LET part(x) == {t \in raw : x <= t /\ t < x + i}
  IN /\ Ascends(s)
     /\ ToSet(s) = {<<start + m[n], part(start + m[n])>> :
                      n \in {k \in Nat : part(start + m[k]) # {}}}

\* The loop finds them.
LEMMA DownsampleIs ==
  ASSUME NEW raw \in SUBSET Int64, NEW start \in Int64, NEW end \in Int64,
         \A t \in raw : t <= end, NEW i \in Nat \ {0}, end + i <= MaxInt,
         NEW m, AreMultiples(m, i)
  PROVE  HasBuckets(Downsample(raw, start, end, i), raw, start, i, m)
<1>0. m \in [Nat -> Nat] /\ m[0] = 0 /\ \A n \in Nat : m[n + 1] = m[n] + i
  BY DEF AreMultiples
<1>1. PICK P \in Nat \ {0} :
        /\ P = 2 ^ (WordBits - 1) /\ MinInt = -P /\ MaxInt = P - 1
        /\ Int64 = -P .. P - 1
  BY WordPowersAssumption DEF MinInt, MaxInt, Int64
<1>2. PICK D : D = Int64
  OBVIOUS
<1>3. /\ D = -P .. P - 1 /\ raw \subseteq D /\ start \in D /\ end \in D
      /\ end + i <= P - 1
  BY <1>1, <1>2
<1> DEFINE T == D \X SUBSET D
           V == Seq(T)
           part(x) == {t \in raw : x <= t /\ t < x + i}
           first(x) == IF part(x) = {} THEN <<>> ELSE <<<<x, part(x)>>>>
           more == {x \in D : x <= end}
           size == [x \in D |-> P - 1 - x]
           nx == [x \in D |-> x + i]
           step == [p \in D \X V |-> first(p[1]) \o p[2]]
           base == [x \in D |-> <<>>]
<1>4. ASSUME NEW x \in more
      PROVE  /\ x \in D /\ x \in Int /\ x <= end /\ x + i \in D /\ x < x + i
             /\ Signed(x + i) = x + i
  <2>1. x \in D /\ x \in Int /\ x <= end /\ x + i \in D /\ x < x + i
    BY <1>3
  <2> QED  BY <1>2, <2>1, SignedFits
<1>5. Descends(D, size, more, nx)
  <2>1. size \in [D -> Nat]
    <3>1. \A x \in D : P - 1 - x \in Nat
      BY <1>3
    <3> QED  BY <3>1
  <2>2. ASSUME NEW x \in more PROVE nx[x] \in D /\ size[nx[x]] < size[x]
    <3>1. x \in D /\ nx[x] = x + i /\ nx[x] \in D
      BY <1>4
    <3>2. size[nx[x]] = P - 1 - (x + i) /\ size[x] = P - 1 - x
      BY <3>1
    <3>3. x \in Int
      BY <1>4
    <3> HIDE DEF size, nx
    <3> QED  BY <3>1, <3>2, <3>3
  <2>3. more \subseteq D
    OBVIOUS
  <2> HIDE DEF size, more, nx
  <2> QED  BY <2>1, <2>2, <2>3 DEF Descends
<1>6. \A x \in D : first(x) \in V
  <2>1. ASSUME NEW x \in D PROVE first(x) \in V
    <3>1. CASE part(x) = {}
      BY <3>1
    <3>2. CASE part(x) # {}
      <4>1. PICK e : e = <<x, part(x)>> /\ e \in T
        <5>1. PICK z \in SUBSET D : z = part(x)
          BY <1>3
        <5> HIDE DEF part
        <5>2. <<x, z>> \in T
          BY ONLY x \in D, z \in SUBSET D
        <5> QED  BY <5>1, <5>2
      <4>2. <<e>> \in V
        <5> HIDE DEF T
        <5> QED  BY <4>1
      <4>3. first(x) = <<e>>
        <5> HIDE DEF part
        <5> QED  BY <3>2, <4>1
      <4> QED  BY <4>2, <4>3
    <3> QED  BY <3>1, <3>2
  <2> QED  BY <2>1
<1>7. step \in [D \X V -> V]
  <2>1. ASSUME NEW p \in D \X V PROVE first(p[1]) \o p[2] \in V
    <3>1. PICK u, v : /\ u = first(p[1]) /\ v = p[2]
                      /\ u \in Seq(T) /\ v \in Seq(T)
      <4> HIDE DEF first, T
      <4> QED  BY <1>6
    <3>2. u \o v \in Seq(T)
      BY ONLY <3>1, ConcatProperties
    <3> HIDE DEF first, T
    <3> QED  BY <3>1, <3>2
  <2> HIDE DEF first, V
  <2> QED  BY <2>1
<1>8. \A x \in D : x \notin more => base[x] \in V
  BY <1>2
<1>9. PICK f \in [D -> V] : Computes(f, D, more, nx, base, step)
  <2> HIDE DEF V, size, more, nx, base, step
  <2> QED  BY <1>5, <1>7, <1>8, RecursionExists
<1>10. /\ \A x \in more : f[x] = first(x) \o f[x + i]
       /\ \A x \in D : x \notin more => f[x] = <<>>
  <2>1. ASSUME NEW x \in more PROVE f[x] = first(x) \o f[x + i]
    <3>1. x \in D /\ x + i \in D /\ nx[x] = x + i
      BY <1>4
    <3>2. f[x] = step[x, f[x + i]]
      <4> HIDE DEF V, more, nx, base, step
      <4> QED  BY <1>9, <3>1 DEF Computes
    <3>3. <<x, f[x + i]>> \in D \X V
      <4> HIDE DEF V, more
      <4> QED  BY <1>9, <3>1
    <3>4. step[x, f[x + i]] = first(x) \o f[x + i]
      <4> HIDE DEF V, more, first
      <4> QED  BY <3>3
    <3> QED  BY <3>2, <3>4
  <2>2. ASSUME NEW x \in D, x \notin more PROVE f[x] = <<>>
    <3>1. f[x] = base[x]
      <4> HIDE DEF V, more, nx, base, step
      <4> QED  BY <1>9, <2>2 DEF Computes
    <3> QED  BY <3>1
  <2> QED  BY <2>1, <2>2
<1>11. \A x \in more : Bucket(raw, x, i) = part(x)
  BY <1>4 DEF Bucket
<1>12. \A x \in D : x \notin more <=> x > end
  BY <1>3
<1> DEFINE Step(w) ==
             [s \in Int64 |->
                IF s > end THEN <<>>
                ELSE LET bucket == Bucket(raw, s, i)
                     IN (IF bucket = {} THEN <<>> ELSE <<<<s, bucket>>>>)
                          \o w[Signed(s + i)]]
           g == CHOOSE w : w = Step(w)
<1>13. ASSUME NEW w, NEW x \in D
       PROVE  Step(w)[x] = IF x \in more THEN first(x) \o w[x + i] ELSE <<>>
  <2>1. CASE x \in more
    <3>1. x \in Int64 /\ ~(x > end) /\ Signed(x + i) = x + i
      BY <1>2, <1>4, <1>12, <2>1
    <3>2. PICK B : B = Bucket(raw, x, i) /\ B = part(x)
      BY <1>11, <2>1
    <3>3. Step(w)[x] = (IF B = {} THEN <<>> ELSE <<<<x, B>>>>) \o w[Signed(x + i)]
      <4> HIDE DEF part, more
      <4> QED  BY <3>1, <3>2
    <3>4. first(x) = IF B = {} THEN <<>> ELSE <<<<x, B>>>>
      <4> HIDE DEF part
      <4> QED  BY <3>2
    <3> HIDE DEF Step, first, more
    <3> QED  BY <2>1, <3>1, <3>3, <3>4
  <2>2. CASE x \notin more
    <3>1. x \in Int64 /\ x > end
      BY <1>2, <1>12, <2>2
    <3> HIDE DEF more, first
    <3> QED  BY <2>2, <3>1
  <2> HIDE DEF Step, first, more
  <2> QED  BY <2>1, <2>2
<1>14. f = Step(f)
  <2>1. \A x \in D : f[x] = Step(f)[x]
    <3> HIDE DEF Step, first, more
    <3> QED  BY <1>10, <1>13
  <2>2. DOMAIN Step(f) = D /\ Step(f) = [x \in D |-> Step(f)[x]]
    BY <1>2
  <2>3. f = [x \in D |-> f[x]]
    <3> HIDE DEF V
    <3> QED  BY <1>9
  <2> HIDE DEF Step
  <2> QED  BY <2>1, <2>2, <2>3
<1>15. g = Step(g)
  <2> HIDE DEF Step
  <2> QED  BY <1>14
<1>16. PICK h : h = g
  OBVIOUS
<1>17. \A x \in D : h[x] = IF x \in more THEN first(x) \o h[x + i] ELSE <<>>
  <2>1. h = Step(h)
    <3> HIDE DEF Step, g
    <3> QED  BY <1>15, <1>16
  <2> HIDE DEF Step, first, more
  <2> QED  BY <1>13, <2>1
<1>18. Downsample(raw, start, end, i) = h[start]
  <2>1. Downsample(raw, start, end, i) = g[start]
    BY DEF Downsample
  <2> HIDE DEF g
  <2> QED  BY <1>16, <2>1
<1> HIDE DEF g, Step, size, nx, step, base
\* Counted from any time x.
<1> DEFINE Buckets(x) == {<<x + m[n], part(x + m[n])>> :
                            n \in {k \in Nat : part(x + m[k]) # {}}}
           Good(x) == /\ h[x] \in Seq(T) /\ Ascends(h[x])
                      /\ ToSet(h[x]) = Buckets(x)
           G == {x \in D : Good(x)}
<1>19. ASSUME NEW x \in D, x \notin more PROVE Good(x)
  <2>1. h[x] = <<>>
    <3> HIDE DEF more, first
    <3> QED  BY <1>17, <1>19
  <2>2. Buckets(x) = {}
    <3>1. ASSUME NEW k \in Nat, NEW t \in raw, x + m[k] <= t PROVE FALSE
      <4>1. t <= end /\ t \in D /\ x > end
        <5> HIDE DEF more
        <5> QED  BY <1>3, <1>12, <1>19
      <4>2. PICK l \in Nat : l = m[k]
        BY <1>0
      <4>3. t \in Int /\ x \in Int /\ end \in Int
        BY <1>3, <4>1
      <4> QED  BY ONLY <3>1, <4>1, <4>2, <4>3
    <3>2. \A k \in Nat : part(x + m[k]) = {}
      BY <3>1
    <3> HIDE DEF part
    <3> QED  BY <3>2
  <2>3. <<>> \in Seq(T) /\ ToSet(<<>>) = {} /\ Ascends(<<>>)
    BY DEF ToSet, Ascends
  <2> HIDE DEF Buckets, T
  <2> QED  BY <2>1, <2>2, <2>3
<1>20. ASSUME NEW x \in more, Good(x + i) PROVE Good(x)
  <2>1. x \in D /\ x \in Int /\ x + i \in D
    BY <1>4
  <2>2. PICK y \in Int : y = x + i
    BY <2>1
  <2>3. Buckets(x) = (IF part(x) = {} THEN {} ELSE {<<x, part(x)>>}) \cup Buckets(y)
    <3>1. \A k \in Nat : y + m[k] = x + m[k + 1] /\ k + 1 \in Nat
      <4>1. ASSUME NEW k \in Nat PROVE y + m[k] = x + m[k + 1]
        <5>1. m[k] \in Nat /\ m[k + 1] = m[k] + i
          BY <1>0
        <5> QED  BY <2>1, <2>2, <5>1
      <4> QED  BY <4>1
    <3>2. x + m[0] = x
      BY <1>0, <2>1
    <3>3. \A k \in Nat : k = 0 \/ (k - 1 \in Nat /\ (k - 1) + 1 = k)
      OBVIOUS
    <3> HIDE DEF part
    <3>4. ASSUME NEW b \in Buckets(x)
          PROVE  (b = <<x, part(x)>> /\ part(x) # {}) \/ b \in Buckets(y)
      <4>1. PICK k \in Nat : b = <<x + m[k], part(x + m[k])>> /\ part(x + m[k]) # {}
        OBVIOUS
      <4>2. CASE k = 0
        BY <3>2, <4>1, <4>2
      <4>3. CASE k # 0
        <5>1. PICK l \in Nat : x + m[k] = y + m[l]
          <6>1. PICK l \in Nat : l + 1 = k
            BY <3>3, <4>3
          <6> QED  BY <3>1, <6>1
        <5>2. b = <<y + m[l], part(y + m[l])>> /\ part(y + m[l]) # {}
          BY <4>1, <5>1
        <5> QED  BY <5>2
      <4> QED  BY <4>2, <4>3
    <3>5. ASSUME NEW b \in Buckets(y) PROVE b \in Buckets(x)
      <4>1. PICK l \in Nat : b = <<y + m[l], part(y + m[l])>> /\ part(y + m[l]) # {}
        OBVIOUS
      <4>2. PICK k \in Nat : x + m[k] = y + m[l]
        BY <3>1
      <4>3. b = <<x + m[k], part(x + m[k])>> /\ part(x + m[k]) # {}
        BY <4>1, <4>2
      <4> QED  BY <4>3
    <3>6. part(x) # {} => <<x, part(x)>> \in Buckets(x)
      <4>1. 0 \in Nat /\ <<x + m[0], part(x + m[0])>> = <<x, part(x)>>
        BY <3>2
      <4>2. part(x + m[0]) = part(x)
        BY <3>2
      <4> QED  BY <4>1, <4>2
    <3> HIDE DEF Buckets
    <3> QED  BY <3>4, <3>5, <3>6
  <2>4. h[x] = first(x) \o h[y]
    <3> HIDE DEF more, first
    <3> QED  BY <1>17, <2>1, <2>2
  <2>5. h[y] \in Seq(T) /\ Ascends(h[y]) /\ ToSet(h[y]) = Buckets(y)
    <3> HIDE DEF Buckets, T
    <3> QED  BY <1>20, <2>2
  <2>6. CASE part(x) = {}
    <3>1. first(x) = <<>> /\ <<>> \o h[y] = h[y]
      <4> HIDE DEF part, T
      <4> QED  BY <2>5, <2>6
    <3>2. h[x] = h[y] /\ Buckets(x) = Buckets(y)
      <4> HIDE DEF part, Buckets, first
      <4> QED  BY <2>3, <2>4, <2>6, <3>1
    <3> HIDE DEF Buckets, T
    <3> QED  BY <2>5, <3>2
  <2>7. CASE part(x) # {}
    <3>1. PICK e : e = <<x, part(x)>> /\ e \in T /\ e[1] = x
      <4>1. PICK z \in SUBSET D : z = part(x)
        BY <1>3
      <4> HIDE DEF part
      <4>2. <<x, z>> \in T /\ <<x, z>>[1] = x
        BY <2>1
      <4> QED  BY <4>1, <4>2
    <3>2. h[x] = <<e>> \o h[y]
      <4> HIDE DEF part
      <4> QED  BY <2>4, <2>7, <3>1
    <3>3. Buckets(x) = {e} \cup Buckets(y)
      <4> HIDE DEF part, Buckets
      <4> QED  BY <2>3, <2>7, <3>1
    <3>4. ASSUME NEW b \in Buckets(y) PROVE e[1] < b[1]
      <4>1. PICK k \in Nat : b[1] = y + m[k]
        <5> HIDE DEF part
        <5> QED  OBVIOUS
      <4>2. PICK l \in Nat : l = m[k]
        BY <1>0
      <4>3. x < y
        BY <1>4, <2>2
      <4>4. x < y + l
        BY ONLY <2>1, <4>2, <4>3, y \in Int
      <4> QED  BY <3>1, <4>1, <4>2, <4>4
    <3>5. h[x] \in Seq(T) /\ Ascends(h[x]) /\ ToSet(h[x]) = {e} \cup ToSet(h[y])
      <4>1. PICK u, v : u = h[x] /\ v = h[y]
        OBVIOUS
      <4>2. /\ v \in Seq(T) /\ Ascends(v) /\ LeadsTo(e, v)
            /\ u = <<e>> \o v
        <5> HIDE DEF Buckets, T
        <5> QED  BY <2>5, <3>2, <3>4, <4>1 DEF LeadsTo
      <4>3. u \in Seq(T) /\ Ascends(u) /\ ToSet(u) = {e} \cup ToSet(v)
        <5>1. e \in T
          BY <3>1
        <5> HIDE DEF T
        <5>2. PICK E : E = T
          OBVIOUS
        <5>3. PICK one : one = <<e>>
          OBVIOUS
        <5>4. /\ e \in E /\ v \in Seq(E) /\ Ascends(v) /\ LeadsTo(e, v)
              /\ u = one \o v
          BY <4>2, <5>1, <5>2, <5>3
        <5>5. one \in Seq(E) /\ Len(one) = 1 /\ one[1] = e
          BY ONLY <5>3, <5>4
        <5>6. Ascends(one \o v)
          BY ONLY <5>4, <5>5, FirstBelow
        <5>7. one \o v \in Seq(E) /\ ToSet(one \o v) = ToSet(one) \cup ToSet(v)
          BY ONLY <5>4, <5>5, ConcatProperties, SetOfConcat
        <5>8. ToSet(one) = {e}
          <6>1. DOMAIN one = {1}
            BY ONLY <5>5
          <6> QED  BY ONLY <5>5, <6>1 DEF ToSet
        <5> QED  BY <5>2, <5>4, <5>6, <5>7, <5>8
      <4> HIDE DEF T
      <4> QED  BY <4>1, <4>3
    <3> HIDE DEF Buckets, T
    <3> QED  BY <2>5, <3>3, <3>5
  <2> QED  BY <2>6, <2>7
<1>21. D \subseteq G
  <2> DEFINE jump == [x \in D |-> x + i]
             left == [x \in D |-> P - 1 - x]
  <2>1. IsInductive(G, D, more, jump)
    <3>1. \A x \in D : x \notin more => x \in G
      <4> HIDE DEF Good, more
      <4> QED  BY <1>19
    <3>2. ASSUME NEW x \in more, jump[x] \in G PROVE x \in G
      <4>1. x \in D /\ jump[x] = x + i
        BY <1>4
      <4> HIDE DEF Good, more, jump
      <4> QED  BY <1>20, <3>2, <4>1
    <3> HIDE DEF G, more, jump
    <3> QED  BY <3>1, <3>2 DEF IsInductive
  <2>2. Descends(D, left, more, jump)
    BY <1>5 DEF size, nx
  <2> HIDE DEF G, more, jump, left
  <2> QED  BY <2>1, <2>2, Descent
<1>22. Good(start)
  <2> HIDE DEF Good
  <2> QED  BY <1>3, <1>21
<1>23. /\ Ascends(h[start])
       /\ ToSet(h[start]) = {<<start + m[n], part(start + m[n])>> :
                               n \in {k \in Nat : part(start + m[k]) # {}}}
  BY <1>22
<1> HIDE DEF part
<1>24. /\ Ascends(Downsample(raw, start, end, i))
       /\ ToSet(Downsample(raw, start, end, i))
            = {<<start + m[n], part(start + m[n])>> :
                 n \in {k \in Nat : part(start + m[k]) # {}}}
  BY <1>18, <1>23
<1> QED  BY <1>24 DEF part, HasBuckets

\* s has the records of raw by the distance from start, in order.
Partitions(s, raw, start, i) ==
  LET number(t) == (t - start) \div i
      bucket(n) == <<start + n * i, {t \in raw : number(t) = n}>>
  IN ToSet(s) = {bucket(number(t)) : t \in raw} /\ Ascends(s)

\* The buckets are those that the quotients give.
LEMMA DownsamplePartitions ==
  ASSUME NEW S \in SUBSET SampleTimes, NEW start \in Int64, NEW end \in Int64,
         NEW i \in 1 .. MaxInt, end + i <= MaxInt,
         NEW raw, raw = SamplesOf(S, start, end)
  PROVE  Partitions(Downsample(raw, start, end, i), raw, start, i)
<1> DEFINE out == Downsample(raw, start, end, i)
           number(t) == (t - start) \div i
           bucket(n) == <<start + n * i, {t \in raw : number(t) = n}>>
           part(x) == {t \in raw : x <= t /\ t < x + i}
<1>1. /\ Int64 \subseteq Int /\ i \in Nat \ {0} /\ start \in Int
      /\ SampleTimes \subseteq Int64
  <2>1. PICK P \in Nat \ {0} : Int64 = -P .. P - 1 /\ MaxInt = P - 1
    BY WordPowersAssumption DEF MinInt, MaxInt, Int64
  <2> QED  BY <2>1, QueriesRangeAssumption
<1>2. /\ raw \in SUBSET Int64
      /\ \A t \in raw : t \in Int /\ start <= t /\ t <= end
  BY <1>1 DEF SamplesOf
<1>3. PICK m :
        /\ AreMultiples(m, i) /\ m \in [Nat -> Nat]
        /\ \A n \in Nat : m[n] = n * i
        /\ \A d \in Nat : /\ d \div i \in Nat
                          /\ m[d \div i] <= d /\ d < m[d \div i] + i
        /\ \A p, n \in Nat : p < n => m[p] + i <= m[n]
  BY <1>1, Multiples DEF AreMultiples
<1>4. /\ Ascends(out)
      /\ ToSet(out) = {<<start + m[n], part(start + m[n])>> :
                         n \in {k \in Nat : part(start + m[k]) # {}}}
  <2>1. HasBuckets(out, raw, start, i, m)
    BY <1>1, <1>2, <1>3, DownsampleIs
  <2> QED  BY <2>1 DEF HasBuckets
<1>5. ASSUME NEW t \in raw
      PROVE  /\ number(t) \in Nat
             /\ \A n \in Nat :
                  number(t) = n <=> start + m[n] <= t /\ t < start + m[n] + i
  <2>1. PICK d \in Nat : d = t - start
    BY <1>1, <1>2
  <2>2. PICK q \in Nat : q = d \div i /\ m[q] <= d /\ d < m[q] + i
    BY <1>3, <2>1
  <2>3. number(t) = q
    BY <2>1, <2>2
  <2>4. ASSUME NEW n \in Nat
        PROVE  q = n <=> start + m[n] <= t /\ t < start + m[n] + i
    <3>1. PICK x \in Nat, y \in Nat : x = m[q] /\ y = m[n]
      BY <1>3
    <3>2. (q < n => x + i <= y) /\ (n < q => y + i <= x)
      BY <1>3, <3>1
    <3>3. q = n \/ q < n \/ n < q
      OBVIOUS
    <3>4. q = n => x = y
      BY <3>1
    <3>5. x <= d /\ d < x + i
      BY <2>2, <3>1
    <3>6. q = n <=> y <= d /\ d < y + i
      BY ONLY <1>1, <3>2, <3>3, <3>4, <3>5, d \in Nat, x \in Nat, y \in Nat,
              q \in Nat, n \in Nat
    <3>7. t = start + d /\ t \in Int
      BY <1>1, <1>2, <2>1
    <3>8. y <= d /\ d < y + i <=> start + y <= t /\ t < start + y + i
      BY ONLY <1>1, <3>7, d \in Nat, y \in Nat
    <3> QED  BY <3>1, <3>6, <3>8
  <2> QED  BY <2>3, <2>4
<1> HIDE DEF number, out
<1>6. ASSUME NEW n \in Nat
      PROVE  /\ part(start + m[n]) = {t \in raw : number(t) = n}
             /\ <<start + m[n], part(start + m[n])>> = bucket(n)
  <2>1. part(start + m[n]) = {t \in raw : number(t) = n}
    BY <1>5
  <2>2. m[n] = n * i
    BY <1>3
  <2> HIDE DEF part
  <2> QED  BY <2>1, <2>2
<1> HIDE DEF part
<1>7. ASSUME NEW b \in ToSet(out) PROVE \E t \in raw : b = bucket(number(t))
  <2>1. PICK n \in Nat : /\ b = <<start + m[n], part(start + m[n])>>
                         /\ part(start + m[n]) # {}
    BY <1>4
  <2>2. b = bucket(n) /\ \E t \in raw : number(t) = n
    BY <1>6, <2>1
  <2> HIDE DEF bucket
  <2> QED  BY <2>2
<1>8. ASSUME NEW t \in raw PROVE bucket(number(t)) \in ToSet(out)
  <2>1. PICK n \in Nat : n = number(t)
    BY <1>5
  <2>2. part(start + m[n]) # {} /\ <<start + m[n], part(start + m[n])>> = bucket(n)
    BY <1>6, <2>1
  <2> HIDE DEF bucket
  <2>3. <<start + m[n], part(start + m[n])>> \in ToSet(out)
    BY <1>4, <2>2
  <2> QED  BY <2>1, <2>2, <2>3
<1>9. ToSet(out) = {bucket(number(t)) : t \in raw}
  <2> HIDE DEF bucket
  <2> QED  BY <1>7, <1>8
<1>10. Partitions(out, raw, start, i)
  BY <1>4, <1>9 DEF Partitions, number
<1> QED  BY <1>10 DEF out

\* Each record of the range counts in exactly one bucket, the one its
\* distance from t_start says, and buckets come in order, for every interval
\* such that t_end + interval fits, for negative timestamps and at the ends of
\* int64_t.
THEOREM DownsampleCountsOnce == QueriesSpec => []DownsamplePartitionsRange
<1>1. call = NoCall => DownsamplePartitionsRange
  BY DEF NoCall, DownsamplePartitionsRange
<1>2. DownsamplePartitionsRange /\ [Ask]_call => DownsamplePartitionsRange'
  <2> SUFFICES ASSUME DownsamplePartitionsRange, [Ask]_call
               PROVE  DownsamplePartitionsRange'
    OBVIOUS
  <2>1. CASE AskDownsample
    <3>1. PICK S \in SUBSET SampleTimes, start \in Int64, end \in Int64,
               i \in 1 .. MaxInt :
            /\ start <= end /\ end + i <= MaxInt
            /\ LET raw == SamplesOf(S, start, end)
               IN call' = [op |-> "downsample", raw |-> raw, start |-> start,
                           interval |-> i,
                           out |-> Downsample(raw, start, end, i)]
      BY <2>1 DEF AskDownsample
    <3>2. PICK raw : raw = SamplesOf(S, start, end)
      OBVIOUS
    <3>3. /\ call'.raw = raw /\ call'.start = start /\ call'.interval = i
          /\ call'.out = Downsample(raw, start, end, i)
      BY <3>1, <3>2
    <3>4. Partitions(call'.out, raw, start, i)
      BY <3>1, <3>2, <3>3, DownsamplePartitions
    <3>5. ToSet(call.out)' = ToSet(call'.out)
      BY DEF ToSet
    <3> QED  BY <3>3, <3>4, <3>5
      DEF DownsamplePartitionsRange, Ascends, Partitions
  <2>2. CASE AskExpired
    <3>1. call'.op = "expired"
      BY <2>2 DEF AskExpired
    <3> QED  BY <3>1 DEF DownsamplePartitionsRange
  <2>3. CASE AskRange
    <3>1. call'.op = "range"
      BY <2>3 DEF AskRange
    <3> QED  BY <3>1 DEF DownsamplePartitionsRange
  <2>4. CASE UNCHANGED call
    BY <2>4 DEF DownsamplePartitionsRange, ToSet
  <2> QED  BY <2>1, <2>2, <2>3, <2>4 DEF Ask
<1> QED  BY <1>1, <1>2, PTL DEF QueriesSpec
-----------------------------------------------------------------------------
(* The block cache.                                                        *)

\* What the cache holds for keys K and blocks V.
CacheEntries(K, V) == [key : K, value : V, charge : Nat]

\* The keys of list s.
HeldKeys(s) == {e.key : e \in ToSet(s)}

\* Each once.
Distinct(s) == \A i, j \in 1 .. Len(s) : s[i].key = s[j].key => i = j

\* The inductive invariant.
CacheInv(K, V) ==
  lru \in Seq(CacheEntries(K, V)) /\ CacheAccountsForItsEntries

\* f[n] is the sum of the first n charges of s.
IsSum(f, s) ==
  /\ f \in [0 .. Len(s) -> Nat] /\ f[0] = 0
  /\ \A n \in 1 .. Len(s) : f[n] = f[n - 1] + s[n].charge

\* Induction: what holds up to n - 1 holds up to n.
LEMMA SumOf ==
  ASSUME NEW E, \A e \in E : e.charge \in Nat, NEW s \in Seq(E)
  PROVE  \E f : IsSum(f, s)
<1>1. PICK L \in Nat : L = Len(s)
  OBVIOUS
<1>2. PICK c \in [1 .. L -> Nat] : \A n \in 1 .. L : c[n] = s[n].charge
  <2>1. \A n \in 1 .. L : s[n].charge \in Nat
    <3>1. \A n \in 1 .. L : s[n] \in E
      BY <1>1
    <3> QED  BY <3>1
  <2>2. [n \in 1 .. L |-> s[n].charge] \in [1 .. L -> Nat]
    BY <2>1
  <2> QED  BY <2>2
<1> DEFINE Sums(n) ==
      {f \in [0 .. n -> Nat] :
         f[0] = 0 /\ \A k \in 1 .. n : f[k] = f[k - 1] + c[k]}
           B == {n \in 0 .. L : Sums(n) = {}}
<1>3. B = {}
  <2>1. SUFFICES ASSUME B # {} PROVE FALSE
    OBVIOUS
  <2>2. PICK m \in B : \A t \in B : m <= t
    <3>1. B \in SUBSET Nat
      OBVIOUS
    <3> HIDE DEF B
    <3> QED  BY <2>1, <3>1, LeastExists
  <2>3. m # 0
    <3>1. [k \in 0 .. 0 |-> 0] \in Sums(0)
      OBVIOUS
    <3> QED  BY <3>1
  <2>4. m \in 1 .. L /\ m - 1 \in 0 .. L /\ m - 1 \notin B
    <3>1. m \in 0 .. L
      OBVIOUS
    <3> HIDE DEF B
    <3> QED  BY <2>2, <2>3, <3>1
  <2>5. PICK f \in Sums(m - 1) : TRUE
    BY <2>4
  <2> DEFINE g == [k \in 0 .. m |-> IF k = m THEN f[m - 1] + c[m] ELSE f[k]]
  <2>6. f \in [0 .. m - 1 -> Nat] /\ f[0] = 0
        /\ \A k \in 1 .. m - 1 : f[k] = f[k - 1] + c[k]
    BY <2>5
  <2>7. g \in [0 .. m -> Nat]
    BY <2>4, <2>6
  <2>8. ASSUME NEW k \in 1 .. m PROVE g[k] = g[k - 1] + c[k]
    <3>1. k \in 0 .. m /\ k - 1 \in 0 .. m - 1 /\ k - 1 # m /\ k - 1 \in 0 .. m
      BY <2>4
    <3>2. g[k - 1] = f[k - 1]
      BY <3>1
    <3>3. CASE k = m
      <4>1. g[k] = f[m - 1] + c[m]
        BY <3>1, <3>3
      <4> HIDE DEF g
      <4> QED  BY <3>2, <3>3, <4>1
    <3>4. CASE k # m
      <4>1. g[k] = f[k] /\ k \in 1 .. m - 1
        BY <3>1, <3>4
      <4> HIDE DEF g
      <4> QED  BY <2>6, <3>2, <4>1
    <3> QED  BY <3>3, <3>4
  <2>9. g[0] = 0
    BY <2>4, <2>6
  <2>10. g \in Sums(m)
    BY <2>7, <2>8, <2>9
  <2> QED  BY <2>2, <2>10
<1>4. PICK f \in Sums(L) : TRUE
  <2>1. L \in 0 .. L
    OBVIOUS
  <2> HIDE DEF Sums
  <2> QED  BY <1>3, <2>1
<1>5. f \in [0 .. L -> Nat] /\ f[0] = 0
      /\ \A k \in 1 .. L : f[k] = f[k - 1] + c[k]
  BY <1>4
<1>6. \A k \in 1 .. L : f[k] = f[k - 1] + s[k].charge
  BY <1>2, <1>5
<1>7. IsSum(f, s)
  BY <1>1, <1>5, <1>6 DEF IsSum
<1> QED  BY <1>7

LEMMA SumExists ==
  ASSUME NEW K, NEW V, NEW s \in Seq(CacheEntries(K, V))
  PROVE  \E f : IsSum(f, s)
<1>1. PICK E : E = CacheEntries(K, V)
  OBVIOUS
<1>2. \A e \in E : e.charge \in Nat
  BY <1>1 DEF CacheEntries
<1> QED  BY <1>1, <1>2, SumOf

LEMMA ChargesIs ==
  ASSUME NEW E, NEW s \in Seq(E), NEW f, IsSum(f, s)
  PROVE  Charges(s) = f[Len(s)] /\ Charges(s) \in Nat
<1> DEFINE Step(g) == [n \in 0 .. Len(s) |->
                         IF n = 0 THEN 0 ELSE g[n - 1] + s[n].charge]
<1>1. PICK L \in Nat : L = Len(s)
  OBVIOUS
<1>2. f \in [0 .. L -> Nat] /\ f[0] = 0
      /\ \A n \in 1 .. L : f[n] = f[n - 1] + s[n].charge
  BY <1>1 DEF IsSum
<1>3. f = Step(f)
  <2>1. \A n \in 0 .. L :
          f[n] = IF n = 0 THEN 0 ELSE f[n - 1] + s[n].charge
    BY <1>2
  <2>2. f = [n \in 0 .. L |-> f[n]]
    BY <1>2
  <2> QED  BY <1>1, <2>1, <2>2
<1> DEFINE h == CHOOSE g : g = Step(g)
<1>4. h = Step(h)
  <2> HIDE DEF Step
  <2> QED  BY <1>3
<1>5. PICK g : g = h
  OBVIOUS
<1>6. g = Step(g)
  <2> HIDE DEF Step, h
  <2> QED  BY <1>4, <1>5
<1>7. g = [n \in 0 .. L |-> IF n = 0 THEN 0 ELSE g[n - 1] + s[n].charge]
  BY <1>1, <1>6
<1>8. \A n \in 0 .. L : g[n] = IF n = 0 THEN 0 ELSE g[n - 1] + s[n].charge
  BY <1>7, Zenon
<1> DEFINE B == {n \in 0 .. L : g[n] # f[n]}
<1>9. B = {}
  <2>1. SUFFICES ASSUME B # {} PROVE FALSE
    OBVIOUS
  <2>2. PICK m \in B : \A t \in B : m <= t
    <3>1. B \in SUBSET Nat
      OBVIOUS
    <3> HIDE DEF B
    <3> QED  BY <2>1, <3>1, LeastExists
  <2>3. m \in 1 .. L /\ m - 1 \in 0 .. L /\ ~(m <= m - 1)
    BY <1>2, <1>8, <2>2
  <2>4. g[m - 1] = f[m - 1]
    BY <2>2, <2>3
  <2> QED  BY <1>2, <1>8, <2>2, <2>3, <2>4
<1>10. g[L] = f[L]
  BY <1>9
<1>11. Charges(s) = h[Len(s)]
  BY DEF Charges
<1> HIDE DEF h
<1> QED  BY <1>1, <1>2, <1>5, <1>10, <1>11

\* The first n entries have their prefix of the sum.
LEMMA CutCharges ==
  ASSUME NEW K, NEW V, NEW s \in Seq(CacheEntries(K, V)),
         NEW f, IsSum(f, s), NEW n \in 0 .. Len(s)
  PROVE  /\ SubSeq(s, 1, n) \in Seq(CacheEntries(K, V))
         /\ Len(SubSeq(s, 1, n)) = n
         /\ \A i \in 1 .. n : SubSeq(s, 1, n)[i] = s[i]
         /\ Charges(SubSeq(s, 1, n)) = f[n]
<1>1. PICK L \in Nat : L = Len(s)
  OBVIOUS
<1>2. PICK t : t = SubSeq(s, 1, n)
  OBVIOUS
<1>3. /\ t \in Seq(CacheEntries(K, V)) /\ Len(t) = n
      /\ \A i \in 1 .. n : t[i] = s[i]
  BY <1>1, <1>2
<1> DEFINE g == [k \in 0 .. n |-> f[k]]
<1>4. IsSum(g, t)
  <2>1. f \in [0 .. L -> Nat] /\ f[0] = 0
        /\ \A k \in 1 .. L : f[k] = f[k - 1] + s[k].charge
    BY <1>1 DEF IsSum
  <2>2. g \in [0 .. n -> Nat] /\ g[0] = 0
    BY <1>1, <2>1
  <2>3. ASSUME NEW k \in 1 .. n PROVE g[k] = g[k - 1] + t[k].charge
    <3>1. k \in 1 .. L /\ k \in 0 .. n /\ k - 1 \in 0 .. n
      BY <1>1
    <3>2. g[k] = f[k] /\ g[k - 1] = f[k - 1] /\ t[k] = s[k]
      BY <1>3, <3>1
    <3> QED  BY <2>1, <3>1, <3>2
  <2> QED  BY <1>3, <2>2, <2>3 DEF IsSum
<1>5. Charges(t) = g[n]
  <2> HIDE DEF g
  <2> QED  BY <1>3, <1>4, ChargesIs
<1> QED  BY <1>2, <1>3, <1>5

\* Sums grow.
LEMMA SumGrows ==
  ASSUME NEW K, NEW V, NEW s \in Seq(CacheEntries(K, V)),
         NEW f, IsSum(f, s), NEW n \in 0 .. Len(s)
  PROVE  \A k \in n .. Len(s) : f[n] <= f[k]
<1>1. PICK L \in Nat : L = Len(s)
  OBVIOUS
<1>2. f \in [0 .. L -> Nat] /\ f[0] = 0
      /\ \A k \in 1 .. L : f[k] = f[k - 1] + s[k].charge
  BY <1>1 DEF IsSum
<1>3. \A k \in 1 .. L : f[k - 1] <= f[k]
  <2>1. SUFFICES ASSUME NEW k \in 1 .. L PROVE f[k - 1] <= f[k]
    OBVIOUS
  <2>2. s[k] \in CacheEntries(K, V)
    BY <1>1
  <2>3. s[k].charge \in Nat
    BY <2>2 DEF CacheEntries
  <2>4. PICK c \in Nat : c = s[k].charge
    BY <2>3
  <2>5. f[k] = f[k - 1] + s[k].charge
    BY <1>2
  <2>6. f[k - 1] \in Nat
    <3>1. k - 1 \in 0 .. L
      OBVIOUS
    <3> QED  BY <1>2, <3>1
  <2> QED  BY ONLY <2>4, <2>5, <2>6
<1>5. \A k \in n .. L : f[n] <= f[k]
  <2> DEFINE B == {k \in n .. L : ~(f[n] <= f[k])}
  <2>1. SUFFICES B = {}
    OBVIOUS
  <2>2. SUFFICES ASSUME B # {} PROVE FALSE
    OBVIOUS
  <2>3. PICK m \in B : \A x \in B : m <= x
    <3>1. B \in SUBSET Nat
      OBVIOUS
    <3> HIDE DEF B
    <3> QED  BY <2>2, <3>1, LeastExists
  <2>4. m \in n .. L /\ m # n
    BY <1>1, <1>2, <2>3
  <2>5. m - 1 \in n .. L /\ m \in 1 .. L /\ ~(m <= m - 1)
    BY <1>1, <2>4
  <2>6. f[n] <= f[m - 1]
    BY <2>3, <2>5
  <2> QED  BY <1>1, <1>2, <1>3, <2>3, <2>5, <2>6
<1> QED  BY <1>1, <1>5

\* The entries after the n-th have the rest of it.
LEMMA RestCharges ==
  ASSUME NEW K, NEW V, NEW s \in Seq(CacheEntries(K, V)),
         NEW f, IsSum(f, s), NEW n \in 0 .. Len(s)
  PROVE  Charges(SubSeq(s, n + 1, Len(s))) = f[Len(s)] - f[n]
<1>1. PICK L \in Nat : L = Len(s)
  OBVIOUS
<1>2. PICK t : t = SubSeq(s, n + 1, L)
  OBVIOUS
<1>3. /\ t \in Seq(CacheEntries(K, V)) /\ Len(t) = L - n
      /\ \A i \in 1 .. L - n : t[i] = s[n + i]
  BY <1>1, <1>2
<1>4. f \in [0 .. L -> Nat] /\ f[0] = 0
      /\ \A k \in 1 .. L : f[k] = f[k - 1] + s[k].charge
  BY <1>1 DEF IsSum
<1>6. \A k \in n .. L : f[n] <= f[k]
  BY <1>1, SumGrows
<1> DEFINE g == [k \in 0 .. L - n |-> f[n + k] - f[n]]
<1>7. IsSum(g, t)
  <2>1. g \in [0 .. L - n -> Nat] /\ g[0] = 0
    BY <1>1, <1>4, <1>6
  <2>2. ASSUME NEW k \in 1 .. L - n PROVE g[k] = g[k - 1] + t[k].charge
    <3>1. n + k \in 1 .. L /\ k \in 0 .. L - n /\ k - 1 \in 0 .. L - n
          /\ n + k - 1 = n + (k - 1) /\ n + (k - 1) \in 0 .. L
      BY <1>1
    <3>2. /\ g[k] = f[n + k] - f[n] /\ g[k - 1] = f[n + (k - 1)] - f[n]
          /\ t[k] = s[n + k]
      BY <1>3, <3>1
    <3>3. f[n + k] = f[n + (k - 1)] + s[n + k].charge
      <4>1. PICK x \in 1 .. L : x = n + k /\ x - 1 = n + (k - 1)
        BY <3>1
      <4>2. f[x] = f[x - 1] + s[x].charge
        BY <1>4
      <4> QED  BY <4>1, <4>2
    <3>4. s[n + k] \in CacheEntries(K, V)
      BY <1>1, <3>1
    <3>5. s[n + k].charge \in Nat
      BY <3>4 DEF CacheEntries
    <3>6. PICK c \in Nat : c = t[k].charge /\ c = s[n + k].charge
      BY <3>2, <3>5
    <3>7. f[n + k] \in Nat /\ f[n + (k - 1)] \in Nat /\ f[n] \in Nat
      BY <1>1, <1>4, <3>1
    <3>8. PICK x, y, z \in Nat :
            x = f[n + k] /\ y = f[n + (k - 1)] /\ z = f[n]
      BY <3>7
    <3>9. x = y + c /\ g[k] = x - z /\ g[k - 1] = y - z
      BY <3>2, <3>3, <3>6, <3>8
    <3>10. x - z = (y - z) + c
      BY ONLY <3>9, x \in Nat, y \in Nat, z \in Nat, c \in Nat
    <3> HIDE DEF g
    <3> QED  BY <3>6, <3>9, <3>10
  <2> HIDE DEF g
  <2> QED  BY <1>3, <2>1, <2>2 DEF IsSum
<1>8. Charges(t) = g[L - n]
  <2> HIDE DEF g
  <2> QED  BY <1>3, <1>7, ChargesIs
<1> QED  BY <1>1, <1>2, <1>8

\* A new entry in front adds its charge.
LEMMA FrontList ==
  ASSUME NEW K, NEW V, NEW s \in Seq(CacheEntries(K, V)), Distinct(s),
         NEW e \in CacheEntries(K, V), e.key \notin HeldKeys(s)
  PROVE  /\ <<e>> \o s \in Seq(CacheEntries(K, V))
         /\ Distinct(<<e>> \o s)
         /\ HeldKeys(<<e>> \o s) = HeldKeys(s) \cup {e.key}
         /\ Charges(<<e>> \o s) = Charges(s) + e.charge
<1>1. PICK L \in Nat : L = Len(s)
  OBVIOUS
<1>2. PICK t : t = <<e>> \o s
  OBVIOUS
<1>3. /\ t \in Seq(CacheEntries(K, V)) /\ Len(t) = L + 1 /\ t[1] = e
      /\ \A i \in 2 .. L + 1 : t[i] = s[i - 1]
  BY <1>1, <1>2
<1>4. HeldKeys(s) = {s[i].key : i \in 1 .. L}
  BY <1>1 DEF HeldKeys, ToSet
<1>5. HeldKeys(t) = {t[i].key : i \in 1 .. L + 1}
  BY <1>1, <1>3 DEF HeldKeys, ToSet
<1>6. \A i \in 2 .. L + 1 : i - 1 \in 1 .. L
  OBVIOUS
<1>7. \A i \in 1 .. L : i + 1 \in 2 .. L + 1 /\ t[i + 1] = s[i]
  BY <1>3
<1>8. HeldKeys(t) = HeldKeys(s) \cup {e.key}
  <2>1. \A i \in 1 .. L + 1 : i = 1 \/ i \in 2 .. L + 1
    OBVIOUS
  <2>2. HeldKeys(t) \subseteq HeldKeys(s) \cup {e.key}
    BY <1>3, <1>4, <1>5, <1>6, <2>1
  <2>3. HeldKeys(s) \subseteq HeldKeys(t)
    BY <1>4, <1>5, <1>7
  <2>4. e.key \in HeldKeys(t)
    BY <1>3, <1>5
  <2> QED  BY <2>2, <2>3, <2>4
<1>9. Distinct(t)
  <2>1. SUFFICES ASSUME NEW i \in 1 .. L + 1, NEW j \in 1 .. L + 1,
                        t[i].key = t[j].key
                 PROVE  i = j
    BY <1>3 DEF Distinct
  <2>2. CASE i = 1 /\ j # 1
    <3>1. j \in 2 .. L + 1
      BY <2>2
    <3> QED  BY <1>3, <1>4, <1>6, <2>1, <2>2, <3>1
  <2>3. CASE i # 1 /\ j = 1
    <3>1. i \in 2 .. L + 1
      BY <2>3
    <3> QED  BY <1>3, <1>4, <1>6, <2>1, <2>3, <3>1
  <2>4. CASE i # 1 /\ j # 1
    <3>1. i \in 2 .. L + 1 /\ j \in 2 .. L + 1
      BY <2>4
    <3>2. i - 1 = j - 1
      <4>1. i - 1 \in 1 .. L /\ j - 1 \in 1 .. L
        BY <1>6, <3>1
      <4>2. s[i - 1].key = s[j - 1].key
        BY <1>3, <2>1, <3>1
      <4> QED  BY <1>1, <4>1, <4>2 DEF Distinct
    <3> QED  BY <3>1, <3>2
  <2> QED  BY <2>2, <2>3, <2>4
<1>10. Charges(t) = Charges(s) + e.charge
  <2>1. PICK f : IsSum(f, s)
    BY SumExists
  <2>2. f \in [0 .. L -> Nat] /\ f[0] = 0
        /\ \A k \in 1 .. L : f[k] = f[k - 1] + s[k].charge
    BY <1>1, <2>1 DEF IsSum
  <2>3. Charges(s) = f[L]
    BY <1>1, <2>1, ChargesIs
  <2>4. PICK c \in Nat : c = e.charge
    BY DEF CacheEntries
  <2> DEFINE g == [k \in 0 .. L + 1 |-> IF k = 0 THEN 0 ELSE f[k - 1] + c]
  <2>5. IsSum(g, t)
    <3>1. g \in [0 .. L + 1 -> Nat] /\ g[0] = 0
      BY <2>2
    <3>2. ASSUME NEW k \in 1 .. L + 1 PROVE g[k] = g[k - 1] + t[k].charge
      <4>1. CASE k = 1
        BY <1>3, <2>2, <2>4, <4>1
      <4>2. CASE k # 1
        <5>1. k \in 2 .. L + 1 /\ k - 1 \in 1 .. L /\ k - 1 - 1 \in 0 .. L
          BY <4>2
        <5>2. s[k - 1] \in CacheEntries(K, V)
          BY <1>1, <5>1
        <5>3. PICK d \in Nat : d = s[k - 1].charge
          BY <5>2 DEF CacheEntries
        <5>4. f[k - 1] = f[k - 1 - 1] + d /\ t[k].charge = d
          BY <1>3, <2>2, <5>1, <5>3
        <5>5. g[k] = f[k - 1] + c /\ g[k - 1] = f[k - 1 - 1] + c
          BY <5>1
        <5>6. f[k - 1 - 1] \in Nat
          BY <2>2, <5>1
        <5> QED  BY <5>4, <5>5, <5>6
      <4> QED  BY <4>1, <4>2
    <3> QED  BY <1>3, <3>1, <3>2 DEF IsSum
  <2>6. Charges(t) = g[L + 1]
    <3> HIDE DEF g
    <3> QED  BY <1>3, <2>5, ChargesIs
  <2>7. g[L + 1] = f[L] + c
    BY <2>2
  <2> QED  BY <2>3, <2>4, <2>6, <2>7
<1> QED  BY <1>2, <1>3, <1>8, <1>9, <1>10

\* The entry at place p taken out.
LEMMA RemovedList ==
  ASSUME NEW K, NEW V, NEW s \in Seq(CacheEntries(K, V)), Distinct(s),
         NEW p \in 1 .. Len(s)
  PROVE  /\ RemoveAt(s, p) \in Seq(CacheEntries(K, V))
         /\ Distinct(RemoveAt(s, p))
         /\ HeldKeys(RemoveAt(s, p)) = HeldKeys(s) \ {s[p].key}
         /\ Charges(RemoveAt(s, p)) = Charges(s) - s[p].charge
<1>1. PICK L \in Nat : L = Len(s)
  OBVIOUS
<1>2. PICK t : t = RemoveAt(s, p)
  OBVIOUS
<1>3. /\ t \in Seq(CacheEntries(K, V)) /\ Len(t) = L - 1
      /\ \A i \in 1 .. L - 1 : t[i] = IF i < p THEN s[i] ELSE s[i + 1]
  <2>1. PICK u, v : u = SubSeq(s, 1, p - 1) /\ v = SubSeq(s, p + 1, L)
    OBVIOUS
  <2>2. /\ u \in Seq(CacheEntries(K, V)) /\ Len(u) = p - 1
        /\ \A i \in 1 .. p - 1 : u[i] = s[i]
    BY <1>1, <2>1
  <2>3. /\ v \in Seq(CacheEntries(K, V)) /\ Len(v) = L - p
        /\ \A i \in 1 .. L - p : v[i] = s[p + i]
    BY <1>1, <2>1
  <2>4. t = u \o v
    BY <1>1, <1>2, <2>1 DEF RemoveAt
  <2>5. t \in Seq(CacheEntries(K, V)) /\ Len(t) = L - 1
    <3>1. t \in Seq(CacheEntries(K, V)) /\ Len(t) = Len(u) + Len(v)
      <4>1. PICK E : E = CacheEntries(K, V)
        OBVIOUS
      <4>2. u \in Seq(E) /\ v \in Seq(E)
        BY <2>2, <2>3, <4>1
      <4>3. u \o v \in Seq(E) /\ Len(u \o v) = Len(u) + Len(v)
        BY ONLY <4>2, ConcatProperties
      <4> QED  BY <2>4, <4>1, <4>3
    <3>2. (p - 1) + (L - p) = L - 1
      BY <1>1
    <3> QED  BY <2>2, <2>3, <3>1, <3>2
  <2>6. ASSUME NEW i \in 1 .. L - 1
        PROVE  t[i] = IF i < p THEN s[i] ELSE s[i + 1]
    <3>1. CASE i < p
      BY <1>1, <2>2, <2>3, <2>4, <3>1
    <3>2. CASE ~(i < p)
      <4>1. i - (p - 1) \in 1 .. L - p /\ p + (i - (p - 1)) = i + 1
        BY <1>1, <3>2
      <4>2. t[i] = v[i - (p - 1)]
        BY <1>1, <2>2, <2>3, <2>4, <3>2, <4>1
      <4> QED  BY <2>3, <3>2, <4>1, <4>2
    <3> QED  BY <3>1, <3>2
  <2> QED  BY <2>5, <2>6
<1>4. p \in 1 .. L
  BY <1>1
<1>5. HeldKeys(s) = {s[i].key : i \in 1 .. L}
  BY <1>1 DEF HeldKeys, ToSet
<1>6. HeldKeys(t) = {t[i].key : i \in 1 .. L - 1}
  BY <1>1, <1>3 DEF HeldKeys, ToSet
<1>7. \A i, j \in 1 .. L : s[i].key = s[j].key => i = j
  BY <1>1 DEF Distinct
<1> DEFINE At(i) == IF i < p THEN i ELSE i + 1
<1>8. \A i \in 1 .. L - 1 :
        At(i) \in 1 .. L /\ At(i) # p /\ t[i] = s[At(i)]
  BY <1>1, <1>3, <1>4
<1>9. \A i, j \in 1 .. L - 1 : At(i) = At(j) => i = j
  BY <1>4
<1>10. \A k \in 1 .. L : k # p => \E i \in 1 .. L - 1 : At(i) = k
  <2>1. SUFFICES ASSUME NEW k \in 1 .. L, k # p
                 PROVE  \E i \in 1 .. L - 1 : At(i) = k
    OBVIOUS
  <2>2. CASE k < p
    <3>1. k \in 1 .. L - 1 /\ At(k) = k
      BY <1>4, <2>2
    <3> QED  BY <3>1
  <2>3. CASE k > p
    <3>1. k - 1 \in 1 .. L - 1 /\ At(k - 1) = k
      BY <1>4, <2>3
    <3> QED  BY <3>1
  <2> QED  BY <1>4, <2>1, <2>2, <2>3
<1>11. Distinct(t)
  <2>1. SUFFICES ASSUME NEW i \in 1 .. L - 1, NEW j \in 1 .. L - 1,
                        t[i].key = t[j].key
                 PROVE  i = j
    BY <1>3 DEF Distinct
  <2> HIDE DEF At
  <2>2. At(i) = At(j)
    BY <1>7, <1>8, <2>1
  <2> QED  BY <1>9, <2>2
<1>12. HeldKeys(t) = HeldKeys(s) \ {s[p].key}
  <2> HIDE DEF At
  <2>1. HeldKeys(t) \subseteq HeldKeys(s) \ {s[p].key}
    BY <1>4, <1>5, <1>6, <1>7, <1>8
  <2>2. HeldKeys(s) \ {s[p].key} \subseteq HeldKeys(t)
    <3>1. SUFFICES ASSUME NEW k \in 1 .. L, k # p PROVE s[k].key \in HeldKeys(t)
      BY <1>5
    <3>2. PICK i \in 1 .. L - 1 : At(i) = k
      BY <1>10, <3>1
    <3>3. t[i] = s[k]
      BY <1>8, <3>2
    <3> QED  BY <1>6, <3>3
  <2> QED  BY <2>1, <2>2
<1>13. Charges(t) = Charges(s) - s[p].charge
  <2>1. PICK f : IsSum(f, s)
    BY SumExists
  <2>2. f \in [0 .. L -> Nat] /\ f[0] = 0
        /\ \A k \in 1 .. L : f[k] = f[k - 1] + s[k].charge
    BY <1>1, <2>1 DEF IsSum
  <2>3. Charges(s) = f[L]
    BY <1>1, <2>1, ChargesIs
  <2>4. PICK c \in Nat : c = s[p].charge
    <3>1. s[p] \in CacheEntries(K, V)
      BY <1>4
    <3> QED  BY <3>1 DEF CacheEntries
  <2>5. f[p] = f[p - 1] + c
    BY <1>4, <2>2, <2>4
  <2>6. \A k \in p .. L : f[p] <= f[k]
    <3>1. p \in 0 .. Len(s)
      BY <1>1, <1>4
    <3> QED  BY <1>1, <2>1, <3>1, SumGrows
  <2> DEFINE g == [k \in 0 .. L - 1 |-> IF k < p THEN f[k] ELSE f[k + 1] - c]
  <2>7. g \in [0 .. L - 1 -> Nat]
    <3>1. SUFFICES ASSUME NEW k \in 0 .. L - 1
                   PROVE  (IF k < p THEN f[k] ELSE f[k + 1] - c) \in Nat
      OBVIOUS
    <3>2. CASE k < p
      BY <1>4, <2>2, <3>2
    <3>3. CASE ~(k < p)
      <4>1. k + 1 \in p .. L /\ p - 1 \in 0 .. L /\ k + 1 \in 0 .. L
        BY <1>4, <3>3
      <4>2. PICK x, y, z \in Nat : x = f[k + 1] /\ y = f[p - 1] /\ z = f[p]
        BY <1>4, <2>2, <4>1
      <4>3. z <= x /\ z = y + c
        BY <2>5, <2>6, <4>1, <4>2
      <4>4. x - c \in Nat
        BY ONLY <4>3, x \in Nat, y \in Nat, z \in Nat, c \in Nat
      <4> QED  BY <3>3, <4>2, <4>4
    <3> QED  BY <3>2, <3>3
  <2>8. g[0] = 0
    BY <1>4, <2>2
  <2>9. ASSUME NEW k \in 1 .. L - 1 PROVE g[k] = g[k - 1] + t[k].charge
    <3>1. PICK d \in Nat : d = t[k].charge
      <4>1. t[k] \in CacheEntries(K, V)
        BY <1>3
      <4> QED  BY <4>1 DEF CacheEntries
    <3>2. CASE k < p
      <4>1. k \in 1 .. L /\ k - 1 < p /\ k - 1 \in 0 .. L - 1
        BY <1>4, <3>2
      <4>2. g[k] = f[k] /\ g[k - 1] = f[k - 1] /\ t[k] = s[k]
        BY <1>3, <3>2, <4>1
      <4> HIDE DEF g
      <4> QED  BY <2>2, <4>1, <4>2
    <3>3. CASE k = p
      <4>1. d = s[k + 1].charge
        BY <1>3, <3>1, <3>3
      <4>2. PICK x \in 1 .. L : x = k + 1 /\ x - 1 = k
        BY <1>4
      <4>3. f[x] = f[k] + d
        BY <2>2, <4>1, <4>2
      <4>4. g[k] = f[x] - c /\ g[k - 1] = f[p - 1]
        BY <1>4, <3>3, <4>2
      <4>5. f[x] \in Nat /\ f[p - 1] \in Nat /\ f[k] = f[p - 1] + c
        BY <1>4, <2>2, <2>5, <3>3, <4>2
      <4>6. PICK u, v \in Nat : u = f[x] /\ v = f[p - 1]
        BY <4>5
      <4>7. u = (v + c) + d
        BY <4>3, <4>5, <4>6
      <4>8. u - c = v + d
        BY ONLY <4>7, u \in Nat, v \in Nat, c \in Nat, d \in Nat
      <4> HIDE DEF g
      <4> QED  BY <3>1, <4>4, <4>6, <4>8
    <3>4. CASE k > p
      <4>1. d = s[k + 1].charge
        BY <1>3, <1>4, <3>1, <3>4
      <4>2. PICK x \in 1 .. L : x = k + 1 /\ x - 1 = k
        BY <1>4
      <4>3. f[x] = f[k] + d
        BY <2>2, <4>1, <4>2
      <4>4. g[k] = f[x] - c /\ g[k - 1] = f[k] - c
        BY <1>4, <3>4, <4>2
      <4>5. f[x] \in Nat /\ f[k] \in Nat
        BY <2>2, <4>2
      <4> HIDE DEF g
      <4> QED  BY <3>1, <4>3, <4>4, <4>5
    <3> QED  BY <1>4, <3>2, <3>3, <3>4
  <2>10. IsSum(g, t)
    <3> HIDE DEF g
    <3> QED  BY <1>3, <2>7, <2>8, <2>9 DEF IsSum
  <2>11. Charges(t) = g[L - 1]
    <3> HIDE DEF g
    <3> QED  BY <1>3, <2>10, ChargesIs
  <2>12. g[L - 1] = f[L] - c
    <3>1. CASE p = L
      BY <1>4, <2>2, <2>5, <3>1
    <3>2. CASE p # L
      BY <1>4, <3>2
    <3> QED  BY <3>1, <3>2
  <2> HIDE DEF g
  <2> QED  BY <2>3, <2>4, <2>11, <2>12
<1> QED  BY <1>2, <1>3, <1>11, <1>12, <1>13

\* The first n entries and the others share no key.
LEMMA CutList ==
  ASSUME NEW K, NEW V, NEW s \in Seq(CacheEntries(K, V)), Distinct(s),
         NEW n \in 0 .. Len(s)
  PROVE  /\ Distinct(SubSeq(s, 1, n))
         /\ HeldKeys(SubSeq(s, 1, n))
              = HeldKeys(s) \ HeldKeys(SubSeq(s, n + 1, Len(s)))
<1>1. PICK L \in Nat : L = Len(s)
  OBVIOUS
<1>2. PICK t, r : t = SubSeq(s, 1, n) /\ r = SubSeq(s, n + 1, L)
  OBVIOUS
<1>3. /\ t \in Seq(CacheEntries(K, V)) /\ Len(t) = n
      /\ \A i \in 1 .. n : t[i] = s[i]
  BY <1>1, <1>2
<1>4. /\ r \in Seq(CacheEntries(K, V)) /\ Len(r) = L - n
      /\ \A i \in 1 .. L - n : r[i] = s[n + i]
  BY <1>1, <1>2
<1>5. HeldKeys(s) = {s[i].key : i \in 1 .. L}
  BY <1>1 DEF HeldKeys, ToSet
<1>6. HeldKeys(t) = {t[i].key : i \in 1 .. n}
  BY <1>3 DEF HeldKeys, ToSet
<1>7. HeldKeys(r) = {r[i].key : i \in 1 .. L - n}
  BY <1>4 DEF HeldKeys, ToSet
<1>8. \A i, j \in 1 .. L : s[i].key = s[j].key => i = j
  BY <1>1 DEF Distinct
<1>9. Distinct(t)
  <2>1. \A i \in 1 .. n : i \in 1 .. L
    BY <1>1
  <2> QED  BY <1>3, <1>8, <2>1 DEF Distinct
<1>10. HeldKeys(t) \subseteq HeldKeys(s) \ HeldKeys(r)
  <2>1. SUFFICES ASSUME NEW i \in 1 .. n
                 PROVE  t[i].key \in HeldKeys(s) /\ t[i].key \notin HeldKeys(r)
    BY <1>6
  <2>2. i \in 1 .. L /\ t[i] = s[i]
    BY <1>1, <1>3
  <2>3. ASSUME NEW j \in 1 .. L - n PROVE t[i].key # r[j].key
    <3>1. n + j \in 1 .. L /\ n + j # i /\ r[j] = s[n + j]
      BY <1>1, <1>4
    <3> QED  BY <1>8, <2>2, <3>1
  <2> QED  BY <1>5, <1>7, <2>2, <2>3
<1>11. HeldKeys(s) \ HeldKeys(r) \subseteq HeldKeys(t)
  <2>1. SUFFICES ASSUME NEW i \in 1 .. L, s[i].key \notin HeldKeys(r)
                 PROVE  s[i].key \in HeldKeys(t)
    BY <1>5
  <2>2. CASE i <= n
    <3>1. i \in 1 .. n /\ t[i] = s[i]
      BY <1>3, <2>2
    <3> QED  BY <1>6, <3>1
  <2>3. CASE i > n
    <3>1. i - n \in 1 .. L - n /\ n + (i - n) = i
      BY <1>1, <2>3
    <3>2. r[i - n] = s[i]
      BY <1>4, <3>1
    <3> QED  BY <1>7, <2>1, <3>1, <3>2
  <2> QED  BY <1>1, <2>2, <2>3
<1> QED  BY <1>1, <1>2, <1>9, <1>10, <1>11

\* The loop of PruneUnlocked ends with a list that fits, of the same count.
LEMMA KeptFits ==
  ASSUME NEW K, NEW V, NEW s \in Seq(CacheEntries(K, V))
  PROVE  /\ Kept(s, Charges(s)) \in 0 .. Len(s)
         /\ LET n == Kept(s, Charges(s)) IN
            /\ BytesLeft(s, Charges(s), n) = Charges(SubSeq(s, 1, n))
            /\ BytesLeft(s, Charges(s), n) <= Capacity
<1>1. PICK L \in Nat : L = Len(s)
  OBVIOUS
<1>2. PICK f : IsSum(f, s)
  BY SumExists
<1>3. f \in [0 .. L -> Nat] /\ f[0] = 0
  BY <1>1, <1>2 DEF IsSum
<1>4. Charges(s) = f[L]
  BY <1>1, <1>2, ChargesIs
<1>5. PICK b \in Nat : b = Charges(s) /\ b = f[L]
  BY <1>3, <1>4
<1>6. \A n \in 0 .. L : BytesLeft(s, b, n) = f[n]
  <2>1. SUFFICES ASSUME NEW n \in 0 .. L PROVE BytesLeft(s, b, n) = f[n]
    OBVIOUS
  <2>2. Charges(SubSeq(s, n + 1, Len(s))) = f[L] - f[n]
    BY <1>1, <1>2, RestCharges
  <2>3. f[n] \in Nat
    BY <1>3
  <2> QED  BY <1>5, <2>2, <2>3 DEF BytesLeft
<1> DEFINE Stops(n) ==
      /\ n = 0 \/ BytesLeft(s, b, n) <= Capacity
      /\ n < L => BytesLeft(s, b, n + 1) > Capacity
<1>7. \E n \in 0 .. L : Stops(n)
  <2> DEFINE B == {m \in 0 .. L : m = L \/ f[L - m] <= Capacity}
  <2>1. B \in SUBSET Nat /\ L \in B
    OBVIOUS
  <2>2. PICK m \in B : \A x \in B : m <= x
    <3> HIDE DEF B
    <3> QED  BY <2>1, LeastExists
  <2>3. L - m \in 0 .. L /\ (L - m = 0 \/ f[L - m] <= Capacity)
    BY <2>2
  <2>4. ASSUME L - m < L PROVE f[L - m + 1] > Capacity
    <3>1. m - 1 \in 0 .. L /\ ~(m <= m - 1) /\ m - 1 # L
          /\ L - (m - 1) = L - m + 1 /\ L - m + 1 \in 0 .. L
      BY <2>2, <2>4
    <3>2. ~(f[L - (m - 1)] <= Capacity)
      BY <2>2, <3>1
    <3>3. f[L - m + 1] \in Nat /\ Capacity \in Nat
      BY <1>3, <3>1, CapacityAssumption
    <3> QED  BY <3>1, <3>2, <3>3
  <2>5. L - m < L => L - m + 1 \in 0 .. L
    BY <2>3
  <2>6. Stops(L - m)
    BY <1>6, <2>3, <2>4, <2>5
  <2> QED  BY <2>3, <2>6
<1>8. PICK n : n = Kept(s, b)
  OBVIOUS
<1>9. n \in 0 .. L /\ Stops(n)
  BY <1>1, <1>7, <1>8 DEF Kept
<1>10. BytesLeft(s, b, n) = f[n] /\ f[n] <= Capacity
  BY <1>3, <1>6, <1>9, CapacityAssumption
<1>11. Charges(SubSeq(s, 1, n)) = f[n]
  BY <1>1, <1>2, <1>9, CutCharges
<1> QED  BY <1>1, <1>5, <1>8, <1>9, <1>10, <1>11

\* Whatever list and count a Put leaves to PruneUnlocked, if they belong
\* together, the cache it leaves accounts for its entries.
LEMMA PutFrontKeeps ==
  ASSUME NEW K, NEW V, NEW key, NEW list \in Seq(CacheEntries(K, V)),
         NEW b, Distinct(list), map \cup {key} = HeldKeys(list),
         b = Charges(list), PutFront(key, list, b)
  PROVE  CacheInv(K, V)'
<1>1. PICK n : n = Kept(list, b)
  OBVIOUS
<1>2. /\ n \in 0 .. Len(list)
      /\ BytesLeft(list, b, n) = Charges(SubSeq(list, 1, n))
      /\ BytesLeft(list, b, n) <= Capacity
  BY <1>1, KeptFits
<1>3. PICK t, r : t = SubSeq(list, 1, n) /\ r = SubSeq(list, n + 1, Len(list))
  OBVIOUS
<1>4. /\ lru' = t /\ usage' = BytesLeft(list, b, n)
      /\ map' = (map \cup {key}) \ HeldKeys(r)
  BY <1>1, <1>3 DEF PutFront, HeldKeys
<1>5. t \in Seq(CacheEntries(K, V))
  BY <1>2, <1>3
<1>6. Distinct(t) /\ HeldKeys(t) = HeldKeys(list) \ HeldKeys(r)
  BY <1>2, <1>3, CutList
<1>7. usage' = Charges(t) /\ usage' <= Capacity
  BY <1>2, <1>3, <1>4
<1>8. map' = HeldKeys(t)
  BY <1>4, <1>6
<1> QED
  BY <1>4, <1>5, <1>6, <1>7, <1>8
  DEF CacheInv, CacheAccountsForItsEntries, Distinct, HeldKeys

LEMMA CacheInvParts ==
  ASSUME NEW K, NEW V, CacheInv(K, V)
  PROVE  /\ lru \in Seq(CacheEntries(K, V)) /\ Distinct(lru)
         /\ map = HeldKeys(lru) /\ usage = Charges(lru) /\ usage <= Capacity
BY DEF CacheInv, CacheAccountsForItsEntries, Distinct, HeldKeys

\* map_ points into the list.
LEMMA PlaceIs ==
  ASSUME NEW K, NEW V, CacheInv(K, V), NEW key, Hit(key)
  PROVE  Place(key) \in 1 .. Len(lru) /\ lru[Place(key)].key = key
<1>1. \E i \in 1 .. Len(lru) : lru[i].key = key
  BY CacheInvParts DEF Hit, HeldKeys, ToSet
<1> QED  BY <1>1 DEF Place

LEMMA GetKeeps ==
  ASSUME NEW K, NEW V, CacheInv(K, V), NEW key, CacheGet(key)
  PROVE  CacheInv(K, V)'
<1>1. PICK p \in 1 .. Len(lru) : p = Place(key) /\ lru[p].key = key
  BY PlaceIs DEF CacheGet
<1>2. PICK e, r : e = lru[p] /\ r = RemoveAt(lru, p)
  OBVIOUS
<1>3. e \in CacheEntries(K, V) /\ e.charge \in Nat /\ e.key = key
  <2>1. e \in CacheEntries(K, V)
    BY <1>2, CacheInvParts
  <2> QED  BY <1>1, <1>2, <2>1 DEF CacheEntries
<1>4. /\ r \in Seq(CacheEntries(K, V)) /\ Distinct(r)
      /\ HeldKeys(r) = map \ {key} /\ Charges(r) = usage - e.charge
  BY <1>1, <1>2, CacheInvParts, RemovedList
<1>5. lru' = <<e>> \o r /\ map' = map /\ usage' = usage
  BY <1>1, <1>2 DEF CacheGet, Cached
<1>6. /\ <<e>> \o r \in Seq(CacheEntries(K, V)) /\ Distinct(<<e>> \o r)
      /\ HeldKeys(<<e>> \o r) = (map \ {key}) \cup {key}
      /\ Charges(<<e>> \o r) = Charges(r) + e.charge
  BY <1>3, <1>4, FrontList
<1>7. HeldKeys(<<e>> \o r) = map
  BY <1>6 DEF CacheGet, Hit
<1>8. Charges(<<e>> \o r) = usage
  <2>1. usage \in Nat
    <3>1. PICK f : IsSum(f, lru)
      BY CacheInvParts, SumExists
    <3> QED  BY <3>1, CacheInvParts, ChargesIs
  <2>2. PICK c \in Nat, u \in Nat : c = e.charge /\ u = usage
    BY <1>3, <2>1
  <2> QED  BY <1>4, <1>6, <2>2
<1> QED
  BY <1>5, <1>6, <1>7, <1>8, CacheInvParts
  DEF CacheInv, CacheAccountsForItsEntries, Distinct, HeldKeys

LEMMA PutKeeps ==
  ASSUME NEW K, NEW V, CacheInv(K, V), NEW key \in K, NEW value \in V,
         NEW charge \in Nat, CachePut(key, value, charge)
  PROVE  CacheInv(K, V)'
<1>1. CASE Capacity = 0 \/ charge > Capacity
  <2>1. UNCHANGED cacheVars
    BY <1>1 DEF CachePut
  <2> QED
    BY <2>1 DEF cacheVars, CacheInv, CacheAccountsForItsEntries
<1>2. CASE ~(Capacity = 0 \/ charge > Capacity)
  <2>1. PICK new : new = [key |-> key, value |-> value, charge |-> charge]
    OBVIOUS
  <2>2. new \in CacheEntries(K, V) /\ new.key = key /\ new.charge = charge
    BY <2>1 DEF CacheEntries
  <2>3. CASE Hit(key)
    <3>1. PICK p \in 1 .. Len(lru) : p = Place(key) /\ lru[p].key = key
      BY <2>3, PlaceIs
    <3>2. PICK r : r = RemoveAt(lru, p)
      OBVIOUS
    <3>3. PICK c \in Nat : c = lru[p].charge
      <4>1. lru[p] \in CacheEntries(K, V)
        BY CacheInvParts
      <4> QED  BY <4>1 DEF CacheEntries
    <3>4. /\ r \in Seq(CacheEntries(K, V)) /\ Distinct(r)
          /\ HeldKeys(r) = map \ {key} /\ Charges(r) = usage - c
      BY <3>1, <3>2, <3>3, CacheInvParts, RemovedList
    <3>5. PutFront(key, <<new>> \o r, usage - c + charge)
      BY <1>2, <2>1, <2>3, <3>1, <3>2, <3>3 DEF CachePut, Cached
    <3>6. /\ <<new>> \o r \in Seq(CacheEntries(K, V))
          /\ Distinct(<<new>> \o r)
          /\ HeldKeys(<<new>> \o r) = (map \ {key}) \cup {key}
          /\ Charges(<<new>> \o r) = Charges(r) + charge
      BY <2>2, <3>4, FrontList
    <3>7. usage - c + charge = Charges(<<new>> \o r)
      BY <3>4, <3>6
    <3>8. map \cup {key} = HeldKeys(<<new>> \o r)
      BY <3>6
    <3> QED  BY <3>5, <3>6, <3>7, <3>8, PutFrontKeeps
  <2>4. CASE ~Hit(key)
    <3>1. PutFront(key, <<new>> \o lru, usage + charge)
      BY <1>2, <2>1, <2>4 DEF CachePut
    <3>2. key \notin HeldKeys(lru)
      BY <2>4, CacheInvParts DEF Hit
    <3>3. /\ <<new>> \o lru \in Seq(CacheEntries(K, V))
          /\ Distinct(<<new>> \o lru)
          /\ HeldKeys(<<new>> \o lru) = HeldKeys(lru) \cup {key}
          /\ Charges(<<new>> \o lru) = Charges(lru) + charge
      BY <2>2, <3>2, CacheInvParts, FrontList
    <3>4. /\ usage + charge = Charges(<<new>> \o lru)
          /\ map \cup {key} = HeldKeys(<<new>> \o lru)
      BY <3>3, CacheInvParts
    <3> QED  BY <3>1, <3>3, <3>4, PutFrontKeeps
  <2> QED  BY <2>3, <2>4
<1> QED  BY <1>1, <1>2

LEMMA CacheInvInit ==
  ASSUME NEW K, NEW V, CacheInit
  PROVE  CacheInv(K, V)
<1>1. lru \in Seq(CacheEntries(K, V)) /\ Len(lru) = 0
  BY DEF CacheInit
<1>2. IsSum([n \in 0 .. 0 |-> 0], lru)
  BY <1>1 DEF IsSum
<1>3. Charges(lru) = 0
  BY <1>1, <1>2, ChargesIs
<1>4. {e.key : e \in ToSet(lru)} = {}
  BY DEF CacheInit, ToSet
<1>5. usage = Charges(lru) /\ usage <= Capacity
  BY <1>3, CapacityAssumption DEF CacheInit
<1>6. map = {e.key : e \in ToSet(lru)}
  BY <1>4 DEF CacheInit
<1>7. \A i, j \in 1 .. Len(lru) : lru[i].key = lru[j].key => i = j
  BY <1>1
<1> QED
  BY <1>1, <1>5, <1>6, <1>7 DEF CacheInv, CacheAccountsForItsEntries

\* Block cache, block_cache.cpp: for any capacity and any calls of any
\* readers, the byte count stays that of the list and within the capacity,
\* and the list and its index keep the same keys, each once.
THEOREM CacheAccounts ==
  ASSUME NEW CONSTANT K, NEW CONSTANT V
  PROVE  CacheSpec(K, V) => []CacheAccountsForItsEntries
<1>1. CacheInit => CacheInv(K, V)
  BY CacheInvInit
<1>2. CacheInv(K, V) /\ [CacheNext(K, V)]_cacheVars => CacheInv(K, V)'
  <2> SUFFICES ASSUME CacheInv(K, V), [CacheNext(K, V)]_cacheVars
               PROVE  CacheInv(K, V)'
    OBVIOUS
  <2>1. CASE UNCHANGED cacheVars
    BY <2>1 DEF cacheVars, CacheInv, CacheAccountsForItsEntries
  <2>2. ASSUME NEW key \in K, CacheGet(key) PROVE CacheInv(K, V)'
    BY <2>2, GetKeeps
  <2>3. ASSUME NEW key \in K, NEW value \in V, NEW charge \in Nat,
               CachePut(key, value, charge)
        PROVE  CacheInv(K, V)'
    BY <2>3, PutKeeps
  <2> QED  BY <2>1, <2>2, <2>3 DEF CacheNext
<1>3. CacheInv(K, V) => CacheAccountsForItsEntries
  BY DEF CacheInv
<1> QED  BY <1>1, <1>2, <1>3, PTL DEF CacheSpec
-----------------------------------------------------------------------------
(* The memtable.                                                           *)

Nodes == TsKeys \cup {HeadNode}

\* nx links the nodes of S in the order of their keys, and no other.
Chain(nx, S) ==
  /\ S \subseteq TsKeys /\ nx \in [Nodes -> TsKeys \cup {Nil}]
  /\ \A n \in S \cup {HeadNode} :
       /\ nx[n] \in S \cup {Nil} /\ n < nx[n]
       /\ \A m \in S : ~(n < m /\ m < nx[n])
  /\ \A n \in TsKeys \ S : nx[n] = Nil

\* p is the last node below k.
IsBefore(p, S, k) ==
  /\ p \in S \cup {HeadNode} /\ (p < k \/ p = HeadNode)
  /\ \A m \in S : m < k => m <= p

\* A search for k may come down to list S at n.
MayStart(n, S, k) == n \in S \cup {HeadNode} /\ (n < k \/ n = HeadNode)

\* A non-empty set of keys has a last one.
LEMMA LastExists ==
  ASSUME NEW T \in SUBSET TsKeys, T # {}
  PROVE  \E m \in T : \A t \in T : t <= m
<1> DEFINE D == {Nil - t : t \in T}
<1>1. \A t \in T : t \in Int /\ t < Nil /\ Nil \in Int
  BY NodesAssumption
<1>2. D \in SUBSET Nat
  BY <1>1
<1>3. D # {}
  OBVIOUS
<1>4. PICK d \in D : \A x \in D : d <= x
  <2> HIDE DEF D
  <2> QED  BY <1>2, <1>3, LeastExists
<1>5. PICK m \in T : d = Nil - m
  OBVIOUS
<1>6. ASSUME NEW t \in T PROVE t <= m
  <2>1. Nil - m <= Nil - t
    BY <1>4, <1>5
  <2> QED  BY <1>1, <2>1
<1> QED  BY <1>6

\* Some node, or the head, is the last one below k.
LEMMA BeforeExists ==
  ASSUME NEW nx, NEW S, Chain(nx, S), NEW k \in Int
  PROVE  \E p : IsBefore(p, S, k)
<1> DEFINE T == {m \in S : m < k}
<1>1. T \in SUBSET TsKeys
  BY DEF Chain
<1>2. CASE T = {}
  <2>1. IsBefore(HeadNode, S, k)
    BY <1>2 DEF IsBefore
  <2> QED  BY <2>1
<1>3. CASE T # {}
  <2>1. PICK p \in T : \A t \in T : t <= p
    <3> HIDE DEF T
    <3> QED  BY <1>1, <1>3, LastExists
  <2>2. IsBefore(p, S, k)
    BY <2>1 DEF IsBefore
  <2> QED  BY <2>2
<1> QED  BY <1>2, <1>3

\* The walk from any node of the chain that is not behind the last one
\* below k ends there.
LEMMA WalkEnds ==
  ASSUME NEW l, NEW S, Chain(next[l], S), NEW k \in Int,
         NEW p, IsBefore(p, S, k), NEW n, MayStart(n, S, k)
  PROVE  Walk(l, k)[n] = p
<1>0. n \in S \cup {HeadNode} /\ (n < k \/ n = HeadNode)
  BY DEF MayStart
<1>1. PICK nx : nx = next[l]
  OBVIOUS
<1> DEFINE Step(w) == [x \in Nodes |->
                         IF KeyIsAfterNode(k, nx[x]) THEN w[nx[x]] ELSE x]
           f == [x \in Nodes |->
                   IF x \in S \cup {HeadNode} /\ (x < k \/ x = HeadNode)
                     THEN p ELSE x]
<1>2. /\ S \subseteq TsKeys /\ TsKeys \subseteq Int
      /\ HeadNode \in Int /\ Nil \in Int
      /\ \A m \in TsKeys : HeadNode < m /\ m < Nil /\ m # Nil
  BY NodesAssumption DEF Chain
<1>3. /\ nx \in [Nodes -> TsKeys \cup {Nil}]
      /\ \A x \in S \cup {HeadNode} :
           /\ nx[x] \in S \cup {Nil} /\ x < nx[x]
           /\ \A m \in S : ~(x < m /\ m < nx[x])
      /\ \A x \in TsKeys \ S : nx[x] = Nil
  BY <1>1 DEF Chain
<1>4. /\ p \in S \cup {HeadNode} /\ (p < k \/ p = HeadNode)
      /\ \A m \in S : m < k => m <= p
  BY DEF IsBefore
\* A node before p has a successor below k, p and the others have none.
<1>5. ASSUME NEW x \in S \cup {HeadNode}, x < k \/ x = HeadNode
      PROVE  /\ x = p => ~KeyIsAfterNode(k, nx[x])
             /\ x # p => /\ KeyIsAfterNode(k, nx[x]) /\ nx[x] \in S
                         /\ nx[x] < k
  <2>1. nx[x] \in S \cup {Nil} /\ x < nx[x] /\ x \in Int /\ nx[x] \in Int
    <3>1. nx[x] \in S \cup {Nil} /\ x < nx[x]
      BY <1>3
    <3> QED  BY <1>2, <3>1
  <2>2. x = p => ~KeyIsAfterNode(k, nx[x])
    BY <1>2, <1>4, <2>1 DEF KeyIsAfterNode
  <2>3. ASSUME x # p PROVE x < p /\ p \in S
    BY <1>2, <1>4, <1>5, <2>1, <2>3
  <2>4. ASSUME x # p PROVE nx[x] \in S /\ nx[x] <= p /\ nx[x] < k
    <3>1. ~(p < nx[x])
      BY <1>3, <2>3, <2>4
    <3>2. p \in Int /\ nx[x] <= p
      BY <1>2, <1>4, <2>1, <3>1
    <3>3. nx[x] # Nil
      BY <1>2, <2>3, <2>4, <3>2
    <3>4. p < k
      BY <1>2, <1>4, <2>3, <2>4
    <3> QED  BY <2>1, <3>2, <3>3, <3>4
  <2> QED  BY <1>2, <2>2, <2>4 DEF KeyIsAfterNode
<1>6. ASSUME NEW x \in Nodes,
             ~(x \in S \cup {HeadNode} /\ (x < k \/ x = HeadNode))
      PROVE  ~KeyIsAfterNode(k, nx[x])
  <2>1. CASE x \in S
    <3>1. nx[x] \in Int /\ x < nx[x] /\ ~(x < k) /\ x \in Int
      BY <1>2, <1>3, <1>6, <2>1
    <3> QED  BY <3>1 DEF KeyIsAfterNode
  <2>2. CASE x \notin S
    BY <1>3, <1>6, <2>2 DEF KeyIsAfterNode, Nodes
  <2> QED  BY <2>1, <2>2
<1>7. f = Step(f)
  <2>1. ASSUME NEW x \in Nodes
        PROVE  f[x] = IF KeyIsAfterNode(k, nx[x]) THEN f[nx[x]] ELSE x
    <3>1. CASE x \in S \cup {HeadNode} /\ (x < k \/ x = HeadNode)
      <4>1. f[x] = p
        BY <3>1
      <4>2. CASE x = p
        BY <1>5, <3>1, <4>1, <4>2
      <4>3. CASE x # p
        <5>1. KeyIsAfterNode(k, nx[x]) /\ nx[x] \in S /\ nx[x] < k
          BY <1>5, <3>1, <4>3
        <5>2. f[nx[x]] = p
          BY <1>2, <5>1 DEF Nodes
        <5> QED  BY <4>1, <5>1, <5>2
      <4> QED  BY <4>2, <4>3
    <3>2. CASE ~(x \in S \cup {HeadNode} /\ (x < k \/ x = HeadNode))
      BY <1>6, <3>2
    <3> QED  BY <3>1, <3>2
  <2>2. f = [x \in Nodes |-> f[x]]
    OBVIOUS
  <2> HIDE DEF f
  <2> QED  BY <2>1, <2>2
<1> DEFINE g == CHOOSE w : w = Step(w)
<1>8. g = Step(g)
  <2> HIDE DEF Step, f
  <2> QED  BY <1>7
<1>9. PICK h : h = g
  OBVIOUS
<1>10. \A x \in Nodes :
         h[x] = IF KeyIsAfterNode(k, nx[x]) THEN h[nx[x]] ELSE x
  <2>1. h = Step(h)
    <3> HIDE DEF Step, g
    <3> QED  BY <1>8, <1>9
  <2>2. h = [x \in Nodes |->
               IF KeyIsAfterNode(k, nx[x]) THEN h[nx[x]] ELSE x]
    BY <2>1
  <2> QED  BY <2>2, Zenon
<1>11. Walk(l, k) = g
  BY <1>1 DEF Walk, Nodes
\* The last node from which it ended elsewhere would have a successor.
<1> DEFINE B == {x \in S : x < k /\ h[x] # p}
<1>12. B = {}
  <2>1. SUFFICES ASSUME B # {} PROVE FALSE
    OBVIOUS
  <2>2. PICK x \in B : \A y \in B : y <= x
    <3>1. B \in SUBSET TsKeys
      BY <1>2
    <3> HIDE DEF B
    <3> QED  BY <2>1, <3>1, LastExists
  <2>3. x \in S /\ x < k /\ h[x] # p /\ x \in Nodes
    BY <1>2 DEF Nodes
  <2>4. x # p
    BY <1>5, <1>10, <2>3
  <2>5. nx[x] \in S /\ nx[x] < k /\ h[x] = h[nx[x]] /\ x < nx[x]
    BY <1>3, <1>5, <1>10, <2>3, <2>4
  <2>6. nx[x] \in B
    BY <2>3, <2>5
  <2>7. nx[x] <= x /\ x \in Int /\ nx[x] \in Int
    BY <1>2, <2>2, <2>3, <2>5, <2>6
  <2> QED  BY <2>5, <2>7
<1>13. \A x \in S : x < k => h[x] = p
  BY <1>12
<1>14. h[n] = p
  <2>1. CASE n \in S /\ n < k
    BY <1>13, <2>1
  <2>2. CASE n = HeadNode /\ n = p
    BY <1>5, <1>10, <2>2 DEF Nodes
  <2>3. CASE n = HeadNode /\ n # p
    <3>1. KeyIsAfterNode(k, nx[n]) /\ nx[n] \in S /\ nx[n] < k
      BY <1>5, <2>3
    <3>2. h[n] = h[nx[n]]
      BY <1>10, <2>3, <3>1 DEF Nodes
    <3> QED  BY <1>13, <3>1, <3>2
  <2> QED  BY <1>0, <2>1, <2>2, <2>3
<1> HIDE DEF g
<1> QED  BY <1>9, <1>11, <1>14

\* List l has the nodes S[l], those of the list below it that are high
\* enough; the lowest has all.
Linked(S) ==
  /\ S[0] = {k \in TsKeys : entry[k] # NoEntry}
  /\ \A l \in Levels : Chain(next[l], S[l])
  /\ \A l \in Levels : l > 0 => S[l] \subseteq S[l - 1]
  /\ \A l \in Levels : l >= height => S[l] = {}

\* The memtable has one list on each level, and the last entries written.
MemInv ==
  /\ height \in 1 .. MaxHeight /\ entry = written
  /\ written \in [TsKeys -> Entries \cup {NoEntry}]
  /\ \E S : Linked(S)

\* The search turns down, on each level, at the last node below the key.
LEMMA PrevIs ==
  ASSUME NEW S, Linked(S), height \in 1 .. MaxHeight, NEW k \in Int,
         NEW l \in 0 .. height - 1
  PROVE  IsBefore(Prev(k)[l], S[l], k)
<1>1. PICK H \in Nat : H = height /\ H \in 1 .. MaxHeight
  BY HeightAssumption
<1>2. \A i \in 0 .. H - 1 : i \in Levels /\ (i + 1 <= H - 1 => i + 1 \in Levels)
  BY <1>1, HeightAssumption DEF Levels
<1> DEFINE P(i) == CHOOSE p : IsBefore(p, S[i], k)
<1>3. \A i \in 0 .. H - 1 : IsBefore(P(i), S[i], k)
  <2>1. SUFFICES ASSUME NEW i \in 0 .. H - 1 PROVE IsBefore(P(i), S[i], k)
    OBVIOUS
  <2>2. Chain(next[i], S[i])
    BY <1>2 DEF Linked
  <2>3. \E p : IsBefore(p, S[i], k)
    BY <2>2, BeforeExists
  <2> QED  BY <2>3
<1> HIDE DEF P
<1>4. ASSUME NEW i \in 0 .. H - 1, NEW n,
             \/ i = H - 1 /\ n = HeadNode
             \/ i + 1 <= H - 1 /\ n = P(i + 1)
      PROVE  Walk(i, k)[n] = P(i)
  <2>1. Chain(next[i], S[i]) /\ IsBefore(P(i), S[i], k)
    BY <1>2, <1>3 DEF Linked
  <2>2. n \in S[i] \cup {HeadNode} /\ (n < k \/ n = HeadNode)
    <3>1. CASE n = HeadNode
      BY <3>1
    <3>2. CASE i + 1 <= H - 1 /\ n = P(i + 1)
      <4>1. IsBefore(n, S[i + 1], k)
        BY <1>3, <3>2
      <4>2. S[i + 1] \subseteq S[i]
        <5>1. i + 1 \in Levels /\ i + 1 > 0 /\ (i + 1) - 1 = i
          BY <1>2, <3>2
        <5>2. PICK j : j = i + 1
          OBVIOUS
        <5>3. S[j] \subseteq S[j - 1]
          BY <5>1, <5>2 DEF Linked
        <5> QED  BY <5>1, <5>2, <5>3
      <4> QED  BY <4>1, <4>2 DEF IsBefore
    <3> QED  BY <1>4, <3>1, <3>2
  <2>3. PICK Si, p : Si = S[i] /\ p = P(i)
    OBVIOUS
  <2>4. /\ Chain(next[i], Si) /\ IsBefore(p, Si, k)
        /\ MayStart(n, Si, k)
    BY <2>1, <2>2, <2>3 DEF MayStart
  <2>5. Walk(i, k)[n] = p
    BY <2>4, WalkEnds
  <2> QED  BY <2>3, <2>5
<1> DEFINE Step(t) == [i \in 0 .. height - 1 |->
                  Walk(i, k)[IF i = height - 1 THEN HeadNode ELSE t[i + 1]]]
           f == [i \in 0 .. H - 1 |-> P(i)]
           g == CHOOSE t : t = Step(t)
<1>5. f = Step(f)
  <2>1. ASSUME NEW i \in 0 .. H - 1
        PROVE  f[i] = Walk(i, k)[IF i = H - 1 THEN HeadNode ELSE f[i + 1]]
    <3>1. CASE i = H - 1
      BY <1>4, <3>1
    <3>2. CASE i # H - 1
      <4>1. i + 1 \in 0 .. H - 1 /\ i + 1 <= H - 1
        BY <3>2
      <4>2. f[i + 1] = P(i + 1)
        BY <4>1
      <4> QED  BY <1>4, <3>2, <4>1, <4>2
    <3> QED  BY <3>1, <3>2
  <2>2. f = [i \in 0 .. H - 1 |-> f[i]]
    OBVIOUS
  <2> HIDE DEF f
  <2> QED  BY <1>1, <2>1, <2>2
<1>6. g = Step(g)
  <2> HIDE DEF Step, f
  <2> QED  BY <1>5
<1>7. PICK h : h = g
  OBVIOUS
<1>8. \A i \in 0 .. H - 1 :
        h[i] = Walk(i, k)[IF i = H - 1 THEN HeadNode ELSE h[i + 1]]
  <2>1. h = Step(h)
    <3> HIDE DEF Step, g
    <3> QED  BY <1>6, <1>7
  <2>2. h = [i \in 0 .. H - 1 |->
               Walk(i, k)[IF i = H - 1 THEN HeadNode ELSE h[i + 1]]]
    BY <1>1, <2>1
  <2> QED  BY <2>2, Zenon
<1>9. Prev(k) = g
  BY DEF Prev
\* The uppermost level with another result would start from P.
<1> DEFINE B == {j \in 0 .. H - 1 : h[H - 1 - j] # P(H - 1 - j)}
<1>10. B = {}
  <2>1. SUFFICES ASSUME B # {} PROVE FALSE
    OBVIOUS
  <2>2. PICK j \in B : \A y \in B : j <= y
    <3>1. B \in SUBSET Nat
      OBVIOUS
    <3> HIDE DEF B
    <3> QED  BY <2>1, <3>1, LeastExists
  <2>3. PICK i \in 0 .. H - 1 : i = H - 1 - j /\ h[i] # P(i) /\ j \in 0 .. H - 1
    OBVIOUS
  <2>4. CASE i = H - 1
    BY <1>4, <1>8, <2>3, <2>4
  <2>5. CASE i # H - 1
    <3>1. j - 1 \in 0 .. H - 1 /\ ~(j <= j - 1) /\ H - 1 - (j - 1) = i + 1
          /\ i + 1 \in 0 .. H - 1 /\ i + 1 <= H - 1
      BY <2>3, <2>5
    <3>2. h[i + 1] = P(i + 1)
      BY <2>2, <3>1
    <3>3. h[i] = Walk(i, k)[h[i + 1]]
      BY <1>8, <2>5
    <3> QED  BY <1>4, <2>3, <3>1, <3>2, <3>3
  <2> QED  BY <2>4, <2>5
<1>11. h[l] = P(l)
  <2>1. H - 1 - l \in 0 .. H - 1 /\ H - 1 - (H - 1 - l) = l
    BY <1>1
  <2> QED  BY <1>10, <2>1
<1> HIDE DEF g
<1> QED  BY <1>1, <1>3, <1>7, <1>9, <1>11

\* FindGreaterOrEqual finds the first node that is not below the key.
LEMMA FirstNotBelow ==
  ASSUME NEW S, Linked(S), height \in 1 .. MaxHeight, NEW k \in Int
  PROVE  LET n == FindGreaterOrEqual(k) IN
         /\ n \in S[0] \cup {Nil} /\ (n = Nil \/ n >= k)
         /\ \A m \in S[0] : m >= k => n <= m
<1>1. 0 \in 0 .. height - 1 /\ 0 \in Levels
  BY HeightAssumption DEF Levels
<1>2. PICK p, n : p = Prev(k)[0] /\ n = next[0][p]
  OBVIOUS
<1>3. n = FindGreaterOrEqual(k)
  BY <1>2 DEF FindGreaterOrEqual
<1>4. IsBefore(p, S[0], k) /\ Chain(next[0], S[0])
  BY <1>1, <1>2, PrevIs DEF Linked
<1>5. n \in S[0] \cup {Nil} /\ p < n /\ \A m \in S[0] : ~(p < m /\ m < n)
  BY <1>2, <1>4 DEF Chain, IsBefore
<1>6. /\ S[0] \subseteq Int /\ Nil \in Int /\ p \in Int /\ n \in Int
      /\ \A m \in S[0] : HeadNode < m /\ m < Nil
  BY <1>4, <1>5, NodesAssumption DEF Chain, IsBefore
<1>7. n = Nil \/ n >= k
  BY <1>4, <1>5, <1>6 DEF IsBefore
<1>8. ASSUME NEW m \in S[0], m >= k PROVE n <= m
  <2>1. p < m
    BY <1>4, <1>6, <1>8 DEF IsBefore
  <2> QED  BY <1>5, <1>6, <2>1
<1> QED  BY <1>3, <1>5, <1>7, <1>8

\* A scan along the lowest list from node n to key b meets the nodes between
\* them, in the order of their keys.
LEMMA ScanIs ==
  ASSUME NEW S, Chain(next[0], S), NEW b \in Int, NEW n \in S \cup {Nil}
  PROVE  LET s == ScanTo(b)[n] IN
         /\ s \in Seq(TsKeys)
         /\ \A i, j \in 1 .. Len(s) : i < j => s[i] < s[j]
         /\ {s[i] : i \in 1 .. Len(s)} = {m \in S : n <= m /\ m <= b}
<1>1. PICK nx : nx = next[0]
  OBVIOUS
<1> DEFINE D == TsKeys \cup {Nil}
           Ends(x) == x = Nil \/ x > b
           Step(g) == [x \in D |->
                         IF Ends(x) THEN <<>> ELSE <<x>> \o g[nx[x]]]
<1>2. /\ S \subseteq TsKeys /\ TsKeys \subseteq Int
      /\ HeadNode \in Int /\ Nil \in Int
      /\ \A m \in TsKeys : HeadNode < m /\ m < Nil /\ m # Nil
  BY NodesAssumption DEF Chain
<1>3. /\ \A x \in TsKeys : nx[x] \in D /\ x < nx[x]
      /\ \A x \in S : nx[x] \in S \cup {Nil}
      /\ \A x \in S : \A m \in S : ~(x < m /\ m < nx[x])
  <2>1. ASSUME NEW x \in TsKeys PROVE nx[x] \in D /\ x < nx[x]
    <3>1. CASE x \in S
      BY <1>1, <1>2, <3>1 DEF Chain
    <3>2. CASE x \notin S
      BY <1>1, <1>2, <3>2 DEF Chain
    <3> QED  BY <3>1, <3>2
  <2> QED  BY <1>1, <2>1 DEF Chain
\* From the nodes that are at most c below Nil the scan is defined.
<1> DEFINE Part(c) == {x \in D : Nil - x <= c}
           Scans(c) ==
             {f \in [Part(c) -> Seq(TsKeys)] :
                \A x \in Part(c) :
                  f[x] = IF Ends(x) THEN <<>> ELSE <<x>> \o f[nx[x]]}
           Bad == {c \in Nat : Scans(c) = {}}
<1>4. Bad = {}
  <2>1. SUFFICES ASSUME Bad # {} PROVE FALSE
    OBVIOUS
  <2>2. PICK c \in Nat :
          Scans(c) = {} /\ \A y \in Nat : Scans(y) = {} => c <= y
    <3>1. PICK c \in Bad : \A y \in Bad : c <= y
      <4>1. Bad \in SUBSET Nat
        OBVIOUS
      <4> HIDE DEF Bad
      <4> QED  BY <2>1, <4>1, LeastExists
    <3> HIDE DEF Scans
    <3> QED  BY <3>1
  <2> HIDE DEF Scans
  <2>3. \A x \in D : Nil - x \in Nat /\ x \in Int
    BY <1>2
  <2>4. c # 0
    <3> DEFINE f == [x \in Part(0) |-> <<>>]
    <3>1. \A x \in Part(0) : Ends(x)
      BY <1>2, <2>3
    <3>2. f \in [Part(0) -> Seq(TsKeys)]
      <4>1. <<>> \in Seq(TsKeys)
        OBVIOUS
      <4> HIDE DEF Part
      <4> QED  BY <4>1
    <3>3. f \in Scans(0)
      <4> HIDE DEF Part, Ends
      <4> QED  BY <3>1, <3>2 DEF Scans
    <3> QED  BY <2>2, <3>3
  <2>5. c \in Nat /\ c - 1 \in Nat /\ ~(c <= c - 1)
    BY <2>4
  <2>6. PICK f : f \in Scans(c - 1)
    BY <2>2, <2>5
  <2>7. /\ f \in [Part(c - 1) -> Seq(TsKeys)]
        /\ \A x \in Part(c - 1) :
             f[x] = IF Ends(x) THEN <<>> ELSE <<x>> \o f[nx[x]]
    <3> HIDE DEF Part, Ends
    <3> QED  BY <2>6 DEF Scans
  <2> DEFINE F(x) == IF Ends(x) THEN <<>> ELSE <<x>> \o f[nx[x]]
             g == [x \in Part(c) |-> F(x)]
  <2>8. ASSUME NEW x \in Part(c), ~Ends(x)
        PROVE  x \in TsKeys /\ nx[x] \in Part(c - 1) /\ nx[x] \in Part(c)
    <3>1. x \in TsKeys /\ Nil - x <= c
      BY <2>8
    <3>2. nx[x] \in D /\ x < nx[x] /\ nx[x] \in Int /\ x \in Int
      BY <1>2, <1>3, <3>1
    <3>3. Nil - nx[x] <= c - 1 /\ Nil - nx[x] <= c
      BY <1>2, <2>5, <3>1, <3>2
    <3> QED  BY <3>1, <3>2, <3>3
  <2>9. g \in [Part(c) -> Seq(TsKeys)]
    <3>1. ASSUME NEW x \in Part(c) PROVE F(x) \in Seq(TsKeys)
      <4>1. CASE Ends(x)
        BY <4>1
      <4>2. CASE ~Ends(x)
        <5>1. x \in TsKeys /\ f[nx[x]] \in Seq(TsKeys)
          <6> HIDE DEF Part, Ends
          <6> QED  BY <2>7, <2>8, <4>2
        <5> HIDE DEF Part, Ends
        <5>2. <<x>> \o f[nx[x]] \in Seq(TsKeys)
          BY <5>1
        <5> QED  BY <4>2, <5>2
      <4> QED  BY <4>1, <4>2
    <3> HIDE DEF Part, F
    <3> QED  BY <3>1
  <2>10. \A x \in Part(c - 1) : x \in Part(c) /\ F(x) = f[x]
    <3>1. \A x \in Part(c - 1) : x \in Part(c)
      BY <2>3, <2>5
    <3> HIDE DEF Part, Ends
    <3> QED  BY <2>7, <3>1
  <2>11. ASSUME NEW x \in Part(c)
         PROVE  g[x] = IF Ends(x) THEN <<>> ELSE <<x>> \o g[nx[x]]
    <3>1. ~Ends(x) => g[nx[x]] = f[nx[x]]
      <4> HIDE DEF Part, F, Ends
      <4> QED  BY <2>8, <2>10
    <3> HIDE DEF Part, Ends
    <3> QED  BY <3>1
  <2>12. g \in Scans(c)
    <3> HIDE DEF Part, g, Ends
    <3> QED  BY <2>9, <2>11 DEF Scans
  <2> HIDE DEF g
  <2> QED  BY <2>2, <2>12
<1>5. \E f : f = Step(f)
  <2>1. CASE TsKeys = {}
    <3>1. [x \in D |-> <<>>] = Step([x \in D |-> <<>>])
      BY <2>1
    <3> HIDE DEF Step
    <3> QED  BY <3>1
  <2>2. CASE TsKeys # {}
    <3>1. Nil - HeadNode \in Nat
      <4>1. PICK t \in TsKeys : HeadNode < t /\ t < Nil /\ t \in Int
        BY <1>2, <2>2
      <4> QED  BY <1>2, <4>1
    <3>2. Part(Nil - HeadNode) = D
      <4>1. ASSUME NEW x \in D PROVE Nil - x <= Nil - HeadNode
        <5>1. CASE x = Nil
          BY <1>2, <3>1, <5>1
        <5>2. CASE x \in TsKeys
          <6>1. HeadNode < x /\ x \in Int
            BY <1>2, <5>2
          <6> QED  BY <1>2, <6>1
        <5> QED  BY <5>1, <5>2
      <4> QED  BY <4>1
    <3>3. PICK c \in Nat : Part(c) = D
      <4> HIDE DEF Part, D
      <4> QED  BY <3>1, <3>2
    <3>4. PICK f : f \in Scans(c)
      <4> HIDE DEF Scans
      <4> QED  BY <1>4
    <3>5. /\ f \in [D -> Seq(TsKeys)]
          /\ \A x \in D :
               f[x] = IF Ends(x) THEN <<>> ELSE <<x>> \o f[nx[x]]
      <4> HIDE DEF Part, D, Ends
      <4> QED  BY <3>3, <3>4
    <3>6. f = [x \in D |-> f[x]]
      BY <3>5
    <3>7. f = Step(f)
      <4> HIDE DEF D, Ends
      <4> QED  BY <3>5, <3>6
    <3> HIDE DEF Step
    <3> QED  BY <3>7
  <2> QED  BY <2>1, <2>2
<1> DEFINE g == CHOOSE f : f = Step(f)
<1>6. g = Step(g)
  <2> HIDE DEF Step
  <2> QED  BY <1>5
<1>7. PICK h : h = g
  OBVIOUS
<1>8. \A x \in D : h[x] = IF Ends(x) THEN <<>> ELSE <<x>> \o h[nx[x]]
  <2>1. h = Step(h)
    <3> HIDE DEF Step, g
    <3> QED  BY <1>6, <1>7
  <2>2. h = [x \in D |-> IF Ends(x) THEN <<>> ELSE <<x>> \o h[nx[x]]]
    BY <2>1
  <2> HIDE DEF D, Ends
  <2> QED  BY <2>2, Zenon
<1>9. ScanTo(b) = g
  BY <1>1 DEF ScanTo
\* The last node from which the scan went wrong would have a successor.
<1> DEFINE Within(x) == {m \in S : x <= m /\ m <= b}
           Good(x) == /\ h[x] \in Seq(TsKeys)
                      /\ \A i, j \in 1 .. Len(h[x]) : i < j => h[x][i] < h[x][j]
                      /\ {h[x][i] : i \in 1 .. Len(h[x])} = Within(x)
<1>9a. ASSUME NEW x \in S \cup {Nil}, Ends(x) PROVE Within(x) = {}
  <2>1. SUFFICES ASSUME NEW m \in S, x <= m, m <= b PROVE FALSE
    OBVIOUS
  <2>2. m \in Int /\ m < Nil /\ x \in Int
    BY <1>2
  <2> QED  BY <1>2, <1>9a, <2>1, <2>2
<1>9b. ASSUME NEW x \in S, ~Ends(x)
       PROVE  /\ x < nx[x] /\ x <= b /\ x \in Int /\ nx[x] \in Int
              /\ Within(x) = {x} \cup Within(nx[x])
  <2>1. x < nx[x] /\ x \in Int /\ nx[x] \in S \cup {Nil}
    BY <1>2, <1>3
  <2>2. x <= b /\ nx[x] \in Int
    <3>1. ~(x = Nil \/ x > b)
      BY <1>9b
    <3>2. nx[x] \in Int
      BY <1>2, <2>1
    <3> QED  BY <2>1, <3>1, <3>2
  <2>3. ASSUME NEW m \in S PROVE x <= m <=> m = x \/ nx[x] <= m
    <3>1. m \in Int /\ ~(x < m /\ m < nx[x])
      BY <1>2, <1>3
    <3> QED  BY <2>1, <2>2, <3>1
  <2> QED  BY <2>1, <2>2, <2>3
<1>10. ASSUME NEW x \in S \cup {Nil}, Ends(x) PROVE Good(x)
  <2>1. h[x] = <<>>
    BY <1>2, <1>8, <1>10
  <2>2. Within(x) = {}
    BY <1>10, <1>9a
  <2>3. h[x] \in Seq(TsKeys) /\ Len(h[x]) = 0
    BY <2>1
  <2>4. {h[x][i] : i \in 1 .. Len(h[x])} = {}
    BY <2>3
  <2> HIDE DEF Within
  <2> QED  BY <2>2, <2>3, <2>4
<1>11. ASSUME NEW x \in S, ~Ends(x), Good(nx[x]) PROVE Good(x)
  <2>1. PICK t, u : t = h[nx[x]] /\ u = h[x]
    OBVIOUS
  <2>2. u = <<x>> \o t /\ x \in TsKeys
    BY <1>2, <1>8, <1>11, <2>1
  <2>3. PICK L \in Nat : L = Len(t)
    BY <1>11, <2>1
  <2>4. t \in Seq(TsKeys)
    BY <1>11, <2>1
  <2>5. /\ u \in Seq(TsKeys) /\ Len(u) = L + 1 /\ u[1] = x
        /\ \A i \in 2 .. L + 1 : u[i] = t[i - 1]
    BY <2>2, <2>3, <2>4
  <2>6. {t[i] : i \in 1 .. L} = Within(nx[x])
    BY <1>11, <2>1, <2>3
  <2>7. \A i, j \in 1 .. L : i < j => t[i] < t[j]
    BY <1>11, <2>1, <2>3
  <2>8. Within(x) = {x} \cup Within(nx[x])
    BY <1>11, <1>9b
  <2>9. \A i \in 2 .. L + 1 : i - 1 \in 1 .. L
    OBVIOUS
  <2>10. \A i \in 1 .. L : i + 1 \in 2 .. L + 1 /\ u[i + 1] = t[i]
    BY <2>5
  <2>11. {u[i] : i \in 1 .. L + 1} = {x} \cup {t[i] : i \in 1 .. L}
    <3>1. \A i \in 1 .. L + 1 : i = 1 \/ i \in 2 .. L + 1
      OBVIOUS
    <3>2. \A i \in 1 .. L : i + 1 \in 1 .. L + 1
      OBVIOUS
    <3>3. 1 \in 1 .. L + 1
      OBVIOUS
    <3>4. ASSUME NEW i \in 1 .. L + 1
          PROVE  u[i] \in {x} \cup {t[j] : j \in 1 .. L}
      <4>1. CASE i = 1
        BY <2>5, <4>1
      <4>2. CASE i \in 2 .. L + 1
        BY <2>5, <2>9, <4>2
      <4> QED  BY <3>1, <4>1, <4>2
    <3>5. \A i \in 1 .. L : t[i] \in {u[j] : j \in 1 .. L + 1}
      BY <2>10, <3>2
    <3>6. x \in {u[j] : j \in 1 .. L + 1}
      BY <2>5, <3>3
    <3> QED  BY <3>4, <3>5, <3>6
  <2>12. ASSUME NEW i \in 1 .. L + 1, NEW j \in 1 .. L + 1, i < j
         PROVE  u[i] < u[j]
    <3>1. j \in 2 .. L + 1 /\ u[j] = t[j - 1] /\ j - 1 \in 1 .. L
      BY <2>5, <2>12
    <3>2. CASE i = 1
      <4>1. t[j - 1] \in Within(nx[x])
        BY <2>6, <3>1
      <4>2. x < nx[x] /\ nx[x] <= t[j - 1] /\ x \in Int /\ nx[x] \in Int
            /\ t[j - 1] \in Int
        BY <1>2, <1>3, <1>11, <4>1
      <4> QED  BY <2>5, <3>1, <3>2, <4>2
    <3>3. CASE i # 1
      <4>1. i \in 2 .. L + 1 /\ i - 1 \in 1 .. L /\ i - 1 < j - 1
        BY <2>12, <3>3
      <4> QED  BY <2>5, <2>7, <3>1, <4>1
    <3> QED  BY <3>2, <3>3
  <2>13. {u[i] : i \in 1 .. L + 1} = Within(x)
    <3> HIDE DEF Within
    <3> QED  BY <2>6, <2>8, <2>11
  <2> HIDE DEF Within
  <2> QED  BY <2>1, <2>5, <2>12, <2>13
<1> DEFINE B == {x \in S : ~Good(x)}
<1>12. Good(Nil)
  BY <1>10
<1>13. B = {}
  <2>1. SUFFICES ASSUME B # {} PROVE FALSE
    OBVIOUS
  <2>2. PICK x \in B : \A y \in B : y <= x
    <3>1. B \in SUBSET TsKeys
      BY <1>2
    <3> HIDE DEF B
    <3> QED  BY <2>1, <3>1, LastExists
  <2> HIDE DEF Good
  <2>3. x \in S /\ ~Good(x)
    OBVIOUS
  <2>4. ~Good(nx[x]) /\ nx[x] \in S \cup {Nil}
    BY <1>3, <1>10, <1>11, <2>3
  <2>5. nx[x] \in S
    BY <1>12, <2>4
  <2>6. nx[x] <= x
    BY <2>2, <2>4, <2>5
  <2>7. x < nx[x] /\ x \in Int /\ nx[x] \in Int
    BY <1>2, <1>3, <2>3, <2>5
  <2> QED  BY <2>6, <2>7
<1>14. Good(n)
  <2> HIDE DEF Good
  <2> QED  BY <1>12, <1>13
<1> HIDE DEF g
<1> QED  BY <1>7, <1>9, <1>14

\* The links nx of a list once node k is put in behind node p.
Spliced(nx, p, k) == [nx EXCEPT ![k] = nx[p], ![p] = k]

\* Splicing a new node in behind the last one below it keeps a list a list.
LEMMA ChainSpliced ==
  ASSUME NEW nx, NEW S, Chain(nx, S), NEW k \in TsKeys, k \notin S,
         NEW p, IsBefore(p, S, k)
  PROVE  Chain(Spliced(nx, p, k), S \cup {k})
<1>1. PICK ny : ny = Spliced(nx, p, k)
  OBVIOUS
<1>2. /\ S \subseteq TsKeys /\ TsKeys \subseteq Int
      /\ HeadNode \in Int /\ Nil \in Int
      /\ \A m \in TsKeys : HeadNode < m /\ m < Nil
  BY NodesAssumption DEF Chain
<1>3. /\ nx \in [Nodes -> TsKeys \cup {Nil}]
      /\ \A n \in S \cup {HeadNode} :
           /\ nx[n] \in S \cup {Nil} /\ n < nx[n]
           /\ \A m \in S : ~(n < m /\ m < nx[n])
      /\ \A n \in TsKeys \ S : nx[n] = Nil
  BY DEF Chain
<1>4. /\ p \in S \cup {HeadNode} /\ p < k /\ p # k
      /\ p \in Int /\ k \in Int /\ k < Nil /\ HeadNode < k
      /\ \A m \in S : m < k => m <= p
  BY <1>2 DEF IsBefore
<1>5. p \in Nodes /\ k \in Nodes
  BY <1>2, <1>4 DEF Nodes
<1>6. /\ ny \in [Nodes -> TsKeys \cup {Nil}] /\ ny[p] = k /\ ny[k] = nx[p]
      /\ \A n \in Nodes \ {k, p} : ny[n] = nx[n]
  BY <1>1, <1>3, <1>4, <1>5 DEF Spliced
<1>7. nx[p] \in S \cup {Nil} /\ nx[p] \in Int /\ k < nx[p]
  <2>1. nx[p] \in S \cup {Nil} /\ p < nx[p]
    BY <1>3, <1>4
  <2>2. nx[p] \in Int
    BY <1>2, <2>1
  <2>3. CASE nx[p] = Nil
    BY <1>2, <1>4, <2>3
  <2>4. CASE nx[p] \in S
    <3>1. nx[p] # k /\ ~(nx[p] < k)
      BY <1>4, <2>1, <2>2, <2>4
    <3> QED  BY <1>4, <2>1, <2>2, <3>1
  <2> QED  BY <2>1, <2>3, <2>4
<1>8. ASSUME NEW n \in S \cup {k, HeadNode}
      PROVE  /\ ny[n] \in S \cup {k, Nil} /\ n < ny[n]
             /\ \A m \in S \cup {k} : ~(n < m /\ m < ny[n])
  <2>1. CASE n = k
    <3>1. ny[n] \in S \cup {k, Nil} /\ n < ny[n]
      BY <1>6, <1>7, <2>1
    <3>2. ASSUME NEW m \in S, n < m, m < ny[n] PROVE FALSE
      <4>1. p < m /\ m < nx[p]
        BY <1>2, <1>4, <1>6, <2>1, <3>2
      <4> QED  BY <1>3, <1>4, <4>1
    <3> QED  BY <1>4, <2>1, <3>1, <3>2
  <2>2. CASE n = p
    <3>1. ny[n] \in S \cup {k, Nil} /\ n < ny[n]
      BY <1>4, <1>6, <2>2
    <3>2. ASSUME NEW m \in S, n < m, m < ny[n] PROVE FALSE
      <4>1. m \in Int /\ m < k /\ p < m
        BY <1>2, <1>6, <2>2, <3>2
      <4> QED  BY <1>4, <4>1
    <3> QED  BY <1>4, <1>6, <2>2, <3>1, <3>2
  <2>3. CASE n # k /\ n # p
    <3>1. n \in S \cup {HeadNode} /\ n \in Nodes \ {k, p} /\ n \in Int
      BY <1>2, <2>3 DEF Nodes
    <3>2. /\ ny[n] = nx[n] /\ ny[n] \in S \cup {Nil} /\ n < ny[n]
          /\ \A m \in S : ~(n < m /\ m < ny[n])
      BY <1>3, <1>6, <3>1
    <3>3. ny[n] \in Int
      BY <1>2, <3>2
    <3>4. ASSUME n < k, k < ny[n] PROVE FALSE
      <4>1. n <= p
        BY <1>2, <1>4, <3>1, <3>4
      <4>2. n < p /\ p < ny[n] /\ p \in S
        BY <1>2, <1>4, <2>3, <3>1, <3>3, <3>4, <4>1
      <4> QED  BY <3>2, <4>2
    <3> QED  BY <3>2, <3>4
  <2> QED  BY <2>1, <2>2, <2>3
<1>9. \A n \in TsKeys \ (S \cup {k}) : ny[n] = Nil
  <2>1. ASSUME NEW n \in TsKeys \ (S \cup {k}) PROVE ny[n] = Nil
    <3>1. n # p /\ n \in Nodes \ {k, p}
      BY <1>2, <1>4 DEF Nodes
    <3> QED  BY <1>3, <1>6, <3>1
  <2> QED  BY <2>1
<1>10. Chain(ny, S \cup {k})
  <2>1. S \cup {k} \subseteq TsKeys
    BY <1>2
  <2> QED  BY <1>6, <1>8, <1>9, <2>1 DEF Chain
<1> QED  BY <1>1, <1>10

\* A write keeps the lists lists, whatever the height of the new node: it goes
\* behind the last node below it on each of its levels.
LEMMA WriteKeeps ==
  ASSUME MemInv, NEW k \in TsKeys, NEW e \in Entries, NEW h \in 1 .. MaxHeight,
         MemWrite(k, e, h)
  PROVE  MemInv'
<1>1. PICK S : Linked(S)
  BY DEF MemInv
<1>2. /\ S[0] = {x \in TsKeys : entry[x] # NoEntry}
      /\ \A l \in Levels : Chain(next[l], S[l])
      /\ \A l \in Levels : l > 0 => S[l] \subseteq S[l - 1]
      /\ \A l \in Levels : l >= height => S[l] = {}
  BY <1>1 DEF Linked
<1>3. /\ entry' = [entry EXCEPT ![k] = e]
      /\ written' = [written EXCEPT ![k] = e]
      /\ entry = written /\ written \in [TsKeys -> Entries \cup {NoEntry}]
      /\ height \in 1 .. MaxHeight
  BY DEF MemWrite, Insert, MemInv
<1>4. /\ entry' = written' /\ written' \in [TsKeys -> Entries \cup {NoEntry}]
      /\ {x \in TsKeys : entry'[x] # NoEntry} = S[0] \cup {k}
  BY <1>2, <1>3, EntriesAssumption
<1>5. /\ FindGreaterOrEqual(k) \in S[0] \cup {Nil}
      /\ \A m \in S[0] : m >= k => FindGreaterOrEqual(k) <= m
      /\ FindGreaterOrEqual(k) = Nil \/ FindGreaterOrEqual(k) >= k
      /\ k \in Int /\ k # Nil
  <2>1. k \in Int /\ k # Nil
    BY NodesAssumption
  <2> QED  BY <1>1, <1>3, <2>1, FirstNotBelow
<1>6. MaxHeight \in Nat \ {0}
  BY HeightAssumption
<1>7. CASE FindGreaterOrEqual(k) = k
  <2>1. k \in S[0]
    BY <1>5, <1>7
  <2>2. next' = next /\ height' = height
    BY <1>7 DEF MemWrite, Insert
  <2>3. Linked(S)'
    BY <1>2, <1>4, <2>1, <2>2 DEF Linked
  <2> QED  BY <1>3, <1>4, <2>2, <2>3 DEF MemInv
<1>8. CASE FindGreaterOrEqual(k) # k
  <2> DEFINE before(l) == IF l < height THEN Prev(k)[l] ELSE HeadNode
             T == [l \in Levels |-> IF l < h THEN S[l] \cup {k} ELSE S[l]]
  <2>1. /\ next' = [l \in Levels |->
             IF l < h THEN [next[l] EXCEPT ![k] = next[l][before(l)],
                                           ![before(l)] = k]
             ELSE next[l]]
        /\ height' = IF h > height THEN h ELSE height
    BY <1>8 DEF MemWrite, Insert
  <2>2. k \notin S[0]
    <3>1. ASSUME k \in S[0] PROVE FALSE
      <4>1. FindGreaterOrEqual(k) <= k
        BY <1>5, <3>1
      <4>2. FindGreaterOrEqual(k) \in Int /\ (FindGreaterOrEqual(k) = Nil => k < Nil)
        BY <1>2, <1>5, NodesAssumption
      <4> QED  BY <1>5, <1>8, <4>1, <4>2, NodesAssumption
    <3> QED  BY <3>1
  <2>3. \A l \in Levels : k \notin S[l]
    <3> DEFINE B == {l \in Levels : k \in S[l]}
    <3>1. SUFFICES ASSUME B # {} PROVE FALSE
      OBVIOUS
    <3>2. PICK l \in B : \A y \in B : l <= y
      <4>1. B \in SUBSET Nat
        BY <1>6 DEF Levels
      <4> HIDE DEF B
      <4> QED  BY <3>1, <4>1, LeastExists
    <3>3. l \in Levels /\ k \in S[l] /\ l # 0
      BY <2>2
    <3>4. l > 0 /\ l - 1 \in Levels /\ ~(l <= l - 1)
      BY <1>6, <3>3 DEF Levels
    <3>5. k \in S[l - 1]
      BY <1>2, <3>3, <3>4
    <3> QED  BY <3>2, <3>4, <3>5
  <2>4. ASSUME NEW l \in Levels, l < h
        PROVE  IsBefore(before(l), S[l], k)
    <3>1. CASE l < height
      <4>1. l \in 0 .. height - 1
        BY <1>3, <1>6, <3>1 DEF Levels
      <4>2. IsBefore(Prev(k)[l], S[l], k)
        BY <1>1, <1>3, <1>5, <4>1, PrevIs
      <4> QED  BY <3>1, <4>2
    <3>2. CASE ~(l < height)
      <4>1. S[l] = {}
        BY <1>2, <1>3, <1>6, <3>2 DEF Levels
      <4>2. before(l) = HeadNode
        BY <3>2
      <4> HIDE DEF before
      <4> QED  BY <4>1, <4>2 DEF IsBefore
    <3> QED  BY <3>1, <3>2
  <2>5. ASSUME NEW l \in Levels PROVE Chain(next'[l], T[l])
    <3>1. CASE l < h
      <4>1. PICK p, nx, R : p = before(l) /\ nx = next[l] /\ R = S[l]
        OBVIOUS
      <4>2. Chain(Spliced(nx, p, k), R \cup {k})
        <5>1. Chain(nx, R) /\ k \notin R /\ IsBefore(p, R, k)
          BY <1>2, <2>3, <2>4, <3>1, <4>1
        <5> QED  BY <5>1, ChainSpliced
      <4>3. next'[l] = Spliced(nx, p, k)
        <5> HIDE DEF before
        <5> QED  BY <2>1, <3>1, <4>1 DEF Spliced
      <4>4. T[l] = R \cup {k}
        BY <3>1, <4>1
      <4> HIDE DEF T, before
      <4> QED  BY <4>2, <4>3, <4>4
    <3>2. CASE ~(l < h)
      <4>1. next'[l] = next[l]
        <5> HIDE DEF before
        <5> QED  BY <2>1, <3>2
      <4>2. T[l] = S[l]
        BY <3>2
      <4> HIDE DEF T, before
      <4> QED  BY <1>2, <4>1, <4>2
    <3> QED  BY <3>1, <3>2
  <2>6. T[0] = S[0] \cup {k}
    BY <1>6 DEF Levels
  <2>7. ASSUME NEW l \in Levels, l > 0 PROVE T[l] \subseteq T[l - 1]
    <3>1. l - 1 \in Levels /\ l \in Int /\ (l < h => l - 1 < h)
      BY <1>6, <2>7 DEF Levels
    <3>2. S[l] \subseteq S[l - 1]
      BY <1>2, <2>7
    <3> QED  BY <3>1, <3>2
  <2>8. /\ height' \in 1 .. MaxHeight
        /\ \A l \in Levels : l >= height' => l >= height /\ ~(l < h)
    BY <1>3, <1>6, <2>1 DEF Levels
  <2>9. \A l \in Levels : l >= height' => T[l] = {}
    BY <1>2, <2>8
  <2>10. Linked(T)'
    <3> HIDE DEF T
    <3> QED  BY <1>4, <2>5, <2>6, <2>7, <2>9 DEF Linked, Levels
  <2>11. \E R : Linked(R)'
    <3> HIDE DEF T
    <3> QED  BY <2>10
  <2> QED  BY <1>4, <2>8, <2>11 DEF MemInv
<1> QED  BY <1>7, <1>8

LEMMA EmptyIsFine ==
  /\ MemInit => MemInv
  /\ MemReset => MemInv'
<1> DEFINE S == [l \in Levels |-> {}]
<1>1. MaxHeight \in Nat \ {0} /\ 0 \in Levels
  BY HeightAssumption DEF Levels
<1>2. \A l \in Levels : Chain(EmptyList[l], {})
  <2>1. SUFFICES ASSUME NEW l \in Levels PROVE Chain(EmptyList[l], {})
    OBVIOUS
  <2>2. PICK nx : nx = [n \in Nodes |-> Nil] /\ nx = EmptyList[l]
    BY DEF EmptyList, Nodes
  <2>3. HeadNode < Nil
    BY NodesAssumption
  <2>4. Chain(nx, {})
    BY <2>2, <2>3 DEF Chain, Nodes
  <2> QED  BY <2>2, <2>4
<1>3. {k \in TsKeys : NoEntries[k] # NoEntry} = {}
  BY DEF NoEntries
<1>4. NoEntries \in [TsKeys -> Entries \cup {NoEntry}]
  BY DEF NoEntries
<1>5. MemInit => Linked(S)
  BY <1>1, <1>2, <1>3 DEF MemInit, Linked
<1>6. MemReset => Linked(S)'
  BY <1>1, <1>2, <1>3 DEF MemReset, Linked, Levels
<1>7. (MemInit => \E R : Linked(R)) /\ (MemReset => \E R : Linked(R)')
  <2> HIDE DEF S
  <2> QED  BY <1>5, <1>6
<1> QED  BY <1>1, <1>4, <1>7 DEF MemInit, MemReset, MemInv

\* A scan lists the entries between its ends.
LEMMA RangeLists ==
  ASSUME MemInv, NEW a \in Int, NEW b \in Int
  PROVE  /\ Lists(RangeQueryEntries(a, b), written,
                  {k \in TsKeys : a <= k /\ k <= b})
         /\ Len(RangeQueryEntries(a, b)) \in Nat
<1>1. PICK S : Linked(S)
  BY DEF MemInv
<1>2. 0 \in Levels /\ height \in 1 .. MaxHeight /\ entry = written
  BY HeightAssumption DEF MemInv, Levels
<1>3. /\ S[0] = {k \in TsKeys : written[k] # NoEntry}
      /\ Chain(next[0], S[0])
  BY <1>1, <1>2 DEF Linked
<1>4. PICK n : n = FindGreaterOrEqual(a)
  OBVIOUS
<1>5. /\ n \in S[0] \cup {Nil} /\ (n = Nil \/ n >= a)
      /\ \A m \in S[0] : m >= a => n <= m
  BY <1>1, <1>2, <1>4, FirstNotBelow
<1>6. PICK s : s = ScanTo(b)[n]
  OBVIOUS
<1>7. /\ s \in Seq(TsKeys)
      /\ \A i, j \in 1 .. Len(s) : i < j => s[i] < s[j]
      /\ {s[i] : i \in 1 .. Len(s)} = {m \in S[0] : n <= m /\ m <= b}
  <2>1. PICK R : R = S[0]
    OBVIOUS
  <2> QED  BY <1>3, <1>5, <1>6, <2>1, ScanIs
<1>8. {m \in S[0] : n <= m /\ m <= b} = {m \in S[0] : a <= m /\ m <= b}
  <2>1. ASSUME NEW m \in S[0] PROVE n <= m <=> a <= m
    <3>1. m \in Int /\ m < Nil /\ Nil \in Int /\ n \in Int
      BY <1>3, <1>5, NodesAssumption
    <3> QED  BY <1>5, <3>1
  <2> QED  BY <2>1
<1>9. PICK L \in Nat : L = Len(s)
  BY <1>7
<1>10. PICK r : /\ r = RangeQueryEntries(a, b)
                /\ r = [i \in 1 .. L |-> [key |-> s[i], entry |-> entry[s[i]]]]
  BY <1>4, <1>6, <1>9 DEF RangeQueryEntries
<1>11. /\ Len(r) = L
       /\ \A i \in 1 .. L : r[i].key = s[i] /\ r[i].entry = written[s[i]]
  BY <1>2, <1>9, <1>10
<1>12. \A i, j \in 1 .. Len(r) : i < j => r[i].key < r[j].key
  BY <1>7, <1>9, <1>11
<1>13. PICK K : K = {k \in TsKeys : a <= k /\ k <= b}
  OBVIOUS
<1>14. {x \in K : written[x] # NoEntry} = {s[i] : i \in 1 .. L}
  BY <1>3, <1>7, <1>8, <1>9, <1>13
<1>15. {<<r[i].key, r[i].entry>> : i \in 1 .. Len(r)}
         = {<<k, written[k]>> : k \in {x \in K : written[x] # NoEntry}}
  <2>1. {<<r[i].key, r[i].entry>> : i \in 1 .. Len(r)}
          = {<<s[i], written[s[i]]>> : i \in 1 .. L}
    BY <1>11
  <2>2. {<<s[i], written[s[i]]>> : i \in 1 .. L}
          = {<<k, written[k]>> : k \in {s[i] : i \in 1 .. L}}
    OBVIOUS
  <2> QED  BY <1>14, <2>1, <2>2
<1>16. Lists(r, written, K)
  BY ONLY <1>12, <1>15 DEF Lists
<1> QED  BY <1>10, <1>11, <1>13, <1>16

\* What the lists of MemInv say of lookups, scans and the flush.
LEMMA MemFinds ==
  ASSUME MemInv
  PROVE  MemTableFindsWhatWasWritten
<1>1. TsKeys \subseteq Int /\ Nil \in Int /\ DefaultKey \in Int
      /\ \A k \in TsKeys : k < Nil
  BY NodesAssumption
<1>2. ASSUME NEW k \in TsKeys PROVE GetEntry(k) = written[k]
  <2>1. PICK S : Linked(S)
    BY DEF MemInv
  <2>2. /\ height \in 1 .. MaxHeight /\ entry = written
        /\ S[0] = {x \in TsKeys : entry[x] # NoEntry}
    BY <2>1 DEF MemInv, Linked
  <2>3. PICK n : n = FindGreaterOrEqual(k)
    OBVIOUS
  <2>4. /\ n \in S[0] \cup {Nil} /\ (n = Nil \/ n >= k)
        /\ \A m \in S[0] : m >= k => n <= m
    BY <1>1, <2>1, <2>2, <2>3, FirstNotBelow
  <2>5. ASSUME k \in S[0] PROVE n = k
    <3>1. n <= k /\ k \in Int /\ n \in Int /\ k < Nil
      <4>1. k >= k /\ k \in Int /\ k < Nil
        BY <1>1
      <4>2. n \in Int
        BY <1>1, <2>2, <2>4
      <4> QED  BY <2>4, <2>5, <4>1, <4>2
    <3> QED  BY <2>4, <3>1
  <2> QED  BY <2>2, <2>3, <2>5 DEF GetEntry
<1>3. ASSUME NEW a \in TsKeys, NEW b \in TsKeys
      PROVE  Lists(RangeQueryEntries(a, b), written,
                   {k \in TsKeys : a <= k /\ k <= b})
  BY <1>1, RangeLists
<1>4. Lists(IterateEntries, written, {k \in TsKeys : k >= DefaultKey})
  <2>1. {k \in TsKeys : DefaultKey <= k /\ k <= Nil}
          = {k \in TsKeys : k >= DefaultKey}
    <3>1. ASSUME NEW k \in TsKeys
          PROVE  DefaultKey <= k /\ k <= Nil <=> k >= DefaultKey
      <4>1. k \in Int /\ k < Nil
        BY <1>1
      <4> QED  BY <1>1, <4>1
    <3> QED  BY <3>1
  <2>2. Lists(RangeQueryEntries(DefaultKey, Nil), written,
              {k \in TsKeys : DefaultKey <= k /\ k <= Nil})
    BY <1>1, RangeLists
  <2> QED  BY <2>1, <2>2 DEF IterateEntries
<1> QED  BY <1>2, <1>3, <1>4 DEF MemTableFindsWhatWasWritten
-----------------------------------------------------------------------------
(* SSTables, from the builder to the reader.                               *)

\* What a flush hands to the builder.
Rows == [key : Keys, entry : Entries, size : Nat]

InOrder(s) == \A i, j \in 1 .. Len(s) : i < j => s[i].key < s[j].key

\* The keys of row set A are below those of row set B.
Below(A, B) == \A x \in A, y \in B : x.key < y.key

LEMMA KeysAreInts ==
  ASSUME NEW x \in Rows
  PROVE  x.key \in Keys /\ x.key \in Int
BY TableAssumption DEF Rows

LEMMA ConcatInOrder ==
  ASSUME NEW u \in Seq(Rows), NEW v \in Seq(Rows), InOrder(u), InOrder(v),
         Below(ToSet(u), ToSet(v))
  PROVE  u \o v \in Seq(Rows) /\ InOrder(u \o v)
<1>1. PICK n \in Nat, m \in Nat : n = Len(u) /\ m = Len(v)
  OBVIOUS
<1>2. PICK t : t = u \o v
  OBVIOUS
<1>3. t \in Seq(Rows) /\ Len(t) = n + m
      /\ \A i \in 1 .. n + m : t[i] = IF i <= n THEN u[i] ELSE v[i - n]
  BY <1>1, <1>2, ConcatProperties
<1>4. ToSet(u) = {u[i] : i \in 1 .. n} /\ ToSet(v) = {v[i] : i \in 1 .. m}
  BY <1>1 DEF ToSet
<1>5. ASSUME NEW i \in 1 .. n + m, NEW j \in 1 .. n + m, i < j
      PROVE  t[i].key < t[j].key
  <2>1. CASE j <= n
    <3>1. i \in 1 .. n /\ j \in 1 .. n /\ t[i] = u[i] /\ t[j] = u[j]
      BY <1>3, <1>5, <2>1
    <3> QED  BY <1>1, <1>5, <3>1 DEF InOrder
  <2>2. CASE i <= n /\ ~(j <= n)
    <3>1. i \in 1 .. n /\ j - n \in 1 .. m /\ t[i] = u[i] /\ t[j] = v[j - n]
      BY <1>3, <2>2
    <3> QED  BY <1>4, <3>1 DEF Below
  <2>3. CASE ~(i <= n)
    <3>1. /\ i - n \in 1 .. m /\ j - n \in 1 .. m /\ i - n < j - n
          /\ t[i] = v[i - n] /\ t[j] = v[j - n]
      BY <1>3, <1>5, <2>3
    <3> QED  BY <1>1, <3>1 DEF InOrder
  <2> QED  BY <2>1, <2>2, <2>3
<1> QED  BY <1>2, <1>3, <1>5 DEF InOrder

LEMMA OneInOrder ==
  ASSUME NEW e \in Rows
  PROVE  /\ <<e>> \in Seq(Rows) /\ InOrder(<<e>>) /\ ToSet(<<e>>) = {e}
         /\ <<>> \in Seq(Rows) /\ InOrder(<<>>) /\ ToSet(<<>>) = {}
BY DEF InOrder, ToSet

\* The rows of a block that a query asks for, as the loop collects them.
LEMMA MatchesIs ==
  ASSUME NEW q, q.begin \in Int, q.end \in Int,
         NEW s \in Seq(Rows), InOrder(s)
  PROVE  /\ Matches(q, s) \in Seq(Rows) /\ InOrder(Matches(q, s))
         /\ ToSet(Matches(q, s)) = {e \in ToSet(s) : InRange(q, e)}
<1>1. PICK L \in Nat : L = Len(s)
  OBVIOUS
<1>2. \A n \in 1 .. L : s[n] \in Rows
  BY <1>1
<1> DEFINE g == [n \in 1 .. L |-> IF InRange(q, s[n]) THEN <<s[n]>> ELSE <<>>]
           Of(n) == {f \in [0 .. n -> Seq(Rows)] :
                       f[0] = <<>> /\ \A k \in 1 .. n : f[k] = f[k - 1] \o g[k]}
           B == {n \in 0 .. L : Of(n) = {}}
<1>3. g \in [1 .. L -> Seq(Rows)]
  BY <1>2
<1>4. B = {}
  <2> HIDE DEF g
  <2>1. SUFFICES ASSUME B # {} PROVE FALSE
    OBVIOUS
  <2>2. PICK m \in Nat : m \in B /\ \A t \in B : m <= t
    <3>1. B \in SUBSET Nat
      <4> HIDE DEF Of
      <4> QED  OBVIOUS
    <3> HIDE DEF B
    <3> QED  BY <2>1, <3>1, LeastExists
  <2>3. m # 0
    <3>1. [k \in 0 .. 0 |-> <<>>] \in Of(0)
      <4>1. <<>> \in Seq(Rows)
        OBVIOUS
      <4> QED  BY <4>1
    <3> HIDE DEF Of
    <3> QED  BY <2>2, <3>1
  <2>4. m \in 1 .. L /\ m - 1 \in 0 .. L /\ m - 1 \notin B
    <3>1. m \in 0 .. L
      BY <2>2
    <3> HIDE DEF B
    <3> QED  BY <2>2, <2>3, <3>1
  <2>5. PICK f \in Of(m - 1) : TRUE
    BY <2>4
  <2>6. f \in [0 .. m - 1 -> Seq(Rows)] /\ f[0] = <<>>
        /\ \A k \in 1 .. m - 1 : f[k] = f[k - 1] \o g[k]
    BY <2>5
  <2>7. PICK last : last = f[m - 1] \o g[m] /\ last \in Seq(Rows)
    <3>1. PICK u, v : u = f[m - 1] /\ v = g[m] /\ u \in Seq(Rows) /\ v \in Seq(Rows)
      BY <1>3, <2>4, <2>6
    <3>2. u \o v \in Seq(Rows)
      BY ONLY <3>1, ConcatProperties
    <3> QED  BY <3>1, <3>2
  <2> DEFINE h == [k \in 0 .. m |-> IF k = m THEN last ELSE f[k]]
  <2>8. h \in [0 .. m -> Seq(Rows)]
    <3>1. \A k \in 0 .. m : k # m => k \in 0 .. m - 1
      BY <2>4
    <3> QED  BY <2>6, <2>7, <3>1
  <2>9. h[0] = <<>> /\ h[m] = last
    BY <2>4, <2>6
  <2>10. \A k \in 0 .. m - 1 : h[k] = f[k]
    BY <2>4
  <2>11. ASSUME NEW k \in 1 .. m PROVE h[k] = h[k - 1] \o g[k]
    <3>1. k - 1 \in 0 .. m - 1
      BY <2>4
    <3>2. CASE k = m
      <4> HIDE DEF h
      <4> QED  BY <2>7, <2>9, <2>10, <3>1, <3>2
    <3>3. CASE k # m
      <4>1. k \in 1 .. m - 1 /\ k \in 0 .. m - 1
        BY <2>4, <3>3
      <4> HIDE DEF h
      <4> QED  BY <2>6, <2>10, <3>1, <4>1
    <3> QED  BY <3>2, <3>3
  <2>12. h \in Of(m)
    <3> HIDE DEF h
    <3> QED  BY <2>8, <2>9, <2>11
  <2> HIDE DEF h, Of
  <2> QED  BY <2>2, <2>12
<1>5. PICK f : f \in [0 .. L -> Seq(Rows)] /\ f[0] = <<>>
               /\ \A k \in 1 .. L : f[k] = f[k - 1] \o g[k]
  <2>1. L \in 0 .. L
    OBVIOUS
  <2>2. Of(L) # {}
    <3> HIDE DEF Of
    <3> QED  BY <1>4, <2>1
  <2> HIDE DEF g
  <2> QED  BY <2>2
<1> DEFINE Step(w) == [n \in 0 .. Len(s) |->
              IF n = 0 THEN <<>>
              ELSE w[n - 1] \o IF InRange(q, s[n]) THEN <<s[n]>> ELSE <<>>]
           fix == CHOOSE w : w = Step(w)
<1>6. f = Step(f)
  <2>1. f = [n \in 0 .. L |-> f[n]]
    BY <1>5
  <2>2. ASSUME NEW n \in 0 .. L
        PROVE  f[n] = IF n = 0 THEN <<>>
               ELSE f[n - 1] \o IF InRange(q, s[n]) THEN <<s[n]>> ELSE <<>>
    <3>1. CASE n = 0
      BY <1>5, <3>1
    <3>2. CASE n # 0
      <4>1. n \in 1 .. L
        BY <3>2
      <4>2. g[n] = IF InRange(q, s[n]) THEN <<s[n]>> ELSE <<>>
        BY <4>1
      <4> HIDE DEF g
      <4> QED  BY <1>5, <3>2, <4>1, <4>2
    <3> QED  BY <3>1, <3>2
  <2> HIDE DEF g
  <2> QED  BY <1>1, <2>1, <2>2
<1>7. fix = Step(fix)
  <2> HIDE DEF Step
  <2> QED  BY <1>6
<1>8. Matches(q, s) = fix[L]
  BY <1>1 DEF Matches
<1>9. PICK x : x = fix
  OBVIOUS
<1>10. /\ x[0] = <<>>
       /\ \A n \in 1 .. L : x[n] = x[n - 1] \o g[n]
  <2>1. x = Step(x)
    BY <1>7, <1>9
  <2>2. \A n \in 0 .. L : x[n] = Step(x)[n]
    <3> HIDE DEF Step
    <3> QED  BY <2>1
  <2>3. x[0] = <<>>
    <3>1. 0 \in 0 .. L
      OBVIOUS
    <3>2. Step(x)[0] = <<>>
      BY <1>1, <3>1
    <3> HIDE DEF Step
    <3> QED  BY <2>2, <3>1, <3>2
  <2>4. ASSUME NEW n \in 1 .. L PROVE x[n] = x[n - 1] \o g[n]
    <3>1. n \in 0 .. L /\ n # 0
      OBVIOUS
    <3>2. Step(x)[n] = x[n - 1] \o g[n]
      BY <1>1, <3>1
    <3> HIDE DEF Step
    <3> QED  BY <2>2, <3>1, <3>2
  <2> QED  BY <2>3, <2>4
<1> DEFINE Fine(n) ==
      /\ x[n] \in Seq(Rows) /\ InOrder(x[n])
      /\ ToSet(x[n]) = {e \in {s[i] : i \in 1 .. n} : InRange(q, e)}
           C == {n \in 0 .. L : ~Fine(n)}
<1>11. C = {}
  <2> HIDE DEF fix, g
  <2>1. SUFFICES ASSUME C # {} PROVE FALSE
    OBVIOUS
  <2>2. PICK m \in Nat : m \in C /\ \A t \in C : m <= t
    <3>1. C \in SUBSET Nat
      OBVIOUS
    <3> HIDE DEF C
    <3> QED  BY <2>1, <3>1, LeastExists
  <2>3. Fine(0)
    <3>1. 1 .. 0 = {}
      OBVIOUS
    <3>2. x[0] = <<>>
      BY <1>10
    <3> QED  BY <3>1, <3>2 DEF InOrder, ToSet
  <2>4. m \in 1 .. L /\ m - 1 \in 0 .. L /\ ~Fine(m)
    <3>1. m \in 0 .. L /\ ~Fine(m)
      BY <2>2
    <3> HIDE DEF Fine, C
    <3> QED  BY <2>3, <3>1
  <2>5. Fine(m - 1)
    <3>1. m - 1 \notin C
      <4> HIDE DEF C
      <4> QED  BY <2>2, <2>4
    <3> HIDE DEF Fine
    <3> QED  BY <2>4, <3>1
  <2>6. PICK u, v, e : u = x[m - 1] /\ v = g[m] /\ e = s[m]
    OBVIOUS
  <2>7. e \in Rows /\ v = IF InRange(q, e) THEN <<e>> ELSE <<>>
    BY <1>2, <2>4, <2>6 DEF g
  <2>8. v \in Seq(Rows) /\ InOrder(v)
        /\ ToSet(v) = {y \in {e} : InRange(q, y)}
    BY <2>7, OneInOrder
  <2>9. u \in Seq(Rows) /\ InOrder(u)
        /\ ToSet(u) = {y \in {s[i] : i \in 1 .. m - 1} : InRange(q, y)}
    BY <2>5, <2>6
  <2>10. Below(ToSet(u), ToSet(v))
    <3>1. ASSUME NEW i \in 1 .. m - 1 PROVE s[i].key < e.key
      <4>1. i \in 1 .. L /\ m \in 1 .. L /\ i < m
        BY <2>4
      <4> QED  BY <1>1, <2>6, <4>1 DEF InOrder
    <3> QED  BY <2>8, <2>9, <3>1 DEF Below
  <2>11. x[m] = u \o v
    BY <1>10, <2>4, <2>6
  <2>12. x[m] \in Seq(Rows) /\ InOrder(x[m])
    BY <2>8, <2>9, <2>10, <2>11, ConcatInOrder
  <2>13. ToSet(x[m]) = ToSet(u) \cup ToSet(v)
    BY <2>8, <2>9, <2>11, SetOfConcat
  <2>14. {s[i] : i \in 1 .. m} = {s[i] : i \in 1 .. m - 1} \cup {e}
    <3>1. 1 .. m = (1 .. m - 1) \cup {m}
      BY <2>4
    <3> QED  BY <2>6, <3>1
  <2>15. ToSet(x[m]) = {y \in {s[i] : i \in 1 .. m} : InRange(q, y)}
    BY <2>8, <2>9, <2>13, <2>14
  <2> QED  BY <2>4, <2>12, <2>15
<1>12. Fine(L)
  <2>1. L \in 0 .. L
    OBVIOUS
  <2> HIDE DEF Fine
  <2> QED  BY <1>11, <2>1
<1>13. ToSet(s) = {s[i] : i \in 1 .. L}
  BY <1>1 DEF ToSet
<1> HIDE DEF fix
<1> QED  BY <1>8, <1>9, <1>12, <1>13

\* A table with rows s so far has blocks bs and rows b for the next one: none
\* is empty, and all are in the order of their keys.
Built(s, b, bs) ==
  /\ s \in Seq(Rows) /\ b \in Seq(Rows) /\ bs \in Seq(Seq(Rows))
  /\ InOrder(b)
  /\ \A i \in 1 .. Len(bs) :
       /\ bs[i] # <<>> /\ InOrder(bs[i]) /\ Below(ToSet(bs[i]), ToSet(b))
       /\ \A j \in 1 .. Len(bs) : i < j => Below(ToSet(bs[i]), ToSet(bs[j]))
  /\ ToSet(s) = ToSet(b) \cup UNION {ToSet(bs[i]) : i \in 1 .. Len(bs)}

\* A row above all others joins the buffer.
LEMMA RowBuilds ==
  ASSUME NEW s, NEW b, NEW bs, Built(s, b, bs), NEW e \in Rows,
         Below(ToSet(s), {e})
  PROVE  Built(Append(s, e), Append(b, e), bs)
<1>1. s \in Seq(Rows) /\ b \in Seq(Rows) /\ bs \in Seq(Seq(Rows))
  BY DEF Built
<1>2. PICK n \in Nat : n = Len(bs)
  BY <1>1
<1>3. PICK U : U = UNION {ToSet(bs[i]) : i \in 1 .. n}
  OBVIOUS
<1>4. /\ InOrder(b) /\ ToSet(s) = ToSet(b) \cup U
      /\ \A i \in 1 .. n :
           /\ bs[i] # <<>> /\ InOrder(bs[i]) /\ Below(ToSet(bs[i]), ToSet(b))
           /\ \A j \in 1 .. n : i < j => Below(ToSet(bs[i]), ToSet(bs[j]))
  BY <1>2, <1>3 DEF Built
<1>5. PICK c, r : c = Append(b, e) /\ r = Append(s, e)
  OBVIOUS
<1>6. /\ r \in Seq(Rows) /\ ToSet(r) = ToSet(s) \cup {e}
      /\ c \in Seq(Rows) /\ ToSet(c) = ToSet(b) \cup {e}
  BY <1>1, <1>5, SetOfAppend, AppendProperties
<1>7. InOrder(c)
  <2>1. Below(ToSet(b), ToSet(<<e>>))
    BY <1>4, OneInOrder DEF Below
  <2>2. c = b \o <<e>>
    BY <1>1, <1>5, AppendIsConcat
  <2> QED  BY <1>1, <1>4, <2>1, <2>2, OneInOrder, ConcatInOrder
<1>8. \A i \in 1 .. n : Below(ToSet(bs[i]), ToSet(c))
  <2>1. SUFFICES ASSUME NEW i \in 1 .. n
                 PROVE  Below(ToSet(bs[i]), ToSet(c))
    OBVIOUS
  <2>2. ToSet(bs[i]) \subseteq ToSet(s)
    BY <1>3, <1>4
  <2> QED  BY <1>4, <1>6, <2>2 DEF Below
<1>9. ToSet(r) = ToSet(c) \cup U
  BY <1>4, <1>6
<1> QED  BY <1>1, <1>2, <1>3, <1>4, <1>5, <1>6, <1>7, <1>8, <1>9 DEF Built

\* The buffer becomes the last block.
LEMMA BlockBuilds ==
  ASSUME NEW s, NEW b, NEW bs, Built(s, b, bs), b # <<>>
  PROVE  Built(s, <<>>, Append(bs, b))
<1>1. s \in Seq(Rows) /\ b \in Seq(Rows) /\ bs \in Seq(Seq(Rows))
  BY DEF Built
<1>2. PICK n \in Nat : n = Len(bs)
  BY <1>1
<1>3. /\ InOrder(b) /\ ToSet(s) = ToSet(b) \cup UNION {ToSet(bs[i]) : i \in 1 .. n}
      /\ \A i \in 1 .. n :
           /\ bs[i] # <<>> /\ InOrder(bs[i]) /\ Below(ToSet(bs[i]), ToSet(b))
           /\ \A j \in 1 .. n : i < j => Below(ToSet(bs[i]), ToSet(bs[j]))
  BY <1>2 DEF Built
<1>4. PICK cs : cs = Append(bs, b)
  OBVIOUS
<1>5. /\ cs \in Seq(Seq(Rows)) /\ Len(cs) = n + 1 /\ cs[n + 1] = b
      /\ \A i \in 1 .. n : cs[i] = bs[i]
  BY <1>1, <1>2, <1>4, AppendProperties
<1>6. \A i \in 1 .. n + 1 : i \in 1 .. n \/ i = n + 1
  OBVIOUS
<1>7. \A i \in 1 .. n + 1 : cs[i] # <<>> /\ InOrder(cs[i])
  BY <1>3, <1>5, <1>6
<1>8. ASSUME NEW i \in 1 .. n + 1, NEW j \in 1 .. n + 1, i < j
      PROVE  Below(ToSet(cs[i]), ToSet(cs[j]))
  <2>1. i \in 1 .. n /\ cs[i] = bs[i]
    BY <1>5, <1>8
  <2>2. CASE j = n + 1
    BY <1>3, <1>5, <2>1, <2>2
  <2>3. CASE j \in 1 .. n
    BY <1>3, <1>5, <1>8, <2>1, <2>3
  <2> QED  BY <1>6, <2>2, <2>3
<1>9. {ToSet(cs[i]) : i \in 1 .. n + 1}
        = {ToSet(bs[i]) : i \in 1 .. n} \cup {ToSet(b)}
  <2>1. n + 1 \in 1 .. n + 1 /\ \A i \in 1 .. n : i \in 1 .. n + 1
    OBVIOUS
  <2> QED  BY <1>5, <1>6, <2>1
<1>10. ToSet(s) = UNION {ToSet(cs[i]) : i \in 1 .. n + 1}
  BY <1>3, <1>9
<1>11. ToSet(<<>>) = {} /\ InOrder(<<>>) /\ <<>> \in Seq(Rows)
  BY DEF ToSet, InOrder
<1>12. \A i \in 1 .. n + 1 : Below(ToSet(cs[i]), {})
  BY DEF Below
<1> QED
  BY <1>1, <1>4, <1>5, <1>7, <1>8, <1>10, <1>11, <1>12 DEF Built

\* The inductive invariant of the tables: open ones are complete, and no
\* filter denies a key that was added.
TablesInv ==
  /\ open \subseteq Tables
  /\ added \in [Tables -> Seq(Rows)] /\ buffer \in [Tables -> Seq(Rows)]
  /\ blocks \in [Tables -> Seq(Seq(Rows))] /\ DOMAIN bloom = Tables
  /\ bloom = [t \in Tables |-> bloom[t]]
  /\ \A t \in Tables :
       /\ Built(added[t], buffer[t], blocks[t])
       /\ \A k \in KeysOf(added[t]) : MayContain(bloom[t], k)
       /\ t \in open => buffer[t] = <<>>

\* Add and Finish leave what readers see alone.
OpenStay ==
  /\ open \subseteq open'
  /\ \A t \in open : added'[t] = added[t] /\ blocks'[t] = blocks[t]

\* Add of a row above all others keeps the table well built, and its filter
\* has the bits of all its keys.
LEMMA AddKeeps ==
  ASSUME TablesInv, NEW t \in Tables \ open, NEW e \in Rows,
         Below(ToSet(added[t]), {e}), Add(t, e)
  PROVE  /\ TablesInv' /\ OpenStay
         /\ ToSet(added'[t]) = ToSet(added[t]) \cup {e}
         /\ \A u \in Tables : u # t => added'[u] = added[u]
<1>1. /\ added \in [Tables -> Seq(Rows)] /\ buffer \in [Tables -> Seq(Rows)]
      /\ blocks \in [Tables -> Seq(Seq(Rows))] /\ DOMAIN bloom = Tables
      /\ bloom = [u \in Tables |-> bloom[u]] /\ open \subseteq Tables
      /\ \A u \in Tables :
           /\ Built(added[u], buffer[u], blocks[u])
           /\ \A k \in KeysOf(added[u]) : MayContain(bloom[u], k)
           /\ u \in open => buffer[u] = <<>>
  BY DEF TablesInv
<1>2. PICK s, b, bs, bl : /\ s = added[t] /\ b = buffer[t]
                          /\ bs = blocks[t] /\ bl = bloom[t]
  OBVIOUS
<1>3. PICK r, c : r = Append(s, e) /\ c = Append(b, e)
  OBVIOUS
<1>4. PICK cl : cl = BloomAdd(bl, KeysOf(s), e.key)
  OBVIOUS
<1>5. /\ added' = [added EXCEPT ![t] = r] /\ bloom' = [bloom EXCEPT ![t] = cl]
      /\ open' = open
      /\ \/ blocks' = [blocks EXCEPT ![t] = Append(bs, c)]
           /\ buffer' = [buffer EXCEPT ![t] = <<>>]
         \/ blocks' = blocks /\ buffer' = [buffer EXCEPT ![t] = c]
  BY <1>1, <1>2, <1>3, <1>4 DEF Add
<1>6. Built(r, c, bs)
  BY <1>1, <1>2, <1>3, RowBuilds
<1>7. c # <<>> /\ c \in Seq(Rows) /\ r \in Seq(Rows) /\ s \in Seq(Rows)
      /\ b \in Seq(Rows) /\ bs \in Seq(Seq(Rows))
  <2>1. s \in Seq(Rows) /\ b \in Seq(Rows) /\ bs \in Seq(Seq(Rows))
    BY <1>1, <1>2
  <2> QED  BY ONLY e \in Rows, <1>3, <2>1, AppendProperties
<1>8. Built(r, <<>>, Append(bs, c)) /\ Append(bs, c) \in Seq(Seq(Rows))
  <2>1. Built(r, <<>>, Append(bs, c))
    BY <1>6, <1>7, BlockBuilds
  <2> QED  BY <2>1 DEF Built
<1>9. ToSet(r) = ToSet(s) \cup {e}
  BY <1>3, <1>7, SetOfAppend
<1>10. \A k \in KeysOf(r) : MayContain(cl, k)
  <2>1. KeysOf(r) = KeysOf(s) \cup {e.key}
    BY <1>9 DEF KeysOf
  <2>2. \A k \in KeysOf(s) : Probes(k, bl.size) \subseteq bl.bits
    BY <1>1, <1>2 DEF MayContain
  <2>3. PICK z : z = BloomSize(bl.size, Cardinality(KeysOf(s)) + 1)
    OBVIOUS
  <2>4. /\ cl.size = z
        /\ cl.bits = Probes(e.key, z)
                       \cup IF z = bl.size THEN bl.bits
                            ELSE UNION {Probes(x, z) : x \in KeysOf(s)}
    BY <1>4, <2>3 DEF BloomAdd
  <2> QED  BY <2>1, <2>2, <2>4 DEF MayContain
<1>11. /\ added' \in [Tables -> Seq(Rows)] /\ added'[t] = r
       /\ \A u \in Tables : u # t => added'[u] = added[u]
       /\ DOMAIN bloom' = Tables /\ bloom' = [u \in Tables |-> bloom'[u]]
       /\ bloom'[t] = cl
       /\ \A u \in Tables : u # t => bloom'[u] = bloom[u]
  BY <1>1, <1>5, <1>7
<1>12. /\ blocks' \in [Tables -> Seq(Seq(Rows))]
       /\ buffer' \in [Tables -> Seq(Rows)]
       /\ Built(r, buffer'[t], blocks'[t])
       /\ \A u \in Tables : u # t =>
            blocks'[u] = blocks[u] /\ buffer'[u] = buffer[u]
  <2>1. CASE blocks' = [blocks EXCEPT ![t] = Append(bs, c)]
             /\ buffer' = [buffer EXCEPT ![t] = <<>>]
    <3>1. /\ blocks'[t] = Append(bs, c) /\ buffer'[t] = <<>>
          /\ \A u \in Tables : u # t =>
               blocks'[u] = blocks[u] /\ buffer'[u] = buffer[u]
      BY <1>1, <2>1
    <3>2. <<>> \in Seq(Rows)
      OBVIOUS
    <3>3. /\ blocks' \in [Tables -> Seq(Seq(Rows))]
          /\ buffer' \in [Tables -> Seq(Rows)]
      BY <1>1, <1>8, <2>1, <3>2
    <3> QED  BY <1>8, <3>1, <3>3
  <2>2. CASE blocks' = blocks /\ buffer' = [buffer EXCEPT ![t] = c]
    BY <1>1, <1>2, <1>6, <1>7, <2>2
  <2> QED  BY <1>5, <2>1, <2>2
<1>13. ASSUME NEW u \in Tables
       PROVE  /\ Built(added'[u], buffer'[u], blocks'[u])
              /\ \A k \in KeysOf(added'[u]) : MayContain(bloom'[u], k)
              /\ u \in open => buffer'[u] = <<>>
  <2>1. CASE u = t
    BY <1>10, <1>11, <1>12, <2>1
  <2>2. CASE u # t
    BY <1>1, <1>11, <1>12, <2>2
  <2> QED  BY <2>1, <2>2
<1>14. TablesInv'
  <2>1. \A u \in Tables : \A k \in KeysOf(added'[u]) : MayContain(bloom[u], k)'
    BY <1>13 DEF MayContain, Probes
  <2>2. \A u \in Tables : KeysOf(added[u])' = KeysOf(added'[u])
    BY DEF KeysOf
  <2>3. \A u \in Tables : Built(added[u], buffer[u], blocks[u])'
    BY <1>13 DEF Built, InOrder, Below
  <2> QED
    BY <1>1, <1>5, <1>11, <1>12, <1>13, <2>1, <2>2, <2>3 DEF TablesInv
<1>15. OpenStay
  BY <1>1, <1>5, <1>11, <1>12 DEF OpenStay
<1> QED  BY <1>2, <1>9, <1>11, <1>14, <1>15

\* Finish leaves all rows in the blocks.
LEMMA FinishKeeps ==
  ASSUME TablesInv, NEW t \in Tables \ open, Finish(t)
  PROVE  TablesInv' /\ OpenStay /\ added' = added /\ open' = open \cup {t}
<1>1. /\ added \in [Tables -> Seq(Rows)] /\ buffer \in [Tables -> Seq(Rows)]
      /\ blocks \in [Tables -> Seq(Seq(Rows))] /\ open \subseteq Tables
      /\ \A u \in Tables :
           /\ Built(added[u], buffer[u], blocks[u])
           /\ u \in open => buffer[u] = <<>>
  BY DEF TablesInv
<1>2. PICK s, b, bs : s = added[t] /\ b = buffer[t] /\ bs = blocks[t]
  OBVIOUS
<1>3. /\ blocks' = IF b = <<>> THEN blocks
                   ELSE [blocks EXCEPT ![t] = Append(bs, b)]
      /\ buffer' = [buffer EXCEPT ![t] = <<>>] /\ open' = open \cup {t}
      /\ added' = added /\ bloom' = bloom
  BY <1>1, <1>2 DEF Finish
<1>4. /\ buffer' \in [Tables -> Seq(Rows)] /\ buffer'[t] = <<>>
      /\ \A u \in Tables : u # t => buffer'[u] = buffer[u]
  <2>1. <<>> \in Seq(Rows)
    OBVIOUS
  <2> QED  BY <1>1, <1>3, <2>1
<1>5. /\ blocks' \in [Tables -> Seq(Seq(Rows))] /\ Built(s, <<>>, blocks'[t])
      /\ \A u \in Tables : u # t => blocks'[u] = blocks[u]
  <2>1. CASE b = <<>>
    BY <1>1, <1>2, <1>3, <2>1
  <2>2. CASE b # <<>>
    <3>1. Built(s, <<>>, Append(bs, b))
      BY <1>1, <1>2, <2>2, BlockBuilds
    <3>2. Append(bs, b) \in Seq(Seq(Rows))
      BY <3>1 DEF Built
    <3> QED  BY <1>1, <1>3, <2>2, <3>1, <3>2
  <2> QED  BY <2>1, <2>2
<1>6. ASSUME NEW u \in Tables
      PROVE  Built(added'[u], buffer'[u], blocks'[u])
             /\ (u \in open' => buffer'[u] = <<>>)
  <2>1. CASE u = t
    BY <1>2, <1>3, <1>4, <1>5, <2>1
  <2>2. CASE u # t
    BY <1>1, <1>3, <1>4, <1>5, <2>2
  <2> QED  BY <2>1, <2>2
<1>7. TablesInv'
  <2>1. \A u \in Tables : Built(added[u], buffer[u], blocks[u])'
    BY <1>6 DEF Built, InOrder, Below
  <2>2. \A u \in Tables : \A k \in KeysOf(added'[u]) : MayContain(bloom[u], k)'
    BY <1>3 DEF TablesInv, MayContain, Probes
  <2>3. \A u \in Tables : KeysOf(added[u])' = KeysOf(added'[u])
    BY DEF KeysOf
  <2>4. DOMAIN bloom' = Tables /\ bloom' = [u \in Tables |-> bloom'[u]]
    BY <1>3 DEF TablesInv
  <2> QED
    BY <1>1, <1>3, <1>4, <1>5, <1>6, <2>1, <2>2, <2>3, <2>4 DEF TablesInv
<1> QED  BY <1>3, <1>5, <1>7 DEF OpenStay

\* The last key of a block is that of a row, and no row's is above it.
LEMMA LastKeyIs ==
  ASSUME NEW b \in Seq(Rows), b # <<>>, InOrder(b)
  PROVE  /\ \E e \in ToSet(b) : e.key = LastKey(b)
         /\ LastKey(b) \in Int /\ \A e \in ToSet(b) : e.key <= LastKey(b)
<1>1. PICK n \in Nat \ {0} : n = Len(b)
  OBVIOUS
<1>2. ToSet(b) = {b[i] : i \in 1 .. n} /\ \A i \in 1 .. n : b[i] \in Rows
  BY <1>1 DEF ToSet
<1>3. \A i \in 1 .. n : b[i].key \in Int
  BY <1>2, KeysAreInts
<1>4. n \in 1 .. n /\ LastKey(b) = b[n].key
  BY <1>1 DEF LastKey
<1>5. ASSUME NEW i \in 1 .. n PROVE b[i].key <= b[n].key
  <2>1. CASE i = n
    BY <1>3, <2>1
  <2>2. CASE i # n
    <3>1. b[i].key < b[n].key
      BY <1>1, <1>4, <2>2 DEF InOrder
    <3> QED  BY <1>3, <1>4, <3>1
  <2> QED  BY <2>1, <2>2
<1> QED  BY <1>2, <1>3, <1>4, <1>5

\* lower_bound finds the first block whose last key is not below k.
LEMMA LowerBoundIs ==
  ASSUME TablesInv, NEW t \in Tables, NEW k \in Int
  PROVE  LET i == LowerBound(t, k) IN
         /\ i \in 1 .. Len(blocks[t]) + 1
         /\ \A j \in 1 .. i - 1 : LastKey(blocks[t][j]) < k
         /\ i <= Len(blocks[t]) => LastKey(blocks[t][i]) >= k
<1>1. PICK bs : bs = blocks[t] /\ bs \in Seq(Seq(Rows))
  BY DEF TablesInv
<1>2. PICK n \in Nat : n = Len(bs)
  BY <1>1
<1>3. \A i \in 1 .. n : LastKey(bs[i]) \in Int
  <2>1. \A i \in 1 .. n : bs[i] \in Seq(Rows) /\ bs[i] # <<>> /\ InOrder(bs[i])
    BY <1>1, <1>2 DEF TablesInv, Built
  <2> QED  BY <2>1, LastKeyIs
<1> DEFINE T == {i \in 1 .. n + 1 : i <= n => LastKey(bs[i]) >= k}
<1>4. T \in SUBSET Nat /\ n + 1 \in T
  OBVIOUS
<1>5. PICK m \in Nat : m \in T /\ \A i \in T : m <= i
  <2> HIDE DEF T
  <2> QED  BY <1>4, LeastExists
<1>6. m \in 1 .. n + 1 /\ (m <= n => LastKey(bs[m]) >= k)
  BY <1>5
<1>7. ASSUME NEW j \in 1 .. m - 1 PROVE LastKey(bs[j]) < k
  <2>1. j \in 1 .. n /\ j \in 1 .. n + 1 /\ j <= n /\ ~(m <= j)
    BY <1>6
  <2>2. j \notin T
    <3> HIDE DEF T
    <3> QED  BY <1>5, <2>1
  <2>3. ~(LastKey(bs[j]) >= k) /\ LastKey(bs[j]) \in Int
    BY <1>3, <2>1, <2>2
  <2> QED  BY <2>3
<1>8. \E i \in 1 .. Len(blocks[t]) + 1 :
        /\ \A j \in 1 .. i - 1 : LastKey(blocks[t][j]) < k
        /\ i <= Len(blocks[t]) => LastKey(blocks[t][i]) >= k
  BY <1>1, <1>2, <1>6, <1>7
<1> QED  BY <1>8 DEF LowerBound

Asked == [pc : {"idle", "block", "fetch", "done"}, table : Tables \cup {0},
          begin : Int, end : Int, point : BOOLEAN, block : Nat,
          out : Seq(Rows), failed : BOOLEAN]

\* The rows of the first n blocks of a table.
RowsTo(t, n) == UNION {ToSet(blocks[t][i]) : i \in 1 .. n}

\* Those that query q asks for.
OfRange(q, A) == {e \in A : InRange(q, e)}

\* A query that goes on has those of the blocks before its next one; one that
\* is done has those of the table.
QueryInv(q) ==
  /\ q \in Asked
  /\ q.pc # "idle" =>
       /\ q.table \in open /\ InOrder(q.out) /\ (q.point => q.begin = q.end)
       /\ ToSet(q.out) \subseteq Expected(q)
  /\ q.pc = "done" /\ ~q.failed => ToSet(q.out) = Expected(q)
  /\ q.pc \in {"block", "fetch"} =>
       /\ q.block \in 1 .. Len(blocks[q.table])
       /\ q.point => q.end <= LastKey(blocks[q.table][q.block])
       /\ LET found == OfRange(q, RowsTo(q.table, q.block - 1)) IN
          /\ ToSet(q.out) \subseteq found
          /\ ~q.failed => ToSet(q.out) = found

LEMMA OpenTable ==
  ASSUME TablesInv, NEW t \in open
  PROVE  /\ t \in Tables /\ blocks[t] \in Seq(Seq(Rows))
         /\ Len(blocks[t]) \in Nat
         /\ ToSet(added[t])
              = UNION {ToSet(blocks[t][i]) : i \in 1 .. Len(blocks[t])}
         /\ \A i \in 1 .. Len(blocks[t]) :
              /\ blocks[t][i] \in Seq(Rows) /\ blocks[t][i] # <<>>
              /\ InOrder(blocks[t][i])
              /\ \A j \in 1 .. Len(blocks[t]) :
                   i < j => Below(ToSet(blocks[t][i]), ToSet(blocks[t][j]))
<1>1. t \in Tables
  BY DEF TablesInv
<1>2. Built(added[t], <<>>, blocks[t])
  BY <1>1 DEF TablesInv
<1>3. PICK bs : bs = blocks[t] /\ bs \in Seq(Seq(Rows))
  BY <1>2 DEF Built
<1>4. ToSet(<<>>) = {}
  BY DEF ToSet
<1>5. Len(bs) \in Nat /\ \A i \in 1 .. Len(bs) : bs[i] \in Seq(Rows)
  BY <1>3
<1> QED  BY <1>1, <1>2, <1>3, <1>4, <1>5 DEF Built

\* Once a block has a row at or after the end, the later ones have none that
\* is asked for.
LEMMA RestOutOfRange ==
  ASSUME TablesInv, NEW q \in Asked, q.table \in open,
         NEW n \in 1 .. Len(blocks[q.table]),
         \/ n = Len(blocks[q.table])
         \/ \E e \in ToSet(blocks[q.table][n]) : e.key >= q.end
  PROVE  Expected(q) = OfRange(q, RowsTo(q.table, n))
<1>1. PICK t, bs, L : /\ t = q.table /\ t \in Tables /\ bs = blocks[t]
                      /\ bs \in Seq(Seq(Rows)) /\ L = Len(bs) /\ L \in Nat
  BY OpenTable
<1>2. /\ ToSet(added[t]) = UNION {ToSet(bs[i]) : i \in 1 .. L}
      /\ \A i, j \in 1 .. L : i < j => Below(ToSet(bs[i]), ToSet(bs[j]))
  BY <1>1, OpenTable
<1>3. \A i \in 1 .. L : \A e \in ToSet(bs[i]) : e.key \in Int
  <2>1. SUFFICES ASSUME NEW i \in 1 .. L, NEW e \in ToSet(bs[i])
                 PROVE  e.key \in Int
    OBVIOUS
  <2>2. bs[i] \in Seq(Rows)
    BY <1>1
  <2>3. e \in Rows
    BY <2>2 DEF ToSet
  <2> QED  BY <2>3, KeysAreInts
<1>4. PICK E \in Int : E = q.end
  BY DEF Asked
<1>5. ASSUME NEW i \in 1 .. L, ~(i <= n), NEW x \in ToSet(bs[i])
      PROVE  ~InRange(q, x)
  <2>1. PICK e \in ToSet(bs[n]) : e.key >= E
    BY <1>1, <1>4, <1>5
  <2>2. n \in 1 .. L /\ n < i
    BY <1>1, <1>5
  <2>3. e.key < x.key
    BY <1>2, <1>5, <2>1, <2>2 DEF Below
  <2>4. PICK a \in Int, b \in Int : a = e.key /\ b = x.key
    BY <1>3, <1>5, <2>1, <2>2
  <2>5. ~(x.key <= E)
    BY <2>1, <2>3, <2>4
  <2> QED  BY <1>4, <2>5 DEF InRange
<1>6. RowsTo(t, n) = UNION {ToSet(bs[i]) : i \in 1 .. n}
  BY <1>1 DEF RowsTo
<1>7. 1 .. n \subseteq 1 .. L /\ \A i \in 1 .. L : i <= n => i \in 1 .. n
  BY <1>1
<1>8. OfRange(q, ToSet(added[t])) = OfRange(q, RowsTo(t, n))
  <2>1. ASSUME NEW x \in RowsTo(t, n) PROVE x \in ToSet(added[t])
    BY <1>2, <1>6, <1>7
  <2>2. ASSUME NEW x \in ToSet(added[t]), InRange(q, x)
        PROVE  x \in RowsTo(t, n)
    <3>1. PICK i \in 1 .. L : x \in ToSet(bs[i])
      BY <1>2
    <3>2. i \in 1 .. n
      BY <1>5, <1>7, <2>2, <3>1
    <3> QED  BY <1>6, <3>1, <3>2
  <2> QED  BY <2>1, <2>2 DEF OfRange
<1> QED  BY <1>1, <1>8 DEF Expected, OfRange

LEMMA RowsToNext ==
  ASSUME NEW t, NEW n \in Nat \ {0}
  PROVE  RowsTo(t, n) = RowsTo(t, n - 1) \cup ToSet(blocks[t][n])
<1>1. 1 .. n = (1 .. n - 1) \cup {n}
  OBVIOUS
<1> QED  BY <1>1 DEF RowsTo

\* What a query has after one more block.
LEMMA ScannedIs ==
  ASSUME NEW q \in Asked, InOrder(q.out), NEW b \in Seq(Rows), InOrder(b),
         Below(ToSet(q.out), ToSet(b))
  PROVE  LET v == Scanned(q, b) IN
         /\ v \in Asked /\ v.table = q.table /\ v.begin = q.begin
         /\ v.end = q.end /\ v.point = q.point /\ v.block = q.block + 1
         /\ v.failed = q.failed
         /\ InOrder(v.out)
         /\ ToSet(v.out) = ToSet(q.out) \cup OfRange(q, ToSet(b))
         /\ v.pc \in {"block", "done"}
         /\ v.pc = "done" <=>
              \/ q.point \/ q.block = Len(blocks[q.table])
              \/ \E e \in ToSet(b) : e.key > q.end
<1>1. PICK m : m = Matches(q, b)
  OBVIOUS
<1>2. m \in Seq(Rows) /\ InOrder(m) /\ ToSet(m) = OfRange(q, ToSet(b))
  <2>1. q.begin \in Int /\ q.end \in Int
    BY DEF Asked
  <2> QED  BY <1>1, <2>1, MatchesIs DEF OfRange
<1>3. PICK u : u = q.out /\ u \in Seq(Rows) /\ InOrder(u)
  BY DEF Asked
<1>4. Below(ToSet(u), ToSet(m))
  BY <1>2, <1>3 DEF Below, OfRange
<1>5. PICK out : /\ out = u \o m /\ out \in Seq(Rows) /\ InOrder(out)
                 /\ ToSet(out) = ToSet(u) \cup ToSet(m)
  BY <1>2, <1>3, <1>4, ConcatInOrder, SetOfConcat
<1> DEFINE Ends == \/ q.point \/ q.block = Len(blocks[q.table])
                   \/ \E e \in ToSet(b) : e.key > q.end
<1>6. PICK pc : pc = (IF Ends THEN "done" ELSE "block")
                /\ pc \in {"block", "done"} /\ (pc = "done" <=> Ends)
  <2> HIDE DEF Ends
  <2>1. CASE Ends
    BY <2>1
  <2>2. CASE ~Ends
    BY <2>2
  <2> QED  BY <2>1, <2>2
<1>7. PICK n : n = q.block + 1 /\ n \in Nat
  BY DEF Asked
<1>8. PICK v : v = [q EXCEPT !.out = out, !.pc = pc, !.block = n]
  OBVIOUS
<1>9. v = Scanned(q, b)
  BY <1>1, <1>3, <1>5, <1>6, <1>7, <1>8 DEF Scanned, Asked
<1> HIDE DEF Ends
<1>10. out \in Seq(Rows) /\ pc \in {"idle", "block", "fetch", "done"}
       /\ q \in Asked
  BY <1>5, <1>6
<1>11. v \in Asked
  BY ONLY <1>7, <1>8, <1>10 DEF Asked
<1>12. /\ v.pc = pc /\ v.table = q.table /\ v.begin = q.begin
       /\ v.end = q.end /\ v.point = q.point /\ v.block = n
       /\ v.out = out /\ v.failed = q.failed
  BY ONLY <1>7, <1>8, <1>10 DEF Asked
<1>13. v.pc = "done" <=> Ends
  BY <1>6, <1>12
<1>14. v.pc \in {"block", "done"} /\ InOrder(v.out) /\ v.block = q.block + 1
       /\ ToSet(v.out) = ToSet(q.out) \cup OfRange(q, ToSet(b))
  BY <1>2, <1>3, <1>5, <1>6, <1>7, <1>12
<1> QED  BY <1>9, <1>11, <1>12, <1>13, <1>14 DEF Ends

\* What a query knows of its table before the next block.
LEMMA NextBlock ==
  ASSUME TablesInv, NEW q, QueryInv(q), q.pc \in {"block", "fetch"}
  PROVE  LET b == blocks[q.table][q.block] IN
         /\ q \in Asked /\ q.table \in open /\ InOrder(q.out)
         /\ q.block \in Nat \ {0} /\ q.block \in 1 .. Len(blocks[q.table])
         /\ Len(blocks[q.table]) \in Nat
         /\ b \in Seq(Rows) /\ b # <<>> /\ InOrder(b)
         /\ Below(ToSet(q.out), ToSet(b))
<1>1. /\ q \in Asked /\ q.table \in open /\ InOrder(q.out)
      /\ q.block \in 1 .. Len(blocks[q.table])
      /\ ToSet(q.out) \subseteq OfRange(q, RowsTo(q.table, q.block - 1))
  BY DEF QueryInv
<1>2. PICK t, n, b, L :
        /\ t = q.table /\ t \in Tables /\ t \in open /\ n = q.block
        /\ b = blocks[t][n] /\ L = Len(blocks[t]) /\ L \in Nat
        /\ n \in 1 .. L
  BY <1>1, OpenTable
<1>3. b \in Seq(Rows) /\ b # <<>> /\ InOrder(b)
  BY <1>2, OpenTable
<1>4. Below(ToSet(q.out), ToSet(b))
  <2>1. SUFFICES ASSUME NEW x \in ToSet(q.out), NEW y \in ToSet(b)
                 PROVE  x.key < y.key
    BY DEF Below
  <2>2. x \in RowsTo(t, n - 1)
    BY <1>1, <1>2 DEF OfRange
  <2>3. PICK i \in 1 .. n - 1 : x \in ToSet(blocks[t][i])
    BY <2>2 DEF RowsTo
  <2>4. i \in 1 .. L /\ i < n
    BY <1>2
  <2>5. Below(ToSet(blocks[t][i]), ToSet(b))
    BY <1>2, <2>4, OpenTable
  <2> QED  BY <2>3, <2>5 DEF Below
<1> QED  BY <1>1, <1>2, <1>3, <1>4

LEMMA RowsToWithin ==
  ASSUME TablesInv, NEW t \in open, NEW n \in 0 .. Len(blocks[t])
  PROVE  RowsTo(t, n) \subseteq ToSet(added[t])
<1>1. PICK L \in Nat :
        /\ L = Len(blocks[t])
        /\ ToSet(added[t]) = UNION {ToSet(blocks[t][i]) : i \in 1 .. L}
  BY OpenTable
<1>2. 1 .. n \subseteq 1 .. L
  BY <1>1
<1> QED  BY <1>1, <1>2 DEF RowsTo

\* ReadBlock returned the block.
LEMMA ScannedKeeps ==
  ASSUME TablesInv, NEW q, QueryInv(q), q.pc \in {"block", "fetch"}
  PROVE  QueryInv(Scanned(q, blocks[q.table][q.block]))
<1>1. /\ q \in Asked /\ q.table \in open
      /\ q.point => q.begin = q.end
      /\ q.point => q.end <= LastKey(blocks[q.table][q.block])
  BY DEF QueryInv
<1>2. PICK t, n, b, L :
        /\ t = q.table /\ t \in open /\ n = q.block
        /\ b = blocks[t][n] /\ L = Len(blocks[t])
  BY <1>1
<1>3. /\ b \in Seq(Rows) /\ b # <<>> /\ InOrder(b) /\ InOrder(q.out)
      /\ Below(ToSet(q.out), ToSet(b)) /\ n \in Nat \ {0} /\ n \in 1 .. L
      /\ L \in Nat
  BY <1>2, NextBlock
<1>4. /\ ToSet(q.out) \subseteq OfRange(q, RowsTo(t, n - 1))
      /\ ~q.failed => ToSet(q.out) = OfRange(q, RowsTo(t, n - 1))
  BY <1>2 DEF QueryInv
<1> DEFINE Ends == \/ q.point \/ n = L \/ \E e \in ToSet(b) : e.key > q.end
<1>5. PICK v : /\ v = Scanned(q, b) /\ v \in Asked
               /\ v.table = t /\ v.begin = q.begin /\ v.end = q.end
               /\ v.point = q.point /\ v.block = n + 1 /\ v.failed = q.failed
               /\ InOrder(v.out)
               /\ ToSet(v.out) = ToSet(q.out) \cup OfRange(q, ToSet(b))
               /\ v.pc \in {"block", "done"} /\ (v.pc = "done" <=> Ends)
  BY <1>1, <1>2, <1>3, ScannedIs
<1>6. RowsTo(t, n) = RowsTo(t, n - 1) \cup ToSet(b)
  BY <1>2, <1>3, RowsToNext
<1>7. /\ ToSet(v.out) \subseteq OfRange(q, RowsTo(t, n))
      /\ ~q.failed => ToSet(v.out) = OfRange(q, RowsTo(t, n))
  BY <1>4, <1>5, <1>6 DEF OfRange
<1>8. Expected(v) = Expected(q) /\ \A A : OfRange(v, A) = OfRange(q, A)
  BY <1>2, <1>5 DEF Expected, OfRange, InRange
<1>9. OfRange(q, RowsTo(t, n)) \subseteq Expected(q)
  <2>1. RowsTo(t, n) \subseteq ToSet(added[t])
    BY <1>2, <1>3, RowsToWithin
  <2> QED  BY <1>2, <2>1 DEF OfRange, Expected
<1>10. Ends => Expected(q) = OfRange(q, RowsTo(t, n))
  <2>1. SUFFICES ASSUME Ends
                 PROVE  n = L \/ \E e \in ToSet(b) : e.key >= q.end
    BY <1>1, <1>2, <1>3, RestOutOfRange
  <2>2. CASE n = L
    BY <2>2
  <2>3. CASE \E e \in ToSet(b) : e.key > q.end
    <3>1. PICK e \in ToSet(b) : e.key > q.end
      BY <2>3
    <3>2. e \in Rows
      BY <1>3, <3>1 DEF ToSet
    <3>3. PICK x \in Int, y \in Int : x = e.key /\ y = q.end
      BY <1>1, <3>2, KeysAreInts DEF Asked
    <3>4. x >= y
      BY <3>1, <3>3
    <3> QED  BY <3>1, <3>3, <3>4
  <2>4. CASE q.point
    <3>1. q.end <= LastKey(b)
      BY <1>1, <1>2, <2>4
    <3>2. PICK e \in ToSet(b) : e.key = LastKey(b)
      BY <1>3, LastKeyIs
    <3>3. PICK x \in Int, y \in Int : x = LastKey(b) /\ y = q.end
      BY <1>1, <1>3, LastKeyIs DEF Asked
    <3>4. x >= y
      BY <3>1, <3>3
    <3> QED  BY <3>2, <3>3, <3>4
  <2> QED  BY <2>1, <2>2, <2>3, <2>4
<1>11. /\ v.table \in open /\ (v.point => v.begin = v.end)
       /\ ToSet(v.out) \subseteq Expected(v)
  BY <1>1, <1>2, <1>5, <1>7, <1>8, <1>9
<1>12. CASE Ends
  <2>1. v.pc = "done"
    BY <1>5, <1>12
  <2>2. ~v.failed => ToSet(v.out) = Expected(v)
    BY <1>5, <1>7, <1>8, <1>10, <1>12
  <2> HIDE DEF Ends
  <2> QED  BY <1>2, <1>5, <1>11, <2>1, <2>2 DEF QueryInv
<1>13. CASE ~Ends
  <2>1. v.pc = "block" /\ ~v.point
    BY <1>5, <1>13
  <2>2. v.block \in 1 .. Len(blocks[v.table]) /\ v.block - 1 = n
    BY <1>2, <1>3, <1>5, <1>13
  <2>3. /\ ToSet(v.out) \subseteq OfRange(v, RowsTo(v.table, v.block - 1))
        /\ ~v.failed =>
             ToSet(v.out) = OfRange(v, RowsTo(v.table, v.block - 1))
    BY <1>5, <1>7, <1>8, <2>2
  <2> HIDE DEF Ends
  <2> QED  BY <1>2, <1>5, <1>11, <2>1, <2>2, <2>3 DEF QueryInv
<1> QED  BY <1>2, <1>5, <1>12, <1>13

\* It did not: the block counts as empty.
LEMMA FailedKeeps ==
  ASSUME TablesInv, NEW q, QueryInv(q), q.pc = "fetch"
  PROVE  QueryInv([Scanned(q, <<>>) EXCEPT !.failed = TRUE])
<1>1. /\ q \in Asked /\ q.table \in open
      /\ q.point => q.begin = q.end
      /\ ToSet(q.out) \subseteq Expected(q)
      /\ ToSet(q.out) \subseteq OfRange(q, RowsTo(q.table, q.block - 1))
  BY DEF QueryInv
<1>2. PICK t, n, L :
        /\ t = q.table /\ t \in open /\ n = q.block /\ L = Len(blocks[t])
        /\ InOrder(q.out) /\ n \in Nat \ {0} /\ n \in 1 .. L /\ L \in Nat
  BY <1>1, NextBlock
<1>3. PICK b : b = <<>> /\ b \in Seq(Rows) /\ InOrder(b) /\ ToSet(b) = {}
  <2>1. InOrder(<<>>) /\ ToSet(<<>>) = {} /\ <<>> \in Seq(Rows)
    BY DEF ToSet, InOrder
  <2> QED  BY <2>1
<1>4. Below(ToSet(q.out), ToSet(b))
  BY <1>3 DEF Below
<1>5. PICK u : /\ u = Scanned(q, b) /\ u \in Asked
               /\ u.table = t /\ u.begin = q.begin /\ u.end = q.end
               /\ u.point = q.point /\ u.block = n + 1
               /\ InOrder(u.out)
               /\ ToSet(u.out) = ToSet(q.out) \cup OfRange(q, ToSet(b))
               /\ u.pc \in {"block", "done"}
               /\ u.pc # "done" => ~q.point /\ n # L
  <2>1. PICK u : u = Scanned(q, b)
    OBVIOUS
  <2>2. /\ u \in Asked /\ u.table = q.table /\ u.begin = q.begin
        /\ u.end = q.end /\ u.point = q.point /\ u.block = q.block + 1
        /\ InOrder(u.out)
        /\ ToSet(u.out) = ToSet(q.out) \cup OfRange(q, ToSet(b))
        /\ u.pc \in {"block", "done"}
    BY <1>1, <1>2, <1>3, <1>4, <2>1, ScannedIs
  <2>3. u.pc # "done" => ~q.point /\ q.block # Len(blocks[q.table])
    BY <1>1, <1>2, <1>3, <1>4, <2>1, ScannedIs
  <2> QED  BY <1>2, <2>1, <2>2, <2>3
<1>6. PICK v : v = [u EXCEPT !.failed = TRUE]
  OBVIOUS
<1>7. v \in Asked
  BY ONLY <1>5, <1>6 DEF Asked
<1>8. /\ v.table = t /\ v.begin = q.begin /\ v.end = q.end
      /\ v.point = q.point /\ v.block = n + 1 /\ v.out = u.out
      /\ v.failed = TRUE /\ v.pc = u.pc
  BY ONLY <1>5, <1>6 DEF Asked
<1>9. ToSet(v.out) = ToSet(q.out)
  BY <1>3, <1>5, <1>8 DEF OfRange
<1>10. Expected(v) = Expected(q) /\ \A A : OfRange(v, A) = OfRange(q, A)
  BY <1>2, <1>8 DEF Expected, OfRange, InRange
<1>11. RowsTo(t, n - 1) \subseteq RowsTo(t, n)
  BY <1>2, RowsToNext
<1>12. v.pc = "block" => v.block \in 1 .. Len(blocks[v.table]) /\ ~v.point
  BY <1>2, <1>5, <1>8
<1>13. v.block - 1 = n
  BY <1>2, <1>8
<1>14. ToSet(v.out) \subseteq OfRange(v, RowsTo(v.table, v.block - 1))
  BY <1>1, <1>2, <1>8, <1>9, <1>10, <1>11, <1>13 DEF OfRange
<1>15. v.table \in open /\ InOrder(v.out) /\ (v.point => v.begin = v.end)
       /\ ToSet(v.out) \subseteq Expected(v) /\ v.pc \in {"block", "done"}
  BY <1>1, <1>2, <1>5, <1>8, <1>9, <1>10
<1>16. QueryInv(v)
  BY <1>7, <1>8, <1>12, <1>14, <1>15 DEF QueryInv
<1> QED  BY <1>3, <1>5, <1>6, <1>16

\* A query begins at the block that its first row is in, or there is none.
LEMMA BeginKeeps ==
  ASSUME TablesInv, NEW r \in Readers, query \in [Readers -> Asked],
         NEW t \in Tables, NEW a \in Keys, NEW b \in Keys,
         NEW point \in BOOLEAN, point => a = b, Begin(r, t, a, b, point)
  PROVE  \E v : QueryInv(v) /\ query' = [query EXCEPT ![r] = v]
<1>1. t \in open /\ a \in Int /\ b \in Int /\ t \in Tables
  BY TableAssumption DEF Begin
<1>2. PICK first, L :
        /\ first = LowerBound(t, a) /\ L = Len(blocks[t]) /\ L \in Nat
        /\ first \in 1 .. L + 1
        /\ \A j \in 1 .. first - 1 : LastKey(blocks[t][j]) < a
        /\ first <= L => LastKey(blocks[t][first]) >= a
  BY <1>1, LowerBoundIs, OpenTable
<1> DEFINE nothing == first > L \/ (point /\ ~MayContain(bloom[t], a))
<1>3. PICK v : /\ v = [NoQuery EXCEPT !.pc = IF nothing THEN "done" ELSE "block",
                         !.table = t, !.begin = a, !.end = b, !.point = point,
                         !.block = first]
               /\ query' = [query EXCEPT ![r] = v]
  BY <1>2 DEF Begin
<1>4. /\ v \in Asked /\ v.table = t /\ v.begin = a /\ v.end = b
      /\ v.point = point /\ v.block = first /\ v.out = <<>>
      /\ v.failed = FALSE /\ v.pc = IF nothing THEN "done" ELSE "block"
  <2>1. PICK pc : pc = (IF nothing THEN "done" ELSE "block")
                  /\ pc \in {"block", "done"}
    OBVIOUS
  <2> HIDE DEF nothing
  <2>2. v = [pc |-> pc, table |-> t, begin |-> a, end |-> b, point |-> point,
             block |-> first, out |-> <<>>, failed |-> FALSE]
    BY <1>3, <2>1 DEF NoQuery
  <2>3. first \in Nat /\ <<>> \in Seq(Rows)
    BY <1>2
  <2> QED  BY <1>1, <2>1, <2>2, <2>3 DEF Asked
<1>5. ToSet(v.out) = {} /\ InOrder(v.out)
  BY <1>4 DEF ToSet, InOrder
<1>6. ASSUME NEW n \in 0 .. first - 1
      PROVE  n <= L /\ OfRange(v, RowsTo(t, n)) = {}
  <2>1. n <= L
    BY <1>2
  <2>2. SUFFICES ASSUME NEW i \in 1 .. n, NEW x \in ToSet(blocks[t][i])
                 PROVE  ~InRange(v, x)
    BY <2>1 DEF OfRange, RowsTo
  <2>3. i \in 1 .. first - 1 /\ i \in 1 .. L
    BY <1>2
  <2>4. /\ blocks[t][i] \in Seq(Rows) /\ blocks[t][i] # <<>>
        /\ InOrder(blocks[t][i])
    BY <1>1, <1>2, <2>3, OpenTable
  <2>5. LastKey(blocks[t][i]) < a /\ LastKey(blocks[t][i]) \in Int
        /\ x.key <= LastKey(blocks[t][i])
    BY <1>2, <2>3, <2>4, LastKeyIs
  <2>6. x \in Rows
    BY <2>4 DEF ToSet
  <2>7. x.key \in Int
    BY <2>6, KeysAreInts
  <2>8. ~(a <= x.key)
    BY <1>1, <2>5, <2>7
  <2> QED  BY <1>4, <2>8 DEF InRange
<1>7. CASE nothing
  <2>1. Expected(v) = {}
    <3>1. CASE first > L
      <4>1. L \in 0 .. first - 1 /\ L = Len(blocks[t])
        BY <1>2, <3>1
      <4>2. ToSet(added[t]) = RowsTo(t, L)
        BY <1>1, <1>2, OpenTable DEF RowsTo
      <4> QED  BY <1>4, <1>6, <4>1, <4>2 DEF Expected, OfRange
    <3>2. CASE point /\ ~MayContain(bloom[t], a)
      <4>1. a \notin KeysOf(added[t])
        BY <1>1, <3>2 DEF TablesInv
      <4>2. SUFFICES ASSUME NEW x \in ToSet(added[t]), InRange(v, x)
                     PROVE  FALSE
        BY <1>4 DEF Expected
      <4>3. x \in Rows
        BY <1>1 DEF TablesInv, ToSet
      <4>4. x.key \in Int /\ a <= x.key /\ x.key <= a
        BY <1>4, <3>2, <4>2, <4>3, KeysAreInts DEF InRange
      <4>5. x.key = a
        BY <1>1, <4>4
      <4> QED  BY <4>1, <4>5 DEF KeysOf
    <3> QED  BY <1>7, <3>1, <3>2
  <2>2. v.pc = "done"
    BY <1>4, <1>7
  <2> HIDE DEF nothing
  <2>3. QueryInv(v)
    BY <1>1, <1>4, <1>5, <2>1, <2>2 DEF QueryInv
  <2> QED  BY <1>3, <2>3
<1>8. CASE ~nothing
  <2>1. v.pc = "block" /\ first \in 1 .. L /\ first - 1 \in 0 .. first - 1
    BY <1>2, <1>4, <1>8
  <2>2. OfRange(v, RowsTo(t, first - 1)) = {}
    BY <1>6, <2>1
  <2>3. point => b <= LastKey(blocks[t][first])
    <3>1. /\ blocks[t][first] \in Seq(Rows) /\ blocks[t][first] # <<>>
          /\ InOrder(blocks[t][first])
      BY <1>1, <1>2, <2>1, OpenTable
    <3>2. LastKey(blocks[t][first]) \in Int
      BY <3>1, LastKeyIs
    <3> QED  BY <1>1, <1>2, <2>1, <3>2
  <2> HIDE DEF nothing
  <2>4. QueryInv(v)
    BY <1>1, <1>2, <1>4, <1>5, <2>1, <2>2, <2>3 DEF QueryInv
  <2> QED  BY <1>3, <2>4
<1> QED  BY <1>7, <1>8

LEMMA SizeIsNat ==
  ASSUME NEW s \in Seq(Rows)
  PROVE  Size(s) \in Nat
<1>1. PICK n \in Nat : n = Len(s)
  OBVIOUS
<1>2. \A i \in 1 .. n : s[i].size \in Nat
  <2>1. \A i \in 1 .. n : s[i] \in Rows
    BY <1>1
  <2> QED  BY <2>1 DEF Rows
<1> DEFINE E == [charge : Nat]
<1>3. PICK c : c = [i \in 1 .. n |-> [charge |-> s[i].size]] /\ c \in Seq(E)
  <2>1. \A i \in 1 .. n : [charge |-> s[i].size] \in E
    BY <1>2
  <2> HIDE DEF E
  <2>2. PICK c : c = [i \in 1 .. n |-> [charge |-> s[i].size]]
    OBVIOUS
  <2>3. c \in [1 .. n -> E]
    BY <2>1, <2>2
  <2>4. c \in Seq(E)
    BY ONLY <2>3, n \in Nat
  <2> QED  BY <2>2, <2>4
<1>4. PICK f : IsSum(f, c)
  <2>1. \A e \in E : e.charge \in Nat
    OBVIOUS
  <2> HIDE DEF E
  <2> QED  BY <1>3, <2>1, SumOf
<1>5. Charges(c) \in Nat
  <2> HIDE DEF E
  <2> QED  BY <1>3, <1>4, ChargesIs
<1> QED  BY <1>1, <1>3, <1>5 DEF Size

LEMMA SetOfSub ==
  ASSUME NEW S, NEW s \in Seq(S), NEW m \in 1 .. Len(s) + 1, NEW n \in 0 .. Len(s)
  PROVE  SubSeq(s, m, n) \in Seq(S) /\ ToSet(SubSeq(s, m, n)) \subseteq ToSet(s)
<1>1. PICK L \in Nat : L = Len(s)
  OBVIOUS
<1>2. PICK t : t = SubSeq(s, m, n)
  OBVIOUS
<1>3. m \in Nat \ {0} /\ n \in Nat /\ m <= L + 1 /\ n <= L
  BY <1>1
<1>4. PICK l \in Nat : l = (IF m <= n THEN n - m + 1 ELSE 0)
  <2>1. CASE m <= n
    BY <1>3, <2>1
  <2>2. CASE ~(m <= n)
    BY <2>2
  <2> QED  BY <2>1, <2>2
<1>5. t \in Seq(S) /\ Len(t) = l /\ \A i \in 1 .. l : t[i] = s[m + i - 1]
  BY <1>1, <1>2, <1>3, <1>4
<1>6. ToSet(t) = {t[i] : i \in 1 .. l} /\ ToSet(s) = {s[i] : i \in 1 .. L}
  BY <1>1, <1>5, SetOf
<1>7. \A i \in 1 .. l : m + i - 1 \in 1 .. L
  BY <1>3, <1>4
<1>8. ASSUME NEW x \in ToSet(t) PROVE x \in ToSet(s)
  <2>1. PICK i \in 1 .. l : x = t[i]
    BY <1>6
  <2>2. PICK j \in 1 .. L : j = m + i - 1
    BY <1>7
  <2> QED  BY <1>5, <1>6, <2>1, <2>2
<1> QED  BY <1>2, <1>5, <1>8

LEMMA SetOfRemoved ==
  ASSUME NEW S, NEW s \in Seq(S), NEW p \in 1 .. Len(s)
  PROVE  RemoveAt(s, p) \in Seq(S) /\ ToSet(RemoveAt(s, p)) \subseteq ToSet(s)
<1>1. PICK L \in Nat : L = Len(s)
  OBVIOUS
<1>2. PICK u, v : u = SubSeq(s, 1, p - 1) /\ v = SubSeq(s, p + 1, L)
  OBVIOUS
<1>3. u \in Seq(S) /\ ToSet(u) \subseteq ToSet(s)
  <2>1. 1 \in 1 .. Len(s) + 1 /\ p - 1 \in 0 .. Len(s)
    BY <1>1
  <2> QED  BY <1>2, <2>1, SetOfSub
<1>4. v \in Seq(S) /\ ToSet(v) \subseteq ToSet(s)
  <2>1. p + 1 \in 1 .. Len(s) + 1 /\ L \in 0 .. Len(s)
    BY <1>1
  <2> QED  BY <1>2, <2>1, SetOfSub
<1>5. u \o v \in Seq(S) /\ ToSet(u \o v) = ToSet(u) \cup ToSet(v)
  BY <1>3, <1>4, ConcatProperties, SetOfConcat
<1> QED  BY <1>1, <1>2, <1>3, <1>4, <1>5 DEF RemoveAt

\* The cache returns what was put into it.
LEMMA GetHolds ==
  ASSUME NEW K, NEW V, CacheInv(K, V), NEW key, CacheGet(key)
  PROVE  ToSet(lru') \subseteq ToSet(lru)
<1>1. PICK E : E = CacheEntries(K, V) /\ lru \in Seq(E)
  BY CacheInvParts
<1>2. PICK p \in 1 .. Len(lru) : p = Place(key)
  BY PlaceIs DEF CacheGet
<1>3. PICK e, r : e = lru[p] /\ r = RemoveAt(lru, p)
  OBVIOUS
<1>4. e \in E /\ e \in ToSet(lru) /\ <<e>> \in Seq(E) /\ ToSet(<<e>>) = {e}
  BY <1>1, <1>3 DEF ToSet
<1>5. r \in Seq(E) /\ ToSet(r) \subseteq ToSet(lru)
  BY <1>1, <1>3, SetOfRemoved
<1>6. ToSet(<<e>> \o r) = ToSet(<<e>>) \cup ToSet(r)
  <2>1. PICK u : u = <<e>> /\ u \in Seq(E)
    BY <1>4
  <2>2. ToSet(u \o r) = ToSet(u) \cup ToSet(r)
    BY <1>5, <2>1, SetOfConcat
  <2> QED  BY <2>1, <2>2
<1>7. lru' = <<e>> \o r
  BY <1>2, <1>3 DEF CacheGet, Cached
<1> QED  BY <1>4, <1>5, <1>6, <1>7

\* What CachePut leaves in the cache was there or is the new entry.
LEMMA PutHolds ==
  ASSUME NEW K, NEW V, CacheInv(K, V), NEW key \in K, NEW value \in V,
         NEW charge \in Nat, CachePut(key, value, charge)
  PROVE  \A e \in ToSet(lru') :
           e \in ToSet(lru) \/ (e.key = key /\ e.value = value)
<1>1. PICK E : E = CacheEntries(K, V) /\ lru \in Seq(E)
  BY CacheInvParts
<1>2. PICK new : /\ new = [key |-> key, value |-> value, charge |-> charge]
                 /\ new \in E /\ new.key = key /\ new.value = value
  <2>1. [key |-> key, value |-> value, charge |-> charge] \in E
    BY <1>1 DEF CacheEntries
  <2> QED  BY <2>1
<1>3. <<new>> \in Seq(E) /\ ToSet(<<new>>) = {new}
  BY <1>2 DEF ToSet
<1>4. CASE Capacity = 0 \/ charge > Capacity
  BY <1>4 DEF CachePut, cacheVars
<1>5. ASSUME ~(Capacity = 0 \/ charge > Capacity)
      PROVE  \E r, b : /\ r \in Seq(E) /\ ToSet(r) \subseteq ToSet(lru)
                       /\ PutFront(key, <<new>> \o r, b)
                       /\ b = Charges(<<new>> \o r)
  <2>1. CASE Hit(key)
    <3>1. PICK p \in 1 .. Len(lru) : p = Place(key) /\ lru[p].key = key
      BY <2>1, PlaceIs
    <3>2. PICK r : r = RemoveAt(lru, p)
      OBVIOUS
    <3>3. PICK c \in Nat : c = lru[p].charge
      <4>1. lru[p] \in CacheEntries(K, V)
        BY CacheInvParts
      <4> QED  BY <4>1 DEF CacheEntries
    <3>4. /\ r \in Seq(CacheEntries(K, V)) /\ Distinct(r)
          /\ HeldKeys(r) = map \ {key} /\ Charges(r) = usage - c
      BY <3>1, <3>2, <3>3, CacheInvParts, RemovedList
    <3>5. PutFront(key, <<new>> \o r, usage - c + charge)
      BY <1>2, <1>5, <2>1, <3>1, <3>2, <3>3 DEF CachePut, Cached
    <3>6. Charges(<<new>> \o r) = Charges(r) + charge
      BY <1>1, <1>2, <3>4, FrontList
    <3>7. usage - c + charge = Charges(<<new>> \o r)
      BY <3>4, <3>6
    <3>8. r \in Seq(E) /\ ToSet(r) \subseteq ToSet(lru)
      BY <1>1, <3>2, SetOfRemoved
    <3> QED  BY <3>5, <3>7, <3>8
  <2>2. CASE ~Hit(key)
    <3>1. PutFront(key, <<new>> \o lru, usage + charge)
      BY <1>2, <1>5, <2>2 DEF CachePut
    <3>2. key \notin HeldKeys(lru)
      BY <2>2, CacheInvParts DEF Hit
    <3>3. Charges(<<new>> \o lru) = Charges(lru) + charge
      BY <1>1, <1>2, <3>2, CacheInvParts, FrontList
    <3> QED  BY <1>1, <3>1, <3>3, CacheInvParts
  <2> QED  BY <2>1, <2>2
<1>6. CASE ~(Capacity = 0 \/ charge > Capacity)
  <2>1. PICK r, b : /\ r \in Seq(E) /\ ToSet(r) \subseteq ToSet(lru)
                    /\ PutFront(key, <<new>> \o r, b)
                    /\ b = Charges(<<new>> \o r)
    BY <1>5, <1>6
  <2>2. PICK list : /\ list = <<new>> \o r /\ list \in Seq(E)
                    /\ ToSet(list) = {new} \cup ToSet(r)
    <3>1. PICK u : u = <<new>> /\ u \in Seq(E)
      BY <1>3
    <3>2. u \o r \in Seq(E) /\ ToSet(u \o r) = ToSet(u) \cup ToSet(r)
      BY <2>1, <3>1, ConcatProperties, SetOfConcat
    <3> QED  BY <1>3, <3>1, <3>2
  <2>3. PICK n : n = Kept(list, b) /\ n \in 0 .. Len(list)
    BY <1>1, <2>1, <2>2, KeptFits
  <2>4. lru' = SubSeq(list, 1, n)
    BY <2>1, <2>2, <2>3 DEF PutFront
  <2>5. 1 \in 1 .. Len(list) + 1
    BY <2>2
  <2>6. ToSet(lru') \subseteq ToSet(list)
    BY <2>2, <2>3, <2>4, <2>5, SetOfSub
  <2> QED  BY <1>2, <2>1, <2>2, <2>6
<1> QED  BY <1>4, <1>6

\* What ReadBlock finds in the cache is the block, for a finished table does
\* not change.
IsBlock(e) ==
  \E t \in open : \E n \in 1 .. Len(blocks[t]) :
    e.key = <<t, n>> /\ e.value = blocks[t][n]

\* The cache holds blocks of finished tables, under their own names.
CachedInv ==
  /\ CacheInv(Tables \X Nat, Seq(Rows))
  /\ \A e \in ToSet(lru) : IsBlock(e)

\* Every reader's query is fine.
QueriesInv ==
  /\ query \in [Readers -> Asked]
  /\ \A r \in Readers : \E v : v = query[r] /\ QueryInv(v)

\* Queries and the cache stay fine while finished tables keep their blocks.
LEMMA OpenKeeps ==
  ASSUME TablesInv, OpenStay
  PROVE  /\ \A q : QueryInv(q) => QueryInv(q)'
         /\ CachedInv /\ UNCHANGED cacheVars => CachedInv'
         /\ QueriesInv /\ UNCHANGED query => QueriesInv'
<1>1. ASSUME NEW q, QueryInv(q) PROVE QueryInv(q)'
  <2>1. PICK t : t = q.table
    OBVIOUS
  <2>2. q.pc # "idle" =>
          t \in open /\ t \in open' /\ added'[t] = added[t] /\ blocks'[t] = blocks[t]
    BY <1>1, <2>1 DEF OpenStay, QueryInv
  <2>3. q.pc = "done" => q.pc # "idle"
    OBVIOUS
  <2>4. q.pc \in {"block", "fetch"} => q.pc # "idle"
    OBVIOUS
  <2>5. q.pc # "idle" => Expected(q)' = Expected(q)
    BY <2>1, <2>2 DEF Expected, InRange
  <2>6. q.pc # "idle" => \A n : RowsTo(t, n)' = RowsTo(t, n)
    BY <2>2 DEF RowsTo
  <2>7. \A A : OfRange(q, A)' = OfRange(q, A)
    BY DEF OfRange, InRange
  <2>8. Asked' = Asked
    BY DEF Asked, Rows
  <2>9. CASE q.pc = "idle"
    BY <1>1, <2>9 DEF QueryInv
  <2>10. CASE q.pc # "idle"
    <3>1. /\ q \in Asked /\ InOrder(q.out) /\ (q.point => q.begin = q.end)
          /\ ToSet(q.out) \subseteq Expected(q)'
          /\ q.pc = "done" /\ ~q.failed => ToSet(q.out) = Expected(q)'
      BY <1>1, <2>5, <2>10 DEF QueryInv
    <3>2. q.pc \in {"block", "fetch"} =>
            /\ q.block \in 1 .. Len(blocks'[t])
            /\ q.point => q.end <= LastKey(blocks'[t][q.block])
            /\ ToSet(q.out) \subseteq OfRange(q, RowsTo(t, q.block - 1)')
            /\ ~q.failed => ToSet(q.out) = OfRange(q, RowsTo(t, q.block - 1)')
      BY <1>1, <2>1, <2>2, <2>6, <2>10 DEF QueryInv
    <3> QED
      BY <2>1, <2>2, <2>10, <3>1, <3>2
      DEF QueryInv, OfRange, InRange, InOrder, LastKey
  <2> QED  BY <2>9, <2>10
<1>2. ASSUME NEW e, IsBlock(e) PROVE IsBlock(e)'
  BY <1>2 DEF IsBlock, OpenStay
<1>3. ASSUME CachedInv, UNCHANGED cacheVars PROVE CachedInv'
  <2>1. CacheInv(Tables \X Nat, Seq(Rows))'
    BY <1>3 DEF CachedInv, CacheInv, CacheAccountsForItsEntries, cacheVars
  <2>2. ToSet(lru)' = ToSet(lru)
    BY <1>3 DEF cacheVars
  <2> QED  BY <1>2, <1>3, <2>1, <2>2 DEF CachedInv
<1>4. ASSUME QueriesInv, UNCHANGED query PROVE QueriesInv'
  BY <1>1, <1>4 DEF QueriesInv
<1> QED  BY <1>1, <1>3, <1>4

\* One reader's new state, if it is fine, leaves all of them fine.
LEMMA OneQuery ==
  ASSUME TablesInv, QueriesInv, UNCHANGED tableVars, NEW r \in Readers,
         NEW v, QueryInv(v), query' = [query EXCEPT ![r] = v]
  PROVE  QueriesInv'
<1>1. query \in [Readers -> Asked] /\ v \in Asked
  BY DEF QueriesInv, QueryInv
<1>2. query' \in [Readers -> Asked] /\ query'[r] = v
      /\ \A x \in Readers : x # r => query'[x] = query[x]
  BY <1>1
<1>3. Asked' = Asked
  BY DEF Asked, Rows
<1>4. OpenStay
  BY DEF OpenStay, tableVars
<1>5. ASSUME NEW x \in Readers PROVE \E q : q = query'[x] /\ QueryInv(q)'
  <2>1. CASE x = r
    BY <1>2, <1>4, <2>1, OpenKeeps
  <2>2. CASE x # r
    <3>1. PICK q : q = query[x] /\ QueryInv(q)
      BY DEF QueriesInv
    <3>2. QueryInv(q)'
      BY <1>4, <3>1, OpenKeeps
    <3> QED  BY <1>2, <2>2, <3>1, <3>2
  <2> QED  BY <2>1, <2>2
<1> QED  BY <1>2, <1>3, <1>5 DEF QueriesInv

LEMMA TablesStay ==
  ASSUME TablesInv, UNCHANGED tableVars
  PROVE  TablesInv' /\ OpenStay
<1>1. /\ added' = added /\ open' = open /\ buffer' = buffer
      /\ blocks' = blocks /\ bloom' = bloom
  BY DEF tableVars
<1>2. \A t \in Tables : Built(added'[t], buffer'[t], blocks'[t])
  BY <1>1 DEF TablesInv
<1>3. \A t \in Tables : Built(added[t], buffer[t], blocks[t])'
  BY <1>2 DEF Built, InOrder, Below
<1>4. \A t \in Tables : \A k \in KeysOf(added'[t]) : MayContain(bloom[t], k)'
  BY <1>1 DEF TablesInv, MayContain, Probes
<1>5. \A t \in Tables : KeysOf(added[t])' = KeysOf(added'[t])
  BY DEF KeysOf
<1>6. /\ DOMAIN bloom' = Tables /\ bloom' = [t \in Tables |-> bloom'[t]]
      /\ open' \subseteq Tables /\ added' \in [Tables -> Seq(Rows)]
      /\ buffer' \in [Tables -> Seq(Rows)]
      /\ blocks' \in [Tables -> Seq(Seq(Rows))]
      /\ \A t \in Tables : t \in open' => buffer'[t] = <<>>
  BY <1>1 DEF TablesInv
<1>7. TablesInv'
  BY <1>3, <1>4, <1>5, <1>6 DEF TablesInv
<1> QED  BY <1>1, <1>7 DEF OpenStay

\* No step of a reader disturbs the others.
LEMMA QueryKeeps ==
  ASSUME TablesInv, QueriesInv, CachedInv, NEW r \in Readers, Query(r)
  PROVE  UNCHANGED tableVars /\ QueriesInv' /\ CachedInv'
<1>1. PICK q : q = query[r] /\ QueryInv(q)
  BY DEF QueriesInv
<1>2. q \in Asked /\ query \in [Readers -> Asked]
  BY <1>1 DEF QueriesInv, QueryInv
<1>3. ASSUME UNCHANGED tableVars, UNCHANGED cacheVars PROVE CachedInv'
  BY <1>3, TablesStay, OpenKeeps
<1>4. ASSUME NEW t \in Tables, NEW a \in Keys, NEW b \in Keys,
             NEW point \in BOOLEAN, point => a = b, Begin(r, t, a, b, point)
      PROVE  UNCHANGED tableVars /\ QueriesInv' /\ CachedInv'
  <2>1. PICK v : QueryInv(v) /\ query' = [query EXCEPT ![r] = v]
    BY <1>2, <1>4, BeginKeeps
  <2>2. UNCHANGED tableVars /\ UNCHANGED cacheVars
    BY <1>4 DEF Begin
  <2> QED  BY <1>3, <2>1, <2>2, OneQuery
<1>5. CASE ReadCached(r)
  <2>1. /\ q.pc = "block" /\ Hit(CacheKey(q)) /\ CacheGet(CacheKey(q))
        /\ query' = [query EXCEPT ![r] = Scanned(q, Cached(CacheKey(q)).value)]
        /\ UNCHANGED tableVars
    BY <1>1, <1>2, <1>5 DEF ReadCached
  <2>2. PICK K, V : K = Tables \X Nat /\ V = Seq(Rows) /\ CacheInv(K, V)
    BY DEF CachedInv
  <2>3. PICK p \in 1 .. Len(lru) :
          p = Place(CacheKey(q)) /\ lru[p].key = CacheKey(q)
    BY <2>1, <2>2, PlaceIs
  <2>4. PICK e : e = lru[p] /\ e \in ToSet(lru) /\ e = Cached(CacheKey(q))
    <3>1. lru \in Seq(CacheEntries(K, V))
      BY <2>2, CacheInvParts
    <3> QED  BY <2>3, <3>1 DEF ToSet, Cached
  <2>5. PICK t \in open : \E n \in 1 .. Len(blocks[t]) :
          e.key = <<t, n>> /\ e.value = blocks[t][n]
    BY <2>4 DEF CachedInv, IsBlock
  <2>6. t = q.table /\ e.value = blocks[q.table][q.block]
    BY <2>3, <2>4, <2>5 DEF CacheKey
  <2>7. QueryInv(Scanned(q, blocks[q.table][q.block]))
    BY <1>1, <2>1, ScannedKeeps
  <2>8. QueriesInv'
    BY <2>1, <2>4, <2>6, <2>7, OneQuery
  <2>9. CacheInv(K, V)'
    BY <2>1, <2>2, GetKeeps
  <2>10. CacheInv(Tables \X Nat, Seq(Rows))'
    BY <2>2, <2>9 DEF CacheInv, CacheEntries, Rows
  <2>11. ToSet(lru') \subseteq ToSet(lru)
    BY <2>1, <2>2, GetHolds
  <2>12. \A x \in ToSet(lru') : IsBlock(x)
    BY <2>11 DEF CachedInv
  <2>13. \A x : IsBlock(x)' <=> IsBlock(x)
    BY <2>1 DEF IsBlock, tableVars
  <2>14. ToSet(lru)' = ToSet(lru')
    BY DEF ToSet
  <2>15. CachedInv'
    BY <2>10, <2>12, <2>13, <2>14 DEF CachedInv
  <2> QED  BY <2>1, <2>8, <2>15
<1>6. CASE Miss(r)
  <2>1. PICK v : v = [q EXCEPT !.pc = "fetch"]
    OBVIOUS
  <2>2. /\ q.pc = "block" /\ query' = [query EXCEPT ![r] = v]
        /\ UNCHANGED tableVars /\ UNCHANGED cacheVars
    BY <1>1, <1>2, <1>6, <2>1 DEF Miss
  <2>3. /\ v \in Asked /\ v.pc = "fetch" /\ v.table = q.table
        /\ v.begin = q.begin /\ v.end = q.end /\ v.point = q.point
        /\ v.block = q.block /\ v.out = q.out /\ v.failed = q.failed
    BY ONLY <1>2, <2>1 DEF Asked
  <2>4. Expected(v) = Expected(q) /\ \A A : OfRange(v, A) = OfRange(q, A)
    BY <2>3 DEF Expected, OfRange, InRange
  <2>5. QueryInv(v)
    BY <1>1, <2>2, <2>3, <2>4 DEF QueryInv
  <2> QED  BY <1>3, <2>2, <2>5, OneQuery
<1>7. CASE Fetch(r)
  <2>1. PICK block : block = blocks[q.table][q.block]
    OBVIOUS
  <2>2. /\ q.pc = "fetch" /\ query' = [query EXCEPT ![r] = Scanned(q, block)]
        /\ CachePut(CacheKey(q), block, Size(block)) /\ UNCHANGED tableVars
    BY <1>1, <1>2, <1>7, <2>1 DEF Fetch
  <2>3. QueryInv(Scanned(q, block))
    BY <1>1, <2>1, <2>2, ScannedKeeps
  <2>4. QueriesInv'
    BY <2>2, <2>3, OneQuery
  <2>5. PICK K, V : K = Tables \X Nat /\ V = Seq(Rows) /\ CacheInv(K, V)
    BY DEF CachedInv
  <2>6. /\ q.table \in open /\ q.block \in Nat \ {0} /\ block \in Seq(Rows)
        /\ q.block \in 1 .. Len(blocks[q.table])
    BY <1>1, <2>1, <2>2, NextBlock
  <2>7. PICK key \in K : key = CacheKey(q) /\ key = <<q.table, q.block>>
    BY <2>5, <2>6 DEF CacheKey, TablesInv
  <2>8. PICK charge \in Nat : charge = Size(block)
    BY <2>6, SizeIsNat
  <2>9. CacheInv(K, V)' /\ \A x \in ToSet(lru') :
          x \in ToSet(lru) \/ (x.key = key /\ x.value = block)
    <3>1. PICK value \in V : value = block
      BY <2>5, <2>6
    <3>2. CachePut(key, value, charge)
      BY <2>2, <2>7, <2>8, <3>1
    <3>3. CacheInv(K, V)'
      BY <2>5, <3>2, PutKeeps
    <3>4. \A x \in ToSet(lru') :
            x \in ToSet(lru) \/ (x.key = key /\ x.value = value)
      BY <2>5, <3>2, PutHolds
    <3> QED  BY <3>1, <3>3, <3>4
  <2>10. CacheInv(Tables \X Nat, Seq(Rows))'
    BY <2>5, <2>9 DEF CacheInv, CacheEntries, Rows
  <2>11. \A x \in ToSet(lru') : IsBlock(x)
    BY <2>1, <2>6, <2>7, <2>9 DEF CachedInv, IsBlock
  <2>12. \A x : IsBlock(x)' <=> IsBlock(x)
    BY <2>2 DEF IsBlock, tableVars
  <2>13. ToSet(lru)' = ToSet(lru')
    BY DEF ToSet
  <2>14. CachedInv'
    BY <2>10, <2>11, <2>12, <2>13 DEF CachedInv
  <2> QED  BY <2>2, <2>4, <2>14
<1>8. CASE FetchFails(r)
  <2>1. PICK v : v = [Scanned(q, <<>>) EXCEPT !.failed = TRUE]
    OBVIOUS
  <2>2. /\ q.pc = "fetch" /\ query' = [query EXCEPT ![r] = v]
        /\ UNCHANGED tableVars /\ UNCHANGED cacheVars
    BY <1>1, <1>2, <1>8, <2>1 DEF FetchFails
  <2>3. QueryInv(v)
    BY <1>1, <2>1, <2>2, FailedKeeps
  <2> QED  BY <1>3, <2>2, <2>3, OneQuery
<1>9. CASE Return(r)
  <2>1. PICK v : v = NoQuery
    OBVIOUS
  <2>2. /\ query' = [query EXCEPT ![r] = v]
        /\ UNCHANGED tableVars /\ UNCHANGED cacheVars
    BY <1>9, <2>1 DEF Return
  <2>3. v \in Asked /\ v.pc = "idle"
    BY <2>1 DEF NoQuery, Asked
  <2>4. QueryInv(v)
    BY <2>3 DEF QueryInv
  <2> QED  BY <1>3, <2>2, <2>4, OneQuery
<1> QED  BY <1>4, <1>5, <1>6, <1>7, <1>8, <1>9 DEF Query

\* The first of some rows in order is below the others.
LEMMA HeadInOrder ==
  ASSUME NEW s \in Seq(Rows), s # <<>>, InOrder(s)
  PROVE  /\ Head(s) \in Rows /\ Tail(s) \in Seq(Rows) /\ InOrder(Tail(s))
         /\ ToSet(s) = {Head(s)} \cup ToSet(Tail(s))
         /\ Below({Head(s)}, ToSet(Tail(s)))
<1>1. PICK n \in Nat \ {0} : n = Len(s)
  OBVIOUS
<1>2. PICK e, t : e = Head(s) /\ t = Tail(s)
  OBVIOUS
<1>3. /\ e = s[1] /\ e \in Rows /\ t \in Seq(Rows) /\ Len(t) = n - 1
      /\ \A i \in 1 .. n - 1 : t[i] = s[i + 1]
  BY <1>1, <1>2
<1>4. ToSet(s) = {s[i] : i \in 1 .. n} /\ ToSet(t) = {t[i] : i \in 1 .. n - 1}
  BY <1>1, <1>3 DEF ToSet
<1>5. \A i, j \in 1 .. n : i < j => s[i].key < s[j].key
  BY <1>1 DEF InOrder
<1>6. /\ \A i \in 1 .. n - 1 : i + 1 \in 1 .. n /\ 1 < i + 1
      /\ \A i \in 1 .. n : i = 1 \/ (i - 1 \in 1 .. n - 1 /\ (i - 1) + 1 = i)
      /\ 1 \in 1 .. n
  OBVIOUS
<1>7. InOrder(t)
  <2>1. ASSUME NEW i \in 1 .. n - 1, NEW j \in 1 .. n - 1, i < j
        PROVE  t[i].key < t[j].key
    <3>1. i + 1 < j + 1
      BY <2>1
    <3> QED  BY <1>3, <1>5, <1>6, <3>1
  <2> QED  BY <1>3, <2>1 DEF InOrder
<1>8. Below({e}, ToSet(t))
  BY <1>3, <1>4, <1>5, <1>6 DEF Below
<1>9. ToSet(s) = {e} \cup ToSet(t)
  <2>1. \A i \in 1 .. n : s[i] = e \/ s[i] \in ToSet(t)
    BY <1>3, <1>4, <1>6
  <2>2. \A i \in 1 .. n - 1 : t[i] \in ToSet(s)
    BY <1>3, <1>4, <1>6
  <2>3. ToSet(s) \subseteq {e} \cup ToSet(t)
    BY <1>4, <2>1
  <2>4. ToSet(t) \subseteq ToSet(s)
    BY <1>4, <2>2
  <2>5. e \in ToSet(s)
    BY <1>3, <1>4, <1>6
  <2> QED  BY <2>3, <2>4, <2>5
<1> QED  BY <1>2, <1>3, <1>7, <1>8, <1>9

-----------------------------------------------------------------------------
(* From the memtable to the SSTable.                                       *)

\* Rows A are what was handed over for table t.
AreHanded(t, A) ==
  {<<e.key, e.entry>> : e \in A}
    = {<<k, handed[t][k]>> : k \in {x \in Keys : handed[t][x] # NoEntry}}

\* The table under construction has some of them, and those still to come
\* are above.
FlushInv ==
  /\ MemInv /\ TablesInv /\ QueriesInv /\ CachedInv
  /\ handed \in [Tables -> [Keys -> Entries \cup {NoEntry}]]
  /\ \A t \in open : AreHanded(t, ToSet(added[t]))
  /\ \A t \in Tables \ open : t # target \/ target = 0 => added[t] = <<>>
  /\ target # 0 =>
       /\ target \in Tables \ open /\ source \in Seq(Rows) /\ InOrder(source)
       /\ Below(ToSet(added[target]), ToSet(source))
       /\ AreHanded(target, ToSet(added[target]) \cup ToSet(source))

LEMMA MemStays ==
  ASSUME MemInv, UNCHANGED memVars
  PROVE  MemInv'
<1>1. /\ next' = next /\ entry' = entry /\ height' = height
      /\ written' = written
  BY DEF memVars
<1>2. PICK S : Linked(S)
  BY DEF MemInv
<1>3. /\ S[0] = {k \in TsKeys : entry'[k] # NoEntry}
      /\ \A l \in Levels : l > 0 => S[l] \subseteq S[l - 1]
      /\ \A l \in Levels : l >= height' => S[l] = {}
  BY <1>1, <1>2 DEF Linked
<1>4. \A l \in Levels : Chain(next'[l], S[l])
  BY <1>1, <1>2 DEF Linked
<1>5. Linked(S)'
  BY <1>3, <1>4 DEF Linked, Chain, Nodes
<1> QED  BY <1>1, <1>5 DEF MemInv

\* What a flush takes from the memtable.
LEMMA TakenIs ==
  ASSUME MemInv, NEW s,
         s = [i \in 1 .. Len(IterateEntries) |->
                [key |-> IterateEntries[i].key,
                 entry |-> IterateEntries[i].entry, size |-> 1]]
  PROVE  /\ s \in Seq(Rows) /\ InOrder(s)
         /\ {<<e.key, e.entry>> : e \in ToSet(s)}
              = {<<k, written[k]>> : k \in {x \in Keys : written[x] # NoEntry}}
<1>1. PICK u : u = IterateEntries
  OBVIOUS
<1>2. /\ Lists(u, written, {k \in TsKeys : DefaultKey <= k /\ k <= Nil})
      /\ Len(u) \in Nat
  <2>1. DefaultKey \in Int /\ Nil \in Int
    BY NodesAssumption
  <2> QED  BY <1>1, <2>1, RangeLists DEF IterateEntries
<1>3. {k \in TsKeys : DefaultKey <= k /\ k <= Nil} = Keys
  <2>1. /\ \A k \in TsKeys : k \in Int /\ k < Nil
        /\ DefaultKey \in Int /\ Nil \in Int
    BY NodesAssumption
  <2> QED  BY <2>1, QueriesAssumption
<1>4. /\ \A i, j \in 1 .. Len(u) : i < j => u[i].key < u[j].key
      /\ {<<u[i].key, u[i].entry>> : i \in 1 .. Len(u)}
           = {<<k, written[k]>> : k \in {x \in Keys : written[x] # NoEntry}}
  BY <1>2, <1>3 DEF Lists
<1>5. PICK n \in Nat : n = Len(u)
  BY <1>2
<1>6. ASSUME NEW i \in 1 .. n PROVE u[i].key \in Keys /\ u[i].entry \in Entries
  <2>1. <<u[i].key, u[i].entry>>
          \in {<<k, written[k]>> : k \in {x \in Keys : written[x] # NoEntry}}
    BY <1>4, <1>5
  <2>2. PICK k \in Keys : /\ <<u[i].key, u[i].entry>> = <<k, written[k]>>
                          /\ written[k] # NoEntry
    BY <2>1
  <2>3. u[i].key = k /\ u[i].entry = written[k]
    BY <2>2
  <2>4. k \in TsKeys
    BY QueriesAssumption
  <2>5. written[k] \in Entries
    BY <2>2, <2>4 DEF MemInv
  <2> QED  BY <2>3, <2>5
<1>7. s = [i \in 1 .. n |-> [key |-> u[i].key, entry |-> u[i].entry, size |-> 1]]
  BY <1>1, <1>5
<1>8. /\ \A i \in 1 .. n : s[i] \in Rows
      /\ \A i \in 1 .. n : s[i].key = u[i].key
      /\ \A i \in 1 .. n : s[i].entry = u[i].entry
  <2>1. ASSUME NEW i \in 1 .. n
        PROVE  s[i] \in Rows /\ s[i].key = u[i].key /\ s[i].entry = u[i].entry
    BY <1>6, <1>7 DEF Rows
  <2> QED  BY <2>1
<1>9. s \in Seq(Rows) /\ Len(s) = n
  <2>1. s \in [1 .. n -> Rows]
    BY <1>7, <1>8
  <2> QED  BY ONLY <2>1, n \in Nat
<1>10. InOrder(s)
  <2>1. ASSUME NEW i \in 1 .. n, NEW j \in 1 .. n, i < j
        PROVE  s[i].key < s[j].key
    BY <1>4, <1>5, <1>8, <2>1
  <2> QED  BY <1>9, <2>1 DEF InOrder
<1>11. ToSet(s) = {s[i] : i \in 1 .. n}
  <2>1. n = Len(s)
    BY <1>9
  <2> QED  BY ONLY <1>9, <2>1, SetOf
<1>12. {<<e.key, e.entry>> : e \in ToSet(s)}
         = {<<u[i].key, u[i].entry>> : i \in 1 .. n}
  <2>1. {<<e.key, e.entry>> : e \in ToSet(s)}
          = {<<s[i].key, s[i].entry>> : i \in 1 .. n}
    <3>1. ASSUME NEW e \in ToSet(s)
          PROVE  <<e.key, e.entry>> \in {<<s[i].key, s[i].entry>> : i \in 1 .. n}
      <4>1. PICK i \in 1 .. n : e = s[i]
        BY <1>11
      <4> QED  BY <4>1
    <3>2. ASSUME NEW i \in 1 .. n
          PROVE  <<s[i].key, s[i].entry>> \in {<<e.key, e.entry>> : e \in ToSet(s)}
      <4>1. s[i] \in ToSet(s)
        BY <1>11
      <4> QED  BY <4>1
    <3> QED  BY <3>1, <3>2
  <2> DEFINE of(t, i) == <<t[i].key, t[i].entry>>
  <2>2. \A i \in 1 .. n : of(s, i) = of(u, i)
    BY <1>8
  <2>3. {of(s, i) : i \in 1 .. n} = {of(u, i) : i \in 1 .. n}
    <3> HIDE DEF of
    <3> QED  BY ONLY <2>2
  <2> QED  BY ONLY <2>1, <2>3
<1> QED  BY <1>4, <1>5, <1>9, <1>10, <1>12

\* A flush begins: what is to be added is what was written.
LEMMA TakeKeeps ==
  ASSUME FlushInv, NEW t \in Tables, Take(t)
  PROVE  FlushInv'
<1>1. /\ target = 0 /\ t \in Tables \ open /\ target' = t
      /\ handed' = [handed EXCEPT ![t] = [k \in Keys |-> written[k]]]
      /\ MemReset /\ UNCHANGED vars
  BY DEF Take
<1>2. /\ MemInv /\ TablesInv /\ QueriesInv /\ CachedInv
      /\ handed \in [Tables -> [Keys -> Entries \cup {NoEntry}]]
      /\ \A u \in open : AreHanded(u, ToSet(added[u]))
      /\ \A u \in Tables \ open : u # target \/ target = 0 => added[u] = <<>>
  BY DEF FlushInv
<1>3. MemInv'
  BY <1>1, EmptyIsFine
<1>4. UNCHANGED tableVars /\ UNCHANGED query /\ UNCHANGED cacheVars
  BY <1>1 DEF vars
<1>5. TablesInv' /\ QueriesInv' /\ CachedInv'
  BY <1>2, <1>4, TablesStay, OpenKeeps
<1>6. added' = added /\ open' = open
  BY <1>4 DEF tableVars
<1>7. PICK s : s = source' /\ s \in Seq(Rows) /\ InOrder(s)
               /\ {<<e.key, e.entry>> : e \in ToSet(s)}
                    = {<<k, written[k]>> : k \in {x \in Keys : written[x] # NoEntry}}
  BY <1>2, TakenIs DEF Take
<1>8. /\ handed' \in [Tables -> [Keys -> Entries \cup {NoEntry}]]
      /\ handed'[t] = [k \in Keys |-> written[k]]
      /\ \A u \in Tables : u # t => handed'[u] = handed[u]
  <2>1. \A k \in Keys : written[k] \in Entries \cup {NoEntry}
    BY <1>2, QueriesAssumption DEF MemInv
  <2> QED  BY <1>1, <1>2, <2>1
<1>9. added[t] = <<>>
  BY <1>1, <1>2
<1>10. ToSet(added[t]) = {}
  BY <1>9 DEF ToSet
<1>11. {<<e.key, e.entry>> : e \in ToSet(s)}
         = {<<k, handed'[t][k]>> : k \in {x \in Keys : handed'[t][x] # NoEntry}}
  BY <1>7, <1>8
<1>12. \A u \in open' : {<<e.key, e.entry>> : e \in ToSet(added'[u])}
         = {<<k, handed'[u][k]>> : k \in {x \in Keys : handed'[u][x] # NoEntry}}
  <2>1. \A u \in open : u \in Tables /\ u # t
    BY <1>1, <1>2 DEF TablesInv
  <2> QED  BY <1>2, <1>6, <1>8, <2>1 DEF AreHanded
<1>13. \A u \in open' : AreHanded(u, ToSet(added[u]))'
  BY <1>12 DEF AreHanded, ToSet
<1>14. AreHanded(target, ToSet(added[target]) \cup ToSet(source))'
  <2>1. ToSet(added'[t]) \cup ToSet(s) = ToSet(s)
    BY <1>6, <1>10
  <2>2. ToSet(added'[target']) \cup ToSet(source') = ToSet(s)
    BY <1>1, <1>7, <2>1
  <2>3. {<<e.key, e.entry>> : e \in ToSet(added'[target']) \cup ToSet(source')}
          = {<<k, handed'[target'][k]>> :
               k \in {x \in Keys : handed'[target'][x] # NoEntry}}
    BY <1>1, <1>11, <2>2
  <2> QED  BY <2>3 DEF AreHanded, ToSet
<1>15. Below(ToSet(added[target]), ToSet(source))'
  <2>1. Below(ToSet(added'[target']), ToSet(source'))
    BY <1>1, <1>6, <1>10 DEF Below
  <2> QED  BY <2>1 DEF Below, ToSet
<1>16. InOrder(source)' /\ source' \in Seq(Rows)
  BY <1>7 DEF InOrder
<1> QED
  BY <1>1, <1>2, <1>3, <1>5, <1>6, <1>8, <1>13, <1>14, <1>15, <1>16
  DEF FlushInv, Rows

\* The callback of the iteration: one row moves into the table.
LEMMA AddNextKeeps ==
  ASSUME FlushInv, AddNext
  PROVE  FlushInv'
<1>1. PICK t : t = target
  OBVIOUS
<1>2. /\ t # 0 /\ t \in Tables \ open /\ source \in Seq(Rows) /\ source # <<>>
      /\ InOrder(source) /\ Below(ToSet(added[t]), ToSet(source))
      /\ AreHanded(t, ToSet(added[t]) \cup ToSet(source))
  BY <1>1 DEF AddNext, FlushInv
<1>3. PICK e, s : e = Head(source) /\ s = Tail(source)
  OBVIOUS
<1>4. /\ e \in Rows /\ s \in Seq(Rows) /\ InOrder(s)
      /\ ToSet(source) = {e} \cup ToSet(s) /\ Below({e}, ToSet(s))
  BY <1>2, <1>3, HeadInOrder
<1>5. /\ Add(t, e) /\ source' = s /\ target' = t /\ handed' = handed
      /\ UNCHANGED memVars
  BY <1>1, <1>3 DEF AddNext
<1>6. /\ MemInv /\ TablesInv /\ QueriesInv /\ CachedInv
      /\ handed \in [Tables -> [Keys -> Entries \cup {NoEntry}]]
      /\ \A u \in open : AreHanded(u, ToSet(added[u]))
      /\ \A u \in Tables \ open : u # t => added[u] = <<>>
  BY <1>1 DEF FlushInv
<1>7. Below(ToSet(added[t]), {e})
  BY <1>2, <1>4 DEF Below
<1>8. /\ TablesInv' /\ OpenStay
      /\ ToSet(added'[t]) = ToSet(added[t]) \cup {e}
      /\ \A u \in Tables : u # t => added'[u] = added[u]
  BY <1>2, <1>4, <1>5, <1>6, <1>7, AddKeeps
<1>9. UNCHANGED query /\ UNCHANGED cacheVars /\ open' = open
  BY <1>5 DEF Add, cacheVars
<1>10. QueriesInv' /\ CachedInv'
  BY <1>6, <1>8, <1>9, OpenKeeps
<1>11. MemInv'
  BY <1>5, <1>6, MemStays
<1>12. \A u \in open' : AreHanded(u, ToSet(added[u]))'
  <2>1. \A u \in open : u \in Tables /\ u # t
    BY <1>2, <1>6 DEF TablesInv
  <2>2. \A u \in open : AreHanded(u, ToSet(added'[u]))
    BY <1>6, <1>8, <2>1
  <2> QED  BY <1>5, <1>9, <2>2 DEF AreHanded, ToSet
<1>13. AreHanded(target, ToSet(added[target]) \cup ToSet(source))'
  <2>1. ToSet(added'[t]) \cup ToSet(s) = ToSet(added[t]) \cup ToSet(source)
    BY <1>4, <1>8
  <2>2. AreHanded(t, ToSet(added'[t]) \cup ToSet(s))
    BY <1>2, <2>1
  <2> QED  BY <1>5, <2>2 DEF AreHanded, ToSet
<1>14. Below(ToSet(added[target]), ToSet(source))'
  <2>1. Below(ToSet(added'[t]), ToSet(s))
    BY <1>2, <1>4, <1>8 DEF Below
  <2> QED  BY <1>5, <2>1 DEF Below, ToSet
<1>15. InOrder(source)' /\ source' \in Seq(Rows)
  BY <1>4, <1>5 DEF InOrder
<1>16. \A u \in Tables \ open' : u # target' => added'[u] = <<>>
  BY <1>5, <1>6, <1>8, <1>9
<1> QED
  BY <1>2, <1>5, <1>6, <1>8, <1>9, <1>10, <1>11, <1>12, <1>13, <1>14, <1>15,
     <1>16
  DEF FlushInv, Rows

\* The table is finished: it has all rows.
LEMMA FinishTableKeeps ==
  ASSUME FlushInv, FinishTable
  PROVE  FlushInv'
<1>1. PICK t : t = target
  OBVIOUS
<1>2. /\ t # 0 /\ t \in Tables \ open /\ source = <<>>
      /\ AreHanded(t, ToSet(added[t]) \cup ToSet(source))
  BY <1>1 DEF FinishTable, FlushInv
<1>3. Finish(t) /\ target' = 0 /\ handed' = handed /\ UNCHANGED memVars
  BY <1>1 DEF FinishTable
<1>4. /\ MemInv /\ TablesInv /\ QueriesInv /\ CachedInv
      /\ handed \in [Tables -> [Keys -> Entries \cup {NoEntry}]]
      /\ \A u \in open : AreHanded(u, ToSet(added[u]))
      /\ \A u \in Tables \ open : u # t => added[u] = <<>>
  BY <1>1 DEF FlushInv
<1>5. TablesInv' /\ OpenStay /\ added' = added /\ open' = open \cup {t}
  BY <1>2, <1>3, <1>4, FinishKeeps
<1>6. UNCHANGED query /\ UNCHANGED cacheVars
  BY <1>3 DEF Finish, cacheVars
<1>7. QueriesInv' /\ CachedInv'
  BY <1>4, <1>5, <1>6, OpenKeeps
<1>8. MemInv'
  BY <1>3, <1>4, MemStays
<1>9. \A u \in open' : AreHanded(u, ToSet(added[u]))'
  <2>1. ToSet(source) = {}
    BY <1>2 DEF ToSet
  <2>2. ToSet(added[t]) \cup ToSet(source) = ToSet(added[t])
    BY <2>1
  <2>3. \A u \in open' : AreHanded(u, ToSet(added'[u]))
    BY <1>2, <1>4, <1>5, <2>2
  <2> QED  BY <1>3, <2>3 DEF AreHanded, ToSet
<1> QED
  BY <1>3, <1>4, <1>5, <1>7, <1>8, <1>9 DEF FlushInv

LEMMA FlushInvInit ==
  ASSUME FlushInit
  PROVE  FlushInv
<1>1. MemInv
  BY EmptyIsFine DEF FlushInit
<1>2. /\ added = [t \in Tables |-> <<>>] /\ open = {}
      /\ buffer = [t \in Tables |-> <<>>] /\ blocks = [t \in Tables |-> <<>>]
      /\ bloom = [t \in Tables |-> [size |-> InitialBits, bits |-> {}]]
      /\ query = [r \in Readers |-> NoQuery] /\ CacheInit
      /\ target = 0
      /\ handed = [t \in Tables |-> [k \in Keys |-> NoEntry]]
  BY DEF FlushInit, Init
<1>3. TablesInv
  <2>1. /\ <<>> \in Seq(Rows) /\ <<>> \in Seq(Seq(Rows)) /\ Len(<<>>) = 0
        /\ ToSet(<<>>) = {} /\ InOrder(<<>>)
    BY DEF ToSet, InOrder
  <2>2. Built(<<>>, <<>>, <<>>)
    BY <2>1 DEF Built
  <2>3. KeysOf(<<>>) = {}
    BY <2>1 DEF KeysOf
  <2>4. \A t \in Tables :
          added[t] = <<>> /\ buffer[t] = <<>> /\ blocks[t] = <<>>
    BY <1>2
  <2>5. /\ added \in [Tables -> Seq(Rows)] /\ buffer \in [Tables -> Seq(Rows)]
        /\ blocks \in [Tables -> Seq(Seq(Rows))]
    BY <1>2, <2>1
  <2>6. DOMAIN bloom = Tables /\ bloom = [t \in Tables |-> bloom[t]]
    BY <1>2
  <2> QED  BY <1>2, <2>2, <2>3, <2>4, <2>5, <2>6 DEF TablesInv
<1>4. QueriesInv
  <2>1. NoQuery \in Asked /\ NoQuery.pc = "idle"
    BY DEF NoQuery, Asked
  <2>2. QueryInv(NoQuery)
    BY <2>1 DEF QueryInv
  <2> QED  BY <1>2, <2>1, <2>2 DEF QueriesInv
<1>5. CachedInv
  <2>1. CacheInv(Tables \X Nat, Seq(Rows))
    BY <1>2, CacheInvInit
  <2>2. ToSet(lru) = {}
    BY <1>2 DEF CacheInit, ToSet
  <2> QED  BY <2>1, <2>2 DEF CachedInv
<1> QED  BY <1>1, <1>2, <1>3, <1>4, <1>5 DEF FlushInv

\* A write to the memtable or a query, while no table changes.
LEMMA FlushRest ==
  ASSUME FlushInv, MemInv', QueriesInv', CachedInv', UNCHANGED tableVars,
         UNCHANGED <<target, source, handed>>
  PROVE  FlushInv'
<1>1. TablesInv'
  BY TablesStay DEF FlushInv
<1>2. /\ added' = added /\ open' = open /\ target' = target
      /\ source' = source /\ handed' = handed
  BY DEF tableVars
<1>3. handed' \in [Tables -> [Keys -> Entries \cup {NoEntry}]]
  BY <1>2 DEF FlushInv
<1>4. \A t \in open' : AreHanded(t, ToSet(added[t]))'
  <2>1. \A t \in open' : AreHanded(t, ToSet(added'[t]))
    BY <1>2 DEF FlushInv
  <2> QED  BY <1>2, <2>1 DEF AreHanded, ToSet
<1>5. \A t \in Tables \ open' : t # target' \/ target' = 0 => added'[t] = <<>>
  BY <1>2 DEF FlushInv
<1>6. ASSUME target' # 0
      PROVE  /\ target' \in Tables \ open' /\ source' \in Seq(Rows)
             /\ InOrder(source)'
             /\ Below(ToSet(added[target]), ToSet(source))'
             /\ AreHanded(target, ToSet(added[target]) \cup ToSet(source))'
  <2>1. /\ target \in Tables \ open /\ source \in Seq(Rows) /\ InOrder(source)
        /\ Below(ToSet(added[target]), ToSet(source))
        /\ AreHanded(target, ToSet(added[target]) \cup ToSet(source))
    BY <1>2, <1>6 DEF FlushInv
  <2>2. Below(ToSet(added[target]), ToSet(source))'
    <3>1. Below(ToSet(added'[target']), ToSet(source'))
      BY <1>2, <2>1
    <3> QED  BY <3>1 DEF Below, ToSet
  <2>3. AreHanded(target, ToSet(added[target]) \cup ToSet(source))'
    <3>1. AreHanded(target, ToSet(added'[target']) \cup ToSet(source'))
      BY <1>2, <2>1
    <3> QED  BY <1>2, <3>1 DEF AreHanded, ToSet
  <2>4. InOrder(source)'
    <3>1. InOrder(source')
      BY <1>2, <2>1
    <3> QED  BY <3>1 DEF InOrder
  <2> QED  BY <1>2, <2>1, <2>2, <2>3, <2>4
<1> QED  BY <1>1, <1>3, <1>4, <1>5, <1>6 DEF FlushInv, Rows

LEMMA FlushInvStep ==
  ASSUME FlushInv, [FlushNext]_allVars
  PROVE  FlushInv'
<1>1. ASSUME UNCHANGED memVars PROVE MemInv'
  BY <1>1, MemStays DEF FlushInv
<1>2. ASSUME UNCHANGED tableVars, UNCHANGED query, UNCHANGED cacheVars
      PROVE  QueriesInv' /\ CachedInv'
  <2>1. TablesInv /\ QueriesInv /\ CachedInv
    BY DEF FlushInv
  <2> QED  BY <1>2, <2>1, TablesStay, OpenKeeps
<1>3. CASE WriteMem
  <2>1. PICK k \in TsKeys, e \in Entries, h \in 1 .. MaxHeight : MemWrite(k, e, h)
    BY <1>3 DEF WriteMem
  <2>2. MemInv'
    BY <2>1, WriteKeeps DEF FlushInv
  <2>3. /\ UNCHANGED tableVars /\ UNCHANGED query /\ UNCHANGED cacheVars
        /\ UNCHANGED <<target, source, handed>>
    BY <1>3 DEF WriteMem, vars
  <2> QED  BY <1>2, <2>2, <2>3, FlushRest
<1>4. CASE AddNext
  BY <1>4, AddNextKeeps
<1>5. CASE FinishTable
  BY <1>5, FinishTableKeeps
<1>6. ASSUME NEW t \in Tables, Take(t) PROVE FlushInv'
  BY <1>6, TakeKeeps
<1>7. ASSUME NEW r \in Readers, Query(r), UNCHANGED <<memVars, flushVars>>
      PROVE  FlushInv'
  <2>1. TablesInv /\ QueriesInv /\ CachedInv
    BY DEF FlushInv
  <2>2. UNCHANGED tableVars /\ QueriesInv' /\ CachedInv'
    BY <1>7, <2>1, QueryKeeps
  <2>3. UNCHANGED memVars /\ UNCHANGED <<target, source, handed>>
    BY <1>7 DEF flushVars
  <2> QED  BY <1>1, <2>2, <2>3, FlushRest
<1>8. CASE UNCHANGED allVars
  <2>1. /\ UNCHANGED memVars /\ UNCHANGED tableVars /\ UNCHANGED query
        /\ UNCHANGED cacheVars /\ UNCHANGED <<target, source, handed>>
    BY <1>8 DEF allVars, vars, flushVars
  <2> QED  BY <1>1, <1>2, <2>1, FlushRest
<1> QED  BY <1>3, <1>4, <1>5, <1>6, <1>7, <1>8 DEF FlushNext

LEMMA FlushAlways == FlushSpec => []FlushInv
<1>1. FlushInit => FlushInv
  BY FlushInvInit
<1>2. FlushInv /\ [FlushNext]_allVars => FlushInv'
  BY FlushInvStep
<1> QED  BY <1>1, <1>2, PTL DEF FlushSpec

\* In every memtable, of any size, with nodes of any height in any order, the
\* search that comes down the skip list and the scan along its lowest list
\* find the last entry written under each key.
THEOREM MemTableFindsIt == FlushSpec => []MemTableFindsWhatWasWritten
<1>1. FlushInv => MemTableFindsWhatWasWritten
  BY MemFinds DEF FlushInv
<1> QED  BY <1>1, FlushAlways, PTL

\* Every query of a finished table returns exactly the rows that were added
\* with a key in its range, in order, wherever blocks are cut, whatever the
\* Bloom filter's hashes and whatever other readers do to the cache; blocks
\* that cannot be read only hide rows.
THEOREM TableQueriesFindIt == FlushSpec => []QueriesFindWhatWasAdded
<1>1. FlushInv => QueriesFindWhatWasAdded
  <2>1. ASSUME FlushInv, NEW r \in Readers, query[r].pc = "done"
        PROVE  /\ \A i, j \in 1 .. Len(query[r].out) :
                    i < j => query[r].out[i].key < query[r].out[j].key
               /\ ToSet(query[r].out) \subseteq Expected(query[r])
               /\ ~query[r].failed =>
                    ToSet(query[r].out) = Expected(query[r])
    <3>1. PICK q : q = query[r] /\ QueryInv(q)
      BY <2>1 DEF FlushInv, QueriesInv
    <3> QED  BY <2>1, <3>1 DEF QueryInv, InOrder
  <2> QED  BY <2>1 DEF QueriesFindWhatWasAdded
<1> QED  BY <1>1, FlushAlways, PTL

\* From a client's write to the answer of a query of the SSTable it was
\* flushed to: the last value or tombstone of each key in the range, through
\* the skip list, the iteration of the flush, the blocks, their index, the
\* Bloom filter and the cache.
THEOREM FlushedQueriesFindIt == FlushSpec => []QueriesFindWhatWasWritten
<1>1. FlushInv => QueriesFindWhatWasWritten
  <2>1. ASSUME FlushInv, NEW r \in Readers,
               query[r].pc = "done", ~query[r].failed
        PROVE  Lists(query[r].out, handed[query[r].table],
                     {k \in Keys : query[r].begin <= k /\ k <= query[r].end})
    <3>1. PICK q : q = query[r] /\ QueryInv(q)
      BY <2>1 DEF FlushInv, QueriesInv
    <3>2. PICK t, s, m : t = q.table /\ s = q.out /\ m = handed[t]
      OBVIOUS
    <3>3. PICK a, b : a = q.begin /\ b = q.end
      OBVIOUS
    <3>4. /\ q \in Asked /\ t \in open /\ InOrder(s)
          /\ ToSet(s) = Expected(q) /\ s \in Seq(Rows)
      BY <2>1, <3>1, <3>2 DEF QueryInv, Asked
    <3>5. PICK A : A = ToSet(added[t]) /\ AreHanded(t, A)
      BY <2>1, <3>4 DEF FlushInv
    <3>6. {<<e.key, e.entry>> : e \in A}
            = {<<k, m[k]>> : k \in {x \in Keys : m[x] # NoEntry}}
      BY <3>2, <3>5 DEF AreHanded
    <3>7. ToSet(s) = {e \in A : a <= e.key /\ e.key <= b}
      BY <3>2, <3>3, <3>4, <3>5 DEF Expected, InRange
    <3>8. \A k \in {x \in Keys : m[x] # NoEntry} :
            \E e \in A : e.key = k /\ e.entry = m[k]
      <4>1. ASSUME NEW k \in {x \in Keys : m[x] # NoEntry}
            PROVE  \E e \in A : e.key = k /\ e.entry = m[k]
        <5>1. <<k, m[k]>> \in {<<e.key, e.entry>> : e \in A}
          BY <3>6
        <5> QED  BY <5>1
      <4> QED  BY <4>1
    <3>9. \A e \in A : /\ e.key \in Keys /\ m[e.key] # NoEntry
                       /\ e.entry = m[e.key]
      <4>1. ASSUME NEW e \in A
            PROVE  /\ e.key \in Keys /\ m[e.key] # NoEntry
                   /\ e.entry = m[e.key]
        <5>1. <<e.key, e.entry>>
                \in {<<k, m[k]>> : k \in {x \in Keys : m[x] # NoEntry}}
          BY <3>6
        <5> QED  BY <5>1
      <4> QED  BY <4>1
    <3>10. {<<e.key, e.entry>> : e \in ToSet(s)}
             = {<<k, m[k]>> : k \in {x \in {y \in Keys : a <= y /\ y <= b} :
                                        m[x] # NoEntry}}
      <4>1. ASSUME NEW e \in ToSet(s)
            PROVE  \E k \in {x \in {y \in Keys : a <= y /\ y <= b} :
                               m[x] # NoEntry} :
                     <<e.key, e.entry>> = <<k, m[k]>>
        BY <3>7, <3>9
      <4>2. ASSUME NEW k \in {x \in {y \in Keys : a <= y /\ y <= b} :
                                m[x] # NoEntry}
            PROVE  \E e \in ToSet(s) : <<k, m[k]>> = <<e.key, e.entry>>
        BY <3>7, <3>8
      <4> QED  BY <4>1, <4>2
    <3>11. {<<e.key, e.entry>> : e \in ToSet(s)}
             = {<<s[i].key, s[i].entry>> : i \in 1 .. Len(s)}
      <4>1. ToSet(s) = {s[i] : i \in 1 .. Len(s)}
        BY <3>4 DEF ToSet
      <4>2. ASSUME NEW e \in ToSet(s)
            PROVE  \E i \in 1 .. Len(s) :
                     <<e.key, e.entry>> = <<s[i].key, s[i].entry>>
        BY <4>1
      <4>3. \A i \in 1 .. Len(s) : s[i] \in ToSet(s)
        BY <4>1
      <4> QED  BY <4>2, <4>3
    <3>12. Lists(s, m, {k \in Keys : a <= k /\ k <= b})
      BY <3>4, <3>10, <3>11 DEF Lists, InOrder
    <3> QED  BY <3>1, <3>2, <3>3, <3>12
  <2> QED  BY <2>1 DEF QueriesFindWhatWasWritten
<1> QED  BY <1>1, FlushAlways, PTL

\* The cache that the readers of all tables share accounts for its blocks.
THEOREM SharedCacheAccountsForIt == FlushSpec => []CacheAccountsForItsEntries
<1>1. FlushInv => CacheAccountsForItsEntries
  BY DEF FlushInv, CachedInv, CacheInv
<1> QED  BY <1>1, FlushAlways, PTL

-----------------------------------------------------------------------------
(* Counting up and down.                                                   *)

GoesUp(G, a, b) == a \in G /\ \A i \in a .. b - 1 : i \in G => i + 1 \in G
GoesDown(G, a, b) == b \in G /\ \A i \in a .. b - 1 : i + 1 \in G => i \in G

\* Induction from a to b.
LEMMA Upward ==
  ASSUME NEW a \in Int, NEW b \in Int, NEW G, GoesUp(G, a, b)
  PROVE  a .. b \subseteq G
<1> USE DEF GoesUp
<1> DEFINE Bad == {i \in Nat : a + i <= b /\ a + i \notin G}
<1>1. SUFFICES ASSUME NEW x \in a .. b, x \notin G PROVE FALSE
  OBVIOUS
<1>2. x - a \in Bad
  <2>1. x - a \in Nat /\ a + (x - a) = x
    OBVIOUS
  <2> QED  BY <1>1, <2>1
<1>3. PICK m \in Nat : m \in Bad /\ \A i \in Bad : m <= i
  <2>1. Bad \in SUBSET Nat /\ Bad # {}
    BY <1>2
  <2> HIDE DEF Bad
  <2> QED  BY <2>1, LeastExists
<1>4. m # 0 /\ a + m <= b /\ a + m \notin G
  BY <1>3
<1>5. m - 1 \in Nat /\ m - 1 \notin Bad
  <2> HIDE DEF Bad
  <2> QED  BY <1>3, <1>4
<1>6. PICK i \in a .. b - 1 : i = a + (m - 1) /\ i + 1 = a + m
  BY <1>4, <1>5
<1> QED  BY <1>4, <1>5, <1>6

\* And from b to a.
LEMMA Downward ==
  ASSUME NEW a \in Int, NEW b \in Int, NEW G, GoesDown(G, a, b)
  PROVE  a .. b \subseteq G
<1> USE DEF GoesDown
<1> DEFINE Bad == {i \in Nat : b - i >= a /\ b - i \notin G}
<1>1. SUFFICES ASSUME NEW x \in a .. b, x \notin G PROVE FALSE
  OBVIOUS
<1>2. b - x \in Bad
  <2>1. b - x \in Nat /\ b - (b - x) = x
    OBVIOUS
  <2> QED  BY <1>1, <2>1
<1>3. PICK m \in Nat : m \in Bad /\ \A i \in Bad : m <= i
  <2>1. Bad \in SUBSET Nat /\ Bad # {}
    BY <1>2
  <2> HIDE DEF Bad
  <2> QED  BY <2>1, LeastExists
<1>4. m # 0 /\ b - m >= a /\ b - m \notin G
  BY <1>3
<1>5. m - 1 \in Nat /\ m - 1 \notin Bad
  <2> HIDE DEF Bad
  <2> QED  BY <1>3, <1>4
<1>6. PICK i \in a .. b - 1 : i = b - m /\ i + 1 = b - (m - 1)
  BY <1>4, <1>5
<1> QED  BY <1>4, <1>5, <1>6

\* Recursion from a up to b, and from b down to a.
ComputesUp(f, a, b, base, step) ==
  \A i \in a .. b : f[i] = IF i = a THEN base ELSE step[i, f[i - 1]]
ComputesDown(f, a, b, base, step) ==
  \A i \in a .. b : f[i] = IF i = b THEN base ELSE step[i, f[i + 1]]

CanStep(base, step, a, b, V) ==
  base \in V /\ step \in [(a .. b) \X V -> V]

LEMMA UpRecursion ==
  ASSUME NEW a \in Int, NEW b \in Int, NEW V,
         NEW base, NEW step, CanStep(base, step, a, b, V)
  PROVE  \E f \in [a .. b -> V] : ComputesUp(f, a, b, base, step)
<1> USE DEF CanStep
<1>1. PICK size : size = [i \in a .. b |-> i - a]
  OBVIOUS
<1>2. PICK nx : nx = [i \in a .. b |-> i - 1]
  OBVIOUS
<1>3. PICK all : all = [i \in a .. b |-> base]
  OBVIOUS
<1>4. PICK more : more = a + 1 .. b
  OBVIOUS
<1>5. Descends(a .. b, size, more, nx)
  <2>1. \A i \in a .. b : i - a \in Nat
    OBVIOUS
  <2>2. \A i \in more : i \in a .. b /\ i - 1 \in a .. b /\ i - 1 - a < i - a
    BY <1>4
  <2> QED  BY <1>1, <1>2, <2>1, <2>2 DEF Descends
<1>6. \A i \in a .. b : i \notin more => all[i] \in V
  BY <1>3
<1>7. PICK f \in [a .. b -> V] : Computes(f, a .. b, more, nx, all, step)
  BY <1>5, <1>6, RecursionExists
<1>8. \A i \in a .. b : i \in more <=> i # a
  BY <1>4
<1> QED  BY <1>2, <1>3, <1>7, <1>8 DEF Computes, ComputesUp

LEMMA DownRecursion ==
  ASSUME NEW a \in Int, NEW b \in Int, NEW V,
         NEW base, NEW step, CanStep(base, step, a, b, V)
  PROVE  \E f \in [a .. b -> V] : ComputesDown(f, a, b, base, step)
<1> USE DEF CanStep
<1>1. PICK size : size = [i \in a .. b |-> b - i]
  OBVIOUS
<1>2. PICK nx : nx = [i \in a .. b |-> i + 1]
  OBVIOUS
<1>3. PICK all : all = [i \in a .. b |-> base]
  OBVIOUS
<1>4. PICK more : more = a .. b - 1
  OBVIOUS
<1>5. Descends(a .. b, size, more, nx)
  <2>1. \A i \in a .. b : b - i \in Nat
    OBVIOUS
  <2>2. \A i \in more : i \in a .. b /\ i + 1 \in a .. b /\ b - (i + 1) < b - i
    BY <1>4
  <2> QED  BY <1>1, <1>2, <2>1, <2>2 DEF Descends
<1>6. \A i \in a .. b : i \notin more => all[i] \in V
  BY <1>3
<1>7. PICK f \in [a .. b -> V] : Computes(f, a .. b, more, nx, all, step)
  BY <1>5, <1>6, RecursionExists
<1>8. \A i \in a .. b : i \in more <=> i # b
  BY <1>4
<1> QED  BY <1>2, <1>3, <1>7, <1>8 DEF Computes, ComputesDown

-----------------------------------------------------------------------------
(* Powers, quotients and remainders.                                       *)

\* p[n] is the n-th power of c.
ArePowers(p, c, N) ==
  /\ p \in [0 .. N -> Nat \ {0}] /\ p[0] = 1
  /\ \A n \in 0 .. N - 1 : p[n + 1] = c * p[n]

Multiplies(p, c, N) ==
  /\ p \in [0 .. N -> Int] /\ p[0] = 1
  /\ \A n \in 0 .. N - 1 : p[n + 1] = c * p[n]

LEMMA PowersPositive ==
  ASSUME NEW N \in Nat, NEW c \in Nat \ {0}, NEW p, Multiplies(p, c, N)
  PROVE  ArePowers(p, c, N)
<1> USE DEF Multiplies
<1> DEFINE G == {n \in 0 .. N : p[n] \in Nat \ {0}}
<1>1. ASSUME NEW i \in 0 .. N - 1, i \in G PROVE i + 1 \in G
  <2>1. PICK x \in Nat \ {0} : x = p[i]
    BY <1>1
  <2>2. c * x \in Nat \ {0}
    OBVIOUS
  <2>3. i + 1 \in 0 .. N
    OBVIOUS
  <2> QED  BY <2>1, <2>2, <2>3
<1>2. 0 \in G
  OBVIOUS
<1>3. 0 .. N \subseteq G
  <2> HIDE DEF G
  <2>1. GoesUp(G, 0, N)
    BY <1>1, <1>2 DEF GoesUp
  <2> QED  BY <2>1, Upward
<1>4. \A n \in 0 .. N : p[n] \in Nat \ {0}
  BY <1>3
<1>5. p \in [0 .. N -> Nat \ {0}]
  BY <1>4
<1> QED  BY <1>5 DEF ArePowers

LEMMA PowersGrow ==
  ASSUME NEW N \in Nat, NEW c \in Nat \ {0}, NEW p, ArePowers(p, c, N),
         NEW m \in 0 .. N, NEW n \in 0 .. N, m <= n
  PROVE  p[m] <= p[n]
<1> DEFINE G == {k \in 0 .. N : p[m] <= p[k]}
<1>1. ASSUME NEW i \in m .. n - 1, i \in G PROVE i + 1 \in G
  <2>1. i \in 0 .. N - 1 /\ i \in 0 .. N /\ i + 1 \in 0 .. N
    OBVIOUS
  <2>2. PICK x \in Nat, y \in Nat : x = p[m] /\ y = p[i] /\ x <= y
        /\ p[i + 1] = c * y
    BY <1>1, <2>1 DEF ArePowers
  <2>3. y <= c * y /\ c * y \in Nat
    <3>1. c >= 1
      OBVIOUS
    <3> QED  BY <3>1
  <2> QED  BY <2>1, <2>2, <2>3
<1>2. m \in G
  BY DEF ArePowers
<1>3. m .. n \subseteq G
  <2> HIDE DEF G
  <2>1. GoesUp(G, m, n)
    BY <1>1, <1>2 DEF GoesUp
  <2> QED  BY <2>1, Upward
<1>4. n \in m .. n
  OBVIOUS
<1> QED  BY <1>3, <1>4

\* The powers of two that the widths need.
LEMMA TwoPowers ==
  \E p : /\ ArePowers(p, 2, WordBits + ByteBits)
         /\ \A n \in 0 .. WordBits + ByteBits : p[n] = 2 ^ n
<1>1. WordBits \in Nat /\ ByteBits \in Nat
  BY WordAssumption, WidthsAssumption
<1>2. PICK N \in Nat : N = WordBits + ByteBits
  BY <1>1
<1>3. PICK p : p = [n \in 0 .. N |-> 2 ^ n]
  OBVIOUS
<1>4. p[0] = 1
  BY <1>3
<1>5. \A n \in 0 .. N : 2 ^ (n + 1) = 2 * 2 ^ n
  BY <1>2, CodePowersAssumption
<1>6. \A n \in 0 .. N : p[n] = 2 ^ n
  BY <1>3
<1>7. \A n \in 0 .. N - 1 : p[n + 1] = 2 * p[n]
  <2>1. \A n \in 0 .. N - 1 : n \in 0 .. N /\ n + 1 \in 0 .. N
    OBVIOUS
  <2> QED  BY <1>5, <1>6, <2>1
<1>8. p \in [0 .. N -> Int]
  <2>1. \A n \in 0 .. N : 2 ^ n \in Int
    OBVIOUS
  <2> QED  BY <1>3, <2>1
<1>9. ArePowers(p, 2, N)
  <2>1. Multiplies(p, 2, N)
    BY <1>4, <1>7, <1>8 DEF Multiplies
  <2> QED  BY <2>1, PowersPositive
<1> QED  BY <1>2, <1>6, <1>9

\* Division with remainder is unique.
LEMMA DivIs ==
  ASSUME NEW m \in Nat \ {0}, NEW q \in Int, NEW r \in 0 .. m - 1,
         NEW x \in Int, x = m * q + r
  PROVE  x \div m = q /\ x % m = r
<1>1. PICK d \in Int, e \in 0 .. m - 1 :
        d = x \div m /\ e = x % m /\ x = m * d + e
  OBVIOUS
<1>2. m * q - m * d = e - r
  <2>1. m * q \in Int /\ m * d \in Int
    OBVIOUS
  <2> QED  BY <1>1, <2>1
<1>3. m * (q - d) = m * q - m * d
  BY <1>1
<1>4. PICK k \in Int : k = q - d /\ m * k = e - r
  BY <1>1, <1>2, <1>3
<1>5. e - r < m /\ e - r > -m
  BY <1>1
<1>6. k = 0
  <2>1. k >= 1 => m * k >= m
    OBVIOUS
  <2>2. k <= -1 => m * k <= -m
    <3>1. ASSUME k <= -1 PROVE m * k <= -m
      <4>1. PICK j \in Int : j = -k /\ j >= 1
        BY <3>1
      <4>2. m * j >= m
        BY <4>1
      <4>3. m * k = -(m * j)
        BY <4>1
      <4>4. m * j \in Int
        OBVIOUS
      <4> QED  BY <4>2, <4>3, <4>4
    <3> QED  BY <3>1
  <2> QED  BY <1>4, <1>5, <2>1, <2>2
<1>7. q = d
  BY <1>4, <1>6
<1>8. e = r
  BY <1>4, <1>5, <1>6, <1>1
<1> QED  BY <1>1, <1>7, <1>8

LEMMA DivSmall ==
  ASSUME NEW m \in Nat \ {0}, NEW r \in 0 .. m - 1
  PROVE  r \div m = 0 /\ r % m = r /\ (r + m) \div m = 1 /\ (r + m) % m = r
<1>1. PICK q \in Int, x \in Int : q = 0 /\ x = r
  OBVIOUS
<1>2. PICK t \in Int, y \in Int : t = 1 /\ y = r + m
  OBVIOUS
<1>3. m * q = 0 /\ m * t = m
  BY <1>1, <1>2
<1>4. x = m * q + r /\ y = m * t + r
  BY <1>1, <1>2, <1>3
<1>5. x \div m = q /\ x % m = r
  BY ONLY <1>4, DivIs, m \in Nat \ {0}, r \in 0 .. m - 1, x \in Int, q \in Int
<1>6. y \div m = t /\ y % m = r
  BY ONLY <1>4, DivIs, m \in Nat \ {0}, r \in 0 .. m - 1, y \in Int, t \in Int
<1> QED  BY <1>1, <1>2, <1>5, <1>6

LEMMA DivOf ==
  ASSUME NEW m \in Nat \ {0}, NEW x \in Int
  PROVE  /\ x \div m \in Int /\ x % m \in 0 .. m - 1
         /\ x = m * (x \div m) + (x % m)
         /\ x >= 0 => x \div m >= 0 /\ x \div m <= x
         /\ x >= 0 => m * (x \div m) <= x
OBVIOUS

\* Equal but for multiples of 2 ^ WordBits.
Same(x, y) == Unsigned(x) = Unsigned(y)

LEMMA UnsignedIs ==
  ASSUME NEW x \in Int
  PROVE  /\ Unsigned(x) \in 0 .. 2 ^ WordBits - 1
         /\ \E k \in Int : x = 2 ^ WordBits * k + Unsigned(x)
<1>1. PICK W \in Nat \ {0} : W = 2 ^ WordBits
  BY WordPowersAssumption
<1>2. x % W \in 0 .. W - 1 /\ x \div W \in Int /\ x = W * (x \div W) + (x % W)
  BY DivOf
<1> QED  BY <1>1, <1>2 DEF Unsigned

LEMMA UnsignedOf ==
  ASSUME NEW r \in 0 .. 2 ^ WordBits - 1, NEW k \in Int, NEW x \in Int,
         x = 2 ^ WordBits * k + r
  PROVE  Unsigned(x) = r
<1>1. PICK W \in Nat \ {0} : W = 2 ^ WordBits
  BY WordPowersAssumption
<1>2. r \in 0 .. W - 1 /\ x = W * k + r
  BY <1>1
<1>3. x % W = r
  BY <1>2, DivIs
<1> QED  BY <1>1, <1>3 DEF Unsigned

\* Sums and differences are the same for the same numbers.
LEMMA SameIff ==
  ASSUME NEW x \in Int, NEW y \in Int
  PROVE  Same(x, y) <=> \E k \in Int : x = 2 ^ WordBits * k + y
<1>1. PICK W \in Nat \ {0} : W = 2 ^ WordBits
  BY WordPowersAssumption
<1>2. PICK r \in 0 .. W - 1, i \in Int : r = Unsigned(x) /\ x = W * i + r
  BY <1>1, UnsignedIs
<1>3. PICK s \in 0 .. W - 1, j \in Int : s = Unsigned(y) /\ y = W * j + s
  BY <1>1, UnsignedIs
<1>4. ASSUME Same(x, y) PROVE \E k \in Int : x = W * k + y
  <2>1. r = s
    BY <1>2, <1>3, <1>4 DEF Same
  <2>2. W * (i - j) = W * i - W * j /\ W * i \in Int /\ W * j \in Int
    OBVIOUS
  <2>3. i - j \in Int /\ x = W * (i - j) + y
    BY <1>2, <1>3, <2>1, <2>2
  <2> QED  BY <2>3
<1>5. ASSUME NEW k \in Int, x = W * k + y PROVE Same(x, y)
  <2>1. W * (k + j) = W * k + W * j /\ W * k \in Int /\ W * j \in Int
    OBVIOUS
  <2>2. x = W * (k + j) + s /\ k + j \in Int
    BY <1>3, <1>5, <2>1
  <2>3. Unsigned(x) = s
    BY <1>1, <2>2, UnsignedOf
  <2> QED  BY <1>3, <2>3 DEF Same
<1> QED  BY <1>1, <1>4, <1>5

LEMMA SameSum ==
  ASSUME NEW x \in Int, NEW y \in Int, NEW z \in Int, Same(x, y)
  PROVE  Same(x + z, y + z) /\ Same(-x, -y) /\ Same(z - x, z - y)
<1>1. PICK W \in Nat \ {0} : W = 2 ^ WordBits
  BY WordPowersAssumption
<1>2. PICK k \in Int : x = W * k + y
  BY <1>1, SameIff
<1>3. PICK a \in Int, b \in Int, j \in Int :
        a = W * k /\ j = -k /\ b = W * j /\ b = -a
  <2>1. W * (-k) = -(W * k) /\ W * k \in Int /\ -k \in Int /\ W * (-k) \in Int
    OBVIOUS
  <2> QED  BY <2>1
<1>4. x + z = W * k + (y + z) /\ -x = W * j + (-y) /\ z - x = W * j + (z - y)
  BY <1>2, <1>3
<1>5. /\ x + z \in Int /\ y + z \in Int /\ -x \in Int /\ -y \in Int
      /\ z - x \in Int /\ z - y \in Int
  OBVIOUS
<1>6. PICK x1 \in Int, y1 \in Int : x1 = x + z /\ y1 = y + z
  BY <1>5
<1>7. PICK x2 \in Int, y2 \in Int : x2 = -x /\ y2 = -y
  BY <1>5
<1>8. PICK x3 \in Int, y3 \in Int : x3 = z - x /\ y3 = z - y
  BY <1>5
<1>9. Same(x1, y1)
  BY <1>1, <1>4, <1>6, SameIff
<1>10. Same(x2, y2)
  BY <1>1, <1>3, <1>4, <1>7, SameIff
<1>11. Same(x3, y3)
  BY <1>1, <1>3, <1>4, <1>8, SameIff
<1> QED  BY <1>6, <1>7, <1>8, <1>9, <1>10, <1>11

\* Conversions change nothing else.
LEMMA ConvertedIsSame ==
  ASSUME NEW x \in Int
  PROVE  /\ Unsigned(x) \in Int /\ Signed(x) \in Int64 /\ Signed(x) \in Int
         /\ Same(Unsigned(x), x) /\ Same(Signed(x), x)
<1>1. PICK P \in Nat \ {0}, W \in Nat \ {0} :
        /\ P = 2 ^ (WordBits - 1) /\ W = 2 ^ WordBits /\ W = 2 * P
        /\ MaxInt = P - 1
  BY WordPowersAssumption DEF MaxInt
<1>2. PICK r \in 0 .. W - 1, k \in Int : r = Unsigned(x) /\ x = W * k + r
  BY <1>1, UnsignedIs
<1>3. Same(x, r)
  BY <1>1, <1>2, SameIff
<1>4. PICK t \in Int : t = Signed(x) /\ t = IF r > P - 1 THEN r - W ELSE r
  BY <1>1, <1>2 DEF Signed
<1>5. t \in -P .. P - 1
  BY <1>1, <1>4
<1>6. Same(t, r)
  <2>1. CASE t = r
    BY <2>1 DEF Same
  <2>2. CASE t = r - W
    <3>1. t = W * (-1) + r
      BY <2>2
    <3> QED  BY <1>1, <3>1, SameIff
  <2> QED  BY <1>4, <2>1, <2>2
<1>7. Int64 = -P .. P - 1
  BY <1>1 DEF Int64, MinInt, MaxInt
<1> QED  BY <1>2, <1>3, <1>4, <1>5, <1>6, <1>7 DEF Same

LEMMA SameUnsigned ==
  ASSUME NEW x \in 0 .. 2 ^ WordBits - 1
  PROVE  Unsigned(x) = x
<1>1. PICK W \in Nat \ {0} : W = 2 ^ WordBits
  BY WordPowersAssumption
<1>2. x \in Int /\ x = W * 0 + x
  BY <1>1
<1> QED  BY <1>1, <1>2, UnsignedOf

-----------------------------------------------------------------------------
(* Varints.                                                                *)

LEMMA MoreIs ==
  /\ More \in Nat \ {0} /\ More >= 2
  /\ \A n \in Nat : More ^ n \in Int
<1>1. PICK N \in Nat : N = WordBits + ByteBits /\ ByteBits - 1 \in 1 .. N
  BY WordAssumption, WidthsAssumption
<1>2. PICK p : ArePowers(p, 2, N) /\ \A n \in 0 .. N : p[n] = 2 ^ n
  BY <1>1, TwoPowers
<1>3. 0 \in 0 .. N /\ 1 \in 0 .. N /\ ByteBits - 1 \in 0 .. N /\ 0 \in 0 .. N - 1
  BY <1>1
<1>4. p[1] = 2
  BY <1>2, <1>3 DEF ArePowers
<1>5. p[1] <= p[ByteBits - 1] /\ p[ByteBits - 1] \in Nat
  <2>1. PICK b \in 0 .. N : b = ByteBits - 1 /\ 1 <= b
    BY <1>1
  <2>2. p[1] <= p[b]
    BY <1>2, <1>3, <2>1, PowersGrow
  <2>3. p[b] \in Nat
    BY <1>2 DEF ArePowers
  <2> QED  BY <2>1, <2>2, <2>3
<1>6. More = p[ByteBits - 1]
  BY <1>2, <1>3 DEF More
<1>7. More \in Nat \ {0} /\ More >= 2
  BY <1>4, <1>5, <1>6
<1>8. ASSUME NEW n \in Nat PROVE More ^ n \in Int
  BY <1>7
<1> QED  BY <1>7, <1>8

\* The powers that shifts of whole bytes multiply by.
LEMMA MorePowers ==
  \E p : ArePowers(p, More, WordBits) /\ \A n \in 0 .. WordBits : p[n] = More ^ n
<1>1. PICK N \in Nat : N = WordBits
  BY WordAssumption
<1>2. PICK M \in Nat \ {0} : M = More /\ \A n \in Nat : M ^ n \in Int
  BY MoreIs
<1>3. PICK p : p = [n \in 0 .. N |-> M ^ n]
  OBVIOUS
<1>4. p[0] = 1 /\ \A n \in 0 .. N : p[n] = M ^ n
  BY <1>2, <1>3, CodePowersAssumption
<1>5. \A n \in 0 .. N : M ^ (n + 1) = M * M ^ n
  BY <1>1, <1>2, CodePowersAssumption
<1>6. \A n \in 0 .. N - 1 : p[n + 1] = M * p[n]
  <2>1. \A n \in 0 .. N - 1 : n \in 0 .. N /\ n + 1 \in 0 .. N
    OBVIOUS
  <2> QED  BY <1>4, <1>5, <2>1
<1>7. p \in [0 .. N -> Int]
  <2>1. \A n \in 0 .. N : n \in Nat
    OBVIOUS
  <2> QED  BY <1>2, <1>3, <2>1
<1>8. ArePowers(p, M, N)
  <2>1. Multiplies(p, M, N)
    BY <1>4, <1>6, <1>7 DEF Multiplies
  <2> QED  BY <2>1, PowersPositive
<1> QED  BY <1>1, <1>2, <1>4, <1>8

\* s is the varint of v, and x[i] what is left of v at its i-th byte.
IsVarint(s, v, x) ==
  /\ s \in Seq(Nat) /\ Len(s) \in 1 .. WordBits + 1
  /\ x \in [1 .. Len(s) -> 0 .. 2 ^ WordBits - 1] /\ x[1] = v
  /\ \A i \in 1 .. Len(s) - 1 :
       /\ x[i] >= More /\ s[i] = (x[i] % More) + More
       /\ x[i + 1] = x[i] \div More
  /\ x[Len(s)] < More /\ s[Len(s)] = x[Len(s)]
  /\ Len(s) = 1 \/ 2 ^ (Len(s) - 1) <= v

\* One byte more in front.
LEMMA VarintGrows ==
  ASSUME NEW v \in 0 .. 2 ^ WordBits - 1, v >= More,
         NEW t, NEW x, IsVarint(t, v \div More, x)
  PROVE  \E y : IsVarint(<<(v % More) + More>> \o t, v, y)
<1>1. PICK W \in Nat \ {0}, M \in Nat \ {0} :
        W = 2 ^ WordBits /\ M = More /\ M >= 2
  BY WordPowersAssumption, MoreIs
<1>2. PICK u \in Nat, c \in Nat :
        u = v \div M /\ c = (v % M) + M /\ M * u <= v /\ u < W
  <2>1. v \div M \in Int /\ v \div M >= 0 /\ v \div M <= v /\ M * (v \div M) <= v
        /\ v % M \in 0 .. M - 1
    <3>1. v \in Int /\ v >= 0
      BY <1>1
    <3> QED  BY <3>1, DivOf
  <2>2. v \div M \in Nat /\ (v % M) + M \in Nat /\ v \div M < W
    BY <1>1, <2>1
  <2> QED  BY <2>1, <2>2
<1>3. 2 * u <= v
  <2>1. 2 * u <= M * u
    BY <1>1
  <2> QED  BY <1>1, <1>2, <2>1
<1>4. PICK n \in Nat : n = Len(t) /\ n >= 1 /\ n <= WordBits + 1
  BY DEF IsVarint
<1>5. WordBits \in Nat
  BY WordAssumption
\* 2 ^ n is below 2 ^ WordBits, so n is below WordBits.
<1>6. n \in 1 .. WordBits /\ 2 ^ n <= v
  <2>1. PICK N \in Nat : N = WordBits + ByteBits /\ ByteBits \in Nat /\ ByteBits > 1
    BY WordAssumption, WidthsAssumption
  <2>2. PICK p : ArePowers(p, 2, N) /\ \A k \in 0 .. N : p[k] = 2 ^ k
    BY <2>1, TwoPowers
  <2>3. n - 1 \in 0 .. N /\ n - 1 \in 0 .. N - 1 /\ n \in 0 .. N /\ n - 1 + 1 = n
        /\ WordBits \in 0 .. N
    BY <1>4, <1>5, <2>1
  <2>4. p[n] = 2 * p[n - 1] /\ p[n - 1] \in Nat /\ p[n] \in Nat
    BY <2>2, <2>3 DEF ArePowers
  <2>5. n = 1 \/ p[n - 1] <= u
    <3>1. n = 1 \/ 2 ^ (n - 1) <= u
      BY <1>1, <1>2, <1>4 DEF IsVarint
    <3> QED  BY <2>2, <2>3, <3>1
  <2>6. p[n] <= v
    <3>1. CASE n = 1
      <4>1. p[0] = 1 /\ n - 1 = 0
        BY <2>2, <3>1 DEF ArePowers
      <4>2. p[n] = 2
        BY <2>4, <4>1
      <4> QED  BY <1>1, <4>2
    <3>2. CASE p[n - 1] <= u
      BY <1>2, <1>3, <2>4, <3>2
    <3> QED  BY <2>5, <3>1, <3>2
  <2>7. n <= WordBits
    <3>1. p[WordBits] = W
      BY <1>1, <2>2, <2>3
    <3>2. WordBits <= n => p[WordBits] <= p[n]
      BY <2>1, <2>2, <2>3, PowersGrow
    <3>3. v < W /\ v \in Int /\ p[n] \in Int
      BY <1>1, <2>4
    <3> QED  BY ONLY <1>1, <1>4, <1>5, <2>6, <3>1, <3>2, <3>3
  <2> QED  BY <1>4, <2>2, <2>3, <2>6, <2>7
<1>7. PICK one : one = <<c>> /\ one \in Seq(Nat) /\ Len(one) = 1 /\ one[1] = c
  <2>1. <<c>> \in Seq(Nat) /\ Len(<<c>>) = 1 /\ <<c>>[1] = c
    OBVIOUS
  <2> QED  BY <2>1
<1>8. PICK s : s = one \o t
  OBVIOUS
<1>9. t \in Seq(Nat)
  BY DEF IsVarint
<1>10. s \in Seq(Nat) /\ Len(s) = 1 + n
       /\ \A i \in 1 .. 1 + n : s[i] = IF i <= 1 THEN one[i] ELSE t[i - 1]
  BY <1>4, <1>7, <1>8, <1>9, ConcatProperties
<1>11. s[1] = c /\ \A i \in 2 .. n + 1 : s[i] = t[i - 1]
  <2>1. 1 \in 1 .. 1 + n /\ 1 <= 1
    OBVIOUS
  <2>2. \A i \in 2 .. n + 1 : i \in 1 .. 1 + n /\ ~(i <= 1)
    OBVIOUS
  <2> QED  BY <1>7, <1>10, <2>1, <2>2
<1>12. PICK y : y = [i \in 1 .. n + 1 |-> IF i = 1 THEN v ELSE x[i - 1]]
  OBVIOUS
<1>13. /\ x \in [1 .. n -> 0 .. W - 1] /\ x[1] = u
       /\ \A i \in 1 .. n - 1 : /\ x[i] >= M /\ t[i] = (x[i] % M) + M
                                /\ x[i + 1] = x[i] \div M
       /\ x[n] < M /\ t[n] = x[n]
  BY <1>1, <1>2, <1>4 DEF IsVarint
<1>14. y \in [1 .. n + 1 -> 0 .. W - 1]
  <2>1. \A i \in 1 .. n + 1 : i # 1 => i - 1 \in 1 .. n
    OBVIOUS
  <2>2. v \in 0 .. W - 1
    BY <1>1
  <2> QED  BY <1>12, <1>13, <2>1, <2>2
<1>15. y[1] = v /\ \A i \in 2 .. n + 1 : y[i] = x[i - 1]
  <2>1. 1 \in 1 .. n + 1 /\ \A i \in 2 .. n + 1 : i \in 1 .. n + 1 /\ i # 1
    OBVIOUS
  <2> QED  BY <1>12, <2>1
<1>16. ASSUME NEW i \in 1 .. n
       PROVE  y[i] >= M /\ s[i] = (y[i] % M) + M /\ y[i + 1] = y[i] \div M
  <2>1. CASE i = 1
    <3>1. 2 \in 2 .. n + 1 /\ y[2] = x[1]
      <4>1. 2 \in 2 .. n + 1 /\ 2 - 1 = 1
        BY <1>4
      <4> QED  BY <1>15, <4>1
    <3>2. i + 1 = 2
      BY <2>1
    <3>3. v >= M
      BY <1>1
    <3> QED  BY <1>2, <1>11, <1>13, <1>15, <2>1, <3>1, <3>2, <3>3
  <2>2. CASE i # 1
    <3>1. PICK j \in 1 .. n - 1 : j = i - 1 /\ j + 1 = i
      BY <2>2
    <3>2. i \in 2 .. n + 1 /\ i + 1 \in 2 .. n + 1 /\ (i + 1) - 1 = j + 1
      BY <2>2, <3>1
    <3>3. y[i] = x[j] /\ y[i + 1] = x[j + 1] /\ s[i] = t[j]
      BY <1>11, <1>15, <3>1, <3>2
    <3> QED  BY <1>13, <3>3
  <2> QED  BY <2>1, <2>2
<1>17. y[n + 1] < M /\ s[n + 1] = y[n + 1]
  <2>1. n + 1 \in 2 .. n + 1 /\ (n + 1) - 1 = n
    BY <1>4
  <2> QED  BY <1>11, <1>13, <1>15, <2>1
<1>18. IsVarint(s, v, y)
  <2>1. Len(s) = n + 1 /\ n \in Int
    BY <1>6, <1>10
  <2>2. n + 1 \in 1 .. WordBits + 1
    BY ONLY <1>5, <1>6, n \in Nat
  <2>3. (n + 1) - 1 = n
    BY <2>1
  <2>4. Len(s) - 1 = n
    BY <2>1, <2>3
  <2> QED  BY <1>1, <1>6, <1>10, <1>14, <1>15, <1>16, <1>17, <2>1, <2>2, <2>4
           DEF IsVarint
<1> QED  BY <1>1, <1>2, <1>7, <1>8, <1>18

\* EncodeVarint writes the varint.
LEMMA EncodeVarintIs ==
  ASSUME NEW v \in 0 .. 2 ^ WordBits - 1
  PROVE  \E x : IsVarint(EncodeVarint(v), v, x)
<1>1. PICK W \in Nat \ {0}, M \in Nat \ {0} :
        W = 2 ^ WordBits /\ M = More /\ M >= 2
  BY WordPowersAssumption, MoreIs
<1>2. PICK D : D = 0 .. W - 1
  OBVIOUS
<1>3. PICK more : more = {w \in D : w >= M}
  OBVIOUS
<1>4. PICK nx : nx = [w \in D |-> w \div M]
  OBVIOUS
<1>5. PICK size : size = [w \in D |-> w]
  OBVIOUS
<1>6. PICK base : base = [w \in D |-> <<w>>]
  OBVIOUS
<1>7. PICK step : step = [z \in D \X Seq(Nat) |-> <<(z[1] % M) + M>> \o z[2]]
  OBVIOUS
<1>8. \A w \in D : w \in Nat /\ w \div M \in D /\ (w % M) + M \in Nat
                   /\ (w >= M => w \div M < w)
  <2>1. ASSUME NEW w \in D
        PROVE  w \in Nat /\ w \div M \in D /\ (w % M) + M \in Nat
               /\ (w >= M => w \div M < w)
    <3>9. w \in Int /\ w >= 0
      BY <1>1, <1>2
    <3>1. w \div M \in Int /\ w \div M >= 0 /\ w \div M <= w /\ M * (w \div M) <= w
          /\ w % M \in 0 .. M - 1
      BY <3>9, DivOf
    <3>2. PICK q \in Nat : q = w \div M /\ q <= w /\ M * q <= w
      BY <3>1
    <3>3. 2 * q <= M * q
      BY <1>1
    <3>4. w >= M => q < w
      BY <1>1, <1>2, <3>2, <3>3
    <3> QED  BY <1>1, <1>2, <3>1, <3>2, <3>4
  <2> QED  BY <2>1
<1>9. Descends(D, size, more, nx)
  BY <1>3, <1>4, <1>5, <1>8 DEF Descends
<1>10. \A w \in D : w \notin more => base[w] \in Seq(Nat)
  BY <1>6, <1>8
<1>11. step \in [D \X Seq(Nat) -> Seq(Nat)]
  <2>1. ASSUME NEW z \in D \X Seq(Nat)
        PROVE  <<(z[1] % M) + M>> \o z[2] \in Seq(Nat)
    <3>1. PICK a, b : a = <<(z[1] % M) + M>> /\ b = z[2]
      OBVIOUS
    <3>2. a \in Seq(Nat) /\ b \in Seq(Nat)
      BY <1>8, <3>1
    <3>3. a \o b \in Seq(Nat)
      BY ONLY <3>2, ConcatProperties
    <3> QED  BY <3>1, <3>3
  <2> QED  BY <1>7, <2>1
<1>12. PICK f \in [D -> Seq(Nat)] : Computes(f, D, more, nx, base, step)
  BY <1>9, <1>10, <1>11, RecursionExists
<1> DEFINE Step(g) == [w \in 0 .. 2 ^ WordBits - 1 |->
              IF w >= More THEN <<(w % More) + More>> \o g[w \div More] ELSE <<w>>]
           fix == CHOOSE g : g = Step(g)
<1>13. f = Step(f)
  <2>1. f = [w \in D |-> f[w]]
    BY <1>12
  <2>2. ASSUME NEW w \in D
        PROVE  f[w] = IF w >= M THEN <<(w % M) + M>> \o f[w \div M] ELSE <<w>>
    <3>1. f[w] = IF w \in more THEN step[w, f[nx[w]]] ELSE base[w]
      BY <1>12 DEF Computes
    <3>2. w >= M <=> w \in more
      BY <1>3
    <3>3. nx[w] = w \div M /\ base[w] = <<w>> /\ w \div M \in D
      BY <1>4, <1>6, <1>8
    <3>4. PICK r \in Seq(Nat) : r = f[w \div M]
      BY <1>12, <3>3
    <3>5. step[w, r] = <<(w % M) + M>> \o r
      BY <1>7
    <3> QED  BY <3>1, <3>2, <3>3, <3>4, <3>5
  <2> QED  BY <1>1, <1>2, <2>1, <2>2
<1>14. fix = Step(fix)
  <2> HIDE DEF Step
  <2> QED  BY <1>13
<1>15. EncodeVarint(v) = fix[v]
  BY DEF EncodeVarint
<1>16. PICK e : e = fix
  OBVIOUS
<1>17. \A w \in D : e[w] = IF w >= M THEN <<(w % M) + M>> \o e[w \div M] ELSE <<w>>
  <2>1. e = Step(e)
    BY <1>14, <1>16
  <2>2. \A w \in D : e[w] = Step(e)[w]
    <3> HIDE DEF Step
    <3> QED  BY <2>1
  <2>3. \A w \in D : Step(e)[w] =
           IF w >= M THEN <<(w % M) + M>> \o e[w \div M] ELSE <<w>>
    BY <1>1, <1>2
  <2> HIDE DEF Step
  <2> QED  BY <2>2, <2>3
<1> HIDE DEF fix
<1> DEFINE G == {w \in D : \E x : IsVarint(e[w], w, x)}
<1>18. ASSUME NEW w \in D, w \notin more PROVE w \in G
  <2>1. w \in Nat /\ w < M
    BY <1>1, <1>3, <1>8, <1>18
  <2>2. e[w] = <<w>>
    <3>1. ~(w >= M)
      BY <1>1, <2>1
    <3> QED  BY <1>17, <3>1
  <2>3. PICK s : s = <<w>> /\ s \in Seq(Nat) /\ Len(s) = 1 /\ s[1] = w
    <3>1. <<w>> \in Seq(Nat) /\ Len(<<w>>) = 1 /\ <<w>>[1] = w
      BY <2>1
    <3> QED  BY <3>1
  <2>4. PICK x : x = [i \in 1 .. 1 |-> w]
    OBVIOUS
  <2>5. x \in [1 .. 1 -> 0 .. W - 1] /\ x[1] = w
    BY <1>2, <2>4
  <2>6. 1 .. 1 - 1 = {} /\ 1 \in 1 .. WordBits + 1
    BY WordAssumption
  <2>7. IsVarint(s, w, x)
    BY <1>1, <2>1, <2>3, <2>5, <2>6 DEF IsVarint
  <2> QED  BY <2>2, <2>3, <2>7
<1>19. ASSUME NEW w \in more, nx[w] \in G PROVE w \in G
  <2>1. w \in D /\ w >= M /\ nx[w] = w \div M
    BY <1>3, <1>4
  <2>2. PICK x : IsVarint(e[w \div M], w \div M, x)
    BY <1>19, <2>1
  <2>3. PICK t : t = e[w \div M]
    OBVIOUS
  <2>4. e[w] = <<(w % M) + M>> \o t
    BY <1>17, <2>1, <2>3
  <2>5. w \in 0 .. 2 ^ WordBits - 1 /\ w >= More /\ IsVarint(t, w \div More, x)
    BY <1>1, <1>2, <2>1, <2>2, <2>3
  <2>6. \E y : IsVarint(<<(w % M) + M>> \o t, w, y)
    BY <1>1, <2>5, VarintGrows
  <2> QED  BY <2>1, <2>4, <2>6
<1>20. D \subseteq G
  <2> HIDE DEF G
  <2>1. IsInductive(G, D, more, nx)
    BY <1>18, <1>19 DEF IsInductive
  <2> QED  BY <1>9, <2>1, Descent
<1> QED  BY <1>1, <1>2, <1>15, <1>16, <1>20

\* Where in sequence d the sequence s begins.
StandsAt(s, d, pos) ==
  /\ pos \in Nat \ {0} /\ pos - 1 + Len(s) <= Len(d)
  /\ \A i \in 1 .. Len(s) : d[pos - 1 + i] = s[i]

\* The decoder finds its end.
LEMMA VarintEndIs ==
  ASSUME NEW v, NEW s, NEW x, IsVarint(s, v, x), NEW d \in Seq(Nat),
         NEW pos, StandsAt(s, d, pos)
  PROVE  VarintEnd(d, pos) = pos - 1 + Len(s)
<1>1. PICK n \in Nat, L \in Nat : n = Len(s) /\ L = Len(d) /\ n >= 1
  BY DEF IsVarint
<1>2. PICK a \in Nat : a = pos - 1 /\ a + 1 = pos /\ a + n <= L
  BY <1>1 DEF StandsAt
<1>3. \A i \in 1 .. n : d[a + i] = s[i]
  BY <1>1, <1>2 DEF StandsAt
<1>4. PICK M \in Nat \ {0} : M = More
  BY MoreIs
<1>5. /\ \A i \in 1 .. n - 1 : s[i] >= M
      /\ s[n] < M /\ s \in Seq(Nat)
  <2>1. x \in [1 .. n -> 0 .. 2 ^ WordBits - 1] /\ s \in Seq(Nat)
        /\ x[n] < M /\ s[n] = x[n]
        /\ \A i \in 1 .. n - 1 : s[i] = (x[i] % M) + M
    BY <1>1, <1>4 DEF IsVarint
  <2>2. 2 ^ WordBits \in Nat
    BY WordPowersAssumption
  <2>3. ASSUME NEW i \in 1 .. n - 1 PROVE s[i] >= M
    <3>1. i \in 1 .. n
      OBVIOUS
    <3>2. PICK z \in Int : z = x[i]
      BY <2>1, <2>2, <3>1
    <3>3. PICK r \in 0 .. M - 1 : r = z % M
      BY <1>4
    <3>4. s[i] = r + M
      BY <2>1, <3>2, <3>3
    <3> QED  BY <1>4, <3>4
  <2> QED  BY <2>1, <2>3
<1>6. \A j \in pos .. L : d[j] \in Nat
  <2>1. \A j \in pos .. L : j \in 1 .. L
    BY <1>2
  <2> QED  BY <1>1, <2>1
<1>7. \A j \in pos .. a + n - 1 : d[j] >= M
  <2>1. ASSUME NEW j \in pos .. a + n - 1 PROVE d[j] >= M
    <3>1. PICK i \in 1 .. n - 1 : i = j - a /\ a + i = j /\ i \in 1 .. n
      BY <1>2
    <3> QED  BY <1>3, <1>5, <3>1
  <2> QED  BY <2>1
<1>8. d[a + n] < M /\ a + n \in pos .. L
  <2>1. n \in 1 .. n /\ a + n \in pos .. L
    BY <1>1, <1>2
  <2> QED  BY <1>3, <1>5, <2>1
<1> DEFINE Ends(i) == d[i] < M /\ \A j \in pos .. i - 1 : d[j] >= M
<1>9. Ends(a + n)
  BY <1>7, <1>8
<1>10. ASSUME NEW i \in pos .. L, Ends(i) PROVE i = a + n
  <2>1. i \in Int /\ i \in 1 .. L /\ d[i] \in Nat /\ d[a + n] \in Nat
    BY <1>2, <1>6, <1>8
  <2>2. ~(i < a + n)
    <3>1. i < a + n => i \in pos .. a + n - 1
      BY <2>1
    <3>2. i < a + n => d[i] >= M
      BY <1>7, <3>1
    <3> QED  BY <1>4, <1>10, <2>1, <3>2
  <2>3. ~(a + n < i)
    <3>1. a + n < i => a + n \in pos .. i - 1
      BY <1>8, <2>1
    <3>2. a + n < i => d[a + n] >= M
      BY <1>10, <3>1
    <3> QED  BY <1>4, <1>8, <2>1, <3>2
  <2> QED  BY <2>1, <2>2, <2>3
<1>11. VarintEnd(d, pos) = CHOOSE i \in pos .. L : Ends(i)
  BY <1>1, <1>4 DEF VarintEnd
<1>12. (CHOOSE i \in pos .. L : Ends(i)) = a + n
  <2> HIDE DEF Ends
  <2> QED  BY <1>8, <1>9, <1>10
<1> QED  BY <1>1, <1>2, <1>11, <1>12

\* And its value: the byte at i adds x[i] % More times its power, which with
\* the bytes behind it makes x[i] times that power.
LEMMA DecodeVarintIs ==
  ASSUME NEW v, NEW s, NEW x, IsVarint(s, v, x), NEW d \in Seq(Nat),
         NEW pos, StandsAt(s, d, pos)
  PROVE  DecodeVarint(d, pos) = v
<1>1. PICK n \in Nat, L \in Nat : n = Len(s) /\ L = Len(d) /\ n >= 1
  BY DEF IsVarint
<1>2. PICK a \in Nat : a = pos - 1 /\ a + 1 = pos /\ a + n <= L
  BY <1>1 DEF StandsAt
<1>3. \A i \in 1 .. n : d[a + i] = s[i]
  BY <1>1, <1>2 DEF StandsAt
<1>4. PICK W \in Nat \ {0}, M \in Nat \ {0} :
        W = 2 ^ WordBits /\ M = More /\ M >= 2
  BY WordPowersAssumption, MoreIs
<1>5. /\ x \in [1 .. n -> 0 .. W - 1] /\ x[1] = v
      /\ \A i \in 1 .. n - 1 : /\ x[i] >= M /\ s[i] = (x[i] % M) + M
                               /\ x[i + 1] = x[i] \div M
      /\ x[n] < M /\ s[n] = x[n] /\ s \in Seq(Nat)
  BY <1>1, <1>4 DEF IsVarint
<1>6. PICK p : /\ ArePowers(p, M, WordBits)
               /\ \A k \in 0 .. WordBits : p[k] = M ^ k
  BY <1>4, MorePowers
<1>7. \A i \in 1 .. n : i - 1 \in 0 .. WordBits
  <2>1. n <= WordBits + 1 /\ WordBits \in Nat
    BY <1>1, WordAssumption DEF IsVarint
  <2> QED  BY <2>1
<1>8. \A j \in pos .. L : d[j] \in Nat /\ j - pos \in Nat /\ j \in Int
  <2>1. \A j \in pos .. L : j \in 1 .. L
    BY <1>2
  <2> QED  BY <1>1, <1>2, <2>1
<1> DEFINE power(k) == M ^ k
           term(i) == Unsigned((d[i] % M) * power(i - pos))
<1>29. (\A k \in Nat : power(k) \in Int) /\ \A k \in 0 .. WordBits : p[k] = power(k)
  BY <1>4, <1>6, MoreIs
<1> HIDE DEF power
<1>9. \A i \in pos .. L : term(i) \in Int
  <2>1. ASSUME NEW i \in pos .. L PROVE term(i) \in Int
    <3>1. d[i] % M \in Int
      BY <1>4, <1>8
    <3>2. PICK y \in Int, z \in Int : y = d[i] % M /\ z = power(i - pos)
      BY <1>8, <1>29, <3>1
    <3>3. y * z \in Int
      OBVIOUS
    <3>4. PICK t \in Int : t = y * z
      BY <3>3
    <3> QED  BY <3>2, <3>4, UnsignedIs
  <2> QED  BY <2>1
<1> HIDE DEF term
<1>10. PICK step : step = [z \in (pos .. L) \X Int |->
                             term(z[1]) + IF d[z[1]] >= M THEN z[2] ELSE 0]
  OBVIOUS
<1>11. step \in [(pos .. L) \X Int -> Int]
  <2>1. ASSUME NEW z \in (pos .. L) \X Int
        PROVE  (term(z[1]) + IF d[z[1]] >= M THEN z[2] ELSE 0) \in Int
    BY <1>9
  <2> QED  BY <1>10, <2>1
<1>12. pos \in Int /\ L \in pos .. L /\ pos \in pos .. L
  BY <1>1, <1>2
<1>13. PICK f \in [pos .. L -> Int] : ComputesDown(f, pos, L, term(L), step)
  <2>1. PICK V, base : V = Int /\ base = term(L)
    OBVIOUS
  <2>2. CanStep(base, step, pos, L, V)
    BY <1>9, <1>11, <1>12, <2>1 DEF CanStep
  <2>3. \E f \in [pos .. L -> V] : ComputesDown(f, pos, L, base, step)
    BY <1>12, <2>2, DownRecursion
  <2> QED  BY <2>1, <2>3
<1>14. \A i \in pos .. L :
         f[i] = term(i) + IF d[i] >= M /\ i < L THEN f[i + 1] ELSE 0
  <2>1. ASSUME NEW i \in pos .. L
        PROVE  f[i] = term(i) + IF d[i] >= M /\ i < L THEN f[i + 1] ELSE 0
    <3>1. f[i] = IF i = L THEN term(L) ELSE step[i, f[i + 1]]
      BY <1>13 DEF ComputesDown
    <3>2. CASE i = L
      <4>1. ~(i < L)
        BY <3>2
      <4> QED  BY <1>9, <3>1, <3>2, <4>1
    <3>3. CASE i # L
      <4>1. i < L /\ i + 1 \in pos .. L
        BY <1>12, <3>3
      <4>2. PICK r \in Int : r = f[i + 1]
        BY <1>13, <4>1
      <4>3. step[i, r] = term(i) + IF d[i] >= M THEN r ELSE 0
        BY <1>10
      <4> QED  BY <3>1, <3>3, <4>1, <4>2, <4>3
    <3> QED  BY <3>2, <3>3
  <2> QED  BY <2>1
<1> DEFINE Step(g) == [i \in pos .. Len(d) |->
              Unsigned((d[i] % More) * More ^ (i - pos)) +
                IF d[i] >= More /\ i < Len(d) THEN g[i + 1] ELSE 0]
           fix == CHOOSE g : g = Step(g)
<1>15. f = Step(f)
  <2>1. f = [i \in pos .. L |-> f[i]]
    BY <1>13
  <2> QED  BY <1>1, <1>4, <1>14, <2>1 DEF term, power
<1>16. fix = Step(fix)
  <2> HIDE DEF Step
  <2> QED  BY <1>15
<1>17. DecodeVarint(d, pos) = fix[pos]
  BY DEF DecodeVarint
<1>18. PICK e : e = fix
  OBVIOUS
<1>19. \A i \in pos .. L :
         e[i] = term(i) + IF d[i] >= M /\ i < L THEN e[i + 1] ELSE 0
  <2>1. e = Step(e)
    BY <1>16, <1>18
  <2>2. \A i \in pos .. L : e[i] = Step(e)[i]
    <3> HIDE DEF Step
    <3> QED  BY <2>1
  <2>3. \A i \in pos .. L : Step(e)[i] =
           term(i) + IF d[i] >= M /\ i < L THEN e[i + 1] ELSE 0
    BY <1>1, <1>4 DEF term, power
  <2> HIDE DEF Step
  <2> QED  BY <2>2, <2>3
<1> HIDE DEF fix
\* x[i] times its power stays below 2 ^ WordBits.
<1> DEFINE U == {i \in 1 .. n : x[i] * p[i - 1] < W}
<1>20. 1 .. n \subseteq U
  <2>1. 1 \in U
    <3>1. p[1 - 1] = 1 /\ 1 \in 1 .. n
      BY <1>1, <1>6 DEF ArePowers
    <3>2. PICK z \in Nat : z = x[1] /\ z < W
      BY <1>4, <1>5, <3>1
    <3>3. z * 1 = z
      OBVIOUS
    <3> QED  BY <3>1, <3>2, <3>3
  <2>2. ASSUME NEW i \in 1 .. n - 1, i \in U PROVE i + 1 \in U
    <3>1. i \in 1 .. n /\ i + 1 \in 1 .. n /\ (i + 1) - 1 = (i - 1) + 1
          /\ i - 1 \in 0 .. WordBits /\ i - 1 \in 0 .. WordBits - 1
      <4>1. i \in 1 .. n /\ i + 1 \in 1 .. n /\ (i + 1) - 1 = (i - 1) + 1
        OBVIOUS
      <4>2. (i + 1) - 1 \in 0 .. WordBits
        BY <1>7, <4>1
      <4> QED  BY <1>7, <4>1, <4>2, WordAssumption
    <3>2. PICK y \in Nat, z \in Nat, q \in Nat :
            /\ y = x[i] /\ q = p[i - 1] /\ z = y \div M /\ z = x[i + 1]
            /\ y * q < W /\ M * z <= y
      <4>1. x[i] \in 0 .. W - 1 /\ p[i - 1] \in Nat
        BY <1>5, <1>6, <3>1 DEF ArePowers
      <4>2. PICK y \in Nat, q \in Nat : y = x[i] /\ q = p[i - 1]
        BY <1>4, <4>1
      <4>3. PICK z \in Nat : z = y \div M /\ M * z <= y
        <5>1. y \in Int /\ y >= 0
          OBVIOUS
        <5>2. y \div M \in Int /\ y \div M >= 0 /\ M * (y \div M) <= y
          BY ONLY <1>4, <5>1, DivOf
        <5> QED  BY <5>2
      <4>4. y * q < W
        BY <2>2, <4>2
      <4>5. z = x[i + 1]
        BY <1>5, <4>2, <4>3
      <4> QED  BY <4>2, <4>3, <4>4, <4>5
    <3>3. p[(i + 1) - 1] = M * q
      BY <1>6, <3>1, <3>2 DEF ArePowers
    <3>4. z * (M * q) <= y * q /\ z * (M * q) \in Int /\ y * q \in Int
      <4>1. PICK k \in Nat, b \in Nat : k = M * z /\ y = k + b
        <5>1. M * z \in Nat /\ M * z <= y
          BY <3>2
        <5>2. PICK k \in Nat : k = M * z /\ k <= y
          BY <5>1
        <5>3. y - k \in Nat /\ y = k + (y - k)
          BY <5>2
        <5> QED  BY <5>2, <5>3
      <4>2. z * (M * q) = k * q /\ y * q = k * q + b * q
        BY <4>1
      <4>3. k * q \in Nat /\ b * q \in Nat
        OBVIOUS
      <4> QED  BY <4>2, <4>3
    <3>5. x[i + 1] * p[(i + 1) - 1] < W
      <4>1. PICK g \in Int, h \in Int : g = z * (M * q) /\ h = y * q /\ g <= h
        BY <3>4
      <4>2. h < W
        BY <3>2, <4>1
      <4>3. g < W
        BY ONLY <4>1, <4>2, W \in Nat
      <4> QED  BY <3>2, <3>3, <4>1, <4>3
    <3> QED  BY <3>1, <3>5
  <2> HIDE DEF U
  <2>3. GoesUp(U, 1, n)
    BY <2>1, <2>2 DEF GoesUp
  <2> QED  BY <2>3, Upward
<1>21. \A i \in 1 .. n : x[i] * p[i - 1] < W
  BY <1>20
<1> HIDE DEF U
<1> DEFINE G == {i \in 1 .. n : e[a + i] = x[i] * p[i - 1]}
<1>22. ASSUME NEW i \in 1 .. n
       PROVE  /\ a + i \in pos .. L /\ (a + i) - pos = i - 1
              /\ d[a + i] = s[i]
              /\ term(a + i) = Unsigned((s[i] % M) * p[i - 1])
              /\ x[i] \in Nat /\ p[i - 1] \in Nat
              /\ x[i] < W
  <2>1. a + i \in pos .. L /\ (a + i) - pos = i - 1
    BY <1>1, <1>2
  <2>2. x[i] \in 0 .. W - 1 /\ p[i - 1] \in Nat /\ p[i - 1] = power(i - 1)
    BY <1>5, <1>6, <1>7, <1>29 DEF ArePowers
  <2>3. x[i] \in Nat /\ x[i] < W
    BY <1>4, <2>2
  <2>4. d[a + i] = s[i]
    BY <1>3
  <2>5. term(a + i) = Unsigned((s[i] % M) * p[i - 1])
    <3>1. term(a + i) = Unsigned((d[a + i] % M) * power((a + i) - pos))
      BY DEF term
    <3>2. power((a + i) - pos) = p[i - 1]
      BY <2>1, <2>2
    <3> QED  BY <2>4, <3>1, <3>2
  <2> QED  BY <2>1, <2>2, <2>3, <2>4, <2>5
<1>23. n \in G
  <2>1. n \in 1 .. n
    BY <1>1
  <2>2. PICK y \in Nat, q \in Nat : y = x[n] /\ q = p[n - 1] /\ y < M /\ y * q < W
        /\ d[a + n] = y /\ s[n] = y
    BY <1>5, <1>21, <1>22, <2>1
  <2>3. y % M = y /\ y * q \in Nat
    <3>1. y \in 0 .. M - 1
      BY <1>4, <2>2
    <3>2. y % M = y
      BY <3>1, DivSmall
    <3>3. y * q \in Nat
      OBVIOUS
    <3> QED  BY <3>2, <3>3
  <2>4. term(a + n) = Unsigned(y * q)
    BY <1>22, <2>1, <2>2, <2>3
  <2>5. Unsigned(y * q) = y * q
    <3>1. PICK z \in Nat : z = y * q
      BY <2>3
    <3>2. z \in 0 .. 2 ^ WordBits - 1
      BY <1>4, <2>2, <3>1
    <3> QED  BY <3>1, <3>2, SameUnsigned
  <2>6. ~(d[a + n] >= M)
    BY <1>4, <2>2
  <2>7. e[a + n] = y * q
    <3>1. e[a + n] = term(a + n) + 0
      BY <1>19, <1>22, <2>1, <2>6
    <3> QED  BY <2>3, <2>4, <2>5, <3>1
  <2> QED  BY <2>1, <2>2, <2>7
<1>24. ASSUME NEW i \in 1 .. n - 1, i + 1 \in G PROVE i \in G
  <2>1. i \in 1 .. n /\ i + 1 \in 1 .. n /\ (i + 1) - 1 = (i - 1) + 1
        /\ a + (i + 1) = (a + i) + 1 /\ a + i < L
    BY <1>2
  <2>2. i - 1 \in 0 .. WordBits - 1
    <3>1. (i + 1) - 1 \in 0 .. WordBits
      BY <1>7, <2>1
    <3> QED  BY <3>1, WordAssumption
  <2>3. PICK y \in Nat, q \in Nat, c \in Nat, r \in Nat :
          /\ y = x[i] /\ q = p[i - 1] /\ c = x[i + 1] /\ r = y % M
          /\ y = M * c + r /\ r < M /\ y * q < W
          /\ d[a + i] = r + M /\ s[i] = r + M
    <3>1. PICK y \in Nat, q \in Nat : y = x[i] /\ q = p[i - 1]
      BY <1>22, <2>1
    <3>2. PICK c \in Nat : c = x[i + 1] /\ c = y \div M
      BY <1>5, <1>22, <2>1, <3>1
    <3>3. y \in Int /\ y % M \in 0 .. M - 1 /\ y = M * (y \div M) + (y % M)
      BY <1>4, DivOf
    <3>4. PICK r \in 0 .. M - 1 : r = y % M /\ y = M * c + r
      BY <3>2, <3>3
    <3>5. y * q < W /\ s[i] = r + M /\ d[a + i] = r + M
      BY <1>5, <1>21, <1>22, <2>1, <3>1, <3>4
    <3>6. r \in Nat /\ r < M
      BY <1>4, <3>4
    <3> QED  BY <3>1, <3>2, <3>4, <3>5, <3>6
  <2>4. (r + M) % M = r /\ r + M >= M
    <3>1. r \in 0 .. M - 1
      BY <1>4, <2>3
    <3>2. (r + M) % M = r
      BY <3>1, DivSmall
    <3> QED  BY <1>4, <2>3, <3>2
  <2>5. y * q = c * (M * q) + r * q /\ c * (M * q) \in Nat /\ r * q \in Nat
    <3>1. PICK k \in Nat : k = M * c
      <4>1. M * c \in Nat
        BY ONLY M \in Nat, c \in Nat
      <4> QED  BY <4>1
    <3>5. y = k + r
      BY <2>3, <3>1
    <3>2. y * q = k * q + r * q
      BY ONLY <3>5, k \in Nat, r \in Nat, q \in Nat
    <3>3. k * q = c * (M * q)
      BY <3>1
    <3>4. k * q \in Nat /\ r * q \in Nat
      OBVIOUS
    <3> QED  BY <3>2, <3>3, <3>4
  <2>6. r * q < W /\ r * q \in Nat
    <3>1. PICK g \in Nat, h \in Nat, l \in Nat :
            g = y * q /\ h = c * (M * q) /\ l = r * q /\ g = h + l
      <4>1. y * q \in Nat
        OBVIOUS
      <4> QED  BY <2>5, <4>1
    <3>2. g < W
      BY <2>3, <3>1
    <3>3. l < W
      BY ONLY <3>1, <3>2, W \in Nat
    <3> QED  BY <3>1, <3>3
  <2>7. term(a + i) = r * q
    <3>1. term(a + i) = Unsigned(r * q)
      BY <1>22, <2>1, <2>3, <2>4
    <3>2. PICK z \in Nat : z = r * q
      BY <2>6
    <3>3. z \in 0 .. 2 ^ WordBits - 1
      BY <1>4, <2>6, <3>2
    <3> QED  BY <3>1, <3>2, <3>3, SameUnsigned
  <2>8. e[a + (i + 1)] = c * (M * q)
    <3>1. p[(i + 1) - 1] = M * q
      BY <1>6, <2>1, <2>2, <2>3 DEF ArePowers
    <3> QED  BY <1>24, <2>3, <3>1
  <2>9. e[a + i] = term(a + i) + e[(a + i) + 1]
    <3>1. d[a + i] >= M
      BY <2>3, <2>4
    <3> QED  BY <1>19, <1>22, <2>1, <3>1
  <2>10. e[a + i] = r * q + c * (M * q)
    BY <2>1, <2>7, <2>8, <2>9
  <2>11. e[a + i] = y * q
    BY ONLY <2>5, <2>10
  <2> QED  BY <2>1, <2>3, <2>11
<1>25. 1 .. n \subseteq G
  <2> HIDE DEF G
  <2>1. GoesDown(G, 1, n)
    BY <1>23, <1>24 DEF GoesDown
  <2> QED  BY <2>1, Downward
<1>26. e[a + 1] = x[1] * p[1 - 1]
  <2>1. 1 \in 1 .. n
    BY <1>1
  <2> QED  BY <1>25, <2>1
<1>27. p[1 - 1] = 1 /\ x[1] \in Nat
  <2>1. 1 \in 1 .. n
    BY <1>1
  <2> QED  BY <1>6, <1>22, <2>1 DEF ArePowers
<1>28. x[1] * 1 = x[1]
  BY <1>27
<1> QED  BY <1>2, <1>5, <1>17, <1>18, <1>26, <1>27, <1>28

-----------------------------------------------------------------------------
(* Bits and bytes.                                                         *)

Bits == {0, 1}

\* A byte is its bits below the i-th, which are less than 2 ^ i, and those
\* from it on, which are a multiple.
LEMMA ByteIs ==
  ASSUME NEW bits \in Seq(Bits), NEW b \in Nat
  PROVE  /\ Byte(bits, b) \in Nat
         /\ \A i \in 0 .. ByteBits - 1 :
              (b * ByteBits + i) + 1 <= Len(bits) =>
                (Byte(bits, b) \div 2 ^ i) % 2 = bits[(b * ByteBits + i) + 1]
<1>1. PICK B \in Nat : B = ByteBits /\ B > 1
  BY WidthsAssumption
<1>2. PICK L \in Nat : L = Len(bits)
  OBVIOUS
<1>3. PICK p : ArePowers(p, 2, B) /\ \A k \in 0 .. B : p[k] = 2 ^ k
  <2>1. PICK N \in Nat : N = WordBits + ByteBits /\ \A k \in 0 .. B : k \in 0 .. N
    BY <1>1, WordAssumption
  <2>2. PICK p : ArePowers(p, 2, N) /\ \A n \in 0 .. N : p[n] = 2 ^ n
    BY <2>1, TwoPowers
  <2>3. PICK r : r = [k \in 0 .. B |-> p[k]]
    OBVIOUS
  <2>4. \A k \in 0 .. B : r[k] = p[k]
    BY <2>3
  <2>5. 0 \in 0 .. B /\ \A k \in 0 .. B - 1 : k \in 0 .. B /\ k + 1 \in 0 .. B /\ k \in 0 .. N - 1
    BY <1>1, <2>1, WordAssumption
  <2>6. r \in [0 .. B -> Nat \ {0}]
    BY <2>1, <2>2, <2>3 DEF ArePowers
  <2>7. r[0] = 1 /\ \A k \in 0 .. B - 1 : r[k + 1] = 2 * r[k]
    BY <2>2, <2>4, <2>5 DEF ArePowers
  <2> QED  BY <2>1, <2>2, <2>4, <2>6, <2>7 DEF ArePowers
<1> DEFINE bit(i) == IF i <= Len(bits) THEN bits[i] ELSE 0
<1>4. \A i \in Nat \ {0} : bit(i) \in Bits
  <2>1. ASSUME NEW i \in Nat \ {0} PROVE bit(i) \in Bits
    <3>1. CASE i <= L
      <4>1. i \in 1 .. L
        BY <3>1
      <4> QED  BY <1>2, <3>1, <4>1
    <3>2. CASE ~(i <= L)
      BY <1>2, <3>2 DEF Bits
    <3> QED  BY <3>1, <3>2
  <2> QED  BY <2>1
<1>5. \A i \in 1 .. L : bit(i) = bits[i]
  BY <1>2
<1> HIDE DEF bit
<1>6. ASSUME NEW i \in 0 .. B
      PROVE  /\ (b * B + i) + 1 \in Nat \ {0}
             /\ bit((b * B + i) + 1) \in Bits /\ p[i] \in Nat \ {0}
             /\ bit((b * B + i) + 1) * p[i] \in Nat
  <2>1. b * B \in Nat
    OBVIOUS
  <2>2. (b * B + i) + 1 \in Nat \ {0}
    BY <2>1
  <2>3. PICK c, q : c = bit((b * B + i) + 1) /\ q = p[i] /\ c \in Bits /\ q \in Nat \ {0}
    BY <1>3, <1>4, <2>2 DEF ArePowers
  <2>4. c * q \in Nat
    BY <2>3 DEF Bits
  <2> QED  BY <2>2, <2>3, <2>4
<1> DEFINE c(i) == bit((b * B + i) + 1)
<1>7. PICK step : step = [z \in (0 .. B) \X Nat |-> c(z[1]) * p[z[1]] + z[2]]
  OBVIOUS
<1>8. ASSUME NEW i \in 0 .. B
      PROVE  c(i) \in Bits /\ p[i] \in Nat \ {0} /\ c(i) * p[i] \in Nat
  BY <1>6
<1> HIDE DEF c
<1>9. CanStep(0, step, 0, B, Nat)
  <2>1. ASSUME NEW z \in (0 .. B) \X Nat
        PROVE  c(z[1]) * p[z[1]] + z[2] \in Nat
    <3>1. PICK w \in Nat : w = c(z[1]) * p[z[1]]
      BY <1>8
    <3>2. w + z[2] \in Nat
      OBVIOUS
    <3> QED  BY <3>1, <3>2
  <2> QED  BY <1>7, <2>1 DEF CanStep
<1>10. PICK f \in [0 .. B -> Nat] : ComputesDown(f, 0, B, 0, step)
  BY <1>9, DownRecursion
<1>11. \A i \in 0 .. B : f[i] = IF i = B THEN 0 ELSE c(i) * p[i] + f[i + 1]
  <2>1. ASSUME NEW i \in 0 .. B
        PROVE  f[i] = IF i = B THEN 0 ELSE c(i) * p[i] + f[i + 1]
    <3>1. f[i] = IF i = B THEN 0 ELSE step[i, f[i + 1]]
      BY <1>10 DEF ComputesDown
    <3>2. CASE i # B
      <4>1. i + 1 \in 0 .. B
        BY <3>2
      <4>2. PICK u \in Nat : u = f[i + 1]
        BY <1>10, <4>1
      <4>3. step[i, u] = c(i) * p[i] + u
        BY <1>7
      <4> QED  BY <3>1, <3>2, <4>2, <4>3
    <3> QED  BY <3>1, <3>2
  <2> QED  BY <2>1
<1> DEFINE Step(g) == [i \in 0 .. ByteBits |->
              IF i = ByteBits THEN 0
              ELSE bit((b * ByteBits + i) + 1) * 2 ^ i + g[i + 1]]
           fix == CHOOSE g : g = Step(g)
<1>12. \A g : Step(g) = [i \in 0 .. B |-> IF i = B THEN 0
                                          ELSE c(i) * p[i] + g[i + 1]]
  <2>1. \A i \in 0 .. B : 2 ^ i = p[i]
    BY <1>3
  <2> QED  BY <1>1, <2>1 DEF c
<1>13. f = Step(f)
  <2>1. f = [i \in 0 .. B |-> f[i]]
    BY <1>10
  <2> HIDE DEF Step
  <2> QED  BY <1>11, <1>12, <2>1
<1>14. fix = Step(fix)
  <2> HIDE DEF Step
  <2> QED  BY <1>13
<1>15. Byte(bits, b) = fix[0]
  BY DEF Byte, bit
<1>16. PICK e : e = fix
  OBVIOUS
<1>17. \A i \in 0 .. B : e[i] = IF i = B THEN 0 ELSE c(i) * p[i] + e[i + 1]
  <2>1. e = Step(e)
    BY <1>14, <1>16
  <2> HIDE DEF Step
  <2> QED  BY <1>12, <2>1
<1> HIDE DEF fix, Step
\* From the i-th bit on there is a multiple of 2 ^ i.
<1> DEFINE Up == {i \in 0 .. B : \E h \in Nat : e[i] = p[i] * h}
<1>18. 0 .. B \subseteq Up
  <2>1. B \in Up
    <3>1. B \in 0 .. B /\ e[B] = 0 /\ 0 \in Nat
      BY <1>17
    <3>2. PICK q \in Nat : q = p[B]
      BY <1>8, <3>1
    <3>3. q * 0 = 0
      OBVIOUS
    <3> QED  BY <3>1, <3>2, <3>3
  <2>2. ASSUME NEW i \in 0 .. B - 1, i + 1 \in Up PROVE i \in Up
    <3>1. i \in 0 .. B /\ i # B
      OBVIOUS
    <3>2. PICK h \in Nat : e[i + 1] = p[i + 1] * h
      BY <2>2
    <3>3. PICK q \in Nat, d \in Nat : q = p[i] /\ p[i + 1] = 2 * q /\ d = c(i)
      BY <1>3, <1>8, <3>1 DEF ArePowers, Bits
    <3>4. e[i] = d * q + (2 * q) * h
      BY <1>17, <3>1, <3>2, <3>3
    <3>5. d * q + (2 * q) * h = q * (d + 2 * h) /\ d + 2 * h \in Nat
      OBVIOUS
    <3>6. PICK k \in Nat : k = d + 2 * h /\ e[i] = q * k
      BY <3>4, <3>5
    <3> QED  BY <3>1, <3>3, <3>6
  <2> HIDE DEF Up
  <2>3. GoesDown(Up, 0, B)
    BY <2>1, <2>2 DEF GoesDown
  <2> QED  BY <2>3, Downward
<1>19. \A i \in 0 .. B : \E h \in Nat : e[i] = p[i] * h
  BY <1>18
<1> HIDE DEF Up
\* Below it there is less.
<1> DEFINE Low == {i \in 0 .. B : \E l \in 0 .. p[i] - 1 : e[0] = l + e[i]}
<1>20. 0 .. B \subseteq Low
  <2>1. 0 \in Low
    <3>1. p[0] = 1 /\ 0 \in 0 .. B
      BY <1>3 DEF ArePowers
    <3>2. PICK h \in Nat : e[0] = 1 * h
      BY <1>19, <3>1
    <3>3. 0 \in 0 .. p[0] - 1 /\ e[0] = 0 + e[0]
      BY <3>1, <3>2
    <3> QED  BY <3>1, <3>3
  <2>2. ASSUME NEW i \in 0 .. B - 1, i \in Low PROVE i + 1 \in Low
    <3>1. i \in 0 .. B /\ i # B /\ i + 1 \in 0 .. B
      OBVIOUS
    <3>2. PICK q \in Nat \ {0}, d \in Bits : q = p[i] /\ p[i + 1] = 2 * q /\ d = c(i)
      BY <1>3, <1>8, <3>1 DEF ArePowers
    <3>3. PICK l \in 0 .. q - 1 : e[0] = l + e[i]
      BY <2>2, <3>2
    <3>4. PICK h \in Nat, q1 \in Nat : q1 = p[i + 1] /\ e[i + 1] = q1 * h
      BY <1>8, <1>19, <3>1
    <3>5. PICK u \in Nat : u = e[i + 1]
      BY <3>4
    <3>6. e[i] = d * q + u
      BY <1>17, <3>1, <3>2, <3>5
    <3>7. PICK m \in Nat : m = l + d * q /\ m < 2 * q
      <4>1. d = 0 \/ d = 1
        BY <3>2 DEF Bits
      <4>2. d * q = IF d = 0 THEN 0 ELSE q
        BY <4>1
      <4>3. l + d * q \in Nat /\ l + d * q < 2 * q
        BY ONLY <4>2, q \in Nat \ {0}, l \in 0 .. q - 1
      <4> QED  BY <4>3
    <3>8. e[0] = m + u
      <4>1. PICK w \in Nat : w = d * q
        <5>1. d \in Nat
          BY <3>2 DEF Bits
        <5>2. d * q \in Nat
          BY ONLY <5>1, q \in Nat
        <5> QED  BY <5>2
      <4> QED  BY <3>3, <3>6, <3>7, <4>1
    <3>9. m \in 0 .. p[i + 1] - 1
      <4>1. PICK r \in Nat : r = p[i + 1] /\ r = 2 * q
        BY <3>2
      <4>2. m \in 0 .. r - 1
        BY ONLY <3>7, <4>1, m \in Nat
      <4> QED  BY <4>1, <4>2
    <3> QED  BY <3>1, <3>5, <3>8, <3>9
  <2> HIDE DEF Low
  <2>3. GoesUp(Low, 0, B)
    BY <2>1, <2>2 DEF GoesUp
  <2> QED  BY <2>3, Upward
<1>21. \A i \in 0 .. B : \E l \in 0 .. p[i] - 1 : e[0] = l + e[i]
  BY <1>20
<1> HIDE DEF Low
<1>22. ASSUME NEW i \in 0 .. B - 1, (b * B + i) + 1 <= L
       PROVE  (e[0] \div p[i]) % 2 = bits[(b * B + i) + 1]
  <2>1. i \in 0 .. B /\ i # B /\ i + 1 \in 0 .. B
    OBVIOUS
  <2>2. PICK q \in Nat \ {0}, d \in Bits : q = p[i] /\ p[i + 1] = 2 * q /\ d = c(i)
    BY <1>3, <1>8, <2>1 DEF ArePowers
  <2>3. PICK h \in Nat : e[i + 1] = (2 * q) * h
    BY <1>19, <2>1, <2>2
  <2>4. e[i] = d * q + (2 * q) * h
    BY <1>17, <2>1, <2>2, <2>3
  <2>5. PICK k \in Nat : k = 2 * h + d
    BY <2>2 DEF Bits
  <2>6. e[i] = q * k
    <3>1. d \in Nat
      BY <2>2 DEF Bits
    <3>2. d * q + (2 * q) * h = q * (2 * h + d)
      BY <3>1
    <3> QED  BY <2>4, <2>5, <3>2
  <2>7. PICK l \in 0 .. q - 1 : e[0] = l + e[i]
    BY <1>21, <2>1, <2>2
  <2>8. PICK x \in Int : x = e[0] /\ x = q * k + l
    <3>1. PICK w \in Nat : w = q * k
      <4>1. q * k \in Nat
        OBVIOUS
      <4> QED  BY <4>1
    <3>2. w + l \in Int /\ e[0] = w + l
      BY <2>6, <2>7, <3>1
    <3> QED  BY <3>1, <3>2
  <2>9. x \div q = k
    <3>1. k \in Int
      OBVIOUS
    <3> QED  BY ONLY <2>8, <3>1, DivIs, q \in Nat \ {0}, l \in 0 .. q - 1, x \in Int
  <2>10. k % 2 = d
    <3>1. d = 0 \/ d = 1
      BY <2>2 DEF Bits
    <3>2. CASE d = 0
      BY ONLY <2>5, <3>2, h \in Nat, k \in Nat
    <3>3. CASE d = 1
      BY ONLY <2>5, <3>3, h \in Nat, k \in Nat
    <3> QED  BY <3>1, <3>2, <3>3
  <2>11. d = bits[(b * B + i) + 1]
    <3>1. (b * B + i) + 1 \in 1 .. L
      BY <1>6, <1>22, <2>1
    <3> QED  BY <1>5, <2>2, <3>1 DEF c
  <2> QED  BY <2>2, <2>8, <2>9, <2>10, <2>11
<1>23. e[0] \in Nat
  <2>1. 0 \in 0 .. B /\ p[0] = 1
    BY <1>3 DEF ArePowers
  <2>2. PICK h \in Nat : e[0] = 1 * h
    BY <1>19, <2>1
  <2> QED  BY <2>2
<1>24. \A i \in 0 .. B - 1 : p[i] = 2 ^ i
  BY <1>3
<1> QED  BY <1>1, <1>2, <1>15, <1>16, <1>22, <1>23, <1>24

\* The bits of a payload are read as they were written, behind the bytes pre.
LEMMA BitAtIs ==
  ASSUME NEW bits \in Seq(Bits), NEW pre \in Seq(Nat)
  PROVE  /\ Packed(bits) \in Seq(Nat)
         /\ \A n \in 0 .. Len(bits) - 1 :
              BitAt(pre \o Packed(bits), Len(pre), n) = bits[n + 1]
<1>1. PICK B \in Nat \ {0} : B = ByteBits /\ B > 1
  BY WidthsAssumption
<1>2. PICK L \in Nat, m \in Nat : L = Len(bits) /\ m = Len(pre)
  OBVIOUS
<1>3. PICK K \in Nat : K = (L + B - 1) \div B /\ L <= B * K
  <2>1. PICK x \in Nat : x = (L + B) - 1
    BY <1>1
  <2>2. x \div B \in Int /\ x \div B >= 0 /\ x % B \in 0 .. B - 1
        /\ x = B * (x \div B) + (x % B)
    <3>1. x \in Int /\ x >= 0
      OBVIOUS
    <3> QED  BY <3>1, DivOf
  <2>3. PICK k \in Nat, r \in 0 .. B - 1 : k = x \div B /\ x = B * k + r
    BY <2>2
  <2>4. PICK w \in Nat : w = B * k
    <3>1. B * k \in Nat
      OBVIOUS
    <3> QED  BY <3>1
  <2>5. L <= w
    BY <1>1, <2>1, <2>3, <2>4
  <2>6. k = (L + B - 1) \div B
    <3>1. L + B - 1 = x
      BY <1>1, <2>1
    <3> QED  BY <2>3, <3>1
  <2> QED  BY <2>4, <2>5, <2>6
<1>4. PICK s : s = Packed(bits)
  OBVIOUS
<1>5. s = [b \in 1 .. K |-> Byte(bits, b - 1)]
  BY <1>1, <1>2, <1>3, <1>4 DEF Packed
<1>6. s \in Seq(Nat) /\ Len(s) = K /\ \A b \in 1 .. K : s[b] = Byte(bits, b - 1)
  <2>1. \A b \in 1 .. K : b - 1 \in Nat
    OBVIOUS
  <2>2. \A b \in 1 .. K : Byte(bits, b - 1) \in Nat
    BY <2>1, ByteIs
  <2> QED  BY <1>5, <2>2
<1>7. PICK d : d = pre \o s /\ d \in Seq(Nat) /\ Len(d) = m + K
               /\ \A i \in 1 .. K : d[m + i] = s[i]
  <2>1. /\ pre \o s \in Seq(Nat) /\ Len(pre \o s) = Len(pre) + Len(s)
        /\ \A i \in 1 .. Len(pre) + Len(s) :
             (pre \o s)[i] = IF i <= Len(pre) THEN pre[i] ELSE s[i - Len(pre)]
    BY <1>6, ConcatProperties
  <2>2. PICK d : d = pre \o s
    OBVIOUS
  <2>3. d \in Seq(Nat) /\ Len(d) = m + K
        /\ \A i \in 1 .. m + K : d[i] = IF i <= m THEN pre[i] ELSE s[i - m]
    BY <1>2, <1>6, <2>1, <2>2
  <2>4. \A i \in 1 .. K : m + i \in 1 .. m + K /\ ~(m + i <= m) /\ (m + i) - m = i
    OBVIOUS
  <2>5. \A i \in 1 .. K : d[m + i] = s[i]
    BY <2>3, <2>4
  <2> QED  BY <2>2, <2>3, <2>5
<1>8. ASSUME NEW n \in 0 .. L - 1 PROVE BitAt(d, m, n) = bits[n + 1]
  <2>1. PICK b \in Nat, i \in 0 .. B - 1 :
          b = n \div B /\ i = n % B /\ n = B * b + i
    <3>1. n \in Int /\ n >= 0
      OBVIOUS
    <3>2. n \div B \in Int /\ n \div B >= 0 /\ n % B \in 0 .. B - 1
          /\ n = B * (n \div B) + (n % B)
      BY <3>1, DivOf
    <3> QED  BY <3>2
  <2>2. b < K
    <3>1. K <= b => B * K <= B * b
      <4>1. ASSUME K <= b PROVE B * K <= B * b
        <5>1. PICK j \in Nat : b = K + j
          <6>1. b - K \in Nat /\ b = K + (b - K)
            BY <4>1
          <6> QED  BY <6>1
        <5>2. B * b = B * K + B * j /\ B * j \in Nat /\ B * K \in Nat
          BY <5>1
        <5> QED  BY <5>2
      <4> QED  BY <4>1
    <3>2. PICK x \in Nat, y \in Nat : x = B * K /\ y = B * b
      <4>1. B * K \in Nat /\ B * b \in Nat
        OBVIOUS
      <4> QED  BY <4>1
    <3>3. y + i < L /\ L <= x
      BY <1>3, <2>1, <3>2
    <3>4. y < x
      BY <2>1, <3>2, <3>3
    <3> QED  BY <2>1, <1>3, <3>1, <3>2, <3>4
  <2>3. PICK k \in 1 .. K : k = b + 1 /\ k - 1 = b
    <3>1. b + 1 \in 1 .. K /\ (b + 1) - 1 = b
      BY ONLY <2>2, b \in Nat, K \in Nat
    <3> QED  BY <3>1
  <2>4. d[m + k] = Byte(bits, b)
    BY <1>6, <1>7, <2>3
  <2>5. m + 1 + b = m + k /\ m + k <= Len(d)
    <3>1. m + 1 + b = m + k
      BY ONLY <2>3, b \in Nat, m \in Nat, k \in 1 .. K
    <3>2. m + k <= m + K
      BY ONLY k \in 1 .. K, m \in Nat, K \in Nat
    <3> QED  BY <1>7, <3>1, <3>2
  <2>6. BitAt(d, m, n) = (d[m + k] \div 2 ^ i) % 2
    <3>1. BitAt(d, m, n) = IF m + 1 + b > Len(d) THEN 0
                           ELSE (d[m + 1 + b] \div 2 ^ i) % 2
      BY <1>1, <2>1 DEF BitAt
    <3>2. ~(m + k > Len(d))
      BY <1>7, <2>3
    <3> QED  BY <2>5, <3>1, <3>2
  <2>7. (b * B + i) + 1 = n + 1 /\ n + 1 <= L
    <3>1. b * B = B * b
      BY <2>1
    <3>2. PICK w \in Nat : w = B * b
      <4>1. B * b \in Nat
        BY <2>1
      <4> QED  BY <4>1
    <3> QED  BY <2>1, <3>1, <3>2
  <2>8. (Byte(bits, b) \div 2 ^ i) % 2 = bits[(b * B + i) + 1]
    BY <1>1, <1>2, <2>1, <2>7, ByteIs
  <2> QED  BY <2>4, <2>6, <2>7, <2>8
<1> QED  BY <1>2, <1>4, <1>6, <1>7, <1>8

\* What is read at bit n is c.
Reads(data, skip, n, c) ==
  \A j \in 1 .. Len(c) : BitAt(data, skip, n + j - 1) = c[j]

\* Reading w bits that WriteBits wrote gives the value.
LEMMA ValueAtIs ==
  ASSUME NEW data, NEW skip, NEW n \in Nat, NEW w \in 0 .. WordBits,
         NEW v \in 0 .. 2 ^ w - 1, Reads(data, skip, n, BitsOf(w, v))
  PROVE  ValueAt(data, skip, n, w) = v
<1>1. PICK N \in Nat : N = WordBits + ByteBits /\ w \in Nat /\ \A k \in 0 .. w : k \in 0 .. N
  BY WordAssumption, WidthsAssumption
<1>2. PICK p : ArePowers(p, 2, N) /\ \A k \in 0 .. N : p[k] = 2 ^ k
  BY <1>1, TwoPowers
<1>3. /\ \A k \in 0 .. w : p[k] \in Nat \ {0} /\ p[k] = 2 ^ k
      /\ p[0] = 1 /\ \A k \in 0 .. w - 1 : p[k + 1] = 2 * p[k]
  <2>1. \A k \in 0 .. w - 1 : k \in 0 .. N - 1
    <3>1. ASSUME NEW k \in 0 .. w - 1 PROVE k \in 0 .. N - 1
      <4>1. k + 1 \in 0 .. w
        OBVIOUS
      <4>2. k + 1 \in 0 .. N
        BY <1>1, <4>1
      <4> QED  BY <4>2
    <3> QED  BY <3>1
  <2> QED  BY <1>1, <1>2, <2>1 DEF ArePowers
<1> DEFINE c(j) == BitAt(data, skip, n + j - 1)
<1>4. \A j \in 1 .. w : c(j) = (v \div p[w - j]) % 2
  <2>1. ASSUME NEW j \in 1 .. w PROVE c(j) = (v \div p[w - j]) % 2
    <3>1. w - j \in 0 .. w /\ p[w - j] = 2 ^ (w - j)
      BY <1>3
    <3>2. PICK s : s = BitsOf(w, v)
      OBVIOUS
    <3>3. Len(s) = w /\ s[j] = (v \div 2 ^ (w - j)) % 2
      BY <1>1, <3>2 DEF BitsOf
    <3>4. c(j) = s[j]
      BY <3>2, <3>3 DEF Reads
    <3> QED  BY <3>1, <3>3, <3>4
  <2> QED  BY <2>1
<1> HIDE DEF c
<1>5. v \in Nat /\ v < p[w] /\ \A j \in 1 .. w : c(j) \in Nat
  <2>1. w \in 0 .. w
    BY <1>1
  <2>2. v \in Nat /\ v < p[w]
    BY <1>3, <2>1
  <2>3. ASSUME NEW j \in 1 .. w PROVE c(j) \in Nat
    <3>1. PICK q \in Nat \ {0} : q = p[w - j]
      <4>1. w - j \in 0 .. w
        BY <1>1
      <4> QED  BY <1>3, <4>1
    <3>2. v \div q \in Int
      BY <2>2
    <3>3. (v \div q) % 2 \in Nat
      BY <3>2
    <3> QED  BY <1>4, <3>1, <3>3
  <2> QED  BY <2>2, <2>3
<1>6. PICK step : step = [z \in (0 .. w) \X Nat |->
                            IF z[1] = 0 THEN 0 ELSE 2 * z[2] + c(z[1])]
  OBVIOUS
<1>7. CanStep(0, step, 0, w, Nat)
  <2>1. ASSUME NEW z \in (0 .. w) \X Nat
        PROVE  (IF z[1] = 0 THEN 0 ELSE 2 * z[2] + c(z[1])) \in Nat
    <3>1. z[1] # 0 => z[1] \in 1 .. w
      OBVIOUS
    <3> QED  BY <1>5, <3>1
  <2> QED  BY <1>6, <2>1 DEF CanStep
<1>8. PICK f \in [0 .. w -> Nat] : ComputesUp(f, 0, w, 0, step)
  BY <1>1, <1>7, UpRecursion
<1>9. \A i \in 0 .. w : f[i] = IF i = 0 THEN 0 ELSE 2 * f[i - 1] + c(i)
  <2>1. ASSUME NEW i \in 0 .. w
        PROVE  f[i] = IF i = 0 THEN 0 ELSE 2 * f[i - 1] + c(i)
    <3>1. f[i] = IF i = 0 THEN 0 ELSE step[i, f[i - 1]]
      BY <1>8 DEF ComputesUp
    <3>2. CASE i # 0
      <4>1. i - 1 \in 0 .. w
        BY <3>2
      <4>2. PICK u \in Nat : u = f[i - 1]
        BY <1>8, <4>1
      <4>3. step[i, u] = 2 * u + c(i)
        BY <1>6, <3>2
      <4> QED  BY <3>1, <3>2, <4>2, <4>3
    <3> QED  BY <3>1, <3>2
  <2> QED  BY <2>1
<1> DEFINE Step(g) == [i \in 0 .. w |->
              IF i = 0 THEN 0
              ELSE 2 * g[i - 1] + BitAt(data, skip, n + i - 1)]
           fix == CHOOSE g : g = Step(g)
<1>10. f = Step(f)
  <2>1. f = [i \in 0 .. w |-> f[i]]
    BY <1>8
  <2> QED  BY <1>9, <2>1 DEF c
<1>11. fix = Step(fix)
  <2> HIDE DEF Step
  <2> QED  BY <1>10
<1>12. ValueAt(data, skip, n, w) = fix[w]
  BY DEF ValueAt
<1>13. PICK e : e = fix
  OBVIOUS
<1>14. \A i \in 0 .. w : e[i] = IF i = 0 THEN 0 ELSE 2 * e[i - 1] + c(i)
  <2>1. e = Step(e)
    BY <1>11, <1>13
  <2> QED  BY <2>1 DEF c
<1> HIDE DEF fix, Step
\* After i bits the value is that of the upper i bits of v.
<1> DEFINE G == {i \in 0 .. w : e[i] = v \div p[w - i]}
<1>15. 0 .. w \subseteq G
  <2>1. 0 \in G
    <3>1. 0 \in 0 .. w /\ e[0] = 0 /\ w - 0 = w
      BY <1>1, <1>14
    <3>2. PICK q \in Nat \ {0} : q = p[w] /\ v \in 0 .. q - 1
      <4>1. w \in 0 .. w
        BY <1>1
      <4> QED  BY <1>3, <1>5, <4>1
    <3>3. v \div q = 0
      BY <3>2, DivSmall
    <3> QED  BY <3>1, <3>2, <3>3
  <2>2. ASSUME NEW i \in 0 .. w - 1, i \in G PROVE i + 1 \in G
    <3>1. PICK k \in 0 .. w - 1 : k = w - (i + 1) /\ w - i = k + 1 /\ k \in 0 .. w
      BY <1>1
    <3>2. PICK q \in Nat \ {0} : q = p[k] /\ p[k + 1] = 2 * q
      BY <1>3, <3>1
    <3>3. PICK x \in Nat, r \in Int : x = v \div q /\ r \in 0 .. q - 1 /\ v = q * x + r
      <4>1. v \in Int /\ v >= 0
        BY <1>5
      <4>2. v \div q \in Int /\ v \div q >= 0 /\ v % q \in 0 .. q - 1
            /\ v = q * (v \div q) + (v % q)
        BY <4>1, DivOf
      <4>3. PICK x \in Nat : x = v \div q
        BY <4>2
      <4>4. PICK r \in Int : r = v % q /\ r \in 0 .. q - 1
        BY <4>2
      <4> QED  BY <4>2, <4>3, <4>4
    <3>4. PICK y \in Nat, a \in 0 .. 1 : y = x \div 2 /\ a = x % 2 /\ x = 2 * y + a
      <4>1. x \div 2 \in Nat /\ x % 2 \in 0 .. 1 /\ x = 2 * (x \div 2) + (x % 2)
        BY ONLY x \in Nat
      <4> QED  BY <4>1
    <3>5. v \div (2 * q) = y
      <4>1. q * x = (2 * q) * y + q * a
        BY <3>4
      <4>2. PICK t \in Nat : t = q * a + r /\ t < 2 * q
        <5>1. a = 0 \/ a = 1
          BY <3>4
        <5>2. q * a = IF a = 0 THEN 0 ELSE q
          BY <5>1
        <5>3. r \in Nat /\ r < q
          BY <3>3
        <5>4. q * a + r \in Nat /\ q * a + r < 2 * q
          BY ONLY <5>2, <5>3, q \in Nat \ {0}
        <5> QED  BY <5>4
      <4>3. PICK g \in Nat, h \in Nat : g = (2 * q) * y /\ h = q * a
        <5>1. (2 * q) * y \in Nat /\ q * a \in Nat
          BY <3>4
        <5> QED  BY <5>1
      <4>4. v = g + t
        BY <3>3, <4>1, <4>2, <4>3
      <4>5. PICK m \in Nat \ {0} : m = 2 * q
        BY <3>2
      <4>6. v = m * y + t /\ t \in 0 .. m - 1
        BY <4>2, <4>3, <4>4, <4>5
      <4>7. v \in Int /\ y \in Int
        BY <1>5, <3>4
      <4>8. v \div m = y
        BY ONLY <4>6, <4>7, DivIs, m \in Nat \ {0}
      <4> QED  BY <4>5, <4>8
    <3>6. e[i] = y
      BY <2>2, <3>1, <3>2, <3>5
    <3>7. c(i + 1) = a
      <4>1. i + 1 \in 1 .. w
        BY <1>1
      <4> QED  BY <1>4, <3>1, <3>2, <3>3, <3>4, <4>1
    <3>8. e[i + 1] = 2 * y + a
      <4>1. i + 1 \in 0 .. w /\ i + 1 # 0 /\ (i + 1) - 1 = i
        BY <1>1
      <4> QED  BY <1>14, <3>6, <3>7, <4>1
    <3>9. i + 1 \in 0 .. w
      BY <1>1
    <3> QED  BY <3>1, <3>2, <3>3, <3>4, <3>8, <3>9
  <2> HIDE DEF G
  <2>3. GoesUp(G, 0, w)
    BY <2>1, <2>2 DEF GoesUp
  <2> QED  BY <1>1, <2>3, Upward
<1>16. e[w] = v \div p[0]
  <2>1. w \in 0 .. w /\ w - w = 0
    BY <1>1
  <2> QED  BY <1>15, <2>1
<1>17. v \div 1 = v
  BY <1>5
<1> QED  BY <1>3, <1>12, <1>13, <1>16, <1>17

-----------------------------------------------------------------------------
(* The code of a delta of deltas.                                          *)

LEMMA ReadsParts ==
  ASSUME NEW data, NEW skip, NEW n \in Nat, NEW u \in Seq(Bits),
         NEW v \in Seq(Bits), Reads(data, skip, n, u \o v)
  PROVE  Reads(data, skip, n, u) /\ Reads(data, skip, n + Len(u), v)
<1>1. PICK a \in Nat, b \in Nat : a = Len(u) /\ b = Len(v)
  OBVIOUS
<1>2. PICK t : t = u \o v
  OBVIOUS
<1>3. Len(t) = a + b
      /\ \A j \in 1 .. a + b : t[j] = IF j <= a THEN u[j] ELSE v[j - a]
  BY <1>1, <1>2, ConcatProperties
<1>4. \A j \in 1 .. a + b : BitAt(data, skip, n + j - 1) = t[j]
  BY <1>2, <1>3 DEF Reads
<1>5. ASSUME NEW j \in 1 .. a PROVE BitAt(data, skip, n + j - 1) = u[j]
  <2>1. j \in 1 .. a + b /\ j <= a
    OBVIOUS
  <2> QED  BY <1>3, <1>4, <2>1
<1>6. ASSUME NEW j \in 1 .. b PROVE BitAt(data, skip, (n + a) + j - 1) = v[j]
  <2>1. PICK k \in 1 .. a + b : k = a + j /\ ~(k <= a) /\ k - a = j
    <3>1. a + j \in 1 .. a + b /\ ~(a + j <= a) /\ (a + j) - a = j
      OBVIOUS
    <3> QED  BY <3>1
  <2>2. (n + a) + j - 1 = n + k - 1
    BY <2>1
  <2> QED  BY <1>3, <1>4, <2>1, <2>2
<1> QED  BY <1>1, <1>5, <1>6 DEF Reads

LEMMA BitsOfIs ==
  ASSUME NEW w \in Nat, w <= WordBits, NEW v \in Nat
  PROVE  BitsOf(w, v) \in Seq(Bits) /\ Len(BitsOf(w, v)) = w
<1>1. PICK N \in Nat : N = WordBits + ByteBits /\ \A k \in 0 .. w : k \in 0 .. N
  BY WordAssumption, WidthsAssumption
<1>2. PICK p : ArePowers(p, 2, N) /\ \A k \in 0 .. N : p[k] = 2 ^ k
  BY <1>1, TwoPowers
<1>3. ASSUME NEW j \in 1 .. w PROVE (v \div 2 ^ (w - j)) % 2 \in Bits
  <2>1. PICK q \in Nat \ {0} : q = 2 ^ (w - j)
    <3>1. w - j \in 0 .. w
      OBVIOUS
    <3> QED  BY <1>1, <1>2, <3>1 DEF ArePowers
  <2>2. v \div q \in Int
    OBVIOUS
  <2>3. (v \div q) % 2 \in 0 .. 1
    BY <2>2
  <2>4. 0 .. 1 = {0, 1}
    OBVIOUS
  <2> QED  BY <2>1, <2>3, <2>4 DEF Bits
<1>4. PICK s : s = [j \in 1 .. w |-> (v \div 2 ^ (w - j)) % 2]
  OBVIOUS
<1>5. s \in Seq(Bits) /\ Len(s) = w
  BY <1>3, <1>4
<1> QED  BY <1>4, <1>5 DEF BitsOf

\* A sign and w bits of the magnitude are read as the number.
LEMMA SignedAtIs ==
  ASSUME NEW dod \in Int64, NEW w \in 0 .. WordBits,
         Magnitude(dod) \in 0 .. 2 ^ w - 1,
         NEW data, NEW skip, NEW n \in Nat,
         Reads(data, skip, n, SignOf(dod)),
         Reads(data, skip, n + 1, BitsOf(w, Magnitude(dod)))
  PROVE  /\ SignedAt(data, skip, n, w) \in Int
         /\ Same(SignedAt(data, skip, n, w), dod)
<1>1. dod \in Int
  BY DEF Int64, MinInt, MaxInt
<1>2. PICK abs \in Int : abs = IF dod < 0 THEN -dod ELSE dod
  BY <1>1
<1>3. PICK m : m = Magnitude(dod) /\ m = Unsigned(abs) /\ m \in Int
  BY <1>2, ConvertedIsSame DEF Magnitude
<1>4. ValueAt(data, skip, n + 1, w) = m
  <2>1. n + 1 \in Nat
    OBVIOUS
  <2> QED  BY <1>3, <2>1, ValueAtIs
<1>5. PICK v \in Int : v = Signed(m) /\ Same(v, abs)
  <2>1. Signed(m) \in Int /\ Same(Signed(m), m)
    BY <1>3, ConvertedIsSame
  <2>2. Same(m, abs)
    BY <1>3, ConvertedIsSame
  <2>3. Same(Signed(m), abs)
    BY <2>1, <2>2 DEF Same
  <2> QED  BY <2>1, <2>3
<1>6. BitAt(data, skip, n) = IF dod < 0 THEN 1 ELSE 0
  <2>1. PICK s : s = SignOf(dod)
    OBVIOUS
  <2>2. Len(s) = 1 /\ s[1] = IF dod < 0 THEN 1 ELSE 0
    BY <2>1 DEF SignOf
  <2>3. 1 \in 1 .. 1 /\ n + 1 - 1 = n
    OBVIOUS
  <2> QED  BY <2>1, <2>2, <2>3 DEF Reads
<1>7. SignedAt(data, skip, n, w) = IF dod < 0 THEN -v ELSE v
  BY <1>4, <1>5, <1>6 DEF SignedAt
<1>8. CASE dod < 0
  <2>1. Same(-v, -abs)
    BY <1>2, <1>5, SameSum
  <2>2. -abs = dod
    BY <1>1, <1>2, <1>8
  <2>3. -v \in Int
    OBVIOUS
  <2> QED  BY <1>7, <1>8, <2>1, <2>2, <2>3
<1>9. CASE ~(dod < 0)
  BY <1>2, <1>5, <1>7, <1>9
<1> QED  BY <1>8, <1>9

\* c is the code of dod with a prefix, a sign and w bits.
IsCode(c, prefix, w, dod) ==
  /\ w \in 0 .. WordBits /\ Magnitude(dod) \in 0 .. 2 ^ w - 1
  /\ prefix \in Seq(Bits)
  /\ c = prefix \o SignOf(dod) \o BitsOf(w, Magnitude(dod))

LEMMA CodeParts ==
  ASSUME NEW dod \in Int64, NEW c, NEW prefix, NEW w, IsCode(c, prefix, w, dod)
  PROVE  /\ SignOf(dod) \in Seq(Bits) /\ Len(SignOf(dod)) = 1
         /\ BitsOf(w, Magnitude(dod)) \in Seq(Bits)
         /\ prefix \o SignOf(dod) \in Seq(Bits)
         /\ Len(prefix \o SignOf(dod)) = Len(prefix) + 1
         /\ c \in Seq(Bits) /\ Len(c) = Len(prefix) + 1 + w
<1> USE DEF IsCode
<1>1. PICK s : s = SignOf(dod) /\ s \in Seq(Bits) /\ Len(s) = 1
  <2>1. 0 \in Bits /\ 1 \in Bits
    BY DEF Bits
  <2>2. PICK x : x = IF dod < 0 THEN 1 ELSE 0
    OBVIOUS
  <2>3. x \in Bits
    BY <2>1, <2>2
  <2>4. <<x>> \in Seq(Bits) /\ Len(<<x>>) = 1
    BY <2>3
  <2> QED  BY <2>2, <2>4 DEF SignOf
<1>2. PICK b : b = BitsOf(w, Magnitude(dod)) /\ b \in Seq(Bits) /\ Len(b) = w
  <2>1. PICK m : m = Magnitude(dod)
    OBVIOUS
  <2>2. w \in Nat /\ w <= WordBits
    BY WordAssumption
  <2>3. m \in Nat
    <3>1. m \in 0 .. 2 ^ w - 1
      BY <2>1
    <3> QED  BY <3>1
  <2>4. BitsOf(w, m) \in Seq(Bits) /\ Len(BitsOf(w, m)) = w
    BY <2>2, <2>3, BitsOfIs
  <2> QED  BY <2>1, <2>4
<1>3. PICK u : u = prefix \o s /\ u \in Seq(Bits) /\ Len(u) = Len(prefix) + 1
  <2>1. prefix \o s \in Seq(Bits) /\ Len(prefix \o s) = Len(prefix) + Len(s)
    BY <1>1, ConcatProperties
  <2> QED  BY <1>1, <2>1
<1>4. u \o b \in Seq(Bits) /\ Len(u \o b) = Len(u) + Len(b)
  BY <1>2, <1>3, ConcatProperties
<1>5. c = u \o b
  BY <1>1, <1>2, <1>3
<1>6. Len(prefix) \in Nat /\ w \in Nat
  BY WordAssumption
<1> QED  BY <1>1, <1>2, <1>3, <1>4, <1>5, <1>6

LEMMA CodeRead ==
  ASSUME NEW dod \in Int64, NEW c, NEW prefix, NEW w, IsCode(c, prefix, w, dod),
         NEW data, NEW skip, NEW n \in Nat, Reads(data, skip, n, c)
  PROVE  /\ \A i \in 0 .. Len(prefix) - 1 :
              BitAt(data, skip, n + i) = prefix[i + 1]
         /\ SignedAt(data, skip, n + Len(prefix), w) \in Int
         /\ Same(SignedAt(data, skip, n + Len(prefix), w), dod)
<1>1. PICK k \in Nat : k = Len(prefix) /\ prefix \in Seq(Bits)
  BY DEF IsCode
<1>2. PICK s : s = SignOf(dod) /\ s \in Seq(Bits) /\ Len(s) = 1
  BY CodeParts
<1>3. PICK b : b = BitsOf(w, Magnitude(dod)) /\ b \in Seq(Bits)
  BY CodeParts
<1>4. PICK u : u = prefix \o s /\ u \in Seq(Bits) /\ Len(u) = k + 1
  <2>1. prefix \o s \in Seq(Bits) /\ Len(prefix \o s) = k + 1
    BY <1>1, <1>2, CodeParts
  <2> QED  BY <2>1
<1>5. Reads(data, skip, n, u) /\ Reads(data, skip, n + (k + 1), b)
  <2>1. Reads(data, skip, n, u \o b)
    BY <1>2, <1>3, <1>4 DEF IsCode
  <2> QED  BY <1>3, <1>4, <2>1, ReadsParts
<1>6. Reads(data, skip, n, prefix) /\ Reads(data, skip, n + k, s)
  <2>1. Reads(data, skip, n, prefix \o s)
    BY <1>4, <1>5
  <2> QED  BY <1>1, <1>2, <2>1, ReadsParts
<1>7. ASSUME NEW i \in 0 .. k - 1 PROVE BitAt(data, skip, n + i) = prefix[i + 1]
  <2>1. PICK j \in 1 .. k : j = i + 1 /\ n + j - 1 = n + i
    <3>1. i + 1 \in 1 .. k /\ n + (i + 1) - 1 = n + i
      OBVIOUS
    <3> QED  BY <3>1
  <2> QED  BY <1>1, <1>6, <2>1 DEF Reads
<1>8. PICK i \in Nat : i = n + k /\ n + (k + 1) = i + 1
  <2>1. n + k \in Nat /\ n + (k + 1) = (n + k) + 1
    OBVIOUS
  <2> QED  BY <2>1
<1>9. Reads(data, skip, i, SignOf(dod))
      /\ Reads(data, skip, i + 1, BitsOf(w, Magnitude(dod)))
  BY <1>2, <1>3, <1>5, <1>6, <1>8
<1>10. w \in 0 .. WordBits /\ Magnitude(dod) \in 0 .. 2 ^ w - 1
  BY DEF IsCode
<1>11. SignedAt(data, skip, i, w) \in Int /\ Same(SignedAt(data, skip, i, w), dod)
  BY <1>9, <1>10, SignedAtIs
<1> QED  BY <1>1, <1>7, <1>8, <1>11

\* The k bits of the prefix, the number behind them and the length of the code.
ReadsAs(data, skip, n, c, prefix, k, w, dod) ==
  /\ \A i \in 0 .. k - 1 : BitAt(data, skip, n + i) = prefix[i + 1]
  /\ SignedAt(data, skip, n + k, w) \in Int
  /\ Same(SignedAt(data, skip, n + k, w), dod)
  /\ Len(c) = k + 1 + w

HasLength(s, k) == k = Len(s)

LEMMA CodeReadAs ==
  ASSUME NEW dod \in Int64, NEW c, NEW prefix, NEW w, IsCode(c, prefix, w, dod),
         NEW data, NEW skip, NEW n \in Nat, Reads(data, skip, n, c),
         NEW k \in Nat, HasLength(prefix, k)
  PROVE  ReadsAs(data, skip, n, c, prefix, k, w, dod)
BY CodeRead, CodeParts DEF ReadsAs, HasLength

LEMMA WidthPowers ==
  /\ SmallBits \in 0 .. WordBits /\ LargeBits \in 0 .. WordBits
  /\ WordBits \in 0 .. WordBits
  /\ 2 ^ SmallBits \in Nat \ {0} /\ 2 ^ LargeBits \in Nat \ {0}
  /\ 2 ^ SmallBits <= 2 ^ WordBits /\ 2 ^ LargeBits <= 2 ^ WordBits
<1>1. SmallBits \in 0 .. WordBits /\ LargeBits \in 0 .. WordBits
      /\ WordBits \in 0 .. WordBits
  BY WordAssumption, WidthsAssumption
<1>2. PICK N \in Nat : N = WordBits + ByteBits /\ \A k \in 0 .. WordBits : k \in 0 .. N
  BY WordAssumption, WidthsAssumption
<1>3. PICK p : ArePowers(p, 2, N) /\ \A k \in 0 .. N : p[k] = 2 ^ k
  BY <1>2, TwoPowers
<1>4. \A k \in 0 .. WordBits : p[k] \in Nat \ {0} /\ p[k] = 2 ^ k
  BY <1>2, <1>3 DEF ArePowers
<1>5. ASSUME NEW k \in 0 .. WordBits PROVE p[k] <= p[WordBits]
  <2>1. k \in 0 .. N /\ WordBits \in 0 .. N /\ k <= WordBits
    BY <1>1, <1>2
  <2> QED  BY <1>3, <2>1, PowersGrow
<1> QED  BY <1>1, <1>4, <1>5

\* A number whose size fits into w bits has a magnitude that does.
LEMMA MagnitudeFits ==
  ASSUME NEW dod \in Int64, NEW q \in Nat \ {0}, q <= 2 ^ WordBits,
         dod \in 1 - q .. q - 1
  PROVE  Magnitude(dod) \in 0 .. q - 1
<1>1. PICK W \in Nat \ {0} : W = 2 ^ WordBits
  BY WordPowersAssumption
<1>2. PICK abs \in 0 .. q - 1 : abs = IF dod < 0 THEN -dod ELSE dod
  BY q \in Nat
<1>3. abs \in 0 .. 2 ^ WordBits - 1
  BY <1>1
<1>4. Unsigned(abs) = abs
  BY <1>3, SameUnsigned
<1> QED  BY <1>2, <1>4 DEF Magnitude

LEMMA PrefixesAre ==
  /\ <<0>> \in Seq(Bits) /\ Len(<<0>>) = 1 /\ <<0>>[1] = 0
  /\ <<1, 0>> \in Seq(Bits) /\ Len(<<1, 0>>) = 2
  /\ <<1, 0>>[1] = 1 /\ <<1, 0>>[2] = 0
  /\ <<1, 1, 0>> \in Seq(Bits) /\ Len(<<1, 1, 0>>) = 3
  /\ <<1, 1, 0>>[1] = 1 /\ <<1, 1, 0>>[2] = 1 /\ <<1, 1, 0>>[3] = 0
  /\ <<1, 1, 1>> \in Seq(Bits) /\ Len(<<1, 1, 1>>) = 3
  /\ <<1, 1, 1>>[1] = 1 /\ <<1, 1, 1>>[2] = 1 /\ <<1, 1, 1>>[3] = 1
BY DEF Bits

\* Add chooses one of four codes.
LEMMA CodeCases ==
  ASSUME NEW dod \in Int64
  PROVE  \/ dod = 0 /\ Code(dod) = <<0>>
         \/ IsCode(Code(dod), <<1, 0>>, SmallBits, dod)
         \/ IsCode(Code(dod), <<1, 1, 0>>, LargeBits, dod)
         \/ IsCode(Code(dod), <<1, 1, 1>>, WordBits, dod)
<1>1. dod \in Int
  BY DEF Int64, MinInt, MaxInt
<1>2. CASE dod = 0
  BY <1>2 DEF Code
<1>3. CASE dod # 0 /\ InSmall(dod)
  <2>1. Code(dod) = <<1, 0>> \o SignOf(dod) \o BitsOf(SmallBits, Magnitude(dod))
    BY <1>3 DEF Code
  <2>2. Magnitude(dod) \in 0 .. 2 ^ SmallBits - 1
    BY <1>3, WidthPowers, MagnitudeFits DEF InSmall
  <2> QED  BY <2>1, <2>2, WidthPowers, PrefixesAre DEF IsCode
<1>4. CASE dod # 0 /\ ~InSmall(dod) /\ InLarge(dod)
  <2>1. Code(dod) = <<1, 1, 0>> \o SignOf(dod) \o BitsOf(LargeBits, Magnitude(dod))
    BY <1>4 DEF Code
  <2>2. Magnitude(dod) \in 0 .. 2 ^ LargeBits - 1
    BY <1>4, WidthPowers, MagnitudeFits DEF InLarge
  <2> QED  BY <2>1, <2>2, WidthPowers, PrefixesAre DEF IsCode
<1>5. CASE dod # 0 /\ ~InSmall(dod) /\ ~InLarge(dod)
  <2>1. Code(dod) = <<1, 1, 1>> \o SignOf(dod) \o BitsOf(WordBits, Magnitude(dod))
    BY <1>5 DEF Code
  <2>2. Magnitude(dod) \in 0 .. 2 ^ WordBits - 1
    <3>1. PICK abs \in Int : abs = IF dod < 0 THEN -dod ELSE dod
      BY <1>1
    <3> QED  BY <3>1, UnsignedIs DEF Magnitude
  <2> QED  BY <2>1, <2>2, WidthPowers, PrefixesAre DEF IsCode
<1> QED  BY <1>2, <1>3, <1>4, <1>5

LEMMA CodeIsBits ==
  ASSUME NEW dod \in Int64
  PROVE  Code(dod) \in Seq(Bits)
<1>1. CASE dod = 0 /\ Code(dod) = <<0>>
  BY <1>1, PrefixesAre
<1>2. CASE \E prefix, w : IsCode(Code(dod), prefix, w, dod)
  BY <1>2, CodeParts
<1> QED  BY <1>1, <1>2, CodeCases

\* Next reads the code that Add wrote: the bit behind it, and the delta of
\* deltas but for multiples of 2 ^ WordBits.
LEMMA DodAtIs ==
  ASSUME NEW dod \in Int64, NEW data, NEW skip, NEW n \in Nat,
         Reads(data, skip, n, Code(dod))
  PROVE  /\ DodAt(data, skip, n).n = n + Len(Code(dod))
         /\ DodAt(data, skip, n).dod \in Int
         /\ Same(DodAt(data, skip, n).dod, dod)
<1>1. PICK c : c = Code(dod) /\ Reads(data, skip, n, c)
  OBVIOUS
<1> DEFINE bit(i) == BitAt(data, skip, n + i)
<1>2. CASE dod = 0 /\ c = <<0>>
  <2>1. Len(c) = 1 /\ c[1] = 0
    BY <1>2, PrefixesAre
  <2>2. bit(0) = 0
    <3>1. 1 \in 1 .. 1 /\ n + 1 - 1 = n + 0
      OBVIOUS
    <3> QED  BY <1>1, <2>1, <3>1 DEF Reads
  <2>3. DodAt(data, skip, n) = [dod |-> 0, n |-> n + 1]
    BY <2>2 DEF DodAt
  <2>4. Same(0, dod) /\ 0 \in Int
    BY <1>2 DEF Same
  <2> QED  BY <1>1, <2>1, <2>3, <2>4
<1>3. CASE IsCode(c, <<1, 0>>, SmallBits, dod)
  <2>1. PICK prefix : prefix = <<1, 0>> /\ Len(prefix) = 2
                      /\ prefix[1] = 1 /\ prefix[2] = 0
    BY PrefixesAre
  <2>2. /\ \A i \in 0 .. 2 - 1 : bit(i) = prefix[i + 1]
        /\ SignedAt(data, skip, n + 2, SmallBits) \in Int
        /\ Same(SignedAt(data, skip, n + 2, SmallBits), dod)
        /\ Len(c) = 2 + 1 + SmallBits
    <3>1. IsCode(c, prefix, SmallBits, dod)
      BY <1>3, <2>1
    <3>2. PICK k \in Nat : k = 2 /\ HasLength(prefix, k)
      BY <2>1 DEF HasLength
    <3>3. ReadsAs(data, skip, n, c, prefix, k, SmallBits, dod)
      BY <1>1, <3>1, <3>2, CodeReadAs
    <3> QED  BY <3>2, <3>3 DEF ReadsAs
  <2>3. bit(0) = 1 /\ bit(1) = 0
    <3>1. 0 \in 0 .. 2 - 1 /\ 1 \in 0 .. 2 - 1 /\ 0 + 1 = 1 /\ 1 + 1 = 2
      OBVIOUS
    <3> HIDE DEF bit
    <3> QED  BY <2>1, <2>2, <3>1
  <2>4. DodAt(data, skip, n) = [dod |-> SignedAt(data, skip, n + 2, SmallBits),
                                n |-> n + 3 + SmallBits]
    BY <2>3 DEF DodAt
  <2>5. n + 3 + SmallBits = n + Len(c)
    <3>1. SmallBits \in Int
      BY WidthsAssumption
    <3> QED  BY <2>2, <3>1
  <2> QED  BY <1>1, <2>2, <2>4, <2>5
<1>4. CASE IsCode(c, <<1, 1, 0>>, LargeBits, dod)
  <2>1. PICK prefix : prefix = <<1, 1, 0>> /\ Len(prefix) = 3
                      /\ prefix[1] = 1 /\ prefix[2] = 1 /\ prefix[3] = 0
    BY PrefixesAre
  <2>2. /\ \A i \in 0 .. 3 - 1 : bit(i) = prefix[i + 1]
        /\ SignedAt(data, skip, n + 3, LargeBits) \in Int
        /\ Same(SignedAt(data, skip, n + 3, LargeBits), dod)
        /\ Len(c) = 3 + 1 + LargeBits
    <3>1. IsCode(c, prefix, LargeBits, dod)
      BY <1>4, <2>1
    <3>2. PICK k \in Nat : k = 3 /\ HasLength(prefix, k)
      BY <2>1 DEF HasLength
    <3>3. ReadsAs(data, skip, n, c, prefix, k, LargeBits, dod)
      BY <1>1, <3>1, <3>2, CodeReadAs
    <3> QED  BY <3>2, <3>3 DEF ReadsAs
  <2>3. bit(0) = 1 /\ bit(1) = 1 /\ bit(2) = 0
    <3>1. /\ 0 \in 0 .. 3 - 1 /\ 1 \in 0 .. 3 - 1 /\ 2 \in 0 .. 3 - 1
          /\ 0 + 1 = 1 /\ 1 + 1 = 2 /\ 2 + 1 = 3
      OBVIOUS
    <3> HIDE DEF bit
    <3> QED  BY <2>1, <2>2, <3>1
  <2>4. DodAt(data, skip, n) = [dod |-> SignedAt(data, skip, n + 3, LargeBits),
                                n |-> n + 4 + LargeBits]
    BY <2>3 DEF DodAt
  <2>5. n + 4 + LargeBits = n + Len(c)
    <3>1. LargeBits \in Int
      BY WidthsAssumption
    <3> QED  BY <2>2, <3>1
  <2> QED  BY <1>1, <2>2, <2>4, <2>5
<1>5. CASE IsCode(c, <<1, 1, 1>>, WordBits, dod)
  <2>1. PICK prefix : prefix = <<1, 1, 1>> /\ Len(prefix) = 3
                      /\ prefix[1] = 1 /\ prefix[2] = 1 /\ prefix[3] = 1
    BY PrefixesAre
  <2>2. /\ \A i \in 0 .. 3 - 1 : bit(i) = prefix[i + 1]
        /\ SignedAt(data, skip, n + 3, WordBits) \in Int
        /\ Same(SignedAt(data, skip, n + 3, WordBits), dod)
        /\ Len(c) = 3 + 1 + WordBits
    <3>1. IsCode(c, prefix, WordBits, dod)
      BY <1>5, <2>1
    <3>2. PICK k \in Nat : k = 3 /\ HasLength(prefix, k)
      BY <2>1 DEF HasLength
    <3>3. ReadsAs(data, skip, n, c, prefix, k, WordBits, dod)
      BY <1>1, <3>1, <3>2, CodeReadAs
    <3> QED  BY <3>2, <3>3 DEF ReadsAs
  <2>3. bit(0) = 1 /\ bit(1) = 1 /\ bit(2) = 1
    <3>1. /\ 0 \in 0 .. 3 - 1 /\ 1 \in 0 .. 3 - 1 /\ 2 \in 0 .. 3 - 1
          /\ 0 + 1 = 1 /\ 1 + 1 = 2 /\ 2 + 1 = 3
      OBVIOUS
    <3> HIDE DEF bit
    <3> QED  BY <2>1, <2>2, <3>1
  <2>4. DodAt(data, skip, n) = [dod |-> SignedAt(data, skip, n + 3, WordBits),
                                n |-> n + 4 + WordBits]
    BY <2>3 DEF DodAt
  <2>5. n + 4 + WordBits = n + Len(c)
    <3>1. WordBits \in Int
      BY WordAssumption
    <3> QED  BY <2>2, <3>1
  <2> QED  BY <1>1, <2>2, <2>4, <2>5
<1> QED  BY <1>1, <1>2, <1>3, <1>4, <1>5, CodeCases

-----------------------------------------------------------------------------
(* The whole series.                                                       *)

\* Sequence t is the parts one behind the other: off[i] is where the i-th
\* part ends.
LaidOut(t, parts, off, N) ==
  /\ t \in Seq(Bits) /\ off \in [0 .. N -> Nat] /\ off[0] = 0
  /\ \A i \in 1 .. N :
       /\ parts[i] \in Seq(Bits)
       /\ off[i] = off[i - 1] + Len(parts[i]) /\ off[i] <= Len(t)
       /\ \A j \in 1 .. Len(parts[i]) : t[off[i - 1] + j] = parts[i][j]

\* There is nothing behind the n-th.
LaidOutTo(t, parts, off, n) == LaidOut(t, parts, off, n) /\ Len(t) = off[n]

IsPart(c, parts, i) == c \in Seq(Bits) /\ parts[i] = c

\* One part more.
LEMMA LaidOutGrows ==
  ASSUME NEW n \in Nat, NEW parts, NEW t, NEW off, LaidOutTo(t, parts, off, n),
         NEW m \in Nat, m = n + 1, NEW c, IsPart(c, parts, m)
  PROVE  \E o : LaidOutTo(t \o c, parts, o, m)
<1> USE DEF LaidOutTo, IsPart
<1>1. PICK a \in Nat, b \in Nat : a = Len(t) /\ b = Len(c)
  BY DEF LaidOut
<1>2. PICK u : u = t \o c
  OBVIOUS
<1>3. /\ u \in Seq(Bits) /\ Len(u) = a + b
      /\ \A j \in 1 .. a + b : u[j] = IF j <= a THEN t[j] ELSE c[j - a]
  BY <1>1, <1>2, ConcatProperties DEF LaidOut
<1>4. PICK o : o = [i \in 0 .. n + 1 |-> IF i = n + 1 THEN a + b ELSE off[i]]
  OBVIOUS
<1>5. /\ \A i \in 0 .. n : o[i] = off[i] /\ o[i] \in Nat
      /\ o[n + 1] = a + b /\ o[n] = a
  <2>1. \A i \in 0 .. n : i \in 0 .. n + 1 /\ i # n + 1
    OBVIOUS
  <2>2. n + 1 \in 0 .. n + 1 /\ n \in 0 .. n
    OBVIOUS
  <2> QED  BY <1>1, <1>4, <2>1, <2>2 DEF LaidOut
<1>6. o \in [0 .. n + 1 -> Nat]
  <2>1. \A i \in 0 .. n + 1 : i \in 0 .. n \/ i = n + 1
    OBVIOUS
  <2>2. \A i \in 0 .. n + 1 : o[i] \in Nat
    BY <1>5, <2>1
  <2> QED  BY <1>4, <2>2
<1>7. ASSUME NEW i \in 1 .. n + 1
      PROVE  /\ parts[i] \in Seq(Bits)
             /\ o[i] = o[i - 1] + Len(parts[i]) /\ o[i] <= Len(u)
             /\ \A j \in 1 .. Len(parts[i]) : u[o[i - 1] + j] = parts[i][j]
  <2>1. CASE i = n + 1
    <3>1. i - 1 = n /\ o[i - 1] = a /\ o[i] = a + b /\ parts[i] = c
      BY <1>5, <2>1
    <3>2. ASSUME NEW j \in 1 .. b PROVE u[a + j] = c[j]
      <4>1. PICK k \in 1 .. a + b : k = a + j /\ ~(k <= a) /\ k - a = j
        <5>1. a + j \in 1 .. a + b /\ ~(a + j <= a) /\ (a + j) - a = j
          OBVIOUS
        <5> QED  BY <5>1
      <4> QED  BY <1>3, <4>1
    <3>3. o[i] = o[i - 1] + b /\ o[i] <= a + b
      BY <1>1, <3>1
    <3> QED  BY <1>1, <1>3, <3>1, <3>2, <3>3
  <2>2. CASE i # n + 1
    <3>1. i \in 1 .. n /\ i \in 0 .. n /\ i - 1 \in 0 .. n
      BY <2>2
    <3>2. PICK x \in Nat, y \in Nat, l \in Nat :
            /\ x = off[i - 1] /\ x = o[i - 1] /\ y = off[i] /\ y = o[i]
            /\ l = Len(parts[i]) /\ y = x + l /\ y <= a
            /\ parts[i] \in Seq(Bits)
            /\ \A j \in 1 .. l : t[x + j] = parts[i][j]
      <4>1. PICK p : p = parts[i] /\ p \in Seq(Bits) /\ off[i] = off[i - 1] + Len(p)
                     /\ off[i] <= a
                     /\ \A j \in 1 .. Len(p) : t[off[i - 1] + j] = p[j]
        BY <1>1, <3>1 DEF LaidOut
      <4>2. PICK x \in Nat, y \in Nat, l \in Nat :
              x = off[i - 1] /\ x = o[i - 1] /\ y = off[i] /\ y = o[i]
              /\ l = Len(p)
        <5>1. off[i] \in Nat /\ off[i - 1] \in Nat
          BY <3>1 DEF LaidOut
        <5>2. Len(p) \in Nat
          BY <4>1
        <5> QED  BY <1>5, <3>1, <5>1, <5>2
      <4>3. /\ x = off[i - 1] /\ x = o[i - 1] /\ y = off[i] /\ y = o[i]
            /\ l = Len(parts[i]) /\ y = x + l /\ y <= a
            /\ parts[i] \in Seq(Bits)
        BY <4>1, <4>2
      <4>4. \A j \in 1 .. l : t[x + j] = parts[i][j]
        BY <4>1, <4>2
      <4> QED  BY <4>3, <4>4
    <3>3. y <= a + b
      BY <3>2
    <3>4. ASSUME NEW j \in 1 .. l PROVE u[x + j] = parts[i][j]
      <4>1. PICK k \in Nat : k = x + j /\ k \in 1 .. a + b /\ k <= a
        <5>1. j \in Nat /\ 1 <= j /\ x + j <= y
          BY <3>2
        <5>2. x + j \in Nat /\ x + j \in 1 .. a + b /\ x + j <= a
          BY ONLY <3>2, <5>1, y \in Nat, a \in Nat, b \in Nat, x \in Nat
        <5> QED  BY <5>2
      <4>2. u[k] = t[k]
        BY <1>3, <4>1
      <4> QED  BY <3>2, <4>1, <4>2
    <3> QED  BY <1>3, <3>2, <3>3, <3>4
  <2> QED  BY <2>1, <2>2
<1>8. o[0] = 0
  BY <1>5 DEF LaidOut
<1>9. LaidOut(u, parts, o, n + 1)
  BY <1>3, <1>6, <1>7, <1>8 DEF LaidOut
<1> QED  BY <1>2, <1>3, <1>5, <1>9

\* FlattenSeq lays them out.
LEMMA FlattenIs ==
  ASSUME NEW N \in Nat, NEW parts \in Seq(Seq(Bits)), Len(parts) = N
  PROVE  \E off : LaidOut(FlattenSeq(parts), parts, off, N)
<1>1. CASE N = 0
  <2>1. FlattenSeq(parts) = <<>>
    <3>1. parts = <<>>
      BY <1>1
    <3> QED  BY <1>1, <3>1 DEF FlattenSeq
  <2>2. PICK off : off = [i \in 0 .. N |-> 0]
    OBVIOUS
  <2>3. 1 .. N = {} /\ 0 \in 0 .. N
    BY <1>1
  <2>4. <<>> \in Seq(Bits)
    OBVIOUS
  <2>5. LaidOut(<<>>, parts, off, N)
    BY <2>2, <2>3, <2>4 DEF LaidOut
  <2> QED  BY <2>1, <2>5
<1>2. CASE N # 0
  <2>1. \A i \in 1 .. N : parts[i] \in Seq(Bits)
    OBVIOUS
  <2>2. PICK base : base = parts[1] /\ base \in Seq(Bits)
    <3>1. 1 \in 1 .. N
      BY <1>2
    <3> QED  BY <2>1, <3>1
  <2>3. PICK step : step = [z \in (1 .. N) \X Seq(Bits) |-> z[2] \o parts[z[1]]]
    OBVIOUS
  <2>4. CanStep(base, step, 1, N, Seq(Bits))
    <3>1. ASSUME NEW z \in (1 .. N) \X Seq(Bits)
          PROVE  z[2] \o parts[z[1]] \in Seq(Bits)
      <4>1. PICK a, b : a = z[2] /\ b = parts[z[1]] /\ a \in Seq(Bits) /\ b \in Seq(Bits)
        BY <2>1
      <4>2. a \o b \in Seq(Bits)
        BY <4>1, ConcatProperties
      <4> QED  BY <4>1, <4>2
    <3> QED  BY <2>2, <2>3, <3>1 DEF CanStep
  <2>5. PICK f \in [1 .. N -> Seq(Bits)] : ComputesUp(f, 1, N, base, step)
    BY <2>4, UpRecursion
  <2>6. \A i \in 1 .. N : f[i] = IF i = 1 THEN parts[i] ELSE f[i - 1] \o parts[i]
    <3>1. ASSUME NEW i \in 1 .. N
          PROVE  f[i] = IF i = 1 THEN parts[i] ELSE f[i - 1] \o parts[i]
      <4>1. f[i] = IF i = 1 THEN base ELSE step[i, f[i - 1]]
        BY <2>5 DEF ComputesUp
      <4>2. CASE i # 1
        <5>1. i - 1 \in 1 .. N
          BY <4>2
        <5>2. PICK u \in Seq(Bits) : u = f[i - 1]
          BY <2>5, <5>1
        <5>3. step[i, u] = u \o parts[i]
          BY <2>3
        <5> QED  BY <4>1, <4>2, <5>2, <5>3
      <4> QED  BY <2>2, <4>1, <4>2
    <3> QED  BY <3>1
  <2> DEFINE Step(g) == [i \in 1 .. Len(parts) |->
               IF i = 1 THEN parts[i] ELSE g[i - 1] \o parts[i]]
             fix == CHOOSE g : g = Step(g)
  <2>7. f = Step(f)
    <3>1. f = [i \in 1 .. N |-> f[i]]
      BY <2>5
    <3> QED  BY <2>6, <3>1
  <2>8. fix = Step(fix)
    <3> HIDE DEF Step
    <3> QED  BY <2>7
  <2>9. FlattenSeq(parts) = fix[N]
    BY <1>2 DEF FlattenSeq
  <2>10. PICK e : e = fix
    OBVIOUS
  <2>11. \A i \in 1 .. N : e[i] = IF i = 1 THEN parts[i] ELSE e[i - 1] \o parts[i]
    <3>1. e = Step(e)
      BY <2>8, <2>10
    <3> QED  BY <3>1
  <2> HIDE DEF fix, Step
  <2> DEFINE G == {i \in 1 .. N : \E o : LaidOutTo(e[i], parts, o, i)}
  <2>12. 1 \in G
    <3>1. 1 \in 1 .. N /\ e[1] = base
      <4>1. 1 \in 1 .. N
        BY <1>2
      <4> QED  BY <2>2, <2>11, <4>1
    <3>2. PICK o, t : o = [i \in 0 .. 0 |-> 0] /\ t = <<>>
      OBVIOUS
    <3>3. 1 .. 0 = {} /\ 0 \in 0 .. 0 /\ t \in Seq(Bits) /\ Len(t) = 0 /\ o[0] = 0
      BY <3>2
    <3>4. PICK m \in Nat, n \in Nat : m = 1 /\ n = 0 /\ m = n + 1
      OBVIOUS
    <3>5. LaidOutTo(t, parts, o, n) /\ IsPart(base, parts, m)
      BY <2>2, <3>2, <3>3, <3>4 DEF LaidOut, LaidOutTo, IsPart
    <3>6. \E p : LaidOutTo(t \o base, parts, p, m)
      BY <3>4, <3>5, LaidOutGrows
    <3>7. t \o base = base
      BY <2>2, <3>2, ConcatEmptySeq
    <3>8. \E p : LaidOutTo(base, parts, p, 1)
      BY <3>4, <3>6, <3>7
    <3> QED  BY <3>1, <3>8
  <2>13. ASSUME NEW i \in 1 .. N - 1, i \in G PROVE i + 1 \in G
    <3>1. i \in Nat /\ i + 1 \in 1 .. N /\ i + 1 # 1 /\ (i + 1) - 1 = i
      OBVIOUS
    <3>2. PICK c : c = parts[i + 1] /\ c \in Seq(Bits)
      BY <2>1, <3>1
    <3>3. PICK t, o : t = e[i] /\ LaidOutTo(t, parts, o, i)
      BY <2>13
    <3>4. PICK m \in Nat : m = i + 1 /\ IsPart(c, parts, m)
      BY <3>1, <3>2 DEF IsPart
    <3>5. \E p : LaidOutTo(t \o c, parts, p, m)
      BY <3>1, <3>3, <3>4, LaidOutGrows
    <3>6. e[i + 1] = t \o c
      BY <2>11, <3>1, <3>2, <3>3
    <3> QED  BY <3>1, <3>4, <3>5, <3>6
  <2>14. N \in G
    <3> HIDE DEF G
    <3>1. GoesUp(G, 1, N)
      BY <2>12, <2>13 DEF GoesUp
    <3>2. N \in 1 .. N
      BY <1>2
    <3> QED  BY <3>1, <3>2, Upward
  <2> QED  BY <2>9, <2>10, <2>14 DEF LaidOutTo
<1> QED  BY <1>1, <1>2

\* The delta of deltas of the (i + 1)-th timestamp.
Dod(s, i) == Signed(Signed(Delta(s, i + 1)) - Signed(Delta(s, i)))

LEMMA DeltaIs ==
  ASSUME NEW s \in Seq(Int64), NEW i \in 1 .. Len(s)
  PROVE  /\ Delta(s, i) \in Int /\ Unsigned(Delta(s, i)) = Delta(s, i)
         /\ i # 1 => Same(Delta(s, i), s[i] - s[i - 1])
<1>1. CASE i = 1
  <2>1. 0 \in 0 .. 2 ^ WordBits - 1
    BY WordPowersAssumption
  <2> QED  BY <1>1, <2>1, SameUnsigned DEF Delta
<1>2. CASE i # 1
  <2>1. s[i] \in Int /\ s[i - 1] \in Int
    <3>1. i \in 1 .. Len(s) /\ i - 1 \in 1 .. Len(s)
      BY <1>2
    <3>2. s[i] \in Int64 /\ s[i - 1] \in Int64
      BY <3>1
    <3> QED  BY <3>2 DEF Int64, MinInt, MaxInt
  <2>2. PICK x \in Int : x = s[i] - s[i - 1]
    BY <2>1
  <2>3. Unsigned(x) \in Int /\ Same(Unsigned(x), x)
    BY ConvertedIsSame
  <2> QED  BY <1>2, <2>2, <2>3 DEF Delta, Same
<1> QED  BY <1>1, <1>2

LEMMA DodIs ==
  ASSUME NEW s \in Seq(Int64), NEW i \in 1 .. Len(s) - 1
  PROVE  /\ Dod(s, i) \in Int64 /\ Dod(s, i) \in Int
         /\ Same(Dod(s, i), Delta(s, i + 1) - Delta(s, i))
<1>1. PICK a \in Int, b \in Int : a = Delta(s, i + 1) /\ b = Delta(s, i)
  <2>1. i \in 1 .. Len(s) /\ i + 1 \in 1 .. Len(s)
    OBVIOUS
  <2> QED  BY <2>1, DeltaIs
<1>2. PICK u \in Int, v \in Int : /\ u = Signed(a) /\ v = Signed(b)
                                  /\ Same(u, a) /\ Same(v, b)
  <2>1. Signed(a) \in Int /\ Signed(b) \in Int /\ Same(Signed(a), a) /\ Same(Signed(b), b)
    BY ConvertedIsSame
  <2> QED  BY <2>1
<1>3. Same(u - v, u - b)
  BY <1>2, SameSum
<1>4. Same(u - b, a - b)
  <2>1. PICK c \in Int : c = -b /\ u + c = u - b /\ a + c = a - b
    OBVIOUS
  <2>2. Same(u + c, a + c)
    BY <1>2, SameSum
  <2> QED  BY <2>1, <2>2
<1>5. PICK w \in Int : w = u - v
  OBVIOUS
<1>6. Signed(w) \in Int64 /\ Signed(w) \in Int /\ Same(Signed(w), w)
  BY ConvertedIsSame
<1> QED  BY <1>1, <1>2, <1>3, <1>4, <1>5, <1>6 DEF Dod, Same

\* What the decoder finds in the bytes d of the series s: two varints, the
\* first bit behind them, and each code where the one before it ends.
Written(d, s, a, b, off) ==
  /\ a \in Nat /\ b \in Nat
  /\ DecodeVarint(d, 1) = Len(s) /\ VarintEnd(d, 1) = a
  /\ DecodeVarint(d, a + 1) = Unsigned(s[1]) /\ VarintEnd(d, a + 1) = b
  /\ off \in [0 .. Len(s) - 1 -> Nat] /\ off[0] = 0
  /\ \A i \in 1 .. Len(s) - 1 :
       /\ off[i] = off[i - 1] + Len(Code(Dod(s, i)))
       /\ Reads(d, b, off[i - 1], Code(Dod(s, i)))

\* The bits are the codes of s, one behind the other.
HoldCodes(bits, s, off, n) ==
  /\ bits \in Seq(Bits) /\ off \in [0 .. n -> Nat] /\ off[0] = 0
  /\ \A i \in 1 .. n :
       /\ off[i] = off[i - 1] + Len(Code(Dod(s, i))) /\ off[i] <= Len(bits)
       /\ \A j \in 1 .. Len(Code(Dod(s, i))) :
            bits[off[i - 1] + j] = Code(Dod(s, i))[j]

LEMMA PayloadIs ==
  ASSUME NEW s \in Seq(Int64), NEW n \in Nat, n = Len(s) - 1
  PROVE  \E off : HoldCodes(PayloadBits(s), s, off, n)
<1>1. PICK codes : codes = [i \in 1 .. n |-> Code(Dod(s, i))]
  OBVIOUS
<1>2. PayloadBits(s) = FlattenSeq(codes)
  BY <1>1 DEF PayloadBits, Dod
<1>3. \A i \in 1 .. n : Code(Dod(s, i)) \in Seq(Bits)
  BY DodIs, CodeIsBits
<1>4. codes \in Seq(Seq(Bits)) /\ Len(codes) = n
  BY <1>1, <1>3
<1>5. PICK off : LaidOut(FlattenSeq(codes), codes, off, n)
  BY <1>4, FlattenIs
<1>6. PICK t : t = FlattenSeq(codes) /\ LaidOut(t, codes, off, n)
  BY <1>5
<1>7. \A i \in 1 .. n : codes[i] = Code(Dod(s, i))
  BY <1>1
<1>8. t \in Seq(Bits) /\ off \in [0 .. n -> Nat] /\ off[0] = 0
  BY <1>6 DEF LaidOut
<1>9. ASSUME NEW i \in 1 .. n
      PROVE  /\ off[i] = off[i - 1] + Len(Code(Dod(s, i))) /\ off[i] <= Len(t)
             /\ \A j \in 1 .. Len(Code(Dod(s, i))) :
                  t[off[i - 1] + j] = Code(Dod(s, i))[j]
  <2>1. PICK c : c = codes[i] /\ c = Code(Dod(s, i))
    BY <1>7
  <2>2. /\ off[i] = off[i - 1] + Len(c) /\ off[i] <= Len(t)
        /\ \A j \in 1 .. Len(c) : t[off[i - 1] + j] = c[j]
    BY <1>6, <2>1 DEF LaidOut
  <2> QED  BY <2>1, <2>2
<1>10. HoldCodes(t, s, off, n)
  BY <1>8, <1>9 DEF HoldCodes
<1> QED  BY <1>2, <1>6, <1>10

LEMMA NumbersAssociative ==
  ASSUME NEW u \in Seq(Nat), NEW v \in Seq(Nat), NEW w \in Seq(Nat)
  PROVE  (u \o v) \o w = u \o (v \o w)
OBVIOUS

LEMMA StandsFirst ==
  ASSUME NEW u \in Seq(Nat), NEW v \in Seq(Nat), Len(u) # 0
  PROVE  StandsAt(u, u \o v, 1)
<1>1. PICK a \in Nat, b \in Nat : a = Len(u) /\ b = Len(v)
  OBVIOUS
<1> DEFINE t == u \o v
<1>2. t \in Seq(Nat) /\ Len(t) = a + b
      /\ \A i \in 1 .. a + b : t[i] = IF i <= a THEN u[i] ELSE v[i - a]
  BY <1>1, ConcatProperties
<1> HIDE DEF t
<1>3. ASSUME NEW i \in 1 .. a PROVE t[1 - 1 + i] = u[i]
  <2>1. i \in 1 .. a + b /\ i <= a /\ 1 - 1 + i = i
    OBVIOUS
  <2> QED  BY <1>2, <2>1
<1>4. StandsAt(u, t, 1)
  BY <1>1, <1>2, <1>3 DEF StandsAt
<1> QED  BY <1>4 DEF t

LEMMA StandsSecond ==
  ASSUME NEW u \in Seq(Nat), NEW v \in Seq(Nat), NEW w \in Seq(Nat)
  PROVE  StandsAt(v, u \o (v \o w), Len(u) + 1)
<1>1. PICK a \in Nat, b \in Nat, c \in Nat : a = Len(u) /\ b = Len(v) /\ c = Len(w)
  OBVIOUS
<1>2. PICK t : t = v \o w /\ t \in Seq(Nat) /\ Len(t) = b + c
               /\ \A i \in 1 .. b + c : t[i] = IF i <= b THEN v[i] ELSE w[i - b]
  <2>1. PICK t : t = v \o w
    OBVIOUS
  <2>2. t \in Seq(Nat) /\ Len(t) = b + c
        /\ \A i \in 1 .. b + c : t[i] = IF i <= b THEN v[i] ELSE w[i - b]
    BY <1>1, <2>1, ConcatProperties
  <2> QED  BY <2>1, <2>2
<1>3. PICK d : d = u \o t /\ Len(d) = a + (b + c)
               /\ \A i \in 1 .. a + (b + c) : d[i] = IF i <= a THEN u[i] ELSE t[i - a]
  <2>1. PICK d : d = u \o t
    OBVIOUS
  <2>2. Len(d) = a + (b + c)
        /\ \A i \in 1 .. a + (b + c) : d[i] = IF i <= a THEN u[i] ELSE t[i - a]
    BY <1>1, <1>2, <2>1, ConcatProperties
  <2> QED  BY <2>1, <2>2
<1>4. ASSUME NEW i \in 1 .. b PROVE d[(a + 1) - 1 + i] = v[i]
  <2>1. PICK k \in 1 .. a + (b + c) : k = (a + 1) - 1 + i /\ ~(k <= a) /\ k - a = i
    <3>1. /\ (a + 1) - 1 + i \in 1 .. a + (b + c) /\ ~((a + 1) - 1 + i <= a)
          /\ ((a + 1) - 1 + i) - a = i
      OBVIOUS
    <3> QED  BY <3>1
  <2>2. i \in 1 .. b + c /\ i <= b
    OBVIOUS
  <2> QED  BY <1>2, <1>3, <2>1, <2>2
<1>5. PICK pos \in Nat \ {0} : pos = a + 1 /\ pos - 1 + b <= a + (b + c)
  <2>1. a + 1 \in Nat \ {0} /\ (a + 1) - 1 + b <= a + (b + c)
    OBVIOUS
  <2> QED  BY <2>1
<1> QED  BY <1>1, <1>2, <1>3, <1>4, <1>5 DEF StandsAt

LEMMA EncodedIsWritten ==
  ASSUME NEW s \in Seq(Int64), NEW N \in 1 .. 2 ^ WordBits - 1, N = Len(s)
  PROVE  \E a, b, off : Written(Encode(s), s, a, b, off)
<1>1. N \in 0 .. 2 ^ WordBits - 1 /\ s # <<>> /\ N - 1 \in Nat
  BY WordPowersAssumption
<1>2. PICK f : f = Unsigned(s[1]) /\ f \in 0 .. 2 ^ WordBits - 1
  <2>1. s[1] \in Int
    <3>1. s[1] \in Int64
      BY <1>1
    <3> QED  BY <3>1 DEF Int64, MinInt, MaxInt
  <2> QED  BY <2>1, UnsignedIs
<1>3. PICK u, x : u = EncodeVarint(N) /\ IsVarint(u, N, x)
  BY <1>1, EncodeVarintIs
<1>4. PICK v, y : v = EncodeVarint(f) /\ IsVarint(v, f, y)
  BY <1>2, EncodeVarintIs
<1>5. u \in Seq(Nat) /\ v \in Seq(Nat) /\ Len(u) # 0
  BY <1>3, <1>4 DEF IsVarint
<1>6. PICK n \in Nat : n = N - 1 /\ n = Len(s) - 1
  BY <1>1
<1>7. PICK bits, off : bits = PayloadBits(s) /\ HoldCodes(bits, s, off, n)
  BY <1>6, PayloadIs
<1>8. PICK w : w = Packed(bits) /\ w \in Seq(Nat)
  <2>1. <<>> \in Seq(Nat)
    OBVIOUS
  <2> QED  BY <1>7, <2>1, BitAtIs DEF HoldCodes
<1>9. PICK d : d = Encode(s) /\ d = u \o (v \o w)
  BY <1>1, <1>2, <1>3, <1>4, <1>7, <1>8 DEF Encode
<1>10. PICK t : t = v \o w /\ t \in Seq(Nat) /\ d = u \o t
  <2>1. v \o w \in Seq(Nat)
    BY <1>5, <1>8, ConcatProperties
  <2> QED  BY <1>9, <2>1
<1>11. d \in Seq(Nat)
  BY <1>5, <1>10, ConcatProperties
<1>12. PICK a \in Nat, c \in Nat : a = Len(u) /\ c = Len(v)
  BY <1>5
<1>13. PICK one \in Nat : one = 1 /\ StandsAt(u, d, one) /\ one - 1 + Len(u) = a
  <2>1. StandsAt(u, d, 1)
    BY <1>5, <1>10, StandsFirst
  <2>2. 1 - 1 + Len(u) = a /\ 1 \in Nat
    BY <1>12
  <2> QED  BY <2>1, <2>2
<1>14. PICK second \in Nat : second = a + 1 /\ StandsAt(v, d, second)
                           /\ second - 1 + Len(v) = a + c
  BY <1>5, <1>8, <1>9, <1>12, StandsSecond
<1>15. DecodeVarint(d, 1) = N /\ VarintEnd(d, 1) = a
  <2>1. DecodeVarint(d, one) = N
    BY <1>3, <1>11, <1>13, DecodeVarintIs
  <2>2. VarintEnd(d, one) = one - 1 + Len(u)
    BY <1>3, <1>11, <1>13, VarintEndIs
  <2> QED  BY <1>13, <2>1, <2>2
<1>16. DecodeVarint(d, a + 1) = f /\ VarintEnd(d, a + 1) = a + c
  <2>1. DecodeVarint(d, second) = f
    BY <1>4, <1>11, <1>14, DecodeVarintIs
  <2>2. VarintEnd(d, second) = second - 1 + Len(v)
    BY <1>4, <1>11, <1>14, VarintEndIs
  <2> QED  BY <1>14, <2>1, <2>2
<1>17. PICK pre \in Seq(Nat), b \in Nat : b = Len(pre) /\ b = a + c /\ d = pre \o w
  <2>1. u \o v \in Seq(Nat) /\ Len(u \o v) = a + c
    BY <1>5, <1>12, ConcatProperties
  <2>2. a + c \in Nat
    OBVIOUS
  <2>3. d = (u \o v) \o w
    <3>1. (u \o v) \o w = u \o (v \o w)
      <4>1. u \in Seq(Nat) /\ v \in Seq(Nat) /\ w \in Seq(Nat)
        BY <1>5, <1>8
      <4> QED  BY <4>1, NumbersAssociative
    <3> QED  BY <1>9, <3>1
  <2>4. PICK pre : pre = u \o v
    OBVIOUS
  <2> QED  BY <2>1, <2>2, <2>3, <2>4
<1>18. \A k \in 0 .. Len(bits) - 1 : BitAt(d, b, k) = bits[k + 1]
  BY <1>7, <1>8, <1>17, BitAtIs DEF HoldCodes
<1>19. ASSUME NEW i \in 1 .. n
       PROVE  Reads(d, b, off[i - 1], Code(Dod(s, i)))
  <2>1. PICK c2 : c2 = Code(Dod(s, i)) /\ c2 \in Seq(Bits)
    BY <1>6, DodIs, CodeIsBits
  <2>2. PICK l \in Nat, o \in Nat, m \in Nat :
          l = Len(c2) /\ o = off[i - 1] /\ o + l = off[i] /\ m = Len(bits)
    <3>1. i - 1 \in 0 .. n
      OBVIOUS
    <3>2. Len(c2) \in Nat /\ off[i - 1] \in Nat /\ Len(bits) \in Nat
      <4>1. off \in [0 .. n -> Nat] /\ bits \in Seq(Bits)
        BY <1>7 DEF HoldCodes
      <4>2. off[i - 1] \in Nat
        BY <3>1, <4>1
      <4> QED  BY <2>1, <4>1, <4>2
    <3>3. off[i] = off[i - 1] + Len(c2)
      BY <1>7, <2>1 DEF HoldCodes
    <3> QED  BY <3>2, <3>3
  <2>3. o + l <= m /\ \A j \in 1 .. l : bits[o + j] = c2[j]
    BY <1>7, <2>1, <2>2 DEF HoldCodes
  <2>4. ASSUME NEW j \in 1 .. l PROVE BitAt(d, b, o + j - 1) = c2[j]
    <3>1. PICK k \in 0 .. m - 1 : k = o + j - 1 /\ k + 1 = o + j
      <4>1. o + j - 1 \in 0 .. m - 1 /\ (o + j - 1) + 1 = o + j
        BY <2>3
      <4> QED  BY <4>1, NumbersAssociative
    <3> QED  BY <1>18, <2>2, <2>3, <3>1
  <2> QED  BY <2>1, <2>2, <2>4 DEF Reads
<1>20. Written(d, s, a, b, off)
  BY <1>2, <1>6, <1>7, <1>12, <1>15, <1>16, <1>17, <1>19 DEF Written, HoldCodes
<1> QED  BY <1>9, <1>20

\* Converted back and forth a timestamp is itself.
LEMMA BackAndForth ==
  ASSUME NEW x \in Int64
  PROVE  Signed(Unsigned(x)) = x
<1>1. x \in Int
  BY DEF Int64, MinInt, MaxInt
<1>2. Unsigned(Unsigned(x)) = Unsigned(x)
  BY <1>1, ConvertedIsSame DEF Same
<1>3. Signed(Unsigned(x)) = Signed(x)
  BY <1>2 DEF Signed
<1> QED  BY <1>3, SignedFits

\* What Next keeps after the i-th timestamp.
StateOf(s, off, i) ==
  [ts |-> Unsigned(s[i]), delta |-> Delta(s, i), n |-> off[i - 1]]

\* What Next makes of the state t.
NextState(d, b, t) ==
  [ts |-> Unsigned(t.ts + Unsigned(t.delta + DodAt(d, b, t.n).dod)),
   delta |-> Unsigned(t.delta + DodAt(d, b, t.n).dod),
   n |-> DodAt(d, b, t.n).n]

\* One timestamp more.
LEMMA NextStateIs ==
  ASSUME NEW s \in Seq(Int64), NEW d, NEW a, NEW b, NEW off,
         Written(d, s, a, b, off), NEW i \in 1 .. Len(s) - 1
  PROVE  NextState(d, b, StateOf(s, off, i)) = StateOf(s, off, i + 1)
<1>1. PICK D \in Int, E \in Int :
        /\ D = Delta(s, i) /\ E = Delta(s, i + 1) /\ Unsigned(E) = E
        /\ Same(E, s[i + 1] - s[i])
  <2>1. i \in 1 .. Len(s) /\ i + 1 \in 1 .. Len(s) /\ i + 1 # 1 /\ (i + 1) - 1 = i
    OBVIOUS
  <2>2. PICK k \in 1 .. Len(s) : k = i + 1 /\ k # 1 /\ k - 1 = i
    BY <2>1
  <2>3. Delta(s, i) \in Int
    BY <2>1, DeltaIs
  <2>4. Delta(s, k) \in Int /\ Unsigned(Delta(s, k)) = Delta(s, k)
        /\ Same(Delta(s, k), s[k] - s[k - 1])
    BY <2>2, DeltaIs
  <2> QED  BY <2>2, <2>3, <2>4
<1>2. PICK x \in Int, y \in Int : x = s[i] /\ y = s[i + 1]
  <2>1. s[i] \in Int64 /\ s[i + 1] \in Int64
    <3>1. i \in 1 .. Len(s) /\ i + 1 \in 1 .. Len(s)
      OBVIOUS
    <3> QED  BY <3>1
  <2> QED  BY <2>1 DEF Int64, MinInt, MaxInt
<1>3. PICK n \in Nat :
        /\ n = off[i - 1] /\ Reads(d, b, n, Code(Dod(s, i)))
        /\ off[i] = n + Len(Code(Dod(s, i)))
  <2>1. off[i - 1] \in Nat
    <3>1. i - 1 \in 0 .. Len(s) - 1
      OBVIOUS
    <3> QED  BY <3>1 DEF Written
  <2> QED  BY <2>1 DEF Written
<1>4. PICK o \in Int : o = Dod(s, i) /\ o \in Int64 /\ Same(o, E - D)
  BY <1>1, DodIs
<1>5. PICK e \in Int : e = DodAt(d, b, n).dod /\ Same(e, o)
                       /\ DodAt(d, b, n).n = off[i]
  <2>1. Reads(d, b, n, Code(o))
    BY <1>3, <1>4
  <2>2. /\ DodAt(d, b, n).n = n + Len(Code(o))
        /\ DodAt(d, b, n).dod \in Int /\ Same(DodAt(d, b, n).dod, o)
    BY <1>4, <2>1, DodAtIs
  <2> QED  BY <1>3, <1>4, <2>2
\* The delta is that of the encoder.
<1>6. Unsigned(D + e) = E
  <2>1. PICK f \in Int : f = E - D /\ D + f = E /\ f + D = E /\ e + D = D + e
    OBVIOUS
  <2>2. Same(e, f)
    BY <1>4, <1>5, <2>1 DEF Same
  <2>3. Same(e + D, f + D)
    BY <2>2, SameSum
  <2> QED  BY <1>1, <2>1, <2>3 DEF Same
\* And so is the timestamp.
<1>7. Unsigned(Unsigned(x) + E) = Unsigned(y)
  <2>1. PICK f \in Int : f = y - x /\ f + x = y
    OBVIOUS
  <2>2. PICK u \in Int : u = Unsigned(x) /\ Same(u, x)
    BY ConvertedIsSame
  <2>3. Same(E, f)
    BY <1>1, <1>2, <2>1
  <2>4. Same(E + x, f + x)
    BY <2>3, SameSum
  <2>5. Same(u + E, x + E)
    BY <2>2, SameSum
  <2>6. x + E = E + x
    OBVIOUS
  <2> QED  BY <2>1, <2>2, <2>4, <2>5, <2>6 DEF Same
<1>8. PICK t : t = StateOf(s, off, i) /\ t.ts = Unsigned(x) /\ t.delta = D /\ t.n = n
  <2>1. StateOf(s, off, i) = [ts |-> Unsigned(x), delta |-> D, n |-> n]
    BY <1>1, <1>2, <1>3 DEF StateOf
  <2> QED  BY <2>1
<1>9. NextState(d, b, t) = [ts |-> Unsigned(Unsigned(x) + E), delta |-> E,
                              n |-> off[i]]
  BY <1>5, <1>6, <1>8 DEF NextState
<1>10. StateOf(s, off, i + 1) = [ts |-> Unsigned(y), delta |-> E, n |-> off[i]]
  <2>1. (i + 1) - 1 = i
    OBVIOUS
  <2> QED  BY <1>1, <1>2, <2>1 DEF StateOf
<1> QED  BY <1>5, <1>7, <1>8, <1>9, <1>10

\* The decoder goes through the states, and returns the timestamps.
LEMMA DecodeIs ==
  ASSUME NEW s \in Seq(Int64), NEW N \in Nat \ {0}, N = Len(s),
         NEW d, NEW a, NEW b, NEW off, Written(d, s, a, b, off)
  PROVE  Decode(d) = s
<1>1. PICK f : f = [i \in 1 .. N |-> StateOf(s, off, i)]
  OBVIOUS
<1> DEFINE first == [ts |-> Unsigned(s[1]), delta |-> 0, n |-> 0]
<1>2. StateOf(s, off, 1) = first
  <2>1. 1 - 1 = 0 /\ off[0] = 0
    BY DEF Written
  <2> QED  BY <2>1 DEF StateOf, Delta
<1>3. ASSUME NEW i \in 1 .. N, i # 1
      PROVE  i - 1 \in 1 .. N /\ NextState(d, b, StateOf(s, off, i - 1)) = StateOf(s, off, i)
  <2>1. PICK k \in 1 .. Len(s) - 1 : k = i - 1 /\ k + 1 = i
    <3>1. i - 1 \in 1 .. Len(s) - 1 /\ (i - 1) + 1 = i
      BY <1>3
    <3> QED  BY <3>1
  <2>2. NextState(d, b, StateOf(s, off, k)) = StateOf(s, off, k + 1)
    BY NextStateIs
  <2>3. i - 1 \in 1 .. N
    BY <1>3
  <2> QED  BY <2>1, <2>2, <2>3
<1> DEFINE step(g, i) == NextState(d, b, g[i - 1])
           Step(g) == [i \in 1 .. N |-> IF i = 1 THEN first ELSE step(g, i)]
           count == DecodeVarint(d, 1)
           at == VarintEnd(d, 1) + 1
           skip == VarintEnd(d, at)
           StepD(g) == [i \in 1 .. count |->
             IF i = 1 THEN [ts |-> DecodeVarint(d, at), delta |-> 0, n |-> 0]
             ELSE [ts |-> Unsigned(g[i - 1].ts
                     + Unsigned(g[i - 1].delta + DodAt(d, skip, g[i - 1].n).dod)),
                   delta |-> Unsigned(g[i - 1].delta
                     + DodAt(d, skip, g[i - 1].n).dod),
                   n |-> DodAt(d, skip, g[i - 1].n).n]]
           fix == CHOOSE g : g = StepD(g)
<1>4. f = Step(f)
  <2>1. \A i \in 1 .. N : f[i] = IF i = 1 THEN first ELSE step(f, i)
    <3>1. ASSUME NEW i \in 1 .. N, i # 1 PROVE f[i] = step(f, i)
      <4>1. f[i] = StateOf(s, off, i) /\ f[i - 1] = StateOf(s, off, i - 1)
        BY <1>1, <1>3, <3>1
      <4> QED  BY <1>3, <3>1, <4>1
    <3> HIDE DEF first, step
    <3> QED  BY <1>1, <1>2, <3>1
  <2>2. f = [i \in 1 .. N |-> f[i]]
    BY <1>1
  <2> HIDE DEF first, step
  <2> QED  BY <2>1, <2>2
<1>5. ASSUME NEW g PROVE StepD(g) = Step(g)
  <2>1. count = N /\ DecodeVarint(d, at) = Unsigned(s[1]) /\ skip = b
    BY DEF Written
  <2> HIDE DEF count, at, skip
  <2> QED  BY <2>1 DEF NextState
<1>6. Decode(d) = [i \in 1 .. N |-> Signed(fix[i].ts)]
  <2>1. Decode(d) = [i \in 1 .. count |-> Signed(fix[i].ts)]
    BY DEF Decode
  <2>2. count = N
    BY DEF Written
  <2> HIDE DEF fix, count
  <2> QED  BY <2>1, <2>2
<1>7. PICK e : e = fix
  OBVIOUS
<1>8. \A i \in 1 .. N : e[i] = IF i = 1 THEN first ELSE step(e, i)
  <2>1. fix = StepD(fix)
    <3>1. f = StepD(f)
      <4> HIDE DEF Step, StepD
      <4> QED  BY <1>4, <1>5
    <3> HIDE DEF StepD
    <3> QED  BY <3>1
  <2>2. e = Step(e)
    <3> HIDE DEF Step, StepD, fix
    <3> QED  BY <1>5, <1>7, <2>1
  <2> HIDE DEF first, step
  <2> QED  BY <2>2
<1> HIDE DEF first, fix, Step, StepD
<1> DEFINE G == {i \in 1 .. N : e[i] = StateOf(s, off, i)}
<1>9. 1 .. N \subseteq G
  <2>1. 1 \in G
    <3>1. 1 \in 1 .. N
      OBVIOUS
    <3> HIDE DEF step
    <3> QED  BY <1>2, <1>8, <3>1
  <2>2. ASSUME NEW i \in 1 .. N - 1, i \in G PROVE i + 1 \in G
    <3>1. PICK k \in 1 .. N : k = i + 1 /\ k # 1 /\ k - 1 = i
      <4>1. i + 1 \in 1 .. N /\ i + 1 # 1 /\ (i + 1) - 1 = i
        OBVIOUS
      <4> QED  BY <4>1
    <3>2. e[k] = NextState(d, b, StateOf(s, off, k - 1))
      BY <1>8, <2>2, <3>1
    <3>3. e[k] = StateOf(s, off, k)
      BY <1>3, <3>1, <3>2
    <3> QED  BY <3>1, <3>3
  <2> HIDE DEF G
  <2>3. GoesUp(G, 1, N)
    BY <2>1, <2>2 DEF GoesUp
  <2> QED  BY <2>3, Upward
<1>10. \A i \in 1 .. N : Signed(e[i].ts) = s[i]
  <2>1. ASSUME NEW i \in 1 .. N PROVE Signed(e[i].ts) = s[i]
    <3>1. e[i].ts = Unsigned(s[i])
      <4>1. e[i] = StateOf(s, off, i)
        BY <1>9
      <4>2. StateOf(s, off, i).ts = Unsigned(s[i])
        BY DEF StateOf
      <4> QED  BY <4>1, <4>2
    <3>2. s[i] \in Int64
      OBVIOUS
    <3> QED  BY <3>1, <3>2, BackAndForth
  <2> QED  BY <2>1
<1>11. s = [i \in 1 .. N |-> s[i]]
  OBVIOUS
<1> QED  BY <1>6, <1>7, <1>10, <1>11

\* Nothing is decoded from the code of no timestamps.
LEMMA DecodeNothing == Decode(Encode(<<>>)) = <<>>
<1>1. 0 \in 0 .. 2 ^ WordBits - 1
  BY WordPowersAssumption
<1>2. PICK u, x : u = EncodeVarint(0) /\ IsVarint(u, 0, x)
  BY <1>1, EncodeVarintIs
<1>3. u \in Seq(Nat) /\ Len(u) # 0
  BY <1>2 DEF IsVarint
<1>4. Encode(<<>>) = u
  <2>1. u \o <<>> = u
    BY <1>3, ConcatEmptySeq
  <2> QED  BY <1>2, <2>1 DEF Encode
<1>5. StandsAt(u, u, 1)
  BY <1>3 DEF StandsAt
<1>6. DecodeVarint(u, 1) = 0
  <2>1. PICK one \in Nat : one = 1
    OBVIOUS
  <2> QED  BY <1>2, <1>3, <1>5, <2>1, DecodeVarintIs
<1>7. \A F : [i \in 1 .. 0 |-> F[i]] = <<>>
  OBVIOUS
<1> QED  BY <1>4, <1>6 DEF Decode

LEMMA DecodesEverySeries ==
  ASSUME NEW s \in Seq(Int64), Len(s) <= MaxSamples
  PROVE  Decode(Encode(s)) = s
<1>1. CASE s = <<>>
  BY <1>1, DecodeNothing
<1>2. CASE s # <<>>
  <2>1. PICK N \in 1 .. 2 ^ WordBits - 1 : N = Len(s) /\ N \in Nat \ {0}
    <3>1. PICK W \in Nat : W = 2 ^ WordBits
      BY WordPowersAssumption
    <3>2. Len(s) \in Nat \ {0}
      BY <1>2
    <3>3. Len(s) <= W - 1
      BY <3>1, <3>2, WidthsAssumption
    <3> QED  BY <3>1, <3>2, <3>3
  <2>2. PICK a, b, off : Written(Encode(s), s, a, b, off)
    BY <2>1, EncodedIsWritten
  <2>3. PICK d : d = Encode(s) /\ Written(d, s, a, b, off)
    BY <2>2
  <2>4. Decode(d) = s
    BY <2>1, <2>3, DecodeIs
  <2> QED  BY <2>3, <2>4
<1> QED  BY <1>1, <1>2

\* Whatever series of timestamps is added to the encoder (AddTimestamp, any
\* int64 in any order, as many as the count's varint holds), at any of the
\* widths, the decoder returns it: both loops, both varints, the four codes and
\* the bytes between them.
THEOREM TimestampsSurvive == CompressionSpec => []DecodesWhatWasEncoded
<1> DEFINE Inv == series \in Seq(Int64) /\ Len(series) <= MaxSamples
<1>1. series = <<>> => Inv
  BY WidthsAssumption
<1>2. ASSUME Inv, [AddTimestamp]_series PROVE Inv'
  <2>1. CASE AddTimestamp
    <3>1. PICK ts \in Int64 : series' = Append(series, ts)
      BY <2>1 DEF AddTimestamp
    <3>2. Len(series) < MaxSamples /\ Len(series) \in Nat /\ MaxSamples \in Int
      BY <1>2, <2>1, WidthsAssumption, WordPowersAssumption DEF AddTimestamp
    <3>3. Append(series, ts) \in Seq(Int64)
          /\ Len(Append(series, ts)) = Len(series) + 1
      BY <1>2, AppendProperties
    <3> QED  BY <3>1, <3>2, <3>3
  <2>2. CASE UNCHANGED series
    BY <1>2, <2>2
  <2> QED  BY <1>2, <2>1, <2>2
<1>3. Inv => DecodesWhatWasEncoded
  BY DecodesEverySeries DEF DecodesWhatWasEncoded
<1> QED  BY <1>1, <1>2, <1>3, PTL DEF CompressionSpec
=============================================================================
