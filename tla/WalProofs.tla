------------------------------ MODULE WalProofs ------------------------------
(***************************************************************************)
(* The proofs that a replay delivers whole records in order, that no crash *)
(* or error but a short read at replay takes away a record that was synced *)
(* into a whole log, and that the write-ahead log implements DurableLog:   *)
(* for records of any number of fragments and any number of appends,       *)
(* crashes and failed I/O calls.                                           *)
(***************************************************************************)
EXTENDS Wal, TLAPS, SequenceTheorems, FiniteSetTheorems, WellFoundedInduction

USE TearsAssumption, BoundsAssumption

-----------------------------------------------------------------------------
(* Sets of positions.                                                      *)

LEMMA LeastExists ==
  ASSUME NEW S \in SUBSET Nat, S # {}
  PROVE  \E m \in S : \A x \in S : m <= x
<1>1. \E m \in S : \A x \in S : ~(<<x, m>> \in OpToRel(<, Nat))
  BY WFMin, NatLessThanWellFounded
<1>2. PICK m \in S : \A x \in S : ~(x < m)
  BY <1>1 DEF OpToRel
<1> QED  BY <1>2

LEMMA GreatestExists ==
  ASSUME NEW n \in Nat, NEW S \in SUBSET (1 .. n), S # {}
  PROVE  \E m \in S : \A x \in S : x <= m
<1> DEFINE T == {n - x : x \in S}
<1>1. T \in SUBSET Nat /\ T # {}
  <2>1. \A x \in S : n - x \in Nat
    OBVIOUS
  <2> QED  BY <2>1
<1>2. PICK m \in T : \A t \in T : m <= t
  <2> HIDE DEF T
  <2> QED  BY <1>1, LeastExists
<1>3. PICK x \in S : m = n - x
  BY <1>2
<1>4. ASSUME NEW y \in S PROVE y <= x
  <2>1. n - y \in T
    OBVIOUS
  <2> QED  BY <1>2, <1>3, <2>1
<1> QED  BY <1>4

\* How many members of S there are up to position e.
Rank(S, e) == Cardinality(S \cap 1 .. e)

LEMMA Ranks ==
  ASSUME NEW n \in Nat, NEW S \in SUBSET (1 .. n)
  PROVE  /\ IsFiniteSet(S) /\ Cardinality(S) \in Nat
         /\ Rank(S, 0) = 0 /\ Rank(S, n) = Cardinality(S)
         /\ \A e \in S : e \in Nat /\ e # 0
         /\ \A e \in Nat : Rank(S, e) \in Nat /\ Rank(S, e) <= Cardinality(S)
         /\ \A e \in Nat : Rank(S, e + 1) = IF e + 1 \in S THEN Rank(S, e) + 1
                                            ELSE Rank(S, e)
         /\ \A d, e \in Nat : d <= e => Rank(S, d) <= Rank(S, e)
         /\ \A d \in Nat, e \in S : d < e => Rank(S, d) < Rank(S, e)
<1>1. IsFiniteSet(S) /\ Cardinality(S) \in Nat
  <2>1. IsFiniteSet(1 .. n)
    BY FS_Interval
  <2> QED  BY <2>1, FS_Subset, FS_CardinalityType
<1>0. \A e \in S : e \in Nat /\ e # 0
  OBVIOUS
<1>2. \A e \in Nat : IsFiniteSet(S \cap 1 .. e) /\ Rank(S, e) \in Nat
                     /\ Rank(S, e) <= Cardinality(S)
  BY <1>1, FS_Subset, FS_CardinalityType DEF Rank
<1>3. Rank(S, 0) = 0 /\ Rank(S, n) = Cardinality(S)
  <2>1. 1 .. 0 = {}
    OBVIOUS
  <2>2. S \cap 1 .. 0 = {} /\ S \cap 1 .. n = S
    BY <2>1
  <2> QED  BY <2>2, FS_EmptySet DEF Rank
<1>4. ASSUME NEW e \in Nat
      PROVE  Rank(S, e + 1) = IF e + 1 \in S THEN Rank(S, e) + 1
                              ELSE Rank(S, e)
  <2>1. CASE e + 1 \in S
    <3>1. S \cap 1 .. e + 1 = (S \cap 1 .. e) \cup {e + 1}
          /\ e + 1 \notin S \cap 1 .. e
      BY <2>1
    <3> QED  BY <1>2, <2>1, <3>1, FS_AddElement DEF Rank
  <2>2. CASE e + 1 \notin S
    <3>1. S \cap 1 .. e + 1 = S \cap 1 .. e
      BY <2>2
    <3> QED  BY <2>2, <3>1 DEF Rank
  <2> QED  BY <2>1, <2>2
<1>5. ASSUME NEW d \in Nat, NEW e \in Nat, d <= e
      PROVE  Rank(S, d) <= Rank(S, e)
  <2>1. S \cap 1 .. d \in SUBSET (S \cap 1 .. e)
    BY <1>5
  <2> QED  BY <1>2, <2>1, FS_Subset DEF Rank
<1>6. ASSUME NEW d \in Nat, NEW e \in S, d < e
      PROVE  Rank(S, d) < Rank(S, e)
  <2>1. e - 1 \in Nat /\ d <= e - 1 /\ (e - 1) + 1 = e
    BY <1>6
  <2>2. Rank(S, d) <= Rank(S, e - 1)
    BY <1>5, <2>1
  <2>3. Rank(S, e) = Rank(S, e - 1) + 1
    BY <1>4, <2>1
  <2>4. Rank(S, d) \in Nat /\ Rank(S, e - 1) \in Nat
    BY <1>2, <2>1
  <2> QED  BY <2>2, <2>3, <2>4
<1> QED  BY <1>0, <1>1, <1>2, <1>3, <1>4, <1>5, <1>6

\* Every member has its place, and every place up to the size its member.
LEMMA NthOfRank ==
  ASSUME NEW n \in Nat, NEW S \in SUBSET (1 .. n), NEW e \in S
  PROVE  /\ Rank(S, e) \in 1 .. Cardinality(S)
         /\ Nth(S, Rank(S, e)) = e
<1>1. Rank(S, e) \in 1 .. Cardinality(S)
  <2>1. e \in Nat /\ 0 < e /\ Cardinality(S) \in Nat
    BY Ranks
  <2>2. Rank(S, 0) = 0 /\ Rank(S, 0) < Rank(S, e)
    BY <2>1, Ranks
  <2>3. Rank(S, e) \in Nat /\ Rank(S, e) <= Cardinality(S)
    BY <2>1, Ranks
  <2> QED  BY <2>1, <2>2, <2>3
<1>2. \A d \in S : Rank(S, d) = Rank(S, e) => d = e
  <2>1. \A d \in S : d < e => Rank(S, d) < Rank(S, e)
    BY Ranks
  <2>2. \A d \in S : e < d => Rank(S, e) < Rank(S, d)
    BY Ranks
  <2>3. \A d \in S : Rank(S, d) \in Nat
    BY Ranks
  <2> QED  BY <2>1, <2>2, <2>3
<1> QED  BY <1>1, <1>2 DEF Nth, Rank

LEMMA RankOfNth ==
  ASSUME NEW n \in Nat, NEW S \in SUBSET (1 .. n),
         NEW i \in 1 .. Cardinality(S)
  PROVE  Nth(S, i) \in S /\ Rank(S, Nth(S, i)) = i
<1> DEFINE T == {e \in Nat : Rank(S, e) >= i}
<1>1. Cardinality(S) \in Nat /\ T \in SUBSET Nat
  BY Ranks
<1>2. T # {}
  <2>1. Rank(S, n) = Cardinality(S)
    BY Ranks
  <2>2. Cardinality(S) >= i
    BY <1>1
  <2> QED  BY <2>1, <2>2
<1>3. PICK e \in T : \A x \in T : e <= x
  <2> HIDE DEF T
  <2> QED  BY <1>1, <1>2, LeastExists
<1>4. e \in Nat /\ Rank(S, e) >= i /\ e # 0
  <2>1. Rank(S, 0) = 0
    BY Ranks
  <2> QED  BY <1>3, <2>1
<1>5. e - 1 \in Nat /\ (e - 1) + 1 = e /\ e - 1 \notin T
  <2> HIDE DEF T
  <2> QED  BY <1>3, <1>4
<1>6. Rank(S, e - 1) < i
  <2>1. Rank(S, e - 1) \in Nat
    BY <1>5, Ranks
  <2> QED  BY <1>1, <1>5, <2>1
<1>7. e \in S /\ Rank(S, e) = i
  <2>1. Rank(S, e) = IF e \in S THEN Rank(S, e - 1) + 1 ELSE Rank(S, e - 1)
    <3>1. \A d \in Nat : Rank(S, d + 1) = IF d + 1 \in S
                                          THEN Rank(S, d) + 1 ELSE Rank(S, d)
      BY Ranks
    <3> QED  BY <1>5, <3>1
  <2>2. Rank(S, e - 1) \in Nat
    BY <1>5, Ranks
  <2> QED  BY <1>1, <1>4, <1>6, <2>1, <2>2
<1> HIDE DEF T
<1> QED  BY <1>7, NthOfRank
-----------------------------------------------------------------------------
(* Replay.                                                                 *)

Frag == [type : FragmentTypes \cup Tears, rec : Nat, part : Nat]

\* The loop of ReplayEntries ends somewhere, and at one place only.
LEMMA ReadLengthExists ==
  ASSUME NEW log, Len(log) \in Nat
  PROVE  /\ ReadLength(log) \in 0 .. Len(log)
         /\ \A i \in 1 .. ReadLength(log) : Fits(log, i)
         /\ ReadLength(log) < Len(log) => ~Fits(log, ReadLength(log) + 1)
<1> DEFINE S == {n \in 0 .. Len(log) : n < Len(log) => ~Fits(log, n + 1)}
<1>1. S \in SUBSET Nat /\ Len(log) \in S
  OBVIOUS
<1>2. PICK n \in S : \A x \in S : n <= x
  <2> HIDE DEF S
  <2> QED  BY <1>1, LeastExists
<1>3. ASSUME NEW i \in 1 .. n PROVE Fits(log, i)
  <2>1. i - 1 \notin S
    <3>1. n \in Nat
      BY <1>1
    <3> HIDE DEF S
    <3> QED  BY <1>2, <3>1
  <2> QED  BY <2>1
<1>4. n \in 0 .. Len(log) /\ (n < Len(log) => ~Fits(log, n + 1))
  OBVIOUS
<1> QED  BY <1>3, <1>4 DEF ReadLength

\* What is delivered does not depend on what follows it.
LEMMA EndsAre ==
  ASSUME NEW log, Len(log) \in Nat
  PROVE  Ends(log) = {e \in 1 .. Len(log) : /\ log[e].type \in {"full", "last"}
                                            /\ \A i \in 1 .. e : Fits(log, i)}
<1> DEFINE r == ReadLength(log)
<1>1. /\ r \in 0 .. Len(log) /\ \A i \in 1 .. r : Fits(log, i)
      /\ r < Len(log) => ~Fits(log, r + 1)
  BY ReadLengthExists
<1> HIDE DEF r
<1>2. ASSUME NEW e \in 1 .. Len(log), \A i \in 1 .. e : Fits(log, i)
      PROVE  e <= r
  BY <1>1, <1>2
<1>3. Ends(log) = {e \in 1 .. r : log[e].type \in {"full", "last"}}
  BY DEF Ends, r
<1> QED  BY <1>1, <1>2, <1>3

LEMMA EndsPrefix ==
  ASSUME NEW a, NEW b, Len(a) \in Nat, Len(b) \in Nat, NEW m \in Nat,
         m <= Len(a), m <= Len(b), \A i \in 1 .. m : a[i] = b[i]
  PROVE  \A e \in 1 .. m : e \in Ends(a) <=> e \in Ends(b)
<1>1. \A i \in 1 .. m : Fits(a, i) <=> Fits(b, i)
  BY DEF Fits, Assembling
<1> QED  BY <1>1, EndsAre

LEMMA EndsType ==
  ASSUME NEW log, Len(log) \in Nat
  PROVE  /\ Ends(log) \in SUBSET (1 .. Len(log))
         /\ IsFiniteSet(Ends(log)) /\ Cardinality(Ends(log)) \in Nat
BY EndsAre, Ranks
-----------------------------------------------------------------------------
(* The records delivered.                                                  *)

LEMMA DeliveredType ==
  ASSUME NEW log \in Seq(Frag)
  PROVE  /\ Delivered(log) \in Seq(Nat)
         /\ Len(Delivered(log)) = Cardinality(Ends(log))
         /\ Len(Delivered(log)) \in Nat
         /\ \A n \in 1 .. Cardinality(Ends(log)) :
              /\ Nth(Ends(log), n) \in Ends(log)
              /\ Delivered(log)[n] = log[Nth(Ends(log), n)].rec
<1> DEFINE E == Ends(log)
           D == Delivered(log)
<1>1. /\ Len(log) \in Nat /\ E \in SUBSET (1 .. Len(log))
      /\ Cardinality(E) \in Nat
  BY EndsType
<1>2. D = [n \in 1 .. Cardinality(E) |-> log[Nth(E, n)].rec]
  BY DEF Delivered
<1> HIDE DEF E, D
<1>3. ASSUME NEW n \in 1 .. Cardinality(E)
      PROVE  Nth(E, n) \in E /\ log[Nth(E, n)].rec \in Nat
  <2>1. Nth(E, n) \in E
    BY <1>1, RankOfNth
  <2>2. Nth(E, n) \in 1 .. Len(log)
    BY <1>1, <2>1
  <2>3. log[Nth(E, n)] \in Frag
    BY <2>2, ElementOfSeq
  <2> QED  BY <2>1, <2>3 DEF Frag
<1>4. D \in [1 .. Cardinality(E) -> Nat]
  BY <1>2, <1>3
<1>5. D \in Seq(Nat) /\ Len(D) = Cardinality(E)
  BY <1>1, <1>4
<1> QED  BY <1>1, <1>2, <1>3, <1>5 DEF E, D

LEMMA HeldIsDelivered ==
  ASSUME NEW log \in Seq(Frag)
  PROVE  DL!Held(Delivered(log)) = {log[e].rec : e \in Ends(log)}
<1> DEFINE E == Ends(log)
<1>1. Len(log) \in Nat /\ E \in SUBSET (1 .. Len(log))
  BY EndsType
<1>2. DL!Held(Delivered(log)) =
        {log[Nth(E, n)].rec : n \in 1 .. Cardinality(E)}
  BY DeliveredType DEF DL!Held
<1>3. \A n \in 1 .. Cardinality(E) : Nth(E, n) \in E
  BY DeliveredType
<1> HIDE DEF E
<1>4. \A e \in E : \E n \in 1 .. Cardinality(E) : Nth(E, n) = e
  BY <1>1, NthOfRank
<1> QED  BY <1>2, <1>3, <1>4 DEF E

\* A log cut short delivers the first of the records.
LEMMA DeliveredPrefix ==
  ASSUME NEW a \in Seq(Frag), NEW b \in Seq(Frag), NEW m \in Nat,
         m <= Len(a), m <= Len(b), \A i \in 1 .. m : a[i] = b[i],
         Ends(b) \subseteq 1 .. m
  PROVE  /\ Len(Delivered(b)) \in 0 .. Len(Delivered(a))
         /\ Delivered(b) = SubSeq(Delivered(a), 1, Len(Delivered(b)))
<1> DEFINE E == Ends(a)
           F == Ends(b)
<1>1. /\ Len(a) \in Nat /\ E \in SUBSET (1 .. Len(a))
      /\ IsFiniteSet(E) /\ Cardinality(E) \in Nat
      /\ Len(b) \in Nat /\ F \in SUBSET (1 .. Len(b))
      /\ IsFiniteSet(F) /\ Cardinality(F) \in Nat
  BY EndsType
<1>2. F \subseteq 1 .. m /\ F = E \cap 1 .. m
  <2>1. \A e \in 1 .. m : e \in E <=> e \in F
    BY <1>1, EndsPrefix
  <2>2. F \subseteq 1 .. m
    OBVIOUS
  <2> HIDE DEF E, F
  <2> QED  BY <2>1, <2>2
<1>3. Cardinality(F) <= Cardinality(E)
  <2> HIDE DEF E, F
  <2> QED  BY <1>1, <1>2, FS_Subset
<1>4. /\ Len(Delivered(a)) = Cardinality(E)
      /\ Len(Delivered(b)) = Cardinality(F)
      /\ Delivered(a) \in Seq(Nat) /\ Delivered(b) \in Seq(Nat)
      /\ \A n \in 1 .. Cardinality(E) : Delivered(a)[n] = a[Nth(E, n)].rec
      /\ \A n \in 1 .. Cardinality(F) : Delivered(b)[n] = b[Nth(F, n)].rec
  BY DeliveredType
<1> HIDE DEF E, F
<1>5. ASSUME NEW n \in 1 .. Cardinality(F)
      PROVE  Nth(E, n) = Nth(F, n) /\ Nth(F, n) \in 1 .. m
  <2>1. PICK e : e = Nth(F, n)
    OBVIOUS
  <2>2. e \in F /\ Rank(F, e) = n
    BY <1>1, <2>1, RankOfNth
  <2>3. e \in E /\ e \in 1 .. m
    BY <1>2, <2>2
  <2>4. F \cap 1 .. e = E \cap 1 .. e
    BY <1>2, <2>3
  <2>5. Rank(E, e) = n
    BY <2>2, <2>4 DEF Rank
  <2> QED  BY <1>1, <2>1, <2>3, <2>5, NthOfRank
<1>6. \A n \in 1 .. Cardinality(F) : Delivered(b)[n] = Delivered(a)[n]
  <2> SUFFICES ASSUME NEW n \in 1 .. Cardinality(F)
               PROVE  Delivered(b)[n] = Delivered(a)[n]
    OBVIOUS
  <2>1. n \in 1 .. Cardinality(E)
    BY <1>1, <1>3
  <2>2. b[Nth(F, n)] = a[Nth(E, n)]
    BY <1>5
  <2> QED  BY <1>4, <2>1, <2>2
<1> QED  BY <1>1, <1>3, <1>4, <1>6, SeqEqual

LEMMA DeliveredNone ==
  Delivered(<<>>) = <<>>
<1>1. Ends(<<>>) = {}
  BY EndsType
<1>2. Cardinality({}) = 0
  BY FS_EmptySet
<1>3. <<>> \in Seq(Frag)
  OBVIOUS
<1>4. Delivered(<<>>) \in Seq(Nat) /\ Len(Delivered(<<>>)) = 0
  BY <1>1, <1>2, <1>3, DeliveredType
<1> QED  BY <1>4

\* What is changed behind the last of the records changes nothing.
LEMMA DeliveredSame ==
  ASSUME NEW a \in Seq(Frag), NEW b \in Seq(Frag), Ends(a) = Ends(b),
         \A e \in Ends(a) : a[e] = b[e]
  PROVE  Delivered(a) = Delivered(b)
<1>1. Delivered(a) = [n \in 1 .. Cardinality(Ends(a)) |->
                        a[Nth(Ends(a), n)].rec]
  BY DEF Delivered
<1>2. Delivered(b) = [n \in 1 .. Cardinality(Ends(a)) |->
                        b[Nth(Ends(a), n)].rec]
  BY DEF Delivered
<1>3. \A n \in 1 .. Cardinality(Ends(a)) :
        a[Nth(Ends(a), n)] = b[Nth(Ends(a), n)]
  BY DeliveredType
<1> QED  BY <1>1, <1>2, <1>3

\* A record more at the end of the log is a record more delivered.
LEMMA DeliveredMore ==
  ASSUME NEW a \in Seq(Frag), NEW b \in Seq(Frag), Len(a) < Len(b),
         \A i \in 1 .. Len(a) : a[i] = b[i],
         Ends(b) = Ends(a) \cup {Len(b)}
  PROVE  Delivered(b) = Append(Delivered(a), b[Len(b)].rec)
<1> DEFINE E == Ends(a)
           F == Ends(b)
<1>0. PICK z : z = Len(b)
  OBVIOUS
<1>1. /\ Len(a) \in Nat /\ E \in SUBSET (1 .. Len(a))
      /\ IsFiniteSet(E) /\ Cardinality(E) \in Nat
      /\ z \in Nat /\ F \in SUBSET (1 .. z) /\ F = E \cup {z}
  BY <1>0, EndsType
<1>2. /\ Len(Delivered(a)) = Cardinality(E)
      /\ Len(Delivered(b)) = Cardinality(F)
      /\ Delivered(a) \in Seq(Nat) /\ Delivered(b) \in Seq(Nat)
      /\ \A n \in 1 .. Cardinality(F) : Delivered(b)[n] = b[Nth(F, n)].rec
  BY DeliveredType
<1>3. /\ Len(Delivered(a)) \in 0 .. Len(Delivered(b))
      /\ Delivered(a) = SubSeq(Delivered(b), 1, Len(Delivered(a)))
  <2>1. /\ Ends(a) \subseteq 1 .. Len(a) /\ Len(a) <= Len(b)
        /\ \A i \in 1 .. Len(a) : b[i] = a[i]
    BY <1>1
  <2> QED  BY <1>1, <2>1, DeliveredPrefix
<1> HIDE DEF E, F
<1>4. z \notin E
  BY <1>0, <1>1
<1>5. Cardinality(F) = Cardinality(E) + 1
  BY <1>1, <1>4, FS_AddElement
<1>6. Nth(F, Cardinality(F)) = z
  <2>1. Rank(F, z) = Cardinality(F) /\ z \in F
    BY <1>1, Ranks
  <2>2. Nth(F, Rank(F, z)) = z
    BY <1>1, <2>1, NthOfRank
  <2> QED  BY <2>1, <2>2
<1>7. Delivered(b)[Cardinality(F)] = b[z].rec
  <2>1. Cardinality(F) \in 1 .. Cardinality(F)
    BY <1>1, <1>5
  <2> QED  BY <1>2, <1>6, <2>1
<1>8. b[z].rec \in Nat
  <2>1. z \in 1 .. Len(b)
    BY <1>0, <1>1
  <2>2. b[z] \in Frag
    BY <2>1, ElementOfSeq
  <2> QED  BY <2>2 DEF Frag
<1>9. \A n \in 1 .. Cardinality(E) : Delivered(b)[n] = Delivered(a)[n]
  <2> DEFINE D == Delivered(b)
             c == Cardinality(E)
  <2>1. D \in Seq(Nat) /\ c \in Nat /\ c <= Len(D)
    BY <1>1, <1>2, <1>5
  <2>2. Delivered(a) = SubSeq(D, 1, c)
    BY <1>2, <1>3
  <2> HIDE DEF D, c
  <2>3. \A n \in 1 .. c : SubSeq(D, 1, c)[n] = D[n]
    BY <2>1
  <2> QED  BY <2>2, <2>3 DEF D, c
<1>10. PICK s : s = Append(Delivered(a), b[z].rec)
  OBVIOUS
<1>11. /\ s \in Seq(Nat) /\ Len(s) = Cardinality(F)
       /\ \A n \in 1 .. Cardinality(E) : s[n] = Delivered(a)[n]
       /\ s[Cardinality(F)] = b[z].rec
  BY <1>1, <1>2, <1>5, <1>8, <1>10, AppendProperties
<1>12. ASSUME NEW n \in 1 .. Cardinality(F) PROVE s[n] = Delivered(b)[n]
  <2>1. n \in 1 .. Cardinality(E) \/ n = Cardinality(F)
    BY <1>1, <1>5
  <2> QED  BY <1>7, <1>9, <1>11, <2>1
<1>13. s = Delivered(b)
  BY <1>2, <1>11, <1>12, SeqEqual
<1> QED  BY <1>0, <1>10, <1>13
-----------------------------------------------------------------------------
(* Cutting and tearing.                                                    *)

LEMMA Joined ==
  ASSUME NEW a \in Seq(Frag), NEW c \in Seq(Frag)
  PROVE  /\ a \o c \in Seq(Frag) /\ Len(a \o c) = Len(a) + Len(c)
         /\ \A i \in 1 .. Len(a) : (a \o c)[i] = a[i]
         /\ \A i \in 1 .. Len(c) : (a \o c)[Len(a) + i] = c[i]
<1>1. PICK k, l : k = Len(a) /\ l = Len(c)
  OBVIOUS
<1>2. k \in Nat /\ l \in Nat
  BY <1>1
<1>3. /\ a \o c \in Seq(Frag) /\ Len(a \o c) = k + l
      /\ \A i \in 1 .. k + l : (a \o c)[i] = IF i <= k THEN a[i] ELSE c[i - k]
  BY <1>1, ConcatProperties
<1>4. \A i \in 1 .. k : i \in 1 .. k + l /\ i <= k
  BY <1>2
<1>5. \A i \in 1 .. l : /\ k + i \in 1 .. k + l /\ ~(k + i <= k)
                        /\ (k + i) - k = i
  BY <1>2
<1> QED  BY <1>1, <1>3, <1>4, <1>5

LEMMA CutParts ==
  ASSUME NEW r \in Nat, NEW n \in Nat \ {0}
  PROVE  /\ Cut(r, n) \in Seq(Frag) /\ Len(Cut(r, n)) = n
         /\ \A i \in 1 .. n :
              /\ Cut(r, n)[i].rec = r /\ Cut(r, n)[i].part = i
              /\ Cut(r, n)[i].type \in FragmentTypes
              /\ Cut(r, n)[i].type \in {"full", "first"} <=> i = 1
              /\ Cut(r, n)[i].type \in {"middle", "last"} <=> i # 1
              /\ Cut(r, n)[i].type \in {"full", "last"} <=> i = n
              /\ Cut(r, n)[i].type \in {"first", "middle"} <=> i # n
<1>1. ASSUME NEW i \in 1 .. n, NEW f, f = Fragment(r, i, n)
      PROVE  /\ f \in Frag /\ f.rec = r /\ f.part = i
             /\ f.type \in FragmentTypes
             /\ f.type \in {"full", "first"} <=> i = 1
             /\ f.type \in {"middle", "last"} <=> i # 1
             /\ f.type \in {"full", "last"} <=> i = n
             /\ f.type \in {"first", "middle"} <=> i # n
  <2>1. PICK t : t = IF n = 1 THEN "full" ELSE IF i = 1 THEN "first"
                     ELSE IF i = n THEN "last" ELSE "middle"
    OBVIOUS
  <2>2. f = [type |-> t, rec |-> r, part |-> i]
    BY <1>1, <2>1 DEF Fragment
  <2>3. t \in FragmentTypes /\ f.type = t /\ f.rec = r /\ f.part = i
    BY <2>1, <2>2 DEF FragmentTypes
  <2> QED  BY <2>1, <2>2, <2>3 DEF Frag
<1>2. \A i \in 1 .. n : Cut(r, n)[i] = Fragment(r, i, n)
  BY DEF Cut
<1>3. Cut(r, n) \in [1 .. n -> Frag]
  BY <1>1 DEF Cut
<1>4. Cut(r, n) \in Seq(Frag) /\ Len(Cut(r, n)) = n
  BY <1>3
<1> QED  BY <1>1, <1>2, <1>4

LEMMA CutIs ==
  ASSUME NEW a \in Seq(Frag), NEW r \in Nat, NEW n \in Nat \ {0}
  PROVE  /\ a \o Cut(r, n) \in Seq(Frag)
         /\ Len(a \o Cut(r, n)) = Len(a) + n
         /\ \A i \in 1 .. Len(a) : (a \o Cut(r, n))[i] = a[i]
         /\ (a \o Cut(r, n))[Len(a) + n].rec = r
<1>1. PICK c : c = Cut(r, n)
  OBVIOUS
<1>2. c \in Seq(Frag) /\ Len(c) = n
  BY <1>1, CutParts
<1>3. c[n].rec = r
  <2>1. n \in 1 .. n
    OBVIOUS
  <2> QED  BY <1>1, <2>1, CutParts
<1>4. /\ a \o c \in Seq(Frag) /\ Len(a \o c) = Len(a) + Len(c)
      /\ \A i \in 1 .. Len(a) : (a \o c)[i] = a[i]
      /\ \A i \in 1 .. Len(c) : (a \o c)[Len(a) + i] = c[i]
  BY <1>2, Joined
<1>5. (a \o c)[Len(a) + n] = c[n]
  <2>1. n \in 1 .. Len(c)
    BY <1>2
  <2> QED  BY <1>4, <2>1
<1> QED  BY <1>1, <1>2, <1>3, <1>4, <1>5

\* b holds the first m fragments of a and perhaps a torn one.
TornAt(a, b, m) ==
  /\ m \in 0 .. Len(a) /\ Len(b) \in {m, m + 1}
  /\ \A i \in 1 .. m : b[i] = a[i]
  /\ Len(b) = m + 1 => \E t \in Tears : b[m + 1] = Junk(t)

LEMMA JunkIsFrag ==
  \A t \in Tears : /\ Junk(t) \in Frag /\ Junk(t).type = t
                   /\ Junk(t).rec = 0 /\ t \notin FragmentTypes
BY DEF Junk, Frag, FragmentTypes

\* What the write of t leaves, behind what was there before.
LEMMA UnfinishedIsTorn ==
  ASSUME NEW a \in Seq(Frag), NEW t \in Seq(Frag), NEW s \in Unfinished(t)
  PROVE  /\ s \in Seq(Frag) /\ a \o s \in Seq(Frag)
         /\ \E m \in 0 .. Len(t) : /\ TornAt(a \o t, a \o s, Len(a) + m)
                                   /\ s # t => m < Len(t)
<1>0. Len(a) \in Nat /\ Len(t) \in Nat
  OBVIOUS
<1>1. PICK m \in 0 .. Len(t) :
        \/ s = SubSeq(t, 1, m)
        \/ m < Len(t) /\ \E j \in Tears : s = Append(SubSeq(t, 1, m), Junk(j))
  <2>1. CASE s \in {SubSeq(t, 1, m) : m \in 0 .. Len(t)}
    BY <2>1
  <2>2. CASE s \in {Append(SubSeq(t, 1, m), Junk(j)) :
                      m \in {i \in 0 .. Len(t) - 1 :
                              t[i + 1].type \in FragmentTypes},
                      j \in Tears}
    <3>1. PICK m \in 0 .. Len(t) - 1, j \in Tears :
                 s = Append(SubSeq(t, 1, m), Junk(j))
      BY <2>2
    <3>2. m \in 0 .. Len(t) /\ m < Len(t)
      BY <1>0
    <3> QED  BY <3>1, <3>2
  <2> QED  BY <2>1, <2>2 DEF Unfinished
<1>2. PICK p : p = SubSeq(t, 1, m)
  OBVIOUS
<1>3. p \in Seq(Frag) /\ Len(p) = m /\ \A i \in 1 .. m : p[i] = t[i]
  BY <1>0, <1>2
<1>4. /\ s \in Seq(Frag) /\ Len(s) \in {m, m + 1}
      /\ \A i \in 1 .. m : s[i] = t[i]
      /\ Len(s) = m + 1 => m < Len(t) /\ \E j \in Tears : s[m + 1] = Junk(j)
  <2>1. CASE s = p
    BY <1>3, <2>1
  <2>2. ASSUME NEW j \in Tears, s = Append(p, Junk(j)), m < Len(t)
        PROVE  /\ s \in Seq(Frag) /\ Len(s) = m + 1
               /\ \A i \in 1 .. m : s[i] = t[i]
               /\ s[m + 1] = Junk(j)
    BY <1>3, <2>2, JunkIsFrag
  <2> QED  BY <1>1, <1>2, <2>1, <2>2
<1>5. s # t => m < Len(t)
  BY <1>0, <1>4, SeqEqual
<1>6. /\ a \o s \in Seq(Frag) /\ Len(a \o s) = Len(a) + Len(s)
      /\ Len(a \o t) = Len(a) + Len(t)
      /\ \A i \in 1 .. Len(a) : (a \o s)[i] = (a \o t)[i]
      /\ \A i \in 1 .. m : (a \o s)[Len(a) + i] = (a \o t)[Len(a) + i]
      /\ Len(s) = m + 1 => (a \o s)[Len(a) + m + 1] = s[m + 1]
  BY <1>0, <1>4, ConcatProperties
<1>7. \A i \in 1 .. Len(a) + m : (a \o s)[i] = (a \o t)[i]
  <2> SUFFICES ASSUME NEW i \in 1 .. Len(a) + m
               PROVE  (a \o s)[i] = (a \o t)[i]
    OBVIOUS
  <2>1. CASE i <= Len(a)
    BY <1>0, <1>6, <2>1
  <2>2. CASE i > Len(a)
    <3>1. PICK k : k = Len(a)
      OBVIOUS
    <3>2. k \in Nat /\ m \in Nat /\ i \in 1 .. k + m /\ i > k
      BY <1>0, <2>2, <3>1
    <3>3. PICK d : d = i - k
      OBVIOUS
    <3>4. d \in 1 .. m /\ i = k + d
      BY <3>2, <3>3
    <3> QED  BY <1>6, <3>1, <3>4
  <2>3. i \in Int /\ Len(a) \in Int
    BY <1>0
  <2>4. i <= Len(a) \/ i > Len(a)
    BY <2>3
  <2> QED  BY <2>1, <2>2, <2>4
<1>8. TornAt(a \o t, a \o s, Len(a) + m)
  <2>1. Len(a) + m \in 0 .. Len(a \o t)
    <3>1. PICK k, l : k = Len(a) /\ l = Len(t)
      OBVIOUS
    <3>2. k \in Nat /\ l \in Nat /\ m \in 0 .. l
      BY <1>0, <3>1
    <3>3. k + m \in 0 .. k + l
      BY <3>2
    <3> QED  BY <1>6, <3>1, <3>3
  <2>2. Len(a \o s) \in {Len(a) + m, Len(a) + m + 1}
    <3>1. Len(s) = m \/ Len(s) = m + 1
      BY <1>4
    <3>2. Len(a) \in Int /\ m \in Int /\ Len(a \o s) = Len(a) + Len(s)
      BY <1>0, <1>6
    <3>3. Len(a) + (m + 1) = Len(a) + m + 1
      BY <3>2
    <3> QED  BY <3>1, <3>2, <3>3
  <2>3. Len(a \o s) = Len(a) + m + 1 => Len(s) = m + 1
    BY <1>0, <1>4, <1>6
  <2> QED  BY <1>4, <1>6, <1>7, <2>1, <2>2, <2>3 DEF TornAt
<1> QED  BY <1>4, <1>5, <1>6, <1>8

\* A torn fragment ends no record, so a torn log delivers a prefix.
LEMMA TornEnds ==
  ASSUME NEW a \in Seq(Frag), NEW b \in Seq(Frag), NEW m, TornAt(a, b, m)
  PROVE  Ends(b) = Ends(a) \cap 1 .. m
<1>1. /\ Len(a) \in Nat /\ Len(b) \in Nat /\ m \in Nat
      /\ m <= Len(a) /\ m <= Len(b) /\ Len(b) <= m + 1
  BY DEF TornAt
<1>2. \A e \in 1 .. m : e \in Ends(b) <=> e \in Ends(a)
  BY <1>1, EndsPrefix DEF TornAt
<1>3. Ends(b) \subseteq 1 .. m
  <2>1. SUFFICES ASSUME m + 1 \in Ends(b) PROVE FALSE
    BY <1>1, EndsType
  <2>2. Len(b) = m + 1 /\ b[m + 1].type \in FragmentTypes
    BY <1>1, <2>1, EndsAre DEF FragmentTypes
  <2> QED  BY <2>2, JunkIsFrag DEF TornAt
<1> QED  BY <1>2, <1>3

\* A record more at the end of a whole log is read; at the end of another
\* log it is not.
LEMMA CutEnds ==
  ASSUME NEW a \in Seq(Frag), NEW r \in Nat, NEW n \in Nat \ {0}
  PROVE  Ends(a \o Cut(r, n))
           = Ends(a) \cup (IF Whole(a) THEN {Len(a) + n} ELSE {})
<1>1. PICK k : k = Len(a)
  OBVIOUS
<1>2. PICK b, c : b = a \o c /\ c = Cut(r, n)
  OBVIOUS
<1>3. /\ c \in Seq(Frag) /\ Len(c) = n /\ k \in Nat
      /\ \A i \in 1 .. n :
           /\ c[i].type \in {"full", "first"} <=> i = 1
           /\ c[i].type \in {"middle", "last"} <=> i # 1
           /\ c[i].type \in {"full", "last"} <=> i = n
           /\ c[i].type \in {"first", "middle"} <=> i # n
  <2>1. /\ Cut(r, n) \in Seq(Frag) /\ Len(Cut(r, n)) = n
        /\ \A i \in 1 .. n :
             /\ Cut(r, n)[i].type \in {"full", "first"} <=> i = 1
             /\ Cut(r, n)[i].type \in {"middle", "last"} <=> i # 1
             /\ Cut(r, n)[i].type \in {"full", "last"} <=> i = n
             /\ Cut(r, n)[i].type \in {"first", "middle"} <=> i # n
    BY CutParts
  <2>2. k \in Nat
    BY <1>1
  <2> QED  BY <1>2, <2>1, <2>2
<1>4. /\ b \in Seq(Frag) /\ Len(b) = k + n
      /\ \A i \in 1 .. k : b[i] = a[i]
      /\ \A i \in 1 .. n : b[k + i] = c[i]
  <2>1. b = a \o c /\ c \in Seq(Frag) /\ Len(c) = n /\ Len(a) = k
    BY <1>1, <1>2, <1>3
  <2>2. /\ a \o c \in Seq(Frag) /\ Len(a \o c) = Len(a) + Len(c)
        /\ \A i \in 1 .. Len(a) : (a \o c)[i] = a[i]
        /\ \A i \in 1 .. Len(c) : (a \o c)[Len(a) + i] = c[i]
    <3>1. a \in Seq(Frag) /\ c \in Seq(Frag)
      BY <2>1
    <3> QED  BY ONLY <3>1, Joined
  <2> QED  BY ONLY <2>1, <2>2
<1>5. ASSUME NEW e \in 1 .. k PROVE e \in Ends(b) <=> e \in Ends(a)
  <2>1. k \in Nat /\ Len(a) \in Nat /\ Len(b) \in Nat /\ k <= Len(b)
    BY <1>1, <1>3, <1>4
  <2>2. k <= Len(a) /\ \A i \in 1 .. k : b[i] = a[i]
    BY <1>1, <1>4, <2>1
  <2>3. \A d \in 1 .. k : d \in Ends(b) <=> d \in Ends(a)
    BY <2>1, <2>2, EndsPrefix
  <2> QED  BY <2>3
<1>6. \A i \in 1 .. k : Fits(b, i) <=> Fits(a, i)
  <2>1. \A i \in 1 .. k : i - 1 > 0 => i - 1 \in 1 .. k
    BY <1>3
  <2> QED  BY <1>4, <2>1 DEF Fits, Assembling
<1>7. Assembling(b, k) <=> Assembling(a, k)
  <2>1. k > 0 => k \in 1 .. k
    BY <1>3
  <2> QED  BY <1>4, <2>1 DEF Assembling
<1>8. Fits(b, k + 1) <=> ~Assembling(a, k)
  <2>1. 1 \in 1 .. n /\ (k + 1) - 1 = k
    BY <1>3
  <2>2. b[k + 1] = c[1] /\ c[1].type \in {"full", "first"}
        /\ c[1].type \notin {"middle", "last"}
    BY <1>3, <1>4, <2>1
  <2> QED  BY <1>7, <2>1, <2>2 DEF Fits
<1>9. ASSUME NEW j \in 2 .. n PROVE Fits(b, k + j)
  <2>1. j \in 1 .. n /\ j - 1 \in 1 .. n /\ (k + j) - 1 = k + (j - 1)
        /\ k + (j - 1) > 0 /\ j # 1 /\ j - 1 # n
    BY <1>3
  <2>2. b[k + j] = c[j] /\ b[k + (j - 1)] = c[j - 1]
    BY <1>4, <2>1
  <2>3. c[j].type \in {"middle", "last"}
        /\ c[j - 1].type \in {"first", "middle"}
    BY <1>3, <2>1
  <2> QED  BY <2>1, <2>2, <2>3 DEF Fits, Assembling
<1>10. Whole(a) <=> /\ \A i \in 1 .. k : Fits(a, i)
                    /\ ~Assembling(a, k)
  <2>1. /\ ReadLength(a) \in 0 .. k
        /\ \A i \in 1 .. ReadLength(a) : Fits(a, i)
        /\ (ReadLength(a) < k => ~Fits(a, ReadLength(a) + 1))
    BY <1>1, <1>3, ReadLengthExists
  <2>2. (\A i \in 1 .. k : Fits(a, i)) => ReadLength(a) = k
    BY <1>3, <2>1
  <2> QED  BY <1>1, <2>1, <2>2 DEF Whole
<1>11. ASSUME NEW j \in 1 .. n
       PROVE  k + j \in Ends(b) <=> Whole(a) /\ j = n
  <2>1. k + j \in 1 .. Len(b) /\ b[k + j] = c[j]
    BY <1>3, <1>4
  <2>2. k + j \in Ends(b) <=> /\ b[k + j].type \in {"full", "last"}
                              /\ \A i \in 1 .. k + j : Fits(b, i)
    <3>1. Len(b) \in Nat
      BY <1>3, <1>4
    <3>2. Ends(b) = {e \in 1 .. Len(b) : /\ b[e].type \in {"full", "last"}
                                         /\ \A i \in 1 .. e : Fits(b, i)}
      BY <3>1, EndsAre
    <3> QED  BY <2>1, <3>2
  <2>3. (\A i \in 1 .. k + j : Fits(b, i)) <=> Whole(a)
    <3>1. ASSUME \A i \in 1 .. k + j : Fits(b, i) PROVE Whole(a)
      <4>1. k + 1 \in 1 .. k + j /\ \A i \in 1 .. k : i \in 1 .. k + j
        BY <1>3
      <4> QED  BY <1>6, <1>8, <1>10, <3>1, <4>1
    <3>2. ASSUME Whole(a), NEW i \in 1 .. k + j PROVE Fits(b, i)
      <4>1. i \in 1 .. k \/ i = k + 1 \/ (i - k \in 2 .. n /\ i = k + (i - k))
        BY <1>3
      <4> QED  BY <1>6, <1>8, <1>9, <1>10, <3>2, <4>1
    <3> QED  BY <3>1, <3>2
  <2> QED  BY <1>3, <2>1, <2>2, <2>3
<1>12. /\ \A e \in Ends(b) : e \in 1 .. k \/ (e - k \in 1 .. n /\ e = k + (e - k))
       /\ Ends(a) \subseteq 1 .. k
  <2>1. Len(b) \in Nat /\ Len(a) \in Nat
    BY <1>1, <1>3, <1>4
  <2>2. Ends(b) \subseteq 1 .. k + n /\ Ends(a) \subseteq 1 .. k
    BY <1>1, <1>4, <2>1, EndsType
  <2> QED  BY <1>3, <2>2
<1>13. Ends(b) = Ends(a) \cup (IF Whole(a) THEN {k + n} ELSE {})
  <2>1. \A e \in Ends(b) : e \in Ends(a) \/ (Whole(a) /\ e = k + n)
    BY <1>5, <1>11, <1>12
  <2>2. Ends(a) \subseteq Ends(b)
    BY <1>5, <1>12
  <2>3. Whole(a) => k + n \in Ends(b)
    BY <1>3, <1>11
  <2> QED  BY <2>1, <2>2, <2>3
<1> QED  BY <1>1, <1>2, <1>13
-----------------------------------------------------------------------------
(* What a log looks like.                                                  *)

\* frs[r] holds the fragments of record r.
Cuts(frs) ==
  /\ frs \in Seq(Seq(Frag))
  /\ \A r \in 1 .. Len(frs) : \E n \in Nat \ {0} : frs[r] = Cut(r, n)

\* The p fragments of log up to the i-th are the first p of F.
Run(log, i, F, p) == p <= i /\ \A q \in 1 .. p : log[(i - p) + q] = F[q]

\* Each fragment of a log is junk, or the last of a run of fragments of one
\* record; those of different records, and of one, follow each other in order.
Pieces(log, frs) ==
  \A i \in 1 .. Len(log) :
    \/ \E t \in Tears : log[i] = Junk(t)
    \/ \E r \in 1 .. Len(frs) : \E p \in 1 .. Len(frs[r]) :
         Run(log, i, frs[r], p)
InOrder(log) ==
  \A i, j \in 1 .. Len(log) :
    i < j /\ log[i].rec # 0 /\ log[j].rec # 0 =>
      \/ log[i].rec < log[j].rec
      \/ log[i].rec = log[j].rec /\ log[i].part < log[j].part

Shape(log, frs) == Pieces(log, frs) /\ InOrder(log)

LEMMA PieceIs ==
  ASSUME NEW log, NEW frs, Cuts(frs), NEW i \in Nat,
         NEW r \in 1 .. Len(frs), NEW p \in 1 .. Len(frs[r]),
         Run(log, i, frs[r], p)
  PROVE  /\ log[i].rec = r /\ log[i].part = p
         /\ p \in Nat /\ p # 0 /\ p <= i /\ r \in Nat /\ r # 0
         /\ Len(frs) \in Nat /\ Len(frs[r]) \in Nat
         /\ frs[r] \in Seq(Frag)
         /\ log[i].type \in {"full", "last"} => p = Len(frs[r])
<1>1. PICK n \in Nat \ {0} : frs[r] = Cut(r, n)
  BY DEF Cuts
<1>2. r \in Nat /\ r # 0 /\ Len(frs) \in Nat
  BY DEF Cuts
<1>3. Cut(r, n) \in Seq(Frag) /\ Len(Cut(r, n)) = n
  BY <1>2, CutParts
<1>4. p \in 1 .. n
  BY <1>1, <1>3
<1>5. /\ Cut(r, n)[p].rec = r /\ Cut(r, n)[p].part = p
      /\ Cut(r, n)[p].type \in {"full", "last"} <=> p = n
  BY <1>2, <1>4, CutParts
<1>6. log[i] = frs[r][p]
  <2>1. p \in 1 .. p /\ (i - p) + p = i
    BY <1>4
  <2>2. log[(i - p) + p] = frs[r][p]
    BY <2>1 DEF Run
  <2> QED  BY <2>1, <2>2
<1>7. p <= i
  BY DEF Run
<1> QED  BY <1>1, <1>2, <1>3, <1>4, <1>5, <1>6, <1>7

LEMMA ShapeTorn ==
  ASSUME NEW a \in Seq(Frag), NEW b \in Seq(Frag), NEW m, TornAt(a, b, m),
         NEW frs, Cuts(frs), Shape(a, frs)
  PROVE  Shape(b, frs)
<1>1. /\ Len(a) \in Nat /\ Len(b) \in Nat /\ m \in Nat /\ m <= Len(a)
      /\ \A i \in 1 .. Len(b) : i \in 1 .. m \/ (i = m + 1 /\ Len(b) = m + 1)
      /\ \A i \in 1 .. m : b[i] = a[i] /\ i \in 1 .. Len(a)
  BY DEF TornAt
<1>2. ASSUME NEW i \in 1 .. Len(b), i = m + 1 /\ Len(b) = m + 1
      PROVE  /\ \E t \in Tears : b[i] = Junk(t)
             /\ b[i].rec = 0
  BY <1>2, JunkIsFrag DEF TornAt
<1>3. ASSUME NEW i \in 1 .. m, NEW r \in 1 .. Len(frs),
             NEW p \in 1 .. Len(frs[r]), Run(a, i, frs[r], p)
      PROVE  Run(b, i, frs[r], p)
  <2>1. i \in Nat /\ p \in Nat /\ p <= i
    <3>1. i \in Nat
      OBVIOUS
    <3> QED  BY <1>3, <3>1, PieceIs
  <2>2. \A q \in 1 .. p : (i - p) + q \in 1 .. m
    BY <1>1, <2>1
  <2> QED  BY <1>1, <1>3, <2>1, <2>2 DEF Run
<1>4. ASSUME NEW i \in 1 .. Len(b)
      PROVE  \/ \E t \in Tears : b[i] = Junk(t)
             \/ \E r \in 1 .. Len(frs) : \E p \in 1 .. Len(frs[r]) :
                  Run(b, i, frs[r], p)
  <2>1. CASE i \in 1 .. m
    <3>1. \/ \E t \in Tears : a[i] = Junk(t)
          \/ \E r \in 1 .. Len(frs) : \E p \in 1 .. Len(frs[r]) :
               Run(a, i, frs[r], p)
      BY <1>1, <2>1 DEF Shape, Pieces, InOrder
    <3> QED  BY <1>1, <1>3, <2>1, <3>1
  <2> QED  BY <1>1, <1>2, <2>1
<1>5. ASSUME NEW i \in 1 .. Len(b), NEW j \in 1 .. Len(b),
             i < j, b[i].rec # 0, b[j].rec # 0
      PROVE  \/ b[i].rec < b[j].rec
             \/ b[i].rec = b[j].rec /\ b[i].part < b[j].part
  <2>1. i \in 1 .. m /\ j \in 1 .. m
    BY <1>1, <1>2, <1>5
  <2> QED  BY <1>1, <1>5, <2>1 DEF Shape, Pieces, InOrder
<1> QED  BY <1>4, <1>5 DEF Shape, Pieces, InOrder

LEMMA ShapeMore ==
  ASSUME NEW a \in Seq(Frag), NEW frs, Cuts(frs), Shape(a, frs),
         NEW r, r = Len(frs) + 1, NEW n \in Nat \ {0}
  PROVE  /\ Cuts(Append(frs, Cut(r, n)))
         /\ Shape(a \o Cut(r, n), Append(frs, Cut(r, n)))
<1>0. PICK b, gs : b = a \o Cut(r, n) /\ gs = Append(frs, Cut(r, n))
  OBVIOUS
<1>1. Len(frs) \in Nat /\ r \in Nat /\ frs \in Seq(Seq(Frag))
  BY DEF Cuts
<1>2. /\ Cut(r, n) \in Seq(Frag) /\ Len(Cut(r, n)) = n
      /\ \A i \in 1 .. n : Cut(r, n)[i].rec = r /\ Cut(r, n)[i].part = i
  <2>1. r \in Nat /\ n \in Nat \ {0}
    BY <1>1
  <2> QED  BY ONLY <2>1, CutParts
<1>3. PICK k, c : k = Len(a) /\ c = Cut(r, n)
  OBVIOUS
<1>4. /\ k \in Nat /\ b \in Seq(Frag) /\ Len(b) = k + n
      /\ \A i \in 1 .. k : b[i] = a[i]
      /\ \A i \in 1 .. n : b[k + i] = c[i]
  <2>1. /\ b \in Seq(Frag) /\ Len(b) = Len(a) + Len(c)
        /\ \A i \in 1 .. Len(a) : b[i] = a[i]
        /\ \A i \in 1 .. Len(c) : b[Len(a) + i] = c[i]
    <3>1. a \in Seq(Frag) /\ c \in Seq(Frag) /\ b = a \o c
      BY <1>0, <1>2, <1>3
    <3> QED  BY ONLY <3>1, Joined
  <2>2. Len(c) = n
    BY <1>2, <1>3
  <2>3. Len(a) \in Nat
    OBVIOUS
  <2> QED  BY <1>3, <2>1, <2>2, <2>3
<1>5. /\ gs \in Seq(Seq(Frag)) /\ Len(gs) = r /\ gs[r] = c
      /\ \A x \in 1 .. Len(frs) : gs[x] = frs[x] /\ x \in 1 .. Len(gs)
      /\ \A x \in 1 .. Len(gs) : x \in 1 .. Len(frs) \/ x = r
      /\ r \in 1 .. Len(gs)
  BY <1>0, <1>1, <1>2, <1>3
<1>6. Cuts(gs)
  BY <1>3, <1>5 DEF Cuts
<1>7. \A i \in 1 .. Len(b) : i \in 1 .. k \/ (i - k \in 1 .. n /\ i = k + (i - k))
  BY <1>4
<1>8. ASSUME NEW i \in 1 .. k
      PROVE  /\ \/ \E t \in Tears : b[i] = Junk(t)
                \/ \E x \in 1 .. Len(gs) : \E p \in 1 .. Len(gs[x]) :
                     Run(b, i, gs[x], p)
             /\ b[i].rec # 0 => b[i].rec < r
  <2>1. CASE \E t \in Tears : a[i] = Junk(t)
    BY <1>4, <2>1, JunkIsFrag
  <2>2. ASSUME NEW x \in 1 .. Len(frs), NEW p \in 1 .. Len(frs[x]),
               Run(a, i, frs[x], p)
        PROVE  Run(b, i, gs[x], p) /\ b[i].rec = x /\ x < r /\ x \in 1 .. Len(gs)
    <3>1. i \in Nat /\ p \in Nat /\ p # 0 /\ p <= i /\ a[i].rec = x
      <4>1. i \in Nat
        OBVIOUS
      <4> QED  BY <2>2, <4>1, PieceIs
    <3>2. \A q \in 1 .. p : (i - p) + q \in 1 .. k
      <4>1. k \in Nat /\ i \in 1 .. k
        BY <1>4
      <4> QED  BY ONLY <3>1, <4>1
    <3>3. Run(b, i, frs[x], p)
      BY <1>4, <2>2, <3>2 DEF Run
    <3>4. gs[x] = frs[x] /\ x < r /\ x \in 1 .. Len(gs)
      BY <1>1, <1>5
    <3>5. b[i] = a[i]
      BY <1>4
    <3> QED  BY <3>1, <3>3, <3>4, <3>5
  <2>3. \/ \E t \in Tears : a[i] = Junk(t)
        \/ \E x \in 1 .. Len(frs) : \E p \in 1 .. Len(frs[x]) :
             Run(a, i, frs[x], p)
    BY <1>3 DEF Shape, Pieces, InOrder
  <2>4. \A x \in 1 .. Len(frs) : gs[x] = frs[x]
    BY <1>5
  <2> QED  BY <2>1, <2>2, <2>3, <2>4
<1>9. ASSUME NEW j \in 1 .. n
      PROVE  Run(b, k + j, gs[r], j) /\ j \in 1 .. Len(gs[r])
  <2>1. \A q \in 1 .. j : ((k + j) - j) + q = k + q /\ q \in 1 .. n
    BY <1>4
  <2>2. j <= k + j
    BY <1>4
  <2> QED  BY <1>2, <1>3, <1>4, <1>5, <2>1, <2>2 DEF Run
<1>10. ASSUME NEW i \in 1 .. Len(b)
       PROVE  \/ \E t \in Tears : b[i] = Junk(t)
              \/ \E x \in 1 .. Len(gs) : \E p \in 1 .. Len(gs[x]) :
                   Run(b, i, gs[x], p)
  <2>1. CASE i \in 1 .. k
    BY <1>8, <2>1
  <2>2. CASE i - k \in 1 .. n /\ i = k + (i - k)
    <3>1. PICK j : j = i - k
      OBVIOUS
    <3>2. Run(b, i, gs[r], j) /\ j \in 1 .. Len(gs[r])
      BY <1>9, <2>2, <3>1
    <3> QED  BY <1>5, <3>2
  <2> QED  BY <1>7, <2>1, <2>2
<1>11. ASSUME NEW i \in 1 .. Len(b), NEW j \in 1 .. Len(b),
              i < j, b[i].rec # 0, b[j].rec # 0
       PROVE  \/ b[i].rec < b[j].rec
              \/ b[i].rec = b[j].rec /\ b[i].part < b[j].part
  <2>1. CASE j \in 1 .. k
    <3>1. i \in 1 .. k
      BY <1>4, <1>11, <2>1
    <3> QED  BY <1>3, <1>4, <1>11, <2>1, <3>1 DEF Shape, Pieces, InOrder
  <2>2. CASE i \in 1 .. k /\ j \notin 1 .. k
    <3>1. b[j].rec = r
      <4>1. PICK d \in 1 .. n : j = k + d
        BY <1>7, <2>2
      <4>2. b[j] = c[d] /\ c[d].rec = r
        BY <1>2, <1>3, <1>4, <4>1
      <4> QED  BY <4>2
    <3> QED  BY <1>8, <1>11, <2>2, <3>1
  <2>3. CASE i \notin 1 .. k /\ j \notin 1 .. k
    <3>1. PICK d \in 1 .. n, e \in 1 .. n : i = k + d /\ j = k + e
      BY <1>7, <2>3
    <3>2. d < e
      BY <1>4, <1>11, <3>1
    <3>3. /\ b[i] = c[d] /\ c[d].rec = r /\ c[d].part = d
          /\ b[j] = c[e] /\ c[e].rec = r /\ c[e].part = e
      BY <1>2, <1>3, <1>4, <3>1
    <3> QED  BY <3>2, <3>3
  <2>4. j \notin 1 .. k \/ i \in 1 .. k
    BY <1>4, <1>11
  <2> QED  BY <2>1, <2>2, <2>3, <2>4
<1>12. Pieces(b, gs)
  BY <1>10 DEF Pieces
<1>13. InOrder(b)
  BY ONLY <1>11, Zenon DEF InOrder
<1> QED  BY <1>0, <1>6, <1>12, <1>13 DEF Shape

\* The last fragment of a record ends a run of all its fragments.
LEMMA WholeRecords ==
  ASSUME NEW log \in Seq(Frag), NEW frs, Cuts(frs), Shape(log, frs)
  PROVE  /\ \A e \in Ends(log) :
              /\ Len(frs[log[e].rec]) <= e
              /\ SubSeq(log, e - Len(frs[log[e].rec]) + 1, e)
                   = frs[log[e].rec]
         /\ \A d, e \in Ends(log) : d < e => log[d].rec < log[e].rec
<1>1. Len(log) \in Nat /\ Ends(log) \subseteq 1 .. Len(log)
  BY EndsType
<1>2. ASSUME NEW e \in Ends(log)
      PROVE  \E r \in 1 .. Len(frs) :
               /\ r # 0 /\ log[e].rec = r /\ log[e].part = Len(frs[r])
               /\ Run(log, e, frs[r], Len(frs[r]))
               /\ Len(frs[r]) \in Nat /\ Len(frs[r]) <= e
               /\ frs[r] \in Seq(Frag)
  <2>1. e \in 1 .. Len(log) /\ e \in Nat /\ log[e].type \in {"full", "last"}
    BY <1>1, EndsAre
  <2>2. ~ \E t \in Tears : log[e] = Junk(t)
    BY <2>1, JunkIsFrag DEF FragmentTypes
  <2>3. PICK r \in 1 .. Len(frs) : \E p \in 1 .. Len(frs[r]) :
          Run(log, e, frs[r], p)
    BY <2>1, <2>2 DEF Shape, Pieces, InOrder
  <2>4. PICK p \in 1 .. Len(frs[r]) : Run(log, e, frs[r], p)
    BY <2>3
  <2> QED  BY <2>1, <2>4, PieceIs
<1>3. ASSUME NEW e \in Ends(log)
      PROVE  /\ Len(frs[log[e].rec]) <= e
             /\ SubSeq(log, e - Len(frs[log[e].rec]) + 1, e)
                  = frs[log[e].rec]
  <2>1. PICK r \in 1 .. Len(frs) :
          /\ log[e].rec = r /\ Run(log, e, frs[r], Len(frs[r]))
          /\ Len(frs[r]) \in Nat /\ Len(frs[r]) <= e
          /\ frs[r] \in Seq(Frag)
    BY <1>2
  <2>2. PICK F, n : F = frs[r] /\ n = Len(F)
    OBVIOUS
  <2>3. PICK s : s = SubSeq(log, e - n + 1, e)
    OBVIOUS
  <2>4. n \in Nat /\ n <= e /\ e \in 1 .. Len(log) /\ Len(log) \in Nat
    BY <1>1, <2>1, <2>2
  <2>5. e - n + 1 \in 1 .. Len(log) + 1 /\ e - n + 1 <= e + 1
        /\ e - (e - n + 1) + 1 = n
        /\ \A q \in 1 .. n : (e - n + 1) + q - 1 = (e - n) + q
    BY <2>4
  <2>6. s \in Seq(Frag) /\ Len(s) = n /\ \A q \in 1 .. n : s[q] = log[(e - n) + q]
    BY <2>3, <2>4, <2>5, SubSeqProperties
  <2>7. \A q \in 1 .. n : s[q] = F[q]
    BY <2>1, <2>2, <2>6 DEF Run
  <2>8. s = F
    <3>1. F \in Seq(Frag) /\ Len(F) = n
      BY <2>1, <2>2
    <3> QED  BY <2>4, <2>6, <2>7, <3>1, SeqEqual
  <2> QED  BY <2>1, <2>2, <2>3, <2>8
<1>4. ASSUME NEW d \in Ends(log), NEW e \in Ends(log), d < e
      PROVE  log[d].rec < log[e].rec
  <2>1. /\ log[d].rec # 0 /\ log[d].part = Len(frs[log[d].rec])
        /\ log[e].rec # 0 /\ log[e].part = Len(frs[log[e].rec])
        /\ Len(frs[log[e].rec]) \in Nat
    BY <1>2
  <2>2. d \in 1 .. Len(log) /\ e \in 1 .. Len(log)
    BY <1>1
  <2>3. \/ log[d].rec < log[e].rec
        \/ log[d].rec = log[e].rec /\ log[d].part < log[e].part
    BY <1>4, <2>1, <2>2 DEF Shape, Pieces, InOrder
  <2> QED  BY <2>1, <2>3
<1> QED  BY <1>3, <1>4
-----------------------------------------------------------------------------
(* What is on disk.                                                        *)

\* The records a replay finds among the first k fragments of f.
Safe(f, k) == {f[e].rec : e \in Ends(f) \cap 1 .. k}

LEMMA SubSeqIsTorn ==
  ASSUME NEW f \in Seq(Frag), NEW k \in 0 .. Len(f)
  PROVE  SubSeq(f, 1, k) \in Seq(Frag) /\ TornAt(f, SubSeq(f, 1, k), k)
<1>1. PICK s : s = SubSeq(f, 1, k)
  OBVIOUS
<1>2. Len(f) \in Nat /\ k \in Nat
  OBVIOUS
<1>3. s \in Seq(Frag) /\ Len(s) = k /\ \A i \in 1 .. k : s[i] = f[i]
  BY <1>1, <1>2
<1> QED  BY <1>1, <1>2, <1>3 DEF TornAt

LEMMA SafeIs ==
  ASSUME NEW f \in Seq(Frag), NEW k \in 0 .. Len(f)
  PROVE  {f[e].rec : e \in Ends(SubSeq(f, 1, k))} = Safe(f, k)
BY SubSeqIsTorn, TornEnds DEF Safe

LEMMA SafeKept ==
  ASSUME NEW a \in Seq(Frag), NEW b \in Seq(Frag), NEW k \in Nat,
         k <= Len(a), k <= Len(b), \A i \in 1 .. k : a[i] = b[i]
  PROVE  Safe(a, k) = Safe(b, k)
<1>1. Len(a) \in Nat /\ Len(b) \in Nat
  OBVIOUS
<1>2. \A e \in 1 .. k : e \in Ends(a) <=> e \in Ends(b)
  BY <1>1, EndsPrefix
<1> QED  BY <1>2 DEF Safe

LEMMA SafeMore ==
  ASSUME NEW f, NEW k \in Nat, NEW l \in Nat, k <= l
  PROVE  Safe(f, k) \subseteq Safe(f, l)
BY DEF Safe

\* In a whole log every last fragment ends a record that is delivered.
LEMMA WholeEnds ==
  ASSUME NEW log \in Seq(Frag), Whole(log), NEW e \in 1 .. Len(log),
         log[e].type \in {"full", "last"}
  PROVE  e \in Ends(log)
<1>1. Len(log) \in Nat /\ ReadLength(log) = Len(log)
  BY DEF Whole
<1> QED  BY <1>1 DEF Ends

\* The valid part of a log ends with the last of its records.
LEMMA ValidOffsetIs ==
  ASSUME NEW log \in Seq(Frag)
  PROVE  /\ ValidOffset(log) \in Ends(log) \cup {0}
         /\ ValidOffset(log) \in 0 .. Len(log)
         /\ Ends(log) \subseteq 1 .. ValidOffset(log)
<1>1. Len(log) \in Nat /\ Ends(log) \in SUBSET (1 .. Len(log))
  BY EndsType
<1>2. CASE Ends(log) = {}
  <2>1. ValidOffset(log) = 0 /\ 0 \in 0 .. Len(log)
    BY <1>1, <1>2 DEF ValidOffset
  <2> QED  BY <1>2, <2>1
<1>3. CASE Ends(log) # {}
  <2>1. PICK z \in Ends(log) : \A x \in Ends(log) : x <= z
    BY <1>1, <1>3, GreatestExists
  <2>2. Ends(log) \subseteq 1 .. z
    BY <1>1, <2>1
  <2>3. \E v \in Ends(log) : Ends(log) \subseteq 1 .. v
    BY <2>2
  <2>4. /\ ValidOffset(log) \in Ends(log)
        /\ Ends(log) \subseteq 1 .. ValidOffset(log)
    BY <1>3, <2>3 DEF ValidOffset
  <2>5. ValidOffset(log) \in 0 .. Len(log)
    BY <1>1, <2>4
  <2> QED  BY <2>4, <2>5
<1> QED  BY <1>2, <1>3

LEMMA AllOf ==
  ASSUME NEW log \in Seq(Frag)
  PROVE  log = SubSeq(log, 1, Len(log)) /\ Len(log) \in 0 .. Len(log)
<1>1. PICK s : s = SubSeq(log, 1, Len(log))
  OBVIOUS
<1>2. Len(log) \in Nat
  OBVIOUS
<1>3. s \in Seq(Frag) /\ Len(s) = Len(log) /\ \A i \in 1 .. Len(s) : s[i] = log[i]
  BY <1>1, <1>2
<1> QED  BY <1>1, <1>2, <1>3, SeqEqual

\* Truncation keeps all that a replay delivers.
LEMMA KeepIs ==
  ASSUME NEW log \in Seq(Frag)
  PROVE  \E m \in 0 .. Len(log) : /\ Keep(log) = SubSeq(log, 1, m)
                                  /\ Ends(log) \subseteq 1 .. m
<1>1. CASE CorruptTail(log)
  BY <1>1, ValidOffsetIs DEF Keep
<1>2. CASE ~CorruptTail(log)
  <2>1. Keep(log) = SubSeq(log, 1, Len(log)) /\ Len(log) \in 0 .. Len(log)
    BY <1>2, AllOf DEF Keep
  <2>2. Ends(log) \subseteq 1 .. Len(log)
    BY EndsType
  <2> QED  BY <2>1, <2>2
<1> QED  BY <1>1, <1>2

\* What is read of a log are its first fragments and perhaps a torn one.
LEMMA ReadIsTorn ==
  ASSUME NEW log \in Seq(Frag), NEW s \in Unfinished(log)
  PROVE  s \in Seq(Frag) /\ \E m \in 0 .. Len(log) : TornAt(log, s, m)
<1>0. <<>> \in Seq(Frag) /\ Len(<<>>) = 0
  OBVIOUS
<1>1. PICK a : a = <<>> /\ a \in Seq(Frag) /\ Len(a) = 0
  BY <1>0
<1>2. s \in Seq(Frag) /\ \E m \in 0 .. Len(log) :
        TornAt(a \o log, a \o s, Len(a) + m)
  BY <1>1, UnfinishedIsTorn
<1>3. a \o log = log /\ a \o s = s
  BY <1>1, <1>2, ConcatEmptySeq
<1>4. \A m \in 0 .. Len(log) : Len(a) + m = m
  BY <1>1
<1> QED  BY <1>2, <1>3, <1>4

\* A short read cuts the log behind one of its records, if at all.
LEMMA ShortReadIs ==
  ASSUME NEW log \in Seq(Frag), NEW s \in Unfinished(log)
  PROVE  ValidOffset(s) \in 0 .. Len(log)
<1>1. Len(log) \in Nat
  OBVIOUS
<1>2. PICK m \in 0 .. Len(log) : s \in Seq(Frag) /\ TornAt(log, s, m)
  BY ReadIsTorn
<1>3. Ends(s) = Ends(log) \cap 1 .. m /\ Ends(log) \subseteq 1 .. Len(log)
  BY <1>2, TornEnds, EndsType
<1>4. ValidOffset(s) \in Ends(s) \cup {0}
  BY <1>2, ValidOffsetIs
<1> QED  BY <1>1, <1>3, <1>4
-----------------------------------------------------------------------------
(* The inductive invariant.                                                *)

\* What a replay would read were the buffer written to the file now.
Image == file \o buffer

TypeOK ==
  /\ file \in Seq(Frag) /\ buffer \in Seq(Frag)
  /\ synced \in 0 .. Len(file)

\* The records of the call in progress are all of them in the image.
PendingAreWritten ==
  \A r \in pending : \E e \in 1 .. Len(Image) :
    Image[e].rec = r /\ Image[e].type \in {"full", "last"}

\* What the log still owes its callers.
Owed == trusted \ misread

DownIsIdle == ~up => buffer = <<>> /\ pending = {}

Inv ==
  /\ TypeOK /\ DownIsIdle
  /\ Cuts(fragments) /\ Shape(Image, fragments)
  /\ PendingAreWritten
  /\ WholeLogKeepsAcknowledged

LEMMA ImageType ==
  TypeOK => /\ Image \in Seq(Frag) /\ Len(Image) = Len(file) + Len(buffer)
            /\ Len(file) \in Nat /\ Len(buffer) \in Nat /\ Len(Image) \in Nat
            /\ synced \in Nat /\ synced <= Len(file)
            /\ \A i \in 1 .. Len(file) : Image[i] = file[i]
<1> SUFFICES ASSUME TypeOK
             PROVE  /\ Image \in Seq(Frag)
                    /\ Len(Image) = Len(file) + Len(buffer)
                    /\ Len(file) \in Nat /\ Len(buffer) \in Nat
                    /\ Len(Image) \in Nat
                    /\ synced \in Nat /\ synced <= Len(file)
                    /\ \A i \in 1 .. Len(file) : Image[i] = file[i]
  OBVIOUS
<1>1. file \in Seq(Frag) /\ buffer \in Seq(Frag) /\ synced \in 0 .. Len(file)
  BY DEF TypeOK
<1>2. /\ file \o buffer \in Seq(Frag)
      /\ Len(file \o buffer) = Len(file) + Len(buffer)
      /\ \A i \in 1 .. Len(file) : (file \o buffer)[i] = file[i]
  BY ONLY <1>1, Joined
<1> QED  BY <1>1, <1>2 DEF Image

LEMMA Reassociated ==
  ASSUME NEW f \in Seq(Frag), NEW g \in Seq(Frag), NEW h \in Seq(Frag)
  PROVE  f \o (g \o h) = (f \o g) \o h
BY ONLY ConcatAssociative

\* With nothing buffered the image is the file.
LEMMA NoBuffer ==
  ASSUME NEW f \in Seq(Frag)
  PROVE  f \o <<>> = f
BY ConcatEmptySeq
-----------------------------------------------------------------------------
(* What each action does to the image.                                     *)

LEMMA AppendStep ==
  ASSUME TypeOK, NEW c \in Seq(Frag), UNCHANGED file, buffer' = buffer \o c
  PROVE  Image' = Image \o c /\ buffer' \in Seq(Frag)
<1>1. file \in Seq(Frag) /\ buffer \in Seq(Frag)
  BY DEF TypeOK
<1>2. file \o (buffer \o c) = (file \o buffer) \o c
  BY <1>1, Reassociated
<1> QED  BY <1>1, <1>2 DEF Image

LEMMA SyncStep ==
  ASSUME TypeOK, Sync \/ SyncFails
  PROVE  /\ Image' = Image /\ file' \in Seq(Frag) /\ buffer' \in Seq(Frag)
         /\ Len(file) <= Len(file') /\ \A i \in 1 .. Len(file) : file'[i] = file[i]
<1>1. file \in Seq(Frag) /\ buffer \in Seq(Frag)
  BY DEF TypeOK
<1>2. CASE Sync
  <2>1. file' = Image /\ buffer' = <<>>
    BY <1>2 DEF Sync, Image
  <2>2. Image' = file'
    BY <2>1, ImageType, NoBuffer DEF Image
  <2> QED  BY <2>1, <2>2, ImageType
<1>3. CASE SyncFails
  <2>1. PICK n \in 0 .. Len(buffer) :
               /\ file' = file \o SubSeq(buffer, 1, n)
               /\ buffer' = SubSeq(buffer, n + 1, Len(buffer))
    BY <1>3 DEF SyncFails
  <2>2. PICK l, p, q : /\ l = Len(buffer) /\ p = SubSeq(buffer, 1, n)
                       /\ q = SubSeq(buffer, n + 1, l)
    OBVIOUS
  <2>3. l \in Nat /\ n \in 0 .. l
    BY <1>1, <2>2
  <2>4. /\ p \in Seq(Frag) /\ Len(p) = n /\ \A i \in 1 .. n : p[i] = buffer[i]
        /\ q \in Seq(Frag) /\ Len(q) = l - n
        /\ \A i \in 1 .. l - n : q[i] = buffer[n + i]
    <3>1. /\ SubSeq(buffer, 1, n) \in Seq(Frag)
          /\ Len(SubSeq(buffer, 1, n)) = n
          /\ \A i \in 1 .. n : SubSeq(buffer, 1, n)[i] = buffer[i]
      BY <1>1, <2>2, <2>3
    <3>2. /\ SubSeq(buffer, n + 1, l) \in Seq(Frag)
          /\ Len(SubSeq(buffer, n + 1, l)) = l - n
          /\ \A i \in 1 .. l - n : SubSeq(buffer, n + 1, l)[i] = buffer[n + i]
      BY <1>1, <2>2, <2>3
    <3> QED  BY <2>2, <3>1, <3>2
  <2>5. /\ p \o q \in Seq(Frag) /\ Len(p \o q) = l
        /\ \A i \in 1 .. n : (p \o q)[i] = p[i]
        /\ \A i \in 1 .. l - n : (p \o q)[n + i] = q[i]
    <3>1. /\ p \o q \in Seq(Frag) /\ Len(p \o q) = Len(p) + Len(q)
          /\ \A i \in 1 .. Len(p) : (p \o q)[i] = p[i]
          /\ \A i \in 1 .. Len(q) : (p \o q)[Len(p) + i] = q[i]
      BY ONLY <2>4, Joined
    <3>2. Len(p) = n /\ Len(q) = l - n /\ n + (l - n) = l
      BY <2>3, <2>4
    <3> QED  BY ONLY <3>1, <3>2
  <2>6. \A i \in 1 .. l : (p \o q)[i] = buffer[i]
    <3>1. \A i \in 1 .. l : \/ i \in 1 .. n
                            \/ i - n \in 1 .. l - n /\ i = n + (i - n)
      BY <2>3
    <3> QED  BY <2>4, <2>5, <3>1
  <2>7. p \o q = buffer
    BY <1>1, <2>2, <2>5, <2>6, SeqEqual
  <2>8. (file \o p) \o q = file \o (p \o q)
    BY <1>1, <2>4, Reassociated
  <2>9. /\ file' = file \o p /\ buffer' = q
        /\ file \o p \in Seq(Frag) /\ Len(file \o p) = Len(file) + Len(p)
        /\ \A i \in 1 .. Len(file) : (file \o p)[i] = file[i]
    <3>1. file \in Seq(Frag) /\ p \in Seq(Frag)
      BY <1>1, <2>4
    <3>2. /\ file \o p \in Seq(Frag) /\ Len(file \o p) = Len(file) + Len(p)
          /\ \A i \in 1 .. Len(file) : (file \o p)[i] = file[i]
      BY ONLY <3>1, Joined
    <3> QED  BY <2>1, <2>2, <3>2
  <2>10. Len(file) \in Nat /\ Len(p) \in Nat
    BY <1>1, <2>4
  <2>11. Image' = Image
    BY <2>7, <2>8, <2>9 DEF Image
  <2>12. buffer' \in Seq(Frag) /\ file' \in Seq(Frag)
    BY <2>4, <2>9
  <2>13. Len(file) <= Len(file') /\ \A i \in 1 .. Len(file) : file'[i] = file[i]
    BY <2>9, <2>10
  <2> QED  BY <2>11, <2>12, <2>13
<1> QED  BY <1>2, <1>3

LEMMA CrashStep ==
  ASSUME TypeOK, Crash
  PROVE  /\ file' \in Seq(Frag) /\ buffer' = <<>> /\ Image' = file'
         /\ \E m \in synced .. Len(Image) : TornAt(Image, Image', m)
<1>1. /\ Image \in Seq(Frag) /\ Len(Image) \in Nat /\ synced \in Nat
      /\ synced <= Len(Image) /\ synced \in 0 .. Len(Image)
      /\ file \in Seq(Frag) /\ Len(file) \in Nat /\ synced <= Len(file)
      /\ \A i \in 1 .. synced : Image[i] = file[i]
  BY ImageType DEF TypeOK
<1>2. PICK a, t : /\ a = SubSeq(file, 1, synced)
                  /\ t = SubSeq(Image, synced + 1, Len(Image))
  OBVIOUS
<1>3. PICK s \in Unfinished(t) : file' = a \o s /\ buffer' = <<>>
  BY <1>2 DEF Crash, Image
<1>4. /\ a \in Seq(Frag) /\ Len(a) = synced
      /\ \A i \in 1 .. synced : a[i] = Image[i]
  BY <1>1, <1>2
<1>5. PICK k, l : k = synced /\ l = Len(Image)
  OBVIOUS
<1>6. /\ t \in Seq(Frag) /\ Len(t) = l - k
      /\ \A i \in 1 .. l - k : t[i] = Image[k + i]
  BY <1>1, <1>2, <1>5
<1>7. a \o t = Image
  <2>1. /\ a \o t \in Seq(Frag) /\ Len(a \o t) = Len(a) + Len(t)
        /\ \A i \in 1 .. Len(a) : (a \o t)[i] = a[i]
        /\ \A i \in 1 .. Len(t) : (a \o t)[Len(a) + i] = t[i]
    BY ONLY <1>4, <1>6, Joined
  <2>2. k \in Nat /\ l \in Nat /\ k <= l /\ Len(a) = k
    BY <1>1, <1>4, <1>5
  <2>3. Len(a \o t) = l
    BY <1>6, <2>1, <2>2
  <2>4. \A i \in 1 .. l : \/ i \in 1 .. k
                          \/ i - k \in 1 .. l - k /\ i = k + (i - k)
    BY <2>2
  <2>5. \A i \in 1 .. l : (a \o t)[i] = Image[i]
    <3>1. ASSUME NEW i \in 1 .. k PROVE (a \o t)[i] = Image[i]
      BY <1>4, <1>5, <2>1, <2>2
    <3>2. ASSUME NEW i \in 1 .. l - k PROVE (a \o t)[k + i] = Image[k + i]
      BY <1>6, <2>1, <2>2
    <3> QED  BY <2>4, <3>1, <3>2
  <2> QED  BY <1>1, <1>5, <2>1, <2>3, <2>5, SeqEqual
<1>8. PICK m \in 0 .. Len(t) : TornAt(a \o t, a \o s, Len(a) + m)
  BY <1>4, <1>6, UnfinishedIsTorn
<1>9. a \o s \in Seq(Frag)
  BY <1>4, <1>6, UnfinishedIsTorn
<1>10. file' \in Seq(Frag) /\ Image' = file'
  BY <1>3, <1>9, NoBuffer DEF Image
<1>11. k + m \in synced .. Len(Image) /\ Len(a) + m = k + m
  BY <1>1, <1>4, <1>5, <1>6
<1> QED  BY <1>3, <1>7, <1>8, <1>10, <1>11

\* The records of the file behind the m-th fragment.
Behind(m) == {file[e].rec : e \in Ends(file) \ 1 .. m}

LEMMA RestartStep ==
  ASSUME TypeOK, DownIsIdle, Restart
  PROVE  /\ file' \in Seq(Frag) /\ buffer' = <<>> /\ pending = {}
         /\ Image = file /\ Image' = file'
         /\ \E m \in 0 .. Len(file) : /\ TornAt(file, file', m)
                                      /\ Len(file') = m
                                      /\ misread' = misread \cup Behind(m)
<1>1. /\ file \in Seq(Frag) /\ Len(file) \in Nat
      /\ buffer = <<>> /\ buffer' = <<>> /\ pending = {}
  BY DEF TypeOK, DownIsIdle, Restart
<1>2. \E m \in 0 .. Len(file) : /\ file' = SubSeq(file, 1, m)
                                /\ misread' = misread \cup Behind(m)
  <2>1. CASE file' = Keep(file) /\ UNCHANGED misread
    <3>1. PICK m \in 0 .. Len(file) : /\ file' = SubSeq(file, 1, m)
                                      /\ Ends(file) \subseteq 1 .. m
      BY <1>1, <2>1, KeepIs
    <3>2. Behind(m) = {}
      BY <3>1 DEF Behind
    <3> QED  BY <2>1, <3>1, <3>2
  <2>2. CASE file' = file /\ UNCHANGED misread
    <3>1. file = SubSeq(file, 1, Len(file)) /\ Len(file) \in 0 .. Len(file)
      BY <1>1, AllOf
    <3>2. Ends(file) \subseteq 1 .. Len(file)
      BY <1>1, EndsType
    <3>3. Behind(Len(file)) = {}
      BY <3>2 DEF Behind
    <3> QED  BY <2>2, <3>1, <3>3
  <2>3. CASE ReadShort
    <3>1. \E m \in 0 .. Len(file) : file' = SubSeq(file, 1, m)
      <4>1. PICK s \in Unfinished(file) :
              \/ file' = SubSeq(file, 1, ValidOffset(s))
              \/ file' = file
        BY <2>3 DEF ReadShort
      <4>2. ValidOffset(s) \in 0 .. Len(file)
        BY <1>1, ShortReadIs
      <4>3. file = SubSeq(file, 1, Len(file)) /\ Len(file) \in 0 .. Len(file)
        BY <1>1, AllOf
      <4> QED  BY <4>1, <4>2, <4>3
    <3>2. PICK m \in 0 .. Len(file) : file' = SubSeq(file, 1, m)
      BY <3>1
    <3>3. Len(file') = m
      BY <1>1, <3>2, SubSeqProperties
    <3>4. misread' = misread \cup Behind(m)
      BY <2>3, <3>3 DEF ReadShort, Behind
    <3> QED  BY <3>2, <3>4
  <2>4. \/ file' = Keep(file) /\ UNCHANGED misread
        \/ file' = file /\ UNCHANGED misread
        \/ ReadShort
    BY DEF Restart
  <2> QED  BY <2>1, <2>2, <2>3, <2>4
<1>3. PICK m \in 0 .. Len(file) : /\ file' = SubSeq(file, 1, m)
                                  /\ misread' = misread \cup Behind(m)
  BY <1>2
<1>4. file' \in Seq(Frag) /\ TornAt(file, file', m) /\ Len(file') = m
  BY <1>1, <1>3, SubSeqIsTorn, SubSeqProperties
<1>5. Image = file /\ Image' = file'
  BY <1>1, <1>4, NoBuffer DEF Image
<1> QED  BY <1>1, <1>3, <1>4, <1>5

\* The record a call appends.
NewRecord == Len(fragments) + 1

LEMMA AppendImage ==
  ASSUME Inv, NEW n \in 1 .. MaxFragments, AppendRecord(n)
  PROVE  /\ NewRecord \in Nat /\ NewRecord \in 1 .. MaxAppends /\ n \in Nat \ {0}
         /\ Image \in Seq(Frag) /\ buffer' \in Seq(Frag)
         /\ Image' = Image \o Cut(NewRecord, n)
         /\ fragments' = Append(fragments, Cut(NewRecord, n))
<1>1. Len(fragments) \in Nat /\ n \in Nat \ {0}
  BY DEF Inv, Cuts
<1>2. NewRecord \in Nat /\ NewRecord \in 1 .. MaxAppends
  <2>1. Len(fragments) < MaxAppends /\ MaxAppends \in Nat
    BY DEF AppendRecord
  <2> QED  BY <1>1, <2>1 DEF NewRecord
<1>3. Cut(NewRecord, n) \in Seq(Frag)
  BY <1>1, <1>2, CutParts
<1>4. /\ buffer' = buffer \o Cut(NewRecord, n) /\ UNCHANGED file
      /\ fragments' = Append(fragments, Cut(NewRecord, n))
  BY DEF AppendRecord, NewRecord
<1>5. TypeOK
  BY DEF Inv
<1>6. Image' = Image \o Cut(NewRecord, n) /\ buffer' \in Seq(Frag)
  BY <1>3, <1>4, <1>5, AppendStep
<1> QED  BY <1>1, <1>2, <1>4, <1>5, <1>6, ImageType

LEMMA AppendFailsImage ==
  ASSUME Inv, NEW n \in 1 .. MaxFragments, AppendFails(n)
  PROVE  /\ NewRecord \in Nat /\ n \in Nat \ {0}
         /\ Image \in Seq(Frag) /\ buffer' \in Seq(Frag)
         /\ Image' \in Seq(Frag)
         /\ \E m \in 0 .. n - 1 :
              TornAt(Image \o Cut(NewRecord, n), Image', Len(Image) + m)
         /\ fragments' = Append(fragments, Cut(NewRecord, n))
<1>1. Len(fragments) \in Nat /\ n \in Nat \ {0}
  BY DEF Inv, Cuts
<1>2. NewRecord \in Nat
  BY <1>1 DEF NewRecord
<1>3. Cut(NewRecord, n) \in Seq(Frag) /\ Len(Cut(NewRecord, n)) = n
  BY <1>1, <1>2, CutParts
<1>4. PICK s \in Unfinished(Cut(NewRecord, n)) \ {Cut(NewRecord, n)} :
             buffer' = buffer \o s
  BY DEF AppendFails, NewRecord
<1>5. UNCHANGED file /\ fragments' = Append(fragments, Cut(NewRecord, n))
  BY DEF AppendFails, NewRecord
<1>6. TypeOK /\ Image \in Seq(Frag)
  BY ImageType DEF Inv
<1>7. PICK c : c = Cut(NewRecord, n)
  OBVIOUS
<1>8. /\ s \in Seq(Frag) /\ Image \o s \in Seq(Frag)
      /\ \E m \in 0 .. Len(c) :
           /\ TornAt(Image \o c, Image \o s, Len(Image) + m)
           /\ s # c => m < Len(c)
  <2>1. Image \in Seq(Frag) /\ c \in Seq(Frag) /\ s \in Unfinished(c)
    BY <1>3, <1>4, <1>6, <1>7
  <2> QED  BY ONLY <2>1, UnfinishedIsTorn
<1>9. Image' = Image \o s /\ buffer' \in Seq(Frag)
  BY <1>4, <1>5, <1>6, <1>8, AppendStep
<1>10. \E m \in 0 .. n - 1 : TornAt(Image \o c, Image', Len(Image) + m)
  <2>1. PICK m \in 0 .. Len(c) :
           /\ TornAt(Image \o c, Image \o s, Len(Image) + m)
           /\ s # c => m < Len(c)
    BY <1>8
  <2>2. m \in 0 .. n - 1
    BY <1>1, <1>3, <1>4, <1>7, <2>1
  <2> QED  BY <1>9, <2>1, <2>2
<1> QED  BY <1>1, <1>2, <1>5, <1>6, <1>7, <1>8, <1>9, <1>10
-----------------------------------------------------------------------------
(* Every action keeps the invariant.                                       *)

LEMMA InitInv ==
  Init => Inv
<1> SUFFICES ASSUME Init PROVE Inv
  OBVIOUS
<1>1. file = <<>> /\ buffer = <<>> /\ synced = 0 /\ fragments = <<>>
  BY DEF Init
<1>2. TypeOK
  BY <1>1 DEF TypeOK
<1>3. Image = <<>> /\ Len(Image) = 0 /\ Len(fragments) = 0
  BY <1>1 DEF Image
<1>4. 1 .. 0 = {}
  OBVIOUS
<1>5. Cuts(fragments)
  BY <1>1, <1>3, <1>4 DEF Cuts
<1>6. Shape(Image, fragments)
  BY <1>3, <1>4 DEF Shape, Pieces, InOrder
<1>7. DownIsIdle /\ PendingAreWritten /\ WholeLogKeepsAcknowledged
  BY DEF Init, DownIsIdle, PendingAreWritten, WholeLogKeepsAcknowledged
<1> QED  BY <1>2, <1>5, <1>6, <1>7 DEF Inv

\* The file and what of it is durable stay as they are.
LEMMA SameFile ==
  ASSUME Inv, UNCHANGED <<file, synced, trusted, misread>>
  PROVE  WholeLogKeepsAcknowledged'
BY DEF Inv, WholeLogKeepsAcknowledged

LEMMA AppendRecordInv ==
  ASSUME Inv, NEW n \in 1 .. MaxFragments, AppendRecord(n)
  PROVE  Inv'
<1>1. /\ NewRecord \in Nat /\ n \in Nat \ {0}
      /\ Image \in Seq(Frag) /\ buffer' \in Seq(Frag)
      /\ Image' = Image \o Cut(NewRecord, n)
      /\ fragments' = Append(fragments, Cut(NewRecord, n))
  BY AppendImage
<1>2. /\ UNCHANGED <<file, synced, trusted, misread, up>> /\ up
      /\ pending' = pending \cup {NewRecord}
  BY DEF AppendRecord, NewRecord
<1>3. PICK k, c : k = Len(Image) /\ c = Cut(NewRecord, n)
  OBVIOUS
<1>4. /\ k \in Nat /\ c \in Seq(Frag) /\ Len(c) = n
      /\ c[n].rec = NewRecord /\ c[n].type \in {"full", "last"}
  <2>1. n \in 1 .. n
    BY <1>1
  <2>2. NewRecord \in Nat /\ n \in Nat \ {0}
    BY <1>1
  <2>3. /\ Cut(NewRecord, n) \in Seq(Frag) /\ Len(Cut(NewRecord, n)) = n
        /\ \A i \in 1 .. n : /\ Cut(NewRecord, n)[i].rec = NewRecord
                             /\ Cut(NewRecord, n)[i].type \in {"full", "last"}
                                  <=> i = n
    BY ONLY <2>2, CutParts
  <2>4. /\ c[n].rec = NewRecord
        /\ c[n].type \in {"full", "last"} <=> n = n
    BY <1>3, <2>1, <2>3, Zenon
  <2>5. Len(Image) \in Nat
    BY <1>1
  <2> QED  BY <1>3, <2>3, <2>4, <2>5
<1>5. /\ Len(Image') = k + n
      /\ \A i \in 1 .. k : Image'[i] = Image[i]
      /\ Image'[k + n] = c[n]
  <2>1. /\ Len(Image \o c) = Len(Image) + Len(c)
        /\ \A i \in 1 .. Len(Image) : (Image \o c)[i] = Image[i]
        /\ \A i \in 1 .. Len(c) : (Image \o c)[Len(Image) + i] = c[i]
    BY <1>1, <1>4, Joined
  <2>2. n \in 1 .. Len(c)
    BY <1>1, <1>4
  <2> QED  BY <1>1, <1>3, <1>4, <2>1, <2>2
<1>6. TypeOK'
  BY <1>1, <1>2 DEF Inv, TypeOK
<1>7. Cuts(fragments)' /\ Shape(Image, fragments)'
  <2>1. Cuts(fragments) /\ Shape(Image, fragments)
    BY DEF Inv
  <2>2. /\ Image \in Seq(Frag) /\ n \in Nat \ {0}
        /\ NewRecord = Len(fragments) + 1
    BY <1>1 DEF NewRecord
  <2>3. /\ Cuts(Append(fragments, Cut(NewRecord, n)))
        /\ Shape(Image \o Cut(NewRecord, n),
                 Append(fragments, Cut(NewRecord, n)))
    BY ONLY <2>1, <2>2, ShapeMore
  <2> QED  BY <1>1, <2>3
<1>8. PendingAreWritten'
  <2> SUFFICES ASSUME NEW r \in pending'
               PROVE  \E e \in 1 .. Len(Image') :
                        /\ Image'[e].rec = r
                        /\ Image'[e].type \in {"full", "last"}
    BY DEF PendingAreWritten
  <2>1. CASE r = NewRecord
    <3>1. k + n \in 1 .. Len(Image')
      BY <1>1, <1>4, <1>5
    <3> QED  BY <1>4, <1>5, <2>1, <3>1
  <2>2. CASE r \in pending
    <3>1. PICK e \in 1 .. Len(Image) :
                 Image[e].rec = r /\ Image[e].type \in {"full", "last"}
      BY <2>2 DEF Inv, PendingAreWritten
    <3>2. e \in 1 .. Len(Image') /\ Image'[e] = Image[e]
      BY <1>1, <1>3, <1>4, <1>5, <3>1
    <3> QED  BY <3>1, <3>2
  <2> QED  BY <1>2, <2>1, <2>2
<1>9. DownIsIdle' /\ WholeLogKeepsAcknowledged'
  BY <1>2, SameFile DEF DownIsIdle
<1> QED  BY <1>6, <1>7, <1>8, <1>9 DEF Inv

LEMMA AppendFailsInv ==
  ASSUME Inv, NEW n \in 1 .. MaxFragments, AppendFails(n)
  PROVE  Inv'
<1>1. /\ NewRecord \in Nat /\ n \in Nat \ {0}
      /\ Image \in Seq(Frag) /\ buffer' \in Seq(Frag)
      /\ Image' \in Seq(Frag)
      /\ \E m \in 0 .. n - 1 :
           TornAt(Image \o Cut(NewRecord, n), Image', Len(Image) + m)
      /\ fragments' = Append(fragments, Cut(NewRecord, n))
  BY AppendFailsImage
<1>2. UNCHANGED <<file, synced, trusted, misread, up>> /\ up /\ pending' = {}
  BY DEF AppendFails
<1>3. TypeOK'
  BY <1>1, <1>2 DEF Inv, TypeOK
<1>4. Cuts(fragments)' /\ Shape(Image, fragments)'
  <2>1. Cuts(fragments) /\ Shape(Image, fragments)
    BY DEF Inv
  <2>2. PICK b, gs : b = Image \o Cut(NewRecord, n)
                     /\ gs = Append(fragments, Cut(NewRecord, n))
    OBVIOUS
  <2>3. /\ Image \in Seq(Frag) /\ n \in Nat \ {0}
        /\ NewRecord = Len(fragments) + 1
    BY <1>1 DEF NewRecord
  <2>4. Cuts(gs) /\ Shape(b, gs)
    <3>1. /\ Cuts(Append(fragments, Cut(NewRecord, n)))
          /\ Shape(Image \o Cut(NewRecord, n),
                   Append(fragments, Cut(NewRecord, n)))
      BY ONLY <2>1, <2>3, ShapeMore
    <3> QED  BY <2>2, <3>1
  <2>5. b \in Seq(Frag)
    BY <1>1, <2>2, CutParts, Joined
  <2>6. PICK m : TornAt(b, Image', m)
    BY <1>1, <2>2
  <2>7. Shape(Image', gs)
    BY <1>1, <2>4, <2>5, <2>6, ShapeTorn
  <2> QED  BY <1>1, <2>2, <2>4, <2>7
<1>5. PendingAreWritten' /\ DownIsIdle' /\ WholeLogKeepsAcknowledged'
  BY <1>2, SameFile DEF PendingAreWritten, DownIsIdle
<1> QED  BY <1>3, <1>4, <1>5 DEF Inv

\* WholeLogKeepsAcknowledged, said with Safe.
LEMMA KeptIs ==
  ASSUME NEW f \in Seq(Frag), NEW k \in 0 .. Len(f), NEW T
  PROVE  T \subseteq Safe(f, k)
           <=> T \subseteq {f[e].rec : e \in Ends(SubSeq(f, 1, k))}
BY SafeIs

LEMMA SyncInv ==
  ASSUME Inv, Sync \/ SyncFails
  PROVE  Inv'
<1>1. /\ Image' = Image /\ file' \in Seq(Frag) /\ buffer' \in Seq(Frag)
      /\ Len(file) <= Len(file')
      /\ \A i \in 1 .. Len(file) : file'[i] = file[i]
  BY SyncStep DEF Inv
<1>2. /\ UNCHANGED <<fragments, up>> /\ up /\ pending' = {}
      /\ UNCHANGED misread
      /\ \/ UNCHANGED <<synced, trusted>>
         \/ /\ synced' = Len(file') /\ file' = Image
            /\ trusted' = IF Whole(file') THEN trusted \cup pending ELSE trusted
  BY DEF Sync, SyncFails, Image
<1>3. /\ file \in Seq(Frag) /\ synced \in 0 .. Len(file)
      /\ Len(file) \in Nat /\ Len(file') \in Nat /\ synced \in Nat
      /\ synced <= Len(file) /\ synced <= Len(file')
  BY <1>1 DEF Inv, TypeOK
<1>4. TypeOK'
  BY <1>1, <1>2, <1>3 DEF TypeOK
<1>5. Cuts(fragments)' /\ Shape(Image, fragments)'
  BY <1>1, <1>2 DEF Inv
<1>6. PendingAreWritten' /\ DownIsIdle'
  BY <1>2 DEF PendingAreWritten, DownIsIdle
<1>7. Owed \subseteq Safe(file', synced)
  <2>1. Owed \subseteq Safe(file, synced)
    BY <1>3, KeptIs DEF Inv, WholeLogKeepsAcknowledged, Owed
  <2>2. Safe(file, synced) = Safe(file', synced)
    <3>1. \A i \in 1 .. synced : file[i] = file'[i]
      BY <1>1, <1>3
    <3> QED  BY <1>1, <1>3, <3>1, SafeKept
  <2> QED  BY <2>1, <2>2
<1>8. Owed' \subseteq Safe(file', synced')
  <2>1. CASE UNCHANGED <<synced, trusted>>
    BY <1>2, <1>7, <2>1 DEF Owed
  <2>2. CASE /\ synced' = Len(file') /\ file' = Image
             /\ trusted' = IF Whole(file') THEN trusted \cup pending
                           ELSE trusted
    <3>1. Safe(file', synced) \subseteq Safe(file', synced')
      BY <1>3, <2>2, SafeMore
    <3>2. ASSUME Whole(file'), NEW r \in pending
          PROVE  r \in Safe(file', synced')
      <4>1. PICK e \in 1 .. Len(Image) :
                   Image[e].rec = r /\ Image[e].type \in {"full", "last"}
        BY DEF Inv, PendingAreWritten
      <4>2. e \in Ends(file') /\ e \in 1 .. synced'
        BY <1>1, <2>2, <3>2, <4>1, WholeEnds
      <4> QED  BY <2>2, <4>1, <4>2 DEF Safe
    <3>3. Owed' \subseteq Owed \/ (Whole(file') /\ Owed' \subseteq Owed \cup pending)
      BY <1>2, <2>2 DEF Owed
    <3> QED  BY <1>7, <3>1, <3>2, <3>3
  <2> QED  BY <1>2, <2>1, <2>2
<1>9. WholeLogKeepsAcknowledged'
  <2>1. synced' \in 0 .. Len(file')
    BY <1>4 DEF TypeOK
  <2> QED  BY <1>1, <1>8, <2>1, KeptIs DEF WholeLogKeepsAcknowledged, Owed
<1> QED  BY <1>4, <1>5, <1>6, <1>9 DEF Inv

LEMMA RotateInv ==
  ASSUME Inv, Rotate
  PROVE  Inv'
<1>1. /\ file' = <<>> /\ buffer' = <<>> /\ synced' = 0 /\ trusted' = {}
      /\ UNCHANGED <<up, fragments, pending>> /\ up /\ pending = {}
  BY DEF Rotate
<1>2. Image' = <<>> /\ Len(Image') = 0 /\ 1 .. 0 = {}
  BY <1>1 DEF Image
<1>3. TypeOK' /\ DownIsIdle' /\ PendingAreWritten'
  BY <1>1 DEF TypeOK, DownIsIdle, PendingAreWritten
<1>4. Cuts(fragments)' /\ Shape(Image, fragments)'
  BY <1>1, <1>2 DEF Inv, Shape, Pieces, InOrder
<1>5. WholeLogKeepsAcknowledged'
  BY <1>1 DEF WholeLogKeepsAcknowledged
<1> QED  BY <1>3, <1>4, <1>5 DEF Inv

LEMMA CrashInv ==
  ASSUME Inv, Crash
  PROVE  Inv'
<1>1. /\ file' \in Seq(Frag) /\ buffer' = <<>> /\ Image' = file'
      /\ Image \in Seq(Frag) /\ Len(Image) \in Nat
      /\ \E m \in synced .. Len(Image) : TornAt(Image, Image', m)
  BY CrashStep, ImageType DEF Inv
<1>2. UNCHANGED <<synced, fragments, trusted, misread>> /\ pending' = {}
  BY DEF Crash
<1>3. PICK m \in synced .. Len(Image) : TornAt(Image, file', m)
  BY <1>1
<1>4. /\ file \in Seq(Frag) /\ synced \in Nat /\ synced <= Len(file)
      /\ \A i \in 1 .. synced : Image[i] = file[i]
  BY ImageType DEF Inv, TypeOK
<1>5. /\ m \in Nat /\ synced <= m /\ m <= Len(file') /\ Len(file') \in Nat
      /\ \A i \in 1 .. m : file'[i] = Image[i]
  BY <1>1, <1>3, <1>4 DEF TornAt
<1>6. TypeOK'
  BY <1>1, <1>2, <1>4, <1>5 DEF TypeOK
<1>7. Cuts(fragments)' /\ Shape(Image, fragments)'
  <2>1. Cuts(fragments) /\ Shape(Image, fragments)
    BY DEF Inv
  <2>2. Shape(file', fragments)
    BY <1>1, <1>3, <2>1, ShapeTorn
  <2> QED  BY <1>1, <1>2, <2>1, <2>2
<1>8. PendingAreWritten' /\ DownIsIdle'
  BY <1>1, <1>2 DEF PendingAreWritten, DownIsIdle
<1>9. WholeLogKeepsAcknowledged'
  <2>1. Owed \subseteq Safe(file, synced)
    <3>1. synced \in 0 .. Len(file)
      BY DEF Inv, TypeOK
    <3> QED  BY <1>4, <3>1, KeptIs DEF Inv, WholeLogKeepsAcknowledged, Owed
  <2>2. Safe(file, synced) = Safe(file', synced)
    <3>1. \A i \in 1 .. synced : file[i] = file'[i]
      BY <1>4, <1>5
    <3>2. synced <= Len(file')
      BY <1>4, <1>5
    <3> QED  BY <1>1, <1>4, <3>1, <3>2, SafeKept
  <2>3. synced \in 0 .. Len(file')
    BY <1>4, <1>5
  <2> QED  BY <1>1, <1>2, <2>1, <2>2, <2>3, KeptIs
           DEF WholeLogKeepsAcknowledged, Owed
<1> QED  BY <1>6, <1>7, <1>8, <1>9 DEF Inv

LEMMA RestartInv ==
  ASSUME Inv, Restart
  PROVE  Inv'
<1>1. /\ file' \in Seq(Frag) /\ buffer' = <<>> /\ pending = {}
      /\ Image = file /\ Image' = file'
      /\ \E m \in 0 .. Len(file) : /\ TornAt(file, file', m)
                                   /\ misread' = misread \cup Behind(m)
  BY RestartStep DEF Inv
<1>2. /\ UNCHANGED <<fragments, trusted, pending>> /\ up'
      /\ synced' = IF synced < Len(file') THEN synced ELSE Len(file')
  BY DEF Restart
<1>3. PICK m \in 0 .. Len(file) : /\ TornAt(file, file', m)
                                  /\ misread' = misread \cup Behind(m)
  BY <1>1
<1>4. /\ file \in Seq(Frag) /\ synced \in 0 .. Len(file) /\ synced \in Nat
      /\ Len(file') \in Nat
  BY <1>1 DEF Inv, TypeOK
<1>5. TypeOK'
  BY <1>1, <1>2, <1>4 DEF TypeOK
<1>6. Cuts(fragments)' /\ Shape(Image, fragments)'
  <2>1. Cuts(fragments) /\ Shape(file, fragments)
    BY <1>1 DEF Inv
  <2>2. Shape(file', fragments)
    BY <1>1, <1>3, <1>4, <2>1, ShapeTorn
  <2> QED  BY <1>1, <1>2, <2>1, <2>2
<1>7. PendingAreWritten' /\ DownIsIdle'
  BY <1>1, <1>2 DEF PendingAreWritten, DownIsIdle
<1>8. Owed' \subseteq Safe(file', synced')
  <2> SUFFICES ASSUME NEW r \in Owed'
               PROVE  r \in Safe(file', synced')
    OBVIOUS
  <2>1. r \in Owed /\ r \notin Behind(m)
    BY <1>2, <1>3 DEF Owed
  <2>2. Owed \subseteq Safe(file, synced)
    BY <1>4, KeptIs DEF Inv, WholeLogKeepsAcknowledged, Owed
  <2>3. PICK e \in Ends(file) : e \in 1 .. synced /\ r = file[e].rec
    BY <2>1, <2>2 DEF Safe
  <2>4. e \in 1 .. m
    BY <2>1, <2>3 DEF Behind
  <2>5. e \in Ends(file')
    BY <1>1, <1>3, <1>4, <2>4, TornEnds
  <2>6. file'[e] = file[e]
    BY <1>3, <2>4 DEF TornAt
  <2>7. e \in 1 .. Len(file')
    BY <1>4, <2>5, EndsType
  <2>8. e \in 1 .. synced'
    BY <1>2, <1>4, <2>3, <2>7
  <2>9. file'[e].rec \in Safe(file', synced')
    BY <2>5, <2>8 DEF Safe
  <2> QED  BY <2>3, <2>6, <2>9
<1>9. WholeLogKeepsAcknowledged'
  <2>1. synced' \in 0 .. Len(file')
    BY <1>5 DEF TypeOK
  <2> QED  BY <1>1, <1>8, <2>1, KeptIs DEF WholeLogKeepsAcknowledged, Owed
<1> QED  BY <1>5, <1>6, <1>7, <1>9 DEF Inv

LEMMA NextInv ==
  Inv /\ [Next]_vars => Inv'
<1> SUFFICES ASSUME Inv, [Next]_vars PROVE Inv'
  OBVIOUS
<1>1. CASE UNCHANGED vars
  BY <1>1 DEF vars, Inv, TypeOK, DownIsIdle, PendingAreWritten, Image,
              WholeLogKeepsAcknowledged
<1>2. ASSUME NEW n \in 1 .. MaxFragments, AppendRecord(n) PROVE Inv'
  BY <1>2, AppendRecordInv
<1>3. ASSUME NEW n \in 1 .. MaxFragments, AppendFails(n) PROVE Inv'
  BY <1>3, AppendFailsInv
<1>4. CASE Sync \/ SyncFails
  BY <1>4, SyncInv
<1>5. CASE Rotate
  BY <1>5, RotateInv
<1>6. CASE Crash
  BY <1>6, CrashInv
<1>7. CASE Restart
  BY <1>7, RestartInv
<1> QED  BY <1>1, <1>2, <1>3, <1>4, <1>5, <1>6, <1>7 DEF Next

-----------------------------------------------------------------------------
(* The theorems.                                                           *)

\* The state of the log is always one the invariant describes.
THEOREM WalInvariant ==
  Spec => []Inv
BY InitInv, NextInv, PTL DEF Spec

\* A replay makes no record out of fragments of two appends and delivers
\* none twice or out of order: ReplayEntries, behind whatever AppendRecord,
\* Sync and crashes left in the file.
THEOREM ReplayIsInOrder ==
  Spec => []ReplaysWholeRecordsInOrder
<1>1. Inv => ReplaysWholeRecordsInOrder
  <2> SUFFICES ASSUME Inv PROVE ReplaysWholeRecordsInOrder
    OBVIOUS
  <2>1. /\ Image \in Seq(Frag) /\ file \in Seq(Frag)
        /\ Len(file) \in 0 .. Len(Image) /\ Len(file) \in Nat
        /\ \A i \in 1 .. Len(file) : Image[i] = file[i]
    BY ImageType DEF Inv, TypeOK
  <2>2. TornAt(Image, file, Len(file))
    BY <2>1 DEF TornAt
  <2>3. Cuts(fragments) /\ Shape(Image, fragments)
    BY DEF Inv
  <2>4. Shape(file, fragments)
    BY <2>1, <2>2, <2>3, ShapeTorn
  <2>5. /\ \A e \in Ends(file) :
             /\ Len(fragments[file[e].rec]) <= e
             /\ SubSeq(file, e - Len(fragments[file[e].rec]) + 1, e)
                  = fragments[file[e].rec]
        /\ \A d, e \in Ends(file) : d < e => file[d].rec < file[e].rec
    BY <2>1, <2>3, <2>4, WholeRecords
  <2> QED  BY <2>5 DEF ReplaysWholeRecordsInOrder
<1> QED  BY <1>1, WalInvariant, PTL

\* No crash, failed append, failed sync or failed truncation takes away a
\* record that AppendRecord and Sync acknowledged in a log that was whole, and
\* a short read in ReplayEntries only those behind where it cuts the log.
THEOREM AcknowledgedAreKept ==
  Spec => []WholeLogKeepsAcknowledged
<1>1. Inv => WholeLogKeepsAcknowledged
  BY DEF Inv
<1> QED  BY <1>1, WalInvariant, PTL
-----------------------------------------------------------------------------
(* The refinement.                                                         *)

\* What the abstract log holds.
Records == Delivered(Image)

LEMMA TrustedAreHeld ==
  ASSUME NEW f \in Seq(Frag), NEW k \in 0 .. Len(f), NEW g \in Seq(Frag),
         k <= Len(g), \A i \in 1 .. k : g[i] = f[i],
         NEW T, T \subseteq {f[e].rec : e \in Ends(SubSeq(f, 1, k))}
  PROVE  T \subseteq DL!Held(Delivered(g))
<1>1. k \in Nat /\ k <= Len(f)
  <2>1. Len(f) \in Nat
    OBVIOUS
  <2> QED  BY <2>1
<1>2. T \subseteq Safe(f, k)
  BY KeptIs
<1>3. Safe(f, k) = Safe(g, k)
  <2>1. \A i \in 1 .. k : f[i] = g[i]
    OBVIOUS
  <2> QED  BY <1>1, <2>1, SafeKept
<1>4. Safe(g, k) \subseteq {g[e].rec : e \in Ends(g)}
  BY DEF Safe
<1> QED  BY <1>2, <1>3, <1>4, HeldIsDelivered

\* What was synced into a whole log, a replay of the image delivers.
LEMMA OwedIsHeld ==
  Inv => Owed \subseteq DL!Held(Records)
<1> SUFFICES ASSUME Inv PROVE Owed \subseteq DL!Held(Records)
  OBVIOUS
<1>1. /\ file \in Seq(Frag) /\ synced \in 0 .. Len(file)
      /\ Image \in Seq(Frag) /\ synced <= Len(Image)
      /\ \A i \in 1 .. synced : Image[i] = file[i]
  BY ImageType DEF Inv, TypeOK
<1>2. Owed \subseteq {file[e].rec : e \in Ends(SubSeq(file, 1, synced))}
  BY DEF Inv, WholeLogKeepsAcknowledged, Owed
<1> QED  BY <1>1, <1>2, TrustedAreHeld DEF Records

\* A torn log that keeps all record ends delivers what it did before.
LEMMA TornDelivers ==
  ASSUME NEW a \in Seq(Frag), NEW b \in Seq(Frag), NEW m, TornAt(a, b, m)
  PROVE  /\ Len(Delivered(b)) \in 0 .. Len(Delivered(a))
         /\ Delivered(b) = SubSeq(Delivered(a), 1, Len(Delivered(b)))
         /\ Ends(a) \subseteq 1 .. m => Delivered(b) = Delivered(a)
<1>1. /\ m \in Nat /\ m <= Len(a) /\ m <= Len(b)
      /\ \A i \in 1 .. m : a[i] = b[i]
  <2>1. Len(a) \in Nat /\ Len(b) \in Nat
    OBVIOUS
  <2> QED  BY <2>1 DEF TornAt
<1>2. Ends(b) = Ends(a) \cap 1 .. m
  BY TornEnds
<1>3. Ends(b) \subseteq 1 .. m
  BY <1>2
<1>4. Ends(a) \subseteq 1 .. m => Delivered(b) = Delivered(a)
  <2> SUFFICES ASSUME Ends(a) \subseteq 1 .. m
               PROVE  Delivered(b) = Delivered(a)
    OBVIOUS
  <2>1. Ends(a) = Ends(b) /\ \A e \in Ends(a) : a[e] = b[e]
    BY <1>1, <1>2
  <2> QED  BY <2>1, DeliveredSame
<1> QED  BY <1>1, <1>3, <1>4, DeliveredPrefix

\* An append into a whole log adds its record; into another log, nothing.
LEMMA AppendRecordImplements ==
  ASSUME Inv, NEW n \in 1 .. MaxFragments, AppendRecord(n)
  PROVE  \/ /\ Records' = Append(Records, NewRecord)
            /\ NewRecord \in 1 .. MaxAppends
         \/ Records' = Records
<1>1. /\ NewRecord \in Nat /\ NewRecord \in 1 .. MaxAppends /\ n \in Nat \ {0}
      /\ Image \in Seq(Frag) /\ Image' = Image \o Cut(NewRecord, n)
  BY AppendImage
<1>2. PICK a, b, r : a = Image /\ b = Image' /\ r = NewRecord
  OBVIOUS
<1>3. /\ a \in Seq(Frag) /\ r \in Nat /\ n \in Nat \ {0}
      /\ b = a \o Cut(r, n)
  BY <1>1, <1>2
<1>4. /\ b \in Seq(Frag) /\ Len(b) = Len(a) + n
      /\ \A i \in 1 .. Len(a) : b[i] = a[i]
      /\ b[Len(b)].rec = r
  <2>1. /\ a \o Cut(r, n) \in Seq(Frag)
        /\ Len(a \o Cut(r, n)) = Len(a) + n
        /\ \A i \in 1 .. Len(a) : (a \o Cut(r, n))[i] = a[i]
        /\ (a \o Cut(r, n))[Len(a) + n].rec = r
    BY <1>3, CutIs
  <2> QED  BY <1>3, <2>1, Zenon
<1>4A. Ends(b) = Ends(a) \cup (IF Whole(a) THEN {Len(a) + n} ELSE {})
  BY <1>3, CutEnds
<1>5. CASE Whole(a)
  <2>1. Len(a) \in Nat /\ Len(a) < Len(b)
    BY <1>3, <1>4
  <2>2. Ends(b) = Ends(a) \cup {Len(b)}
    BY <1>4, <1>4A, <1>5
  <2>3. Delivered(b) = Append(Delivered(a), r)
    BY <1>3, <1>4, <2>1, <2>2, DeliveredMore
  <2> QED  BY <1>1, <1>2, <2>3 DEF Records
<1>6. CASE ~Whole(a)
  <2>1. Ends(a) = Ends(b)
    BY <1>4A, <1>6
  <2>2. \A e \in Ends(a) : a[e] = b[e]
    <3>1. Ends(a) \subseteq 1 .. Len(a)
      BY <1>3, EndsType
    <3> QED  BY <1>4, <3>1
  <2>3. Delivered(a) = Delivered(b)
    BY <1>3, <1>4, <2>1, <2>2, DeliveredSame
  <2> QED  BY <1>2, <2>3 DEF Records
<1> QED  BY <1>5, <1>6

\* A failed append adds nothing: its last fragment is not in the log.
LEMMA AppendFailsImplements ==
  ASSUME Inv, NEW n \in 1 .. MaxFragments, AppendFails(n)
  PROVE  Records' = Records
<1>1. /\ NewRecord \in Nat /\ n \in Nat \ {0}
      /\ Image \in Seq(Frag) /\ Image' \in Seq(Frag)
      /\ \E m \in 0 .. n - 1 :
           TornAt(Image \o Cut(NewRecord, n), Image', Len(Image) + m)
  BY AppendFailsImage
<1>2. PICK a, b, c, r : /\ a = Image /\ b = Image' /\ r = NewRecord
                        /\ c = a \o Cut(r, n)
  OBVIOUS
<1>3. /\ a \in Seq(Frag) /\ r \in Nat /\ n \in Nat \ {0}
      /\ b \in Seq(Frag) /\ c = a \o Cut(r, n)
  BY <1>1, <1>2
<1>4. PICK m \in 0 .. n - 1 : TornAt(c, b, Len(a) + m)
  BY <1>1, <1>2
<1>5. /\ c \in Seq(Frag) /\ Len(c) = Len(a) + n
      /\ \A i \in 1 .. Len(a) : c[i] = a[i]
  <2>1. /\ a \o Cut(r, n) \in Seq(Frag)
        /\ Len(a \o Cut(r, n)) = Len(a) + n
        /\ \A i \in 1 .. Len(a) : (a \o Cut(r, n))[i] = a[i]
        /\ (a \o Cut(r, n))[Len(a) + n].rec = r
    BY <1>3, CutIs
  <2> QED  BY <1>3, <2>1, Zenon
<1>5a. Ends(c) = Ends(a) \cup (IF Whole(a) THEN {Len(a) + n} ELSE {})
  BY <1>3, CutEnds
<1>6. Ends(b) = Ends(c) \cap 1 .. Len(a) + m
  BY <1>3, <1>4, <1>5, TornEnds
<1>7. Len(a) \in Nat /\ Ends(a) \subseteq 1 .. Len(a)
  BY <1>3, EndsType
<1>8. /\ Ends(a) \subseteq 1 .. Len(a) + m
      /\ Len(a) + n \notin 1 .. Len(a) + m
      /\ \A i \in 1 .. Len(a) : i \in 1 .. Len(a) + m
  BY <1>3, <1>7
<1>9. Ends(a) = Ends(b)
  BY <1>5a, <1>6, <1>8
<1>10. \A e \in Ends(a) : a[e] = b[e]
  BY <1>4, <1>5, <1>7, <1>8 DEF TornAt
<1>11. Delivered(a) = Delivered(b)
  BY <1>3, <1>9, <1>10, DeliveredSame
<1> QED  BY <1>2, <1>11 DEF Records

\* Every step of the log is a step of DurableLog.
LEMMA StepImplements ==
  Inv /\ Inv' /\ [Next]_vars
    => \/ DL!Next
       \/ UNCHANGED <<Delivered(file \o buffer), trusted \ misread>>
<1> SUFFICES ASSUME Inv, Inv', [Next]_vars
             PROVE  DL!Next \/ UNCHANGED <<Records, Owed>>
  BY DEF Records, Image, Owed
<1>1. CASE UNCHANGED vars
  BY <1>1 DEF vars, Records, Image, Owed
<1>2. ASSUME NEW n \in 1 .. MaxFragments, AppendRecord(n)
      PROVE  DL!Next \/ UNCHANGED <<Records, Owed>>
  <2>1. UNCHANGED Owed
    BY <1>2 DEF AppendRecord, Owed
  <2>2. CASE Records' = Records
    BY <2>1, <2>2
  <2>3. CASE /\ Records' = Append(Records, NewRecord)
             /\ NewRecord \in 1 .. MaxAppends
    <3>1. DL!Add(NewRecord)
      BY <2>1, <2>3 DEF DL!Add, Records, Image, Owed
    <3> QED  BY <2>3, <3>1 DEF DL!Next
  <2> QED  BY <1>2, <2>2, <2>3, AppendRecordImplements
<1>3. ASSUME NEW n \in 1 .. MaxFragments, AppendFails(n)
      PROVE  UNCHANGED <<Records, Owed>>
  BY <1>3, AppendFailsImplements DEF AppendFails, Owed
<1>4. CASE Sync
  <2>1. Records' = Records
    BY <1>4, SyncStep DEF Inv, Records
  <2>2. Owed \subseteq Owed'
    BY <1>4 DEF Sync, Owed
  <2>3. Owed' \subseteq DL!Held(Records)'
    <3>1. Inv => Owed \subseteq DL!Held(Records)
      BY OwedIsHeld
    <3>2. (Inv => Owed \subseteq DL!Held(Records))'
      BY OwedIsHeld, PTL
    <3> QED  BY <3>2
  <2>4. Owed' \subseteq DL!Held(Records)
    BY <2>1, <2>3 DEF DL!Held
  <2>5. DL!Sync
    BY <2>1, <2>2, <2>4 DEF DL!Sync, Records, Image, Owed
  <2> QED  BY <2>5 DEF DL!Next
<1>5. CASE SyncFails
  BY <1>5, SyncStep DEF Inv, Records, SyncFails, Owed
<1>6. CASE Rotate
  <2>1. Image' = <<>> /\ Owed' = {}
    BY <1>6 DEF Rotate, Image, Owed
  <2>2. Delivered(<<>>) = <<>>
    BY DeliveredNone
  <2>3. DL!Rotate
    BY <2>1, <2>2 DEF DL!Rotate, Image, Owed
  <2> QED  BY <2>3 DEF DL!Next
<1>7. CASE Crash
  <2>1. /\ Image \in Seq(Frag) /\ Image' \in Seq(Frag)
        /\ \E m \in synced .. Len(Image) : TornAt(Image, Image', m)
    BY <1>7, CrashStep, ImageType DEF Inv
  <2>2. /\ Len(Records') \in 0 .. Len(Records)
        /\ Records' = SubSeq(Records, 1, Len(Records'))
    BY <2>1, TornDelivers DEF Records
  <2>3. UNCHANGED Owed
    BY <1>7 DEF Crash, Owed
  <2>4. Owed' \subseteq DL!Held(Records)'
    <3>1. (Inv => Owed \subseteq DL!Held(Records))'
      BY OwedIsHeld, PTL
    <3> QED  BY <3>1
  <2>5. Owed \subseteq DL!Held(SubSeq(Records, 1, Len(Records')))
    BY <2>2, <2>3, <2>4 DEF DL!Held
  <2>6. DL!Crash
    BY <2>2, <2>3, <2>5 DEF DL!Crash, Records, Image, Owed
  <2> QED  BY <2>6 DEF DL!Next
<1>8. CASE Restart
  <2>1. PICK m \in 0 .. Len(file) :
          /\ file' \in Seq(Frag) /\ Image = file /\ Image' = file'
          /\ TornAt(file, file', m)
          /\ misread' = misread \cup Behind(m)
    BY <1>8, RestartStep DEF Inv
  <2>2. file \in Seq(Frag)
    BY DEF Inv, TypeOK
  <2>3. /\ Len(Records') \in 0 .. Len(Records)
        /\ Records' = SubSeq(Records, 1, Len(Records'))
    BY <2>1, <2>2, TornDelivers DEF Records
  <2>4. Owed' = Owed \cap DL!Held(Records')
    <3>1. Owed' \subseteq Owed
      BY <1>8, <2>1 DEF Restart, Owed
    <3>2. Owed' \subseteq DL!Held(Records)'
      <4>1. (Inv => Owed \subseteq DL!Held(Records))'
        BY OwedIsHeld, PTL
      <4> QED  BY <4>1
    <3>3. ASSUME NEW r \in Owed, r \in DL!Held(Records'), r \in Behind(m)
          PROVE  FALSE
      <4>1. PICK e \in Ends(file') : r = file'[e].rec
        BY <2>1, <3>3, HeldIsDelivered DEF Records
      <4>2. e \in Ends(file) /\ e \in 1 .. m
        BY <2>1, <2>2, <4>1, TornEnds
      <4>3. r = file[e].rec
        BY <2>1, <4>1, <4>2 DEF TornAt
      <4>4. PICK d \in Ends(file) : d \notin 1 .. m /\ r = file[d].rec
        BY <3>3 DEF Behind
      <4>5. Ends(file) \subseteq 1 .. Len(file) /\ Len(file) \in Nat
        BY <2>2, EndsType
      <4>6. e < d
        BY <4>2, <4>4, <4>5
      <4>7. file[e].rec < file[d].rec
        BY <2>1, <2>2, <4>2, <4>4, <4>6, WholeRecords DEF Inv
      <4>8. file[e].rec \in Nat
        <5>1. file[e] \in Frag
          BY <2>2, <4>2, <4>5, ElementOfSeq
        <5> QED  BY <5>1 DEF Frag
      <4> QED  BY <4>3, <4>4, <4>7, <4>8
    <3>4. ASSUME NEW r \in Owed, r \notin Behind(m) PROVE r \in Owed'
      BY <1>8, <2>1, <3>4 DEF Restart, Owed
    <3>5. DL!Held(Records)' = DL!Held(Records')
      BY DEF DL!Held
    <3> QED  BY <3>1, <3>2, <3>3, <3>4, <3>5
  <2>5. DL!Misread
    <3>1. PICK n \in 0 .. Len(Records) : /\ n = Len(Records')
                                         /\ Records' = SubSeq(Records, 1, n)
      BY <2>3
    <3> QED  BY <2>4, <3>1 DEF DL!Misread, Records, Image, Owed
  <2> QED  BY <2>5 DEF DL!Next
<1> QED  BY <1>1, <1>2, <1>3, <1>4, <1>5, <1>6, <1>7, <1>8 DEF Next

\* Fragments, buffers, torn tails, replay and truncation are a log of whole
\* records of which a crash only cuts those that were not promised, and a
\* replay whose fread comes back short the newest.
THEOREM WalImplementsDurableLog ==
  Spec => ImplementsDurableLog
<1>1. Init => DL!Init
  BY DeliveredNone DEF Init, DL!Init
<1>2. Inv /\ Inv' /\ [Next]_vars
        => [DL!Next]_<<Delivered(file \o buffer), trusted \ misread>>
  BY StepImplements
<1> QED  BY <1>1, <1>2, WalInvariant, PTL
         DEF Spec, ImplementsDurableLog, DL!Spec
=============================================================================
