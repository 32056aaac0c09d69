--------------------------- MODULE RecoveryProofs ---------------------------
(***************************************************************************)
(* The proof that the manifest describes the version of the engine, and    *)
(* lists only files that exist unless a crash left a torn line, across any *)
(* number of crashes, shutdowns and restarts, for every number of keys,    *)
(* levels, writes and calls.                                               *)
(***************************************************************************)
EXTENDS Recovery, EngineFilesProofs

-----------------------------------------------------------------------------
(* The lines of the manifest.                                              *)

ManifestLine ==
  {Torn} \cup {Line(tag, l, f) : tag \in {"add", "del"}, l \in Levels,
                                 f \in Files}

Parsable(lines) == \A i \in 1 .. Len(lines) : lines[i] # Torn

\* Numbering the members of a finite set by how many come before them.
LEMMA Placed ==
  ASSUME NEW S, IsFiniteSet(S), NEW R \in [S -> SUBSET S],
         \A a \in S : a \in R[a],
         \A a, b \in S : R[a] \subseteq R[b] \/ R[b] \subseteq R[a],
         \A a, b \in S : a \in R[b] /\ b \in R[a] => a = b
  PROVE  /\ Cardinality(S) \in Nat
         /\ \A a \in S : Cardinality(R[a]) \in 1 .. Cardinality(S)
         /\ \A i \in 1 .. Cardinality(S) : \E a \in S : Cardinality(R[a]) = i
<1> DEFINE n == Cardinality(S)
<1>1. n \in Nat
  BY FS_CardinalityType
<1>2. \A a \in S : Cardinality(R[a]) \in 1 .. n /\ IsFiniteSet(R[a])
  <2> SUFFICES ASSUME NEW a \in S
               PROVE  Cardinality(R[a]) \in 1 .. n /\ IsFiniteSet(R[a])
    OBVIOUS
  <2>1. IsFiniteSet(R[a]) /\ Cardinality(R[a]) <= n
    BY FS_Subset
  <2>2. Cardinality(R[a]) \in Nat
    BY <2>1, FS_CardinalityType
  <2>3. Cardinality(R[a]) # 0
    BY <2>1, FS_EmptySet
  <2> QED  BY <1>1, <2>1, <2>2, <2>3
<1> DEFINE P == [a \in S |-> Cardinality(R[a])]
<1>3. P \in Injection(S, 1 .. n)
  <2>1. P \in [S -> 1 .. n]
    BY <1>2
  <2>2. ASSUME NEW a \in S, NEW b \in S, P[a] = P[b]
        PROVE  a = b
    <3>1. Cardinality(R[a]) = Cardinality(R[b])
      BY <2>2
    <3>2. R[a] \subseteq R[b] => R[a] = R[b]
      BY <1>2, <3>1, FS_Subset
    <3>3. R[b] \subseteq R[a] => R[b] = R[a]
      BY <1>2, <3>1, FS_Subset
    <3> QED  BY <3>2, <3>3
  <2> QED  BY <2>1, <2>2 DEF Injection, IsInjective
<1>4. IsFiniteSet(1 .. n) /\ Cardinality(1 .. n) = n
  BY <1>1, FS_Interval
<1>5. P \in Surjection(S, 1 .. n)
  BY <1>3, <1>4, FS_Injection
<1>6. \A i \in 1 .. n : \E a \in S : P[a] = i
  BY <1>5 DEF Surjection
<1> QED  BY <1>1, <1>2, <1>6

LEMMA FilesFinite ==
  ASSUME TypeOK
  PROVE  /\ IsFiniteSet(Files) /\ Len(sst) \in Nat
         /\ \A f \in Files : f \in Nat /\ f # 0
         /\ \A F \in SUBSET Files : IsFiniteSet(F) /\ Cardinality(F) \in Nat
<1>1. Len(sst) \in Nat
  BY DEF TypeOK, TablesTypeOK
<1>2. IsFiniteSet(Files) /\ \A f \in Files : f \in Nat /\ f # 0
  BY <1>1, FS_Interval DEF Files
<1> QED  BY <1>1, <1>2, FS_Subset, FS_CardinalityType

LEMMA LineTypes ==
  ASSUME TypeOK, NEW tag \in {"add", "del"}, NEW l \in Levels, NEW f \in Files
  PROVE  Line(tag, l, f) \in ManifestLine /\ Line(tag, l, f) # Torn
BY FilesFinite DEF ManifestLine, Line, Torn

\* A line for each file.
LEMMA LinesAre ==
  ASSUME TypeOK, NEW F \in SUBSET Files, NEW tag \in {"add", "del"},
         NEW l \in Levels
  PROVE  /\ Lines(tag, l, F) \in Seq(ManifestLine)
         /\ \A i \in 1 .. Len(Lines(tag, l, F)) :
              \E f \in F : Lines(tag, l, F)[i] = Line(tag, l, f)
         /\ \A f \in F : \E i \in 1 .. Len(Lines(tag, l, F)) :
              Lines(tag, l, F)[i] = Line(tag, l, f)
         /\ Parsable(Lines(tag, l, F))
<1> DEFINE R == [f \in F |-> {g \in F : g <= f}]
<1> DEFINE n == Cardinality(F)
<1> DEFINE Nth(i) == CHOOSE f \in F : Cardinality({g \in F : g <= f}) = i
<1>1. IsFiniteSet(F) /\ n \in Nat /\ \A f \in F : f \in Nat
  BY FilesFinite
<1>2. /\ R \in [F -> SUBSET F] /\ \A a \in F : a \in R[a]
      /\ \A a, b \in F : R[a] \subseteq R[b] \/ R[b] \subseteq R[a]
      /\ \A a, b \in F : a \in R[b] /\ b \in R[a] => a = b
  <2>1. \A a, b \in F : a <= b => R[a] \subseteq R[b]
    BY <1>1
  <2>2. \A a, b \in F : a \in R[b] => a <= b
    OBVIOUS
  <2> QED  BY <1>1, <2>1, <2>2
<1>3. /\ \A a \in F : Cardinality(R[a]) \in 1 .. n
      /\ \A i \in 1 .. n : \E a \in F : Cardinality(R[a]) = i
  <2> HIDE DEF R
  <2> QED  BY <1>1, <1>2, Placed
<1>4. \A i \in 1 .. n : Nth(i) \in F
  BY <1>3
<1>5. \A f \in F : \E i \in 1 .. n : Nth(i) = f
  <2> SUFFICES ASSUME NEW f \in F PROVE \E i \in 1 .. n : Nth(i) = f
    OBVIOUS
  <2>1. PICK i \in 1 .. n : i = Cardinality(R[f])
    BY <1>3
  <2>2. PICK g : g = Nth(i)
    OBVIOUS
  <2>3. g \in F /\ Cardinality(R[g]) = i
    BY <1>3, <2>2
  <2>4. IsFiniteSet(R[f]) /\ IsFiniteSet(R[g])
    <3> HIDE DEF R
    <3> QED  BY <1>1, <1>2, <2>3, FS_Subset
  <2>5. R[f] = R[g]
    <3> HIDE DEF R
    <3> QED  BY <1>2, <2>1, <2>3, <2>4, FS_Subset
  <2>6. g = f
    <3> HIDE DEF R
    <3> QED  BY <1>2, <2>3, <2>5
  <2> QED  BY <2>2, <2>6
<1>6. Lines(tag, l, F) = [i \in 1 .. n |-> Line(tag, l, Nth(i))]
  BY DEF Lines
<1> HIDE DEF Nth, R, n
<1>7. Len(Lines(tag, l, F)) = n
      /\ \A i \in 1 .. n : Lines(tag, l, F)[i] = Line(tag, l, Nth(i))
  BY <1>1, <1>6 DEF n
<1>8. \A i \in 1 .. n : Line(tag, l, Nth(i)) \in ManifestLine
                         /\ Line(tag, l, Nth(i)) # Torn
  BY <1>4, LineTypes
<1>9. Lines(tag, l, F) \in Seq(ManifestLine)
  BY <1>1, <1>6, <1>8 DEF n
<1> QED  BY <1>4, <1>5, <1>7, <1>8, <1>9 DEF Parsable

\* A line for each file of a version.
LEMMA SnapshotIs ==
  ASSUME TypeOK, NEW files \in LevelFiles
  PROVE  /\ Snapshot(files) \in Seq(ManifestLine)
         /\ \A i \in 1 .. Len(Snapshot(files)) :
              \E l \in Levels, f \in Files :
                f \in files[l] /\ Snapshot(files)[i] = Line("add", l, f)
         /\ \A l \in Levels, f \in Files :
              f \in files[l] => \E i \in 1 .. Len(Snapshot(files)) :
                                  Snapshot(files)[i] = Line("add", l, f)
         /\ Parsable(Snapshot(files))
<1> DEFINE A == {a \in Levels \X Files : a[2] \in files[a[1]]}
<1> DEFINE R == [a \in A |-> {b \in A : b[1] < a[1]
                                         \/ (b[1] = a[1] /\ b[2] <= a[2])}]
<1> DEFINE n == Cardinality(A)
<1> DEFINE Nth(i) ==
      CHOOSE x \in A : Cardinality({b \in A : b[1] < x[1]
                               \/ (b[1] = x[1] /\ b[2] <= x[2])}) = i
<1>1. IsFiniteSet(A) /\ n \in Nat
  <2>1. IsFiniteSet(Levels)
    BY FS_Interval, LimitsAssumption DEF Levels
  <2>2. IsFiniteSet(Levels \X Files)
    BY <2>1, FilesFinite, FS_Product
  <2> QED  BY <2>2, FS_Subset, FS_CardinalityType
<1>2. /\ R \in [A -> SUBSET A] /\ \A a \in A : a \in R[a]
      /\ \A a, b \in A : R[a] \subseteq R[b] \/ R[b] \subseteq R[a]
      /\ \A a, b \in A : a \in R[b] /\ b \in R[a] => a = b
  <2>1. \A a \in A : a[1] \in Nat /\ a[2] \in Nat /\ a = <<a[1], a[2]>>
    BY FilesFinite, LimitsAssumption DEF Levels
  <2>2. \A a, b \in A : a \in R[b] <=>
           a[1] < b[1] \/ (a[1] = b[1] /\ a[2] <= b[2])
    OBVIOUS
  <2>3. R \in [A -> SUBSET A] /\ \A a \in A : R[a] \subseteq A
    OBVIOUS
  <2> HIDE DEF A, R
  <2>4. \A a, b \in A : a \in R[b] => R[a] \subseteq R[b]
    BY <2>1, <2>2, <2>3
  <2>5. \A a, b \in A : a \in R[b] \/ b \in R[a]
    BY <2>1, <2>2
  <2>6. \A a, b \in A : a \in R[b] /\ b \in R[a]
                          => a[1] = b[1] /\ a[2] = b[2]
    BY <2>1, <2>2
  <2> QED  BY <2>1, <2>3, <2>4, <2>5, <2>6
<1>3. /\ \A a \in A : Cardinality(R[a]) \in 1 .. n
      /\ \A i \in 1 .. n : \E a \in A : Cardinality(R[a]) = i
  <2> HIDE DEF R, A
  <2> QED  BY <1>1, <1>2, Placed
<1>4. \A i \in 1 .. n : Nth(i) \in A
  BY <1>3
<1>5. \A a \in A : \E i \in 1 .. n : Nth(i) = a
  <2> SUFFICES ASSUME NEW a \in A PROVE \E i \in 1 .. n : Nth(i) = a
    OBVIOUS
  <2>1. PICK i \in 1 .. n : i = Cardinality(R[a])
    BY <1>3
  <2>2. PICK b : b = Nth(i)
    OBVIOUS
  <2>3. b \in A /\ Cardinality(R[b]) = i
    BY <1>3, <2>2
  <2> HIDE DEF R, A, Nth
  <2>4. IsFiniteSet(R[a]) /\ IsFiniteSet(R[b])
    BY <1>1, <1>2, <2>3, FS_Subset
  <2>5. R[a] = R[b]
    BY <1>2, <2>1, <2>3, <2>4, FS_Subset
  <2>6. a = b
    BY <1>2, <2>3, <2>5
  <2> QED  BY <2>2, <2>6
<1>6. Snapshot(files) =
        [i \in 1 .. n |-> Line("add", Nth(i)[1], Nth(i)[2])]
  BY DEF Snapshot
<1>7. /\ \A a \in A : /\ a[1] \in Levels /\ a[2] \in Files
                      /\ a[2] \in files[a[1]]
      /\ \A l \in Levels, f \in Files : f \in files[l] => <<l, f>> \in A
  OBVIOUS
<1> HIDE DEF Nth, R, A, n
<1>8. Len(Snapshot(files)) = n
      /\ \A i \in 1 .. n :
           Snapshot(files)[i] = Line("add", Nth(i)[1], Nth(i)[2])
  BY <1>1, <1>6
<1>9. \A i \in 1 .. n :
        /\ Line("add", Nth(i)[1], Nth(i)[2]) \in ManifestLine
        /\ Line("add", Nth(i)[1], Nth(i)[2]) # Torn
  BY <1>4, <1>7, LineTypes
<1>10. Snapshot(files) \in Seq(ManifestLine)
  BY <1>1, <1>6, <1>9
<1>11. \A l \in Levels, f \in Files : f \in files[l] =>
         \E i \in 1 .. n : Snapshot(files)[i] = Line("add", l, f)
  <2> SUFFICES ASSUME NEW l \in Levels, NEW f \in Files, f \in files[l]
               PROVE  \E i \in 1 .. n : Snapshot(files)[i] = Line("add", l, f)
    OBVIOUS
  <2>1. PICK i \in 1 .. n : Nth(i) = <<l, f>>
    BY <1>5, <1>7
  <2> QED  BY <1>8, <2>1
<1> QED  BY <1>4, <1>7, <1>8, <1>9, <1>10, <1>11 DEF Parsable

-----------------------------------------------------------------------------
(* The version that lines list.                                            *)

\* The last word on file f of level l is that it was added.
Adds(lines, l, f) ==
  \E i \in 1 .. Len(lines) :
    /\ lines[i] = Line("add", l, f)
    /\ \A j \in 1 .. Len(lines) : j > i => lines[j] # Line("del", l, f)

Deletes(lines, l, f) == \E i \in 1 .. Len(lines) : lines[i] = Line("del", l, f)

LEMMA ListedIs ==
  ASSUME TypeOK, NEW lines \in Seq(ManifestLine), Parsable(lines)
  PROVE  /\ Listed(lines) \in LevelFiles
         /\ \A l \in Levels, f \in Files :
              f \in Listed(lines)[l] <=> Adds(lines, l, f)
<1> DEFINE parsed ==
      {i \in 1 .. Len(lines) : \A j \in 1 .. i : lines[j].tag # "torn"}
<1>1. Len(lines) \in Nat /\ \A i \in 1 .. Len(lines) : lines[i].tag # "torn"
  BY DEF Parsable, ManifestLine, Line
<1>2. parsed = 1 .. Len(lines)
  BY <1>1
<1>3. Listed(lines) =
        [l \in Levels |->
           {f \in Files : \E i \in parsed :
              /\ lines[i] = Line("add", l, f)
              /\ \A j \in parsed : j > i => lines[j] # Line("del", l, f)}]
  BY DEF Listed
<1> HIDE DEF parsed
<1>4. Listed(lines) = [l \in Levels |-> {f \in Files : Adds(lines, l, f)}]
  BY <1>2, <1>3 DEF Adds
<1> QED  BY <1>4 DEF LevelFiles, FileNumbers

\* What further lines change.
LEMMA ListedMore ==
  ASSUME TypeOK, NEW m \in Seq(ManifestLine), NEW x \in Seq(ManifestLine),
         Parsable(m), Parsable(x)
  PROVE  /\ m \o x \in Seq(ManifestLine) /\ Parsable(m \o x)
         /\ \A l \in Levels, f \in Files :
              f \in Listed(m \o x)[l] <=>
                \/ Adds(x, l, f)
                \/ f \in Listed(m)[l] /\ ~Deletes(x, l, f)
<1>1. /\ m \o x \in Seq(ManifestLine)
      /\ Len(m) \in Nat /\ Len(x) \in Nat
      /\ Len(m \o x) = Len(m) + Len(x)
      /\ \A i \in 1 .. Len(m) : (m \o x)[i] = m[i]
      /\ \A i \in 1 .. Len(x) : (m \o x)[Len(m) + i] = x[i]
      /\ \A i \in 1 .. Len(m) + Len(x) : i <= Len(m)
           \/ \E j \in 1 .. Len(x) : i = Len(m) + j
  <2>1. Len(m) \in Nat /\ Len(x) \in Nat
    OBVIOUS
  <2>2. \A i \in 1 .. Len(m) + Len(x) : i > Len(m) =>
          i - Len(m) \in 1 .. Len(x) /\ i = Len(m) + (i - Len(m))
    BY <2>1
  <2>3. ASSUME NEW i \in 1 .. Len(m) + Len(x), ~(i <= Len(m))
        PROVE  \E j \in 1 .. Len(x) : i = Len(m) + j
    <3>1. i - Len(m) \in 1 .. Len(x) /\ i = Len(m) + (i - Len(m))
      BY <2>1, <2>2, <2>3
    <3> QED  BY <3>1, Zenon
  <2>4. /\ m \o x \in Seq(ManifestLine)
        /\ Len(m \o x) = Len(m) + Len(x)
        /\ \A i \in 1 .. Len(m) + Len(x) : (m \o x)[i] =
              IF i <= Len(m) THEN m[i] ELSE x[i - Len(m)]
    BY ConcatProperties
  <2>5. \A i \in 1 .. Len(m) : (m \o x)[i] = m[i]
    BY <2>1, <2>4
  <2>6. ASSUME NEW i \in 1 .. Len(x) PROVE (m \o x)[Len(m) + i] = x[i]
    <3>1. /\ Len(m) + i \in 1 .. Len(m) + Len(x) /\ ~(Len(m) + i <= Len(m))
          /\ Len(m) + i - Len(m) = i
      BY <2>1
    <3> QED  BY <2>4, <3>1
  <2> QED  BY <2>1, <2>3, <2>4, <2>5, <2>6
<1>2. Parsable(m \o x)
  <2> SUFFICES ASSUME NEW i \in 1 .. Len(m) + Len(x)
               PROVE  (m \o x)[i] # Torn
    BY <1>1 DEF Parsable
  <2>1. CASE i <= Len(m)
    BY <1>1, <2>1 DEF Parsable
  <2>2. CASE \E j \in 1 .. Len(x) : i = Len(m) + j
    BY <1>1, <2>2 DEF Parsable
  <2> QED  BY <1>1, <2>1, <2>2
<1>3. ASSUME NEW l \in Levels, NEW f \in Files
      PROVE  Adds(m \o x, l, f) <=>
               \/ Adds(x, l, f)
               \/ Adds(m, l, f) /\ ~Deletes(x, l, f)
  <2> DEFINE a == Line("add", l, f)
  <2> DEFINE d == Line("del", l, f)
  <2>1. ASSUME Adds(m \o x, l, f)
        PROVE  \/ Adds(x, l, f)
               \/ Adds(m, l, f) /\ ~Deletes(x, l, f)
    <3>1. PICK i \in 1 .. Len(m) + Len(x) :
            /\ (m \o x)[i] = a
            /\ \A j \in 1 .. Len(m) + Len(x) : j > i => (m \o x)[j] # d
      BY <1>1, <2>1 DEF Adds
    <3>2. CASE i <= Len(m)
      <4>1. m[i] = a
        BY <1>1, <3>1, <3>2
      <4>2. \A j \in 1 .. Len(m) : j > i => m[j] # d
        BY <1>1, <3>1, <3>2
      <4>3. \A j \in 1 .. Len(x) :
              Len(m) + j \in 1 .. Len(m) + Len(x) /\ Len(m) + j > i
        BY <1>1, <3>2
      <4>4. \A j \in 1 .. Len(x) : x[j] # d
        BY <1>1, <3>1, <4>3
      <4> QED  BY <1>1, <3>2, <4>1, <4>2, <4>4 DEF Adds, Deletes
    <3>3. CASE \E j \in 1 .. Len(x) : i = Len(m) + j
      <4>1. PICK k \in 1 .. Len(x) : i = Len(m) + k
        BY <3>3
      <4>2. x[k] = a
        BY <1>1, <3>1, <4>1
      <4>3. \A j \in 1 .. Len(x) : j > k =>
              Len(m) + j \in 1 .. Len(m) + Len(x) /\ Len(m) + j > i
        BY <1>1, <4>1
      <4>4. \A j \in 1 .. Len(x) : j > k => x[j] # d
        BY <1>1, <3>1, <4>3
      <4> HIDE DEF a, d
      <4>5. \E i1 \in 1 .. Len(x) :
              x[i1] = a /\ \A j \in 1 .. Len(x) : j > i1 => x[j] # d
        BY <4>2, <4>4
      <4> QED  BY <4>5 DEF Adds, a, d
    <3> QED  BY <1>1, <3>2, <3>3
  <2>2. ASSUME Adds(x, l, f) PROVE Adds(m \o x, l, f)
    <3>1. PICK k \in 1 .. Len(x) :
            /\ x[k] = a /\ \A j \in 1 .. Len(x) : j > k => x[j] # d
      BY <2>2 DEF Adds
    <3>2. Len(m) + k \in 1 .. Len(m) + Len(x) /\ (m \o x)[Len(m) + k] = a
      BY <1>1, <3>1
    <3>3. \A j \in 1 .. Len(m) + Len(x) : j > Len(m) + k => (m \o x)[j] # d
      <4> SUFFICES ASSUME NEW j \in 1 .. Len(m) + Len(x), j > Len(m) + k
                   PROVE  (m \o x)[j] # d
        OBVIOUS
      <4>1. PICK i \in 1 .. Len(x) : j = Len(m) + i
        BY <1>1
      <4>2. i > k
        BY <1>1, <4>1
      <4> QED  BY <1>1, <3>1, <4>1, <4>2
    <3> QED  BY <1>1, <3>2, <3>3 DEF Adds
  <2>3. ASSUME Adds(m, l, f), ~Deletes(x, l, f) PROVE Adds(m \o x, l, f)
    <3>1. PICK i \in 1 .. Len(m) :
            /\ m[i] = a /\ \A j \in 1 .. Len(m) : j > i => m[j] # d
      BY <2>3 DEF Adds
    <3>2. i \in 1 .. Len(m) + Len(x) /\ (m \o x)[i] = a
      BY <1>1, <3>1
    <3>3. \A j \in 1 .. Len(m) + Len(x) : j > i => (m \o x)[j] # d
      <4> SUFFICES ASSUME NEW j \in 1 .. Len(m) + Len(x), j > i
                   PROVE  (m \o x)[j] # d
        OBVIOUS
      <4>1. CASE j <= Len(m)
        BY <1>1, <3>1, <4>1
      <4>2. CASE \E k \in 1 .. Len(x) : j = Len(m) + k
        BY <1>1, <2>3, <4>2 DEF Deletes
      <4> QED  BY <1>1, <4>1, <4>2
    <3> QED  BY <1>1, <3>2, <3>3 DEF Adds
  <2> QED  BY <2>1, <2>2, <2>3
<1>4. \A l \in Levels, f \in Files :
        f \in Listed(m \o x)[l] <=> Adds(m \o x, l, f)
  BY <1>1, <1>2, ListedIs
<1>5. \A l \in Levels, f \in Files :
        f \in Listed(m)[l] <=> Adds(m, l, f)
  BY ListedIs
<1>6. \A l \in Levels, f \in Files :
        f \in Listed(m \o x)[l] <=>
          \/ Adds(x, l, f)
          \/ f \in Listed(m)[l] /\ ~Deletes(x, l, f)
  BY <1>3, <1>4, <1>5, Zenon
<1> QED  BY <1>1, <1>2, <1>6

LEMMA LinesAdd ==
  ASSUME TypeOK, NEW F \in SUBSET Files, NEW i \in Levels,
         NEW l \in Levels, NEW f \in Files
  PROVE  /\ Adds(Lines("add", i, F), l, f) <=> l = i /\ f \in F
         /\ ~Deletes(Lines("add", i, F), l, f)
         /\ ~Adds(Lines("del", i, F), l, f)
         /\ Deletes(Lines("del", i, F), l, f) <=> l = i /\ f \in F
<1>1. \A g, h, j, k : Line("add", j, g) # Line("del", k, h)
  BY DEF Line
<1>2. \A tag, g, h, j, k :
        Line(tag, j, g) = Line(tag, k, h) <=> j = k /\ g = h
  BY DEF Line
<1>3. /\ \A k \in 1 .. Len(Lines("add", i, F)) :
           \E g \in F : Lines("add", i, F)[k] = Line("add", i, g)
      /\ \A g \in F : \E k \in 1 .. Len(Lines("add", i, F)) :
           Lines("add", i, F)[k] = Line("add", i, g)
  BY LinesAre, Zenon
<1>4. /\ \A k \in 1 .. Len(Lines("del", i, F)) :
           \E g \in F : Lines("del", i, F)[k] = Line("del", i, g)
      /\ \A g \in F : \E k \in 1 .. Len(Lines("del", i, F)) :
           Lines("del", i, F)[k] = Line("del", i, g)
  BY LinesAre, Zenon
<1>5. ~Deletes(Lines("add", i, F), l, f)
  BY <1>1, <1>3 DEF Deletes
<1>9. ~Adds(Lines("del", i, F), l, f)
  <2>1. \A k \in 1 .. Len(Lines("del", i, F)) :
          Lines("del", i, F)[k] # Line("add", l, f)
    BY <1>1, <1>4
  <2> QED  BY <2>1, Zenon DEF Adds
<1>6. Deletes(Lines("del", i, F), l, f) <=> l = i /\ f \in F
  BY <1>2, <1>4 DEF Deletes
<1>7. Adds(Lines("add", i, F), l, f) => l = i /\ f \in F
  BY <1>2, <1>3 DEF Adds
<1>8. l = i /\ f \in F => Adds(Lines("add", i, F), l, f)
  BY <1>1, <1>3 DEF Adds
<1> QED  BY <1>5, <1>6, <1>7, <1>8, <1>9

\* The edit of a flush.
LEMMA ListedFlush ==
  ASSUME TypeOK, NEW m \in Seq(ManifestLine), Parsable(m), NEW f \in Files
  PROVE  /\ Append(m, Line("add", 0, f)) \in Seq(ManifestLine)
         /\ Parsable(Append(m, Line("add", 0, f)))
         /\ Listed(Append(m, Line("add", 0, f)))
              = [Listed(m) EXCEPT ![0] = @ \cup {f}]
<1> DEFINE a == Line("add", 0, f)
<1>1. 0 \in Levels /\ a \in ManifestLine /\ a # Torn
  BY NamedFiles, LineTypes
<1> DEFINE x == <<a>>
<1>2. Append(m, a) = m \o x /\ x \in Seq(ManifestLine) /\ Parsable(x)
  BY <1>1, AppendIsConcat DEF Parsable
<1>3. \A l \in Levels, g \in Files :
        /\ Adds(x, l, g) <=> l = 0 /\ g = f
        /\ ~Deletes(x, l, g)
  BY DEF Adds, Deletes, Line
<1>4. Listed(m) \in LevelFiles
  BY ListedIs
<1> HIDE DEF a, x
<1>5. /\ m \o x \in Seq(ManifestLine) /\ Parsable(m \o x)
      /\ \A l \in Levels, g \in Files :
           g \in Listed(m \o x)[l] <=>
             \/ Adds(x, l, g)
             \/ g \in Listed(m)[l] /\ ~Deletes(x, l, g)
  BY <1>2, ListedMore
<1>6. Listed(m \o x) \in LevelFiles
  BY <1>5, ListedIs
<1>7. Listed(m \o x) = [Listed(m) EXCEPT ![0] = @ \cup {f}]
  <2>1. \A l \in Levels, g \in Files :
          g \in Listed(m \o x)[l] <=>
            (l = 0 /\ g = f) \/ g \in Listed(m)[l]
    BY <1>3, <1>5
  <2>2. \A l \in Levels : Listed(m \o x)[l] =
          [Listed(m) EXCEPT ![0] = @ \cup {f}][l]
    BY <1>1, <1>4, <1>6, <2>1 DEF LevelFiles, FileNumbers
  <2> QED  BY <1>4, <1>6, <2>2 DEF LevelFiles
<1> QED  BY <1>2, <1>5, <1>7 DEF a

LEMMA Reassociated ==
  \A m, a, b \in Seq(ManifestLine) : (m \o a) \o b = m \o (a \o b)
BY ConcatAssociative

\* The edit of a compaction.
LEMMA ListedEdit ==
  ASSUME TypeOK, NEW m \in Seq(ManifestLine), Parsable(m),
         NEW upper \in SUBSET Files, NEW lower \in SUBSET Files,
         NEW out \in SUBSET Files,
         NEW level \in Levels, level + 1 \in Levels
  PROVE  /\ m \o EditLines(upper, lower, level, out) \in Seq(ManifestLine)
         /\ Parsable(m \o EditLines(upper, lower, level, out))
         /\ Listed(m \o EditLines(upper, lower, level, out))
              = Edited(Listed(m), upper, lower, level, out)
<1> DEFINE a == Lines("del", level + 1, lower)
<1> DEFINE b == Lines("del", level, upper)
<1> DEFINE c == Lines("add", level + 1, out)
<1>1. /\ a \in Seq(ManifestLine) /\ b \in Seq(ManifestLine)
      /\ c \in Seq(ManifestLine)
      /\ Parsable(a) /\ Parsable(b) /\ Parsable(c)
  BY LinesAre, Zenon
<1>2. \A l \in Levels, f \in Files :
        /\ ~Adds(a, l, f) /\ (Deletes(a, l, f) <=> l = level + 1 /\ f \in lower)
        /\ ~Adds(b, l, f) /\ (Deletes(b, l, f) <=> l = level /\ f \in upper)
        /\ ~Deletes(c, l, f) /\ (Adds(c, l, f) <=> l = level + 1 /\ f \in out)
  BY LinesAdd, Zenon
<1> HIDE DEF a, b, c
<1>3. EditLines(upper, lower, level, out) = (a \o b) \o c
  BY DEF EditLines, a, b, c
<1>4. m \o ((a \o b) \o c) = ((m \o a) \o b) \o c
  <2>1. a \o b \in Seq(ManifestLine) /\ m \o a \in Seq(ManifestLine)
    BY <1>1, ConcatProperties
  <2>2. m \o ((a \o b) \o c) = (m \o (a \o b)) \o c
    BY <1>1, <2>1, Reassociated
  <2>3. m \o (a \o b) = (m \o a) \o b
    BY <1>1, Reassociated
  <2> QED  BY <2>2, <2>3
<1>5. /\ m \o a \in Seq(ManifestLine) /\ Parsable(m \o a)
      /\ \A l \in Levels, f \in Files :
           f \in Listed(m \o a)[l] <=>
             f \in Listed(m)[l] /\ ~(l = level + 1 /\ f \in lower)
  BY <1>1, <1>2, ListedMore
<1>6. PICK n : n = m \o a
  OBVIOUS
<1>7. /\ n \o b \in Seq(ManifestLine) /\ Parsable(n \o b)
      /\ \A l \in Levels, f \in Files :
           f \in Listed(n \o b)[l] <=>
             f \in Listed(n)[l] /\ ~(l = level /\ f \in upper)
  BY <1>1, <1>2, <1>5, <1>6, ListedMore
<1>8. PICK o : o = n \o b
  OBVIOUS
<1>9. /\ o \o c \in Seq(ManifestLine) /\ Parsable(o \o c)
      /\ \A l \in Levels, f \in Files :
           f \in Listed(o \o c)[l] <=>
             (l = level + 1 /\ f \in out) \/ f \in Listed(o)[l]
  BY <1>1, <1>2, <1>7, <1>8, ListedMore
<1>10. /\ \A l \in Levels : /\ Listed(m)[l] \subseteq Files
                            /\ Listed(o \o c)[l] \subseteq Files
       /\ Listed(m) \in LevelFiles /\ Listed(o \o c) \in LevelFiles
  BY <1>9, ListedIs DEF LevelFiles, FileNumbers
<1>11. level # level + 1
  BY DEF Levels
<1>12. \A l \in Levels, f \in Files :
         f \in Listed(o \o c)[l] <=>
           \/ l = level /\ f \in Listed(m)[l] \ upper
           \/ l = level + 1 /\ f \in (Listed(m)[l] \ lower) \cup out
           \/ l # level /\ l # level + 1 /\ f \in Listed(m)[l]
  BY <1>5, <1>6, <1>7, <1>8, <1>9, <1>11
<1> DEFINE new == [Listed(m) EXCEPT ![level] = @ \ upper,
                                    ![level + 1] = (@ \ lower) \cup out]
<1>13. /\ DOMAIN new = Levels
       /\ \A l \in Levels : new[l] =
            IF l = level THEN Listed(m)[l] \ upper
            ELSE IF l = level + 1 THEN (Listed(m)[l] \ lower) \cup out
            ELSE Listed(m)[l]
  <2>1. Listed(m) \in [Levels -> SUBSET Files]
    BY <1>10 DEF LevelFiles, FileNumbers
  <2> QED  BY <1>11, <2>1
<1>14. /\ new \in [Levels -> SUBSET Files]
       /\ Listed(o \o c) \in [Levels -> SUBSET Files]
  <2>1. \A l \in Levels : new[l] \in SUBSET Files
    BY <1>10, <1>13
  <2>2. new = [l \in Levels |-> new[l]]
    BY <1>13
  <2> HIDE DEF new
  <2> QED  BY <1>10, <2>1, <2>2 DEF LevelFiles, FileNumbers
<1> HIDE DEF new
<1>15. \A l \in Levels : Listed(o \o c)[l] = new[l]
  <2>1. \A l \in Levels, f \in Files :
          f \in Listed(o \o c)[l] <=> f \in new[l]
    BY <1>11, <1>12, <1>13
  <2>2. \A l \in Levels : /\ Listed(o \o c)[l] \subseteq Files
                           /\ new[l] \subseteq Files
    BY <1>14
  <2> QED  BY <2>1, <2>2
<1>16. Listed(o \o c) = new
  BY <1>14, <1>15
<1> QED  BY <1>3, <1>4, <1>6, <1>8, <1>9, <1>16 DEF new, Edited

-----------------------------------------------------------------------------
(* The inductive invariant.                                                *)

\* What the WAL holds and no memtable yet.
Logged ==
  LET w == CHOOSE x \in Writers : TRUE
  IN IF writer[w].pc \in {"apply", "applied"} THEN writer[w].ops ELSE <<>>

WalRecord == [op : Op, at : Nat \ {0}]

DiskTypeOK ==
  /\ wal \in Seq(WalRecord) /\ manifest \in Seq(ManifestLine)
  /\ up \in BOOLEAN /\ torn \in BOOLEAN

\* The replay of a record finds the write it belongs to.
WalInv == \A i \in 1 .. Len(wal) : wal[i].at <= Len(log) + Len(Logged)

\* Nothing in memory outlives the process.
DownInv ==
  ~up => /\ live = NoFiles /\ Condemned = {} /\ job = NoJob
         /\ flush = [pc |-> "idle", table |-> 0, file |-> 0] /\ imm = 0
         /\ \A w \in Writers : writer[w] = [pc |-> "idle", ops |-> <<>>]

\* The manifest lists files that exist, each in one level.
ListedInv ==
  /\ \A l \in Levels : Listed(manifest)[l] \subseteq disk
  /\ \A l, i \in Levels :
       l # i => Listed(manifest)[l] \cap Listed(manifest)[i] = {}

\* While the engine is up the files are as in TsdbEngine, but OwnerInv and
\* the rest hold of what a restart makes of the manifest.
DiskInv ==
  /\ Readable \/ torn
  /\ torn \/ IF up THEN FilesInv ELSE ListedInv

RecoveryInv ==
  TypeOK /\ DiskTypeOK /\ WalInv /\ DownInv /\ ManifestMatchesVersion /\ DiskInv

-----------------------------------------------------------------------------
(* Type correctness across crashes and restarts.                           *)

\* One thread writes.
LEMMA TheWriter ==
  /\ \E w : Writers = {w} /\ (CHOOSE x \in Writers : TRUE) = w
  /\ \A w \in Writers : w = CHOOSE x \in Writers : TRUE
<1>1. PICK w \in Writers : Writers = {w}
  BY RecoveryAssumption
<1>2. (CHOOSE x \in Writers : TRUE) \in Writers
  BY <1>1
<1> QED  BY <1>1, <1>2

\* What the running engine does is a step of the pipeline.
LEMMA LiveSteps ==
  ASSUME \/ \E w \in Writers : LogCall(w) \/ Return(w)
         \/ Publish \/ Commit \/ InMemory
  PROVE  Next /\ up /\ up' = up /\ torn' = torn
<1>1. Next
  BY Zenon DEF LogCall, Return, Publish, Commit, InMemory, Next, Write,
               FlushThread, Compact
<1> QED  BY <1>1, Zenon DEF LogCall, Return, Publish, Commit, InMemory, Live,
                            diskVars

\* The operations that a crash adds to the history.
LEMMA UnappliedType ==
  ASSUME TypeOK
  PROVE  /\ Unapplied \in Seq(Op) /\ Logged \in Seq(Op)
         /\ Len(Logged) <= Len(Unapplied)
         /\ Len(Logged) \in Nat /\ Len(Unapplied) \in Nat
         /\ \A n \in 0 .. Len(Unapplied) :
              /\ SubSeq(Unapplied, 1, n) \in Seq(Op)
              /\ Len(SubSeq(Unapplied, 1, n)) = n
<1>1. PICK w \in Writers : w = CHOOSE x \in Writers : TRUE
  BY TheWriter
<1>2. writer[w].ops \in Seq(Op)
  <2>1. writer[w] \in WriterState
    BY DEF TypeOK, WritesTypeOK
  <2> QED  BY <2>1 DEF WriterState
<1>3. <<>> \in Seq(Op) /\ Len(<<>>) = 0
  OBVIOUS
<1>4. Unapplied = IF writer[w].pc \in {"append", "apply", "applied"}
                    THEN writer[w].ops ELSE <<>>
  BY <1>1 DEF Unapplied
<1>5. Logged = IF writer[w].pc \in {"apply", "applied"}
                 THEN writer[w].ops ELSE <<>>
  BY <1>1 DEF Logged
<1>6. Unapplied \in Seq(Op) /\ Logged \in Seq(Op)
  BY <1>2, <1>3, <1>4, <1>5
<1>7. Len(Logged) \in Nat /\ Len(Unapplied) \in Nat
  BY <1>6
<1>8. Len(Logged) <= Len(Unapplied)
  BY <1>3, <1>4, <1>5, <1>7
<1>9. \A n \in 0 .. Len(Unapplied) :
        /\ SubSeq(Unapplied, 1, n) \in Seq(Op)
        /\ Len(SubSeq(Unapplied, 1, n)) = n
  BY <1>6, <1>7
<1> QED  BY <1>6, <1>7, <1>8, <1>9

LEMMA StopType ==
  ASSUME TypeOK, NEW written \in Seq(Op), Stop(written), disk' \subseteq disk
  PROVE  TypeOK' /\ Len(log') = Len(log) + Len(written) /\ Files' = Files
<1>1. /\ log' = log \o written
      /\ heap' = <<Nothing>> /\ usage' = 0 /\ imm' = 0
      /\ flush' = [pc |-> "idle", table |-> 0, file |-> 0]
      /\ live' = NoFiles /\ readers' = {} /\ obsolete' = {}
      /\ pendingDelete' = {}
      /\ job' = NoJob /\ compactionPending' = FALSE /\ ttl' = NoTtl
      /\ lock' = NoThread
      /\ writer' = [w \in Writers |-> [pc |-> "idle", ops |-> <<>>]]
      /\ UNCHANGED <<issued, calls, faults, dropped, sst, view>>
  BY DEF Stop
<1>2. /\ log \in Seq(Op) /\ Len(log) \in Nat /\ Len(written) \in Nat
      /\ log' \in Seq(Op) /\ Len(log') = Len(log) + Len(written)
      /\ Len(log') \in Nat
  BY <1>1 DEF TypeOK, WritesTypeOK
<1>3. Content \subseteq Content' /\ 0 .. Len(log) \subseteq 0 .. Len(log')
  BY <1>2 DEF Content
<1>4. Nothing \in Content /\ Nothing \in Content' /\ NoTtl \in TtlMap
      /\ NoFiles \in LevelFiles /\ {} \in FileNumbers
  BY <1>2, <1>3, DefaultsType DEF FileNumbers
<1>5. Files' = Files /\ FileNumbers' = FileNumbers /\ LevelFiles' = LevelFiles
  BY <1>1 DEF Files, FileNumbers, LevelFiles
<1>6. WritesTypeOK'
  <2>1. [pc |-> "idle", ops |-> <<>>] \in WriterState
    BY DEF WriterState
  <2> QED  BY <1>1, <1>2, <1>3, <1>4, <2>1 DEF TypeOK, WritesTypeOK
<1>7. TablesTypeOK'
  <2>1. sst' \in Seq(Content')
    BY <1>1, <1>3 DEF TypeOK, TablesTypeOK
  <2>2. heap' \in Seq(Content') /\ heap' # <<>> /\ Len(heap') = 1
    BY <1>1, <1>4
  <2>3. flush' \in FlushState'
    BY <1>1, <2>2 DEF FlushState, TypeOK, TablesTypeOK
  <2> QED  BY <1>1, <2>1, <2>2, <2>3 DEF TablesTypeOK
<1>8. VersionTypeOK'
  BY <1>1, <1>4, <1>5 DEF TypeOK, VersionTypeOK, FileNumbers
<1>9. JobTypeOK'
  <2>1. job' = [pc |-> "none", background |-> FALSE, cleanup |-> FALSE,
                level |-> 0, upper |-> {}, lower |-> {}, ttl |-> NoTtl,
                merged |-> Nothing, left |-> {}, out |-> {}, lost |-> {}]
    BY <1>1 DEF NoJob
  <2>2. job' \in JobState'
    BY <1>4, <1>5, <2>1, LimitsAssumption DEF JobState
  <2> QED  BY <1>1, <2>2 DEF JobTypeOK
<1>10. ViewTypeOK'
  BY <1>1, RecoveryAssumption DEF TypeOK, ViewTypeOK
<1> QED  BY <1>2, <1>5, <1>6, <1>7, <1>8, <1>9, <1>10 DEF TypeOK

\* A finite set of integers has a greatest member.
LEMMA GreatestOfFinite ==
  ASSUME NEW T \in SUBSET Int, IsFiniteSet(T), T # {}
  PROVE  \E t \in T : \A u \in T : u <= t
<1> DEFINE R == [t \in T |-> {u \in T : u <= t}]
<1>1. /\ R \in [T -> SUBSET T] /\ \A a \in T : a \in R[a]
      /\ \A a, b \in T : R[a] \subseteq R[b] \/ R[b] \subseteq R[a]
      /\ \A a, b \in T : a \in R[b] /\ b \in R[a] => a = b
  <2>1. \A t \in T : t \in Int
    OBVIOUS
  <2>2. \A a, b \in T : a \in R[b] <=> a <= b
    OBVIOUS
  <2>3. R \in [T -> SUBSET T] /\ \A a \in T : R[a] \subseteq T
    OBVIOUS
  <2> HIDE DEF R
  <2>4. ASSUME NEW a \in T, NEW b \in T, a <= b, NEW u \in R[a]
        PROVE  u \in R[b]
    <3>1. u \in T /\ u <= a
      BY <2>2, <2>3, <2>4
    <3> QED  BY <2>1, <2>2, <2>4, <3>1
  <2>5. ASSUME NEW a \in T, NEW b \in T
        PROVE  R[a] \subseteq R[b] \/ R[b] \subseteq R[a]
    <3>1. a <= b => R[a] \subseteq R[b]
      BY <2>4
    <3>2. b <= a => R[b] \subseteq R[a]
      BY <2>4
    <3> QED  BY <2>1, <3>1, <3>2
  <2>6. \A a, b \in T : a \in R[b] /\ b \in R[a] => a = b
    BY <2>1, <2>2
  <2>7. \A a \in T : a \in R[a]
    BY <2>1, <2>2
  <2> QED  BY <2>3, <2>5, <2>6, <2>7
<1>2. \A t \in T : R[t] = {u \in T : u <= t}
  OBVIOUS
<1> HIDE DEF R
<1>3. /\ Cardinality(T) \in Nat
      /\ \A i \in 1 .. Cardinality(T) : \E a \in T : Cardinality(R[a]) = i
  BY <1>1, Placed
<1>4. Cardinality(T) # 0
  BY FS_EmptySet
<1>5. PICK t \in T : Cardinality(R[t]) = Cardinality(T)
  BY <1>3, <1>4
<1>6. R[t] = T
  BY <1>1, <1>5, FS_Subset
<1> QED  BY <1>2, <1>6

LEMMA ReplayType ==
  ASSUME TypeOK, DiskTypeOK, \A i \in 1 .. Len(wal) : wal[i].at <= Len(log)
  PROVE  ReplayedTable \in Content /\ ReplayedTtl \in TtlMap
<1> DEFINE W(k) == {i \in 1 .. Len(wal) : wal[i].op.key = k}
<1> DEFINE K == KeysHeld(ReplayedTable)
<1>1. /\ Len(wal) \in Nat /\ Len(log) \in Nat
      /\ \A i \in 1 .. Len(wal) : wal[i].at \in 1 .. Len(log)
  <2>1. Len(wal) \in Nat /\ \A i \in 1 .. Len(wal) : wal[i] \in WalRecord
    BY DEF DiskTypeOK
  <2>2. Len(log) \in Nat
    BY DEF TypeOK, WritesTypeOK
  <2> QED  BY <2>1, <2>2 DEF WalRecord
<1>2. \A k \in Key : W(k) # {} =>
        \E i \in W(k) : \A j \in W(k) : j <= i
  BY <1>1, MaxExists
<1>3. \A k \in Key : ReplayedTable[k] =
        IF W(k) = {} THEN 0
        ELSE wal[CHOOSE i \in W(k) : \A j \in W(k) : j <= i].at
  BY DEF ReplayedTable
<1>4. \A k \in Key : ReplayedTable[k] \in 0 .. Len(log)
  <2> SUFFICES ASSUME NEW k \in Key, W(k) # {}
               PROVE  ReplayedTable[k] \in 0 .. Len(log)
    BY <1>1, <1>3
  <2>1. PICK n : n = CHOOSE i \in W(k) : \A j \in W(k) : j <= i
    OBVIOUS
  <2>2. n \in W(k)
    BY <1>2, <2>1
  <2>3. n \in 1 .. Len(wal)
    BY <2>2
  <2> HIDE DEF W
  <2>4. ReplayedTable[k] = wal[n].at
    BY <1>3, <2>1
  <2> QED  BY <1>1, <2>3, <2>4
<1>5. ReplayedTable \in Content
  <2>1. ReplayedTable = [k \in Key |-> ReplayedTable[k]]
    BY DEF ReplayedTable
  <2> QED  BY <1>4, <2>1 DEF Content
<1>6. K \subseteq Key /\ \A k \in K : W(k) # {}
  BY <1>3 DEF KeysHeld
<1>7. IsFiniteSet(K)
  <2> DEFINE D == {i \in 1 .. Len(wal) : wal[i].op.key \in K}
  <2> DEFINE g == [i \in D |-> wal[i].op.key]
  <2>1. IsFiniteSet(D)
    <3>1. IsFiniteSet(1 .. Len(wal)) /\ D \subseteq 1 .. Len(wal)
      BY <1>1, FS_Interval
    <3> HIDE DEF D
    <3> QED  BY <3>1, FS_Subset
  <2>2. g \in [D -> K]
    OBVIOUS
  <2>3. \A k \in K : \E i \in D : g[i] = k
    <3> SUFFICES ASSUME NEW k \in K PROVE \E i \in D : g[i] = k
      OBVIOUS
    <3>1. PICK i \in W(k) : TRUE
      BY <1>6
    <3>2. i \in D /\ g[i] = k
      BY <3>1
    <3> QED  BY <3>2
  <2> HIDE DEF D, g, K
  <2>4. g \in Surjection(D, K)
    BY <2>2, <2>3 DEF Surjection
  <2> QED  BY <2>1, <2>4, FS_Surjection
<1>8. ASSUME NEW m \in Measurements
      PROVE  ReplayedTtl[m] \in TtlRule
  <2> DEFINE Km == {x \in K : x[1] = m}
  <2> DEFINE T == {k[2] : k \in Km}
  <2>1. IsFiniteSet(Km)
    BY <1>7, FS_Subset
  <2>2. T \subseteq Timestamps
    BY <1>6 DEF Key
  <2>3. IsFiniteSet(T)
    <3> DEFINE h == [k \in Km |-> k[2]]
    <3>1. h \in Surjection(Km, T)
      BY DEF Surjection
    <3> QED  BY <2>1, <3>1, FS_Surjection
  <2>4. T # {} => \E t \in T : \A u \in T : u <= t
    <3> HIDE DEF T
    <3> QED  BY <2>2, <2>3, GreatestOfFinite, KeysAssumption
  <2>5. ReplayedTtl[m] =
          [ttl |-> 0, latest |-> IF T = {} THEN MinTimestamp
                                 ELSE CHOOSE t \in T : \A u \in T : u <= t]
    BY DEF ReplayedTtl
  <2> HIDE DEF T
  <2>6. T # {} => (CHOOSE t \in T : \A u \in T : u <= t) \in Timestamps
    BY <2>2, <2>4
  <2> QED  BY <2>5, <2>6 DEF TtlRule
<1>9. ReplayedTtl = [m \in Measurements |-> ReplayedTtl[m]]
  BY DEF ReplayedTtl
<1>10. ReplayedTtl \in TtlMap
  BY <1>8, <1>9, Zenon DEF TtlMap
<1> QED  BY <1>5, <1>10

LEMMA LoadedType ==
  ASSUME TypeOK
  PROVE  LoadedFiles \in LevelFiles /\ Listed(manifest) \in LevelFiles
<1>1. Listed(manifest) \in LevelFiles
  BY DEF Listed, LevelFiles, FileNumbers
<1>2. [NoFiles EXCEPT ![0] = disk] \in LevelFiles
  BY NamedFiles DEF TypeOK, VersionTypeOK, NoFiles, LevelFiles, FileNumbers
<1> QED  BY <1>1, <1>2 DEF LoadedFiles

LEMMA RestartType ==
  ASSUME TypeOK, DiskTypeOK, WalInv, DownInv, Restart
  PROVE  TypeOK'
<1>1. /\ live' = LoadedFiles /\ disk' = disk \cap InLevels(LoadedFiles)
      /\ readers' = disk' /\ heap' = <<ReplayedTable>> /\ usage' = Len(wal)
      /\ ttl' = ReplayedTtl
      /\ UNCHANGED <<log, issued, calls, faults, dropped, imm, flush, sst>>
      /\ UNCHANGED <<obsolete, pendingDelete, jobVars, lock, writer, view>>
      /\ ~up
  BY DEF Restart
<1>2. Logged = <<>>
  BY <1>1, TheWriter DEF DownInv, Logged
<1>3. \A i \in 1 .. Len(wal) : wal[i].at <= Len(log)
  BY <1>2 DEF WalInv, TypeOK, WritesTypeOK
<1>4. ReplayedTable \in Content /\ ReplayedTtl \in TtlMap
  BY <1>3, ReplayType
<1>5. WritesTypeOK'
  BY <1>1, <1>4 DEF TypeOK, WritesTypeOK
<1>6. TablesTypeOK'
  <2>1. heap' \in Seq(Content) /\ heap' # <<>> /\ Len(heap') = 1
    BY <1>1, <1>4
  <2>2. flush' \in FlushState' /\ imm' = 0
    BY <1>1, <2>1 DEF DownInv, FlushState, TypeOK, TablesTypeOK
  <2>3. Content' = Content /\ usage' \in Nat
    BY <1>1 DEF Content, DiskTypeOK
  <2> QED  BY <1>1, <2>1, <2>2, <2>3 DEF TypeOK, TablesTypeOK
<1>7. VersionTypeOK'
  <2>1. LevelFiles' = LevelFiles /\ FileNumbers' = FileNumbers
    BY <1>1 DEF LevelFiles, FileNumbers, Files
  <2>2. disk' \in FileNumbers
    BY <1>1 DEF TypeOK, VersionTypeOK, FileNumbers
  <2> QED  BY <1>1, <2>1, <2>2, LoadedType DEF TypeOK, VersionTypeOK
<1>8. JobTypeOK'
  BY <1>1, JobKept DEF TypeOK
<1>9. ViewTypeOK'
  BY <1>1, RecoveryAssumption DEF TypeOK, ViewTypeOK
<1> QED  BY <1>5, <1>6, <1>7, <1>8, <1>9 DEF TypeOK

-----------------------------------------------------------------------------
(* The WAL.                                                                *)

LEMMA WalRecordsAre ==
  ASSUME TypeOK, DiskTypeOK, NEW ops \in Seq(Op)
  PROVE  LET w == wal \o WalRecords(ops)
         IN /\ w \in Seq(WalRecord)
            /\ \A i \in 1 .. Len(w) :
                 \/ i \in 1 .. Len(wal) /\ w[i] = wal[i]
                 \/ w[i].at <= Len(log) + Len(ops)
<1> DEFINE r == WalRecords(ops)
<1>1. Len(log) \in Nat /\ Len(ops) \in Nat /\ wal \in Seq(WalRecord)
      /\ Len(wal) \in Nat
  BY DEF TypeOK, WritesTypeOK, DiskTypeOK
<1>2. r = [i \in 1 .. Len(ops) |-> [op |-> ops[i], at |-> Len(log) + i]]
  BY DEF WalRecords
<1>3. \A i \in 1 .. Len(ops) :
        [op |-> ops[i], at |-> Len(log) + i] \in WalRecord
  BY <1>1 DEF WalRecord
<1>4. /\ r \in Seq(WalRecord) /\ Len(r) = Len(ops)
      /\ \A i \in 1 .. Len(ops) : r[i].at = Len(log) + i
  BY <1>1, <1>2, <1>3
<1> HIDE DEF r
<1>5. /\ wal \o r \in Seq(WalRecord) /\ Len(wal \o r) = Len(wal) + Len(r)
      /\ \A i \in 1 .. Len(wal) + Len(r) : (wal \o r)[i] =
           IF i <= Len(wal) THEN wal[i] ELSE r[i - Len(wal)]
  BY <1>1, <1>4, ConcatProperties
<1>6. ASSUME NEW i \in 1 .. Len(wal) + Len(ops), ~(i <= Len(wal))
      PROVE  (wal \o r)[i].at <= Len(log) + Len(ops)
  <2>1. i - Len(wal) \in 1 .. Len(ops)
    BY <1>1, <1>6
  <2>2. PICK j \in 1 .. Len(ops) : j = i - Len(wal)
    BY <2>1
  <2>3. (wal \o r)[i] = r[j]
    BY <1>4, <1>5, <1>6, <2>2
  <2>4. (wal \o r)[i].at = Len(log) + j
    BY <1>4, <2>3
  <2> QED  BY <1>1, <2>4
<1>7. \A i \in 1 .. Len(wal \o r) :
        \/ i \in 1 .. Len(wal) /\ (wal \o r)[i] = wal[i]
        \/ (wal \o r)[i].at <= Len(log) + Len(ops)
  <2> SUFFICES ASSUME NEW i \in 1 .. Len(wal) + Len(ops)
               PROVE  \/ i \in 1 .. Len(wal) /\ (wal \o r)[i] = wal[i]
                      \/ (wal \o r)[i].at <= Len(log) + Len(ops)
    BY <1>4, <1>5
  <2>1. CASE i <= Len(wal)
    BY <1>1, <1>4, <1>5, <2>1
  <2> QED  BY <1>6, <2>1
<1> QED  BY <1>5, <1>7 DEF r

\* A call that fails is not modelled.
LEMMA NoFaults ==
  ASSUME TypeOK PROVE ~Fail
BY RecoveryAssumption DEF Fail, TypeOK, WritesTypeOK

\* While the operations of a call move from the WAL to the memtable, the
\* history takes up what is left of them.
LEMMA LoggedKept ==
  ASSUME TypeOK, NEW w \in Writers,
         \/ \E ops \in Batches : Begin(w, ops)
         \/ MakeRoom(w) \/ WaitForRoom(w) \/ Apply(w)
  PROVE  Len(log') + Len(Logged') = Len(log) + Len(Logged)
<1>1. writer[w] \in WriterState /\ Len(log) \in Nat
      /\ writer \in [Writers -> WriterState] /\ log \in Seq(Op)
  BY DEF TypeOK, WritesTypeOK
<1>2. w = CHOOSE x \in Writers : TRUE
  BY TheWriter
<1>3. /\ Logged = IF writer[w].pc \in {"apply", "applied"}
                    THEN writer[w].ops ELSE <<>>
      /\ Logged' = IF writer'[w].pc \in {"apply", "applied"}
                     THEN writer'[w].ops ELSE <<>>
  <2>1. Logged = IF writer[w].pc \in {"apply", "applied"}
                   THEN writer[w].ops ELSE <<>>
    BY <1>2 DEF Logged
  <2> QED  BY <1>2, <2>1 DEF Logged
<1>4. CASE \E ops \in Batches : Begin(w, ops)
  <2>1. writer[w].pc = "idle" /\ writer'[w].pc = "begin" /\ log' = log
    BY <1>1, <1>4 DEF Begin
  <2> QED  BY <1>3, <2>1
<1>5. CASE MakeRoom(w)
  <2>1. CASE writer[w].ops = <<>>
    <3>1. writer'[w].pc = "idle" /\ log' = log
      BY <1>1, <1>5, <2>1 DEF MakeRoom, WriterState
    <3> QED  BY <1>3, <2>1, <3>1
  <2>2. CASE writer[w].ops # <<>>
    <3>1. /\ log' = log /\ writer'[w].ops = writer[w].ops
          /\ writer[w].pc \in {"begin", "applied"}
          /\ writer'[w].pc = IF writer[w].pc = "begin" THEN "append"
                             ELSE "apply"
      BY <1>1, <1>5, <2>2 DEF MakeRoom, WriterState
    <3> QED  BY <1>3, <3>1
  <2> QED  BY <2>1, <2>2
<1>6. CASE WaitForRoom(w)
  BY <1>3, <1>6 DEF WaitForRoom
<1>7. CASE Apply(w)
  <2>1. /\ writer[w].pc = "apply" /\ writer'[w].pc = "applied"
        /\ writer'[w].ops = Tail(writer[w].ops)
        /\ log' = Append(log, Head(writer[w].ops))
    BY <1>1, <1>7 DEF Apply, WriterState
  <2>2. writer[w].ops \in Seq(Op) /\ writer[w].ops # <<>>
    BY <1>1, <2>1 DEF WriterState
  <2>3. Len(Tail(writer[w].ops)) = Len(writer[w].ops) - 1
        /\ Len(writer[w].ops) \in Nat
    BY <2>2
  <2>4. Len(log') = Len(log) + 1
    BY <1>1, <2>1
  <2>5. Logged = writer[w].ops /\ Logged' = Tail(writer[w].ops)
    BY <1>3, <2>1
  <2>6. Len(Logged') = Len(writer[w].ops) - 1
    BY <2>3, <2>5
  <2>7. Len(Logged) = Len(writer[w].ops)
    BY <2>5
  <2>8. PICK m \in Nat, n \in Nat : m = Len(log) /\ n = Len(Logged)
    BY <1>1, <2>3, <2>7
  <2>9. Len(log') = m + 1 /\ Len(Logged') = n - 1
    BY <2>4, <2>6, <2>7, <2>8
  <2>10. (m + 1) + (n - 1) = m + n
    BY <2>8
  <2> QED  BY <2>8, <2>9, <2>10, Zenon
<1> QED  BY <1>4, <1>5, <1>6, <1>7

LEMMA LiveWal ==
  ASSUME TypeOK, DiskTypeOK, WalInv,
         \/ \E w \in Writers : LogCall(w) \/ Return(w)
         \/ Publish \/ Commit \/ InMemory
  PROVE  WalInv' /\ wal' \in Seq(WalRecord)
<1>1. Len(wal) \in Nat /\ wal \in Seq(WalRecord)
  BY DEF DiskTypeOK
<1>2. ASSUME wal' = wal, Len(log') + Len(Logged') = Len(log) + Len(Logged)
      PROVE  WalInv' /\ wal' \in Seq(WalRecord)
  BY <1>1, <1>2 DEF WalInv
<1>3. ASSUME UNCHANGED <<log, writer>>
      PROVE  Len(log') + Len(Logged') = Len(log) + Len(Logged)
  BY <1>3 DEF Logged
<1>4. ASSUME NEW w \in Writers, LogCall(w)
      PROVE  WalInv' /\ wal' \in Seq(WalRecord)
  <2> DEFINE ops == writer[w].ops
  <2>1. /\ wal' = wal \o WalRecords(ops) /\ log' = log
        /\ writer[w].pc = "append"
        /\ writer' = [writer EXCEPT ![w].pc = "apply"]
    BY <1>4, NoFaults DEF LogCall, AppendToWal
  <2>2. writer \in [Writers -> WriterState] /\ writer[w] \in WriterState
        /\ Len(log) \in Nat
    BY DEF TypeOK, WritesTypeOK
  <2>3. writer'[w].pc = "apply" /\ writer'[w].ops = ops /\ ops \in Seq(Op)
        /\ Len(ops) \in Nat
    BY <2>1, <2>2 DEF WriterState
  <2>4. w = CHOOSE x \in Writers : TRUE
    BY TheWriter
  <2>5. Logged = <<>>
    BY <2>1, <2>4 DEF Logged
  <2>6. Logged' = writer'[w].ops
    BY <2>3, <2>4 DEF Logged
  <2> HIDE DEF ops
  <2>7. /\ wal' \in Seq(WalRecord)
        /\ \A i \in 1 .. Len(wal') :
             \/ i \in 1 .. Len(wal) /\ wal'[i] = wal[i]
             \/ wal'[i].at <= Len(log) + Len(ops)
    BY <2>1, <2>3, WalRecordsAre
  <2>8. \A i \in 1 .. Len(wal) : wal[i].at <= Len(log) /\ wal[i].at \in Nat
    <3>1. \A i \in 1 .. Len(wal) : wal[i].at <= Len(log)
      BY <2>2, <2>5 DEF WalInv
    <3>2. \A i \in 1 .. Len(wal) : wal[i] \in WalRecord
      BY <1>1
    <3> QED  BY <3>1, <3>2 DEF WalRecord
  <2>9. \A i \in 1 .. Len(wal') : wal'[i].at <= Len(log) + Len(ops)
    BY <2>2, <2>3, <2>7, <2>8
  <2> QED  BY <2>1, <2>3, <2>6, <2>7, <2>9 DEF WalInv
<1>5. ASSUME NEW w \in Writers, Return(w)
      PROVE  WalInv' /\ wal' \in Seq(WalRecord)
  BY <1>2, <1>5, LoggedKept DEF Return
<1>6. CASE Publish
  <2>1. wal' = <<>>
    BY <1>6 DEF Publish
  <2> QED  BY <2>1 DEF WalInv
<1>7. CASE Commit
  <2>1. wal' = wal /\ UNCHANGED <<log, writer>>
    BY <1>7 DEF Commit, CompactCommit, memVars
  <2> QED  BY <1>2, <1>3, <2>1
<1>8. CASE InMemory
  <2>1. wal' = wal
    BY <1>8 DEF InMemory, diskVars
  <2>2. CASE \E w \in Writers :
               \/ \E ops \in Batches : Begin(w, ops)
               \/ WaitForRoom(w) \/ Apply(w)
    BY <1>2, <2>1, <2>2, LoggedKept
  <2>3. CASE \/ UserFlush \/ FlushTake \/ FlushBuild \/ FlushSchedule
             \/ BackgroundCompact
             \/ (\E cleanup \in BOOLEAN : UserCompact(cleanup))
             \/ CleanupObsoleteFiles \/ CompactRead \/ CompactWrite
    <3>1. UNCHANGED <<log, writer>>
      BY <2>3, Zenon DEF UserFlush, FlushTake, FlushBuild, FlushSchedule,
            BackgroundCompact, UserCompact, CleanupObsoleteFiles, CompactRead,
            CompactWrite, memVars
    <3> QED  BY <1>2, <1>3, <2>1, <3>1
  <2> QED  BY <1>8, <2>2, <2>3 DEF InMemory
<1> QED  BY <1>4, <1>5, <1>6, <1>7, <1>8

LEMMA StopWal ==
  ASSUME TypeOK, DiskTypeOK, WalInv, NEW written \in Seq(Op), Stop(written),
         \/ wal' = wal /\ Len(Logged) <= Len(written)
         \/ wal' = wal \o WalRecords(written) /\ Logged = <<>>
  PROVE  WalInv' /\ wal' \in Seq(WalRecord)
<1>1. log' = log \o written /\ log \in Seq(Op)
  BY DEF Stop, TypeOK, WritesTypeOK
<1>2. Len(log') = Len(log) + Len(written) /\ Len(log) \in Nat
      /\ Len(written) \in Nat
  BY <1>1
<1>3. Logged' = <<>>
  <2>1. writer' = [w \in Writers |-> [pc |-> "idle", ops |-> <<>>]]
    BY DEF Stop
  <2> QED  BY <2>1, TheWriter DEF Logged
<1>4. Len(Logged) \in Nat /\ \A i \in 1 .. Len(wal) : wal[i].at \in Nat
  <2>1. \A i \in 1 .. Len(wal) : wal[i] \in WalRecord
    BY DEF DiskTypeOK
  <2> QED  BY <2>1, UnappliedType DEF WalRecord
<1>5. CASE wal' = wal /\ Len(Logged) <= Len(written)
  <2>1. \A i \in 1 .. Len(wal) : wal[i].at <= Len(log) + Len(written)
    BY <1>2, <1>4, <1>5 DEF WalInv
  <2> QED  BY <1>2, <1>3, <1>5, <2>1 DEF WalInv, DiskTypeOK
<1>6. CASE wal' = wal \o WalRecords(written) /\ Logged = <<>>
  <2>1. /\ wal' \in Seq(WalRecord)
        /\ \A i \in 1 .. Len(wal') :
             \/ i \in 1 .. Len(wal) /\ wal'[i] = wal[i]
             \/ wal'[i].at <= Len(log) + Len(written)
    BY <1>6, WalRecordsAre
  <2>2. \A i \in 1 .. Len(wal) : wal[i].at <= Len(log)
    BY <1>2, <1>6 DEF WalInv
  <2>3. \A i \in 1 .. Len(wal') : wal'[i].at <= Len(log) + Len(written)
    BY <1>2, <1>4, <2>1, <2>2
  <2> QED  BY <1>2, <1>3, <2>1, <2>3 DEF WalInv
<1> QED  BY <1>5, <1>6

-----------------------------------------------------------------------------
(* The manifest while the engine runs.                                     *)

\* A line names a file that has been written, so that the list does not
\* change when others are.
LEMMA ListedKept ==
  ASSUME NEW m \in Seq(ManifestLine), manifest' = m, Files \subseteq Files'
  PROVE  /\ manifest' \in Seq(ManifestLine')
         /\ Listed(manifest)' = Listed(m)
         /\ Readable' <=> Parsable(m)
<1>1. ManifestLine \subseteq ManifestLine'
  <2> SUFFICES ASSUME NEW x \in ManifestLine, x # Torn
               PROVE  x \in ManifestLine'
    BY DEF ManifestLine
  <2>1. PICK tag \in {"add", "del"}, l \in Levels, f \in Files :
          x = Line(tag, l, f)
    BY DEF ManifestLine
  <2>2. f \in Files'
    OBVIOUS
  <2> QED  BY <2>1, <2>2 DEF ManifestLine
<1>2. \A i \in 1 .. Len(m), l \in Levels, f \in Files' :
        m[i] = Line("add", l, f) => f \in Files
  <2> SUFFICES ASSUME NEW i \in 1 .. Len(m), NEW l \in Levels,
                      NEW f \in Files', m[i] = Line("add", l, f)
               PROVE  f \in Files
    OBVIOUS
  <2>1. m[i] \in ManifestLine
    OBVIOUS
  <2>2. m[i] # Torn
    BY DEF Torn, Line
  <2>3. PICK tag \in {"add", "del"}, k \in Levels, g \in Files :
          m[i] = Line(tag, k, g)
    BY <2>1, <2>2 DEF ManifestLine
  <2> QED  BY <2>3 DEF Line
<1> DEFINE parsed ==
      {i \in 1 .. Len(m) : \A j \in 1 .. i : m[j].tag # "torn"}
<1> DEFINE Last(l, f) ==
      \E i \in parsed :
        /\ m[i] = Line("add", l, f)
        /\ \A j \in parsed : j > i => m[j] # Line("del", l, f)
<1>3. /\ Listed(m) = [l \in Levels |-> {f \in Files : Last(l, f)}]
      /\ Listed(manifest)' = [l \in Levels |-> {f \in Files' : Last(l, f)}]
  BY DEF Listed
<1>4. parsed \subseteq 1 .. Len(m)
  OBVIOUS
<1>5. \A l \in Levels, f \in Files' : Last(l, f) => f \in Files
  <2> HIDE DEF parsed
  <2> QED  BY <1>2, <1>4
<1> HIDE DEF Last
<1>6. \A l \in Levels : {f \in Files' : Last(l, f)} = {f \in Files : Last(l, f)}
  BY <1>5
<1>7. Listed(manifest)' = Listed(m)
  BY <1>3, <1>6
<1>8. Readable' <=> Parsable(m)
  BY DEF Readable, Parsable
<1> QED  BY <1>1, <1>7, <1>8

LEMMA PublishListed ==
  ASSUME TypeOK, DiskTypeOK, ManifestMatchesVersion, Publish,
         Files \subseteq Files'
  PROVE  /\ manifest' \in Seq(ManifestLine')
         /\ Readable <=> Readable'
         /\ Readable => Listed(manifest)' = live'
<1> DEFINE a == Line("add", 0, flush.file)
<1> DEFINE m == Append(manifest, a)
<1>1. /\ up /\ flush.pc = "publish" /\ manifest' = m
      /\ live' = [live EXCEPT ![0] = @ \cup {flush.file}]
  BY NoFaults DEF Publish, Live, FlushPublish
<1>2. flush.file \in Files
  BY <1>1 DEF TypeOK, TablesTypeOK, FlushState, Files
<1>3. manifest \in Seq(ManifestLine)
  BY DEF DiskTypeOK
<1>4. a \in ManifestLine /\ a # Torn
  BY <1>2, LineTypes, NamedFiles
<1> HIDE DEF a
<1>5. /\ m \in Seq(ManifestLine) /\ Len(m) = Len(manifest) + 1
      /\ Len(manifest) \in Nat
      /\ \A i \in 1 .. Len(manifest) : m[i] = manifest[i]
      /\ m[Len(manifest) + 1] = a
  BY <1>3, <1>4, AppendProperties, LenProperties
<1> HIDE DEF m
<1>6. Parsable(m) <=> Parsable(manifest)
  BY <1>4, <1>5 DEF Parsable
<1>7. Readable <=> Parsable(manifest)
  BY DEF Readable, Parsable
<1>8. /\ manifest' \in Seq(ManifestLine') /\ Listed(manifest)' = Listed(m)
      /\ Readable' <=> Parsable(m)
  BY <1>1, <1>5, ListedKept
<1>9. Readable =>
        Listed(m) = [Listed(manifest) EXCEPT ![0] = @ \cup {flush.file}]
  BY <1>2, <1>3, <1>7, ListedFlush DEF a, m
<1>10. Readable => Listed(manifest) = live
  BY <1>1 DEF ManifestMatchesVersion
<1> QED  BY <1>1, <1>6, <1>7, <1>8, <1>9, <1>10

LEMMA CommitListed ==
  ASSUME TypeOK, DiskTypeOK, ManifestMatchesVersion, Commit,
         Files \subseteq Files'
  PROVE  /\ manifest' \in Seq(ManifestLine')
         /\ Readable <=> Readable'
         /\ Readable => Listed(manifest)' = live'
<1> DEFINE x == EditLines(job.upper, job.lower, job.level, job.out)
<1> DEFINE m == manifest \o x
<1>1. /\ up /\ manifest' = m
      /\ live' = [live EXCEPT ![job.level] = @ \ job.upper,
                              ![job.level + 1] = (@ \ job.lower) \cup job.out]
  BY DEF Commit, Live, CompactCommit
<1>2. /\ job.upper \in SUBSET Files /\ job.lower \in SUBSET Files
      /\ job.out \in SUBSET Files
      /\ job.level \in Levels /\ job.level + 1 \in Levels
  BY NamedFiles
<1>3. manifest \in Seq(ManifestLine)
  BY DEF DiskTypeOK
<1>4. x \in Seq(ManifestLine) /\ Parsable(x)
  <2>1. <<>> \in Seq(ManifestLine) /\ Parsable(<<>>)
    BY DEF Parsable
  <2>2. <<>> \o x \in Seq(ManifestLine) /\ Parsable(<<>> \o x)
    BY <1>2, <2>1, ListedEdit
  <2>3. x \in Seq(ManifestLine)
    <3>1. Lines("del", job.level + 1, job.lower) \in Seq(ManifestLine)
      BY <1>2, LinesAre
    <3>2. Lines("del", job.level, job.upper) \in Seq(ManifestLine)
      BY <1>2, LinesAre
    <3>3. Lines("add", job.level + 1, job.out) \in Seq(ManifestLine)
      BY <1>2, LinesAre
    <3> QED  BY <3>1, <3>2, <3>3 DEF EditLines
  <2>4. <<>> \o x = x
    BY <2>3, ConcatEmptySeq
  <2> QED  BY <2>2, <2>4
<1>5. m \in Seq(ManifestLine) /\ (Parsable(manifest) => Parsable(m))
  <2>1. m \in Seq(ManifestLine)
    <3> HIDE DEF x
    <3> QED  BY <1>3, <1>4, ConcatProperties
  <2>2. Parsable(manifest) => Parsable(m)
    BY <1>2, <1>3, ListedEdit
  <2> QED  BY <2>1, <2>2
<1>6. Parsable(m) => Parsable(manifest)
  <2>1. Len(m) = Len(manifest) + Len(x) /\ Len(x) \in Nat
        /\ Len(manifest) \in Nat
        /\ \A i \in 1 .. Len(manifest) + Len(x) : i <= Len(manifest) =>
             m[i] = manifest[i]
    <3> HIDE DEF x
    <3> QED  BY <1>3, <1>4, ConcatProperties
  <2> HIDE DEF m, x
  <2> QED  BY <2>1 DEF Parsable
<1>7. Readable <=> Parsable(manifest)
  BY DEF Readable, Parsable
<1>8. Readable => Listed(m) = Edited(Listed(manifest), job.upper, job.lower,
                                     job.level, job.out)
  BY <1>2, <1>3, <1>7, ListedEdit
<1> HIDE DEF m, x
<1>9. /\ manifest' \in Seq(ManifestLine') /\ Listed(manifest)' = Listed(m)
      /\ Readable' <=> Parsable(m)
  BY <1>1, <1>5, ListedKept
<1>10. Readable => Listed(manifest) = live
  BY <1>1 DEF ManifestMatchesVersion
<1> QED  BY <1>1, <1>5, <1>6, <1>7, <1>8, <1>9, <1>10 DEF Edited

LEMMA LiveKeeps ==
  ASSUME RecoveryInv,
         \/ \E w \in Writers : LogCall(w) \/ Return(w)
         \/ Publish \/ Commit \/ InMemory
  PROVE  RecoveryInv'
<1>1. Next /\ up /\ up' = up /\ torn' = torn
  BY LiveSteps
<1>2. TypeOK /\ DiskTypeOK /\ WalInv /\ ManifestMatchesVersion /\ DiskInv
  BY DEF RecoveryInv
<1>3. TypeOK'
  BY <1>1, <1>2, NextType
<1>4. WalInv' /\ wal' \in Seq(WalRecord)
  BY <1>2, LiveWal
<1>5. Files \subseteq Files'
  BY <1>1, <1>2, FilesKept
<1>6. ~torn => FilesInv'
  BY <1>1, <1>2, NextFiles DEF DiskInv
<1>7. DownInv'
  BY <1>1 DEF DownInv
<1>8. /\ manifest' \in Seq(ManifestLine')
      /\ Readable <=> Readable'
      /\ Readable => Listed(manifest)' = live'
  <2>1. ASSUME UNCHANGED <<manifest, live>>
        PROVE  /\ manifest' \in Seq(ManifestLine')
               /\ Readable <=> Readable'
               /\ Readable => Listed(manifest)' = live'
    <3>1. manifest \in Seq(ManifestLine)
      BY <1>2 DEF DiskTypeOK
    <3>2. /\ manifest' \in Seq(ManifestLine')
          /\ Listed(manifest)' = Listed(manifest)
          /\ Readable' <=> Parsable(manifest)
      BY <1>5, <2>1, <3>1, ListedKept
    <3>3. Readable <=> Parsable(manifest)
      BY DEF Readable, Parsable
    <3> QED  BY <1>1, <1>2, <2>1, <3>2, <3>3 DEF ManifestMatchesVersion
  <2>2. ASSUME NEW w \in Writers, LogCall(w) \/ Return(w)
        PROVE  UNCHANGED <<manifest, live>>
    BY <2>2 DEF LogCall, Return, AppendToWal, MakeRoom, versionVars
  <2>3. CASE InMemory
    <3>1. UNCHANGED <<manifest, live>>
      BY <2>3, Zenon DEF InMemory, diskVars, versionVars, Begin, WaitForRoom,
             Apply, UserFlush, FlushTake, FlushBuild, FlushSchedule,
             BackgroundCompact, UserCompact, CleanupObsoleteFiles,
             CompactRead, CompactWrite
    <3> QED  BY <2>1, <3>1
  <2>4. CASE Publish
    BY <1>2, <1>5, <2>4, PublishListed
  <2>5. CASE Commit
    BY <1>2, <1>5, <2>5, CommitListed
  <2> QED  BY <2>1, <2>2, <2>3, <2>4, <2>5
<1>9. DiskTypeOK'
  BY <1>1, <1>2, <1>4, <1>8 DEF DiskTypeOK
<1>10. ManifestMatchesVersion'
  BY <1>8 DEF ManifestMatchesVersion
<1>11. DiskInv'
  BY <1>1, <1>2, <1>6, <1>8 DEF DiskInv
<1> QED  BY <1>3, <1>4, <1>7, <1>9, <1>10, <1>11 DEF RecoveryInv

-----------------------------------------------------------------------------
(* What a crash leaves of the manifest.                                    *)

\* A line adds file f to level l.
Names(lines, l, f) == \E i \in 1 .. Len(lines) : lines[i] = Line("add", l, f)

LEMMA JoinedLines ==
  ASSUME NEW a \in Seq(ManifestLine), NEW b \in Seq(ManifestLine)
  PROVE  /\ a \o b \in Seq(ManifestLine)
         /\ Parsable(a \o b) => Parsable(a) /\ Parsable(b)
         /\ \A l \in Levels, f \in Files :
              Names(a \o b, l, f) => Names(a, l, f) \/ Names(b, l, f)
<1>1. Len(a) \in Nat /\ Len(b) \in Nat
  OBVIOUS
<1>2. /\ a \o b \in Seq(ManifestLine)
      /\ Len(a \o b) = Len(a) + Len(b)
      /\ \A i \in 1 .. Len(a) + Len(b) : (a \o b)[i] =
            IF i <= Len(a) THEN a[i] ELSE b[i - Len(a)]
  BY ConcatProperties
<1>3. \A i \in 1 .. Len(a) : i \in 1 .. Len(a) + Len(b) /\ i <= Len(a)
  BY <1>1
<1>4. \A i \in 1 .. Len(b) : /\ Len(a) + i \in 1 .. Len(a) + Len(b)
                             /\ ~(Len(a) + i <= Len(a))
                             /\ Len(a) + i - Len(a) = i
  BY <1>1
<1>5. \A i \in 1 .. Len(a) + Len(b) :
        ~(i <= Len(a)) => i - Len(a) \in 1 .. Len(b)
  BY <1>1
<1>6. \A i \in 1 .. Len(a) : (a \o b)[i] = a[i]
  BY <1>2, <1>3
<1>7. \A i \in 1 .. Len(b) : (a \o b)[Len(a) + i] = b[i]
  BY <1>2, <1>4
<1>8. Parsable(a \o b) => Parsable(a) /\ Parsable(b)
  BY <1>2, <1>3, <1>4, <1>6, <1>7 DEF Parsable
<1>9. ASSUME NEW l \in Levels, NEW f \in Files, Names(a \o b, l, f)
      PROVE  Names(a, l, f) \/ Names(b, l, f)
  <2>1. PICK i \in 1 .. Len(a) + Len(b) : (a \o b)[i] = Line("add", l, f)
    BY <1>2, <1>9 DEF Names
  <2>2. CASE i <= Len(a)
    BY <1>1, <1>2, <2>1, <2>2 DEF Names
  <2>3. CASE ~(i <= Len(a))
    <3>1. i - Len(a) \in 1 .. Len(b) /\ b[i - Len(a)] = Line("add", l, f)
      BY <1>2, <1>5, <2>1, <2>3
    <3> QED  BY <3>1, Zenon DEF Names
  <2> QED  BY <2>2, <2>3
<1> QED  BY <1>2, <1>8, <1>9

LEMMA PartialLines ==
  ASSUME NEW lines \in Seq(ManifestLine), NEW x \in Partial(lines)
  PROVE  /\ x \in Seq(ManifestLine)
         /\ \A l \in Levels, f \in Files :
              Names(x, l, f) => Names(lines, l, f)
<1>1. PICK n \in ManifestBuffer .. Len(lines) - 1, t \in {<<>>, <<Torn>>} :
        x = SubSeq(lines, 1, n) \o t
  BY SMT DEF Partial
<1> DEFINE s == SubSeq(lines, 1, n)
<1>2. n \in Nat /\ n <= Len(lines)
  BY RecoveryAssumption
<1>3. /\ s \in Seq(ManifestLine) /\ Len(s) = n
      /\ \A i \in 1 .. n : i \in 1 .. Len(lines) /\ s[i] = lines[i]
  BY <1>2
<1>4. t \in Seq(ManifestLine)
  <2>1. Torn \in ManifestLine
    BY DEF ManifestLine
  <2>2. <<Torn>> \in Seq(ManifestLine) /\ <<>> \in Seq(ManifestLine)
    BY <2>1
  <2> QED  BY <2>2
<1>5. \A l \in Levels, f \in Files : ~Names(t, l, f)
  BY DEF Names, Torn, Line
<1> HIDE DEF s
<1>6. \A l \in Levels, f \in Files : Names(s, l, f) => Names(lines, l, f)
  BY <1>3 DEF Names
<1>7. x = s \o t
  BY <1>1 DEF s
<1> QED  BY <1>3, <1>4, <1>5, <1>6, <1>7, JoinedLines

\* Whatever lines follow, a file is listed that was listed or is named.
LEMMA ListedPart ==
  ASSUME TypeOK, NEW m \in Seq(ManifestLine), NEW x \in Seq(ManifestLine),
         Parsable(m \o x)
  PROVE  /\ Parsable(m)
         /\ \A l \in Levels, f \in Files :
              f \in Listed(m \o x)[l] => f \in Listed(m)[l] \/ Names(x, l, f)
<1>1. Parsable(m) /\ Parsable(x)
  BY JoinedLines
<1>2. \A l \in Levels, f \in Files :
        f \in Listed(m \o x)[l] <=>
          \/ Adds(x, l, f)
          \/ f \in Listed(m)[l] /\ ~Deletes(x, l, f)
  BY <1>1, ListedMore
<1>3. \A l \in Levels, f \in Files : Adds(x, l, f) => Names(x, l, f)
  BY DEF Adds, Names
<1> QED  BY <1>1, <1>2, <1>3

\* The files that an edit names.
LEMMA EditNames ==
  ASSUME TypeOK, NEW upper \in SUBSET Files, NEW lower \in SUBSET Files,
         NEW out \in SUBSET Files,
         NEW level \in Levels, level + 1 \in Levels
  PROVE  /\ EditLines(upper, lower, level, out) \in Seq(ManifestLine)
         /\ \A l \in Levels, f \in Files :
              Names(EditLines(upper, lower, level, out), l, f)
                => l = level + 1 /\ f \in out
<1> DEFINE a == Lines("del", level + 1, lower)
<1> DEFINE b == Lines("del", level, upper)
<1> DEFINE c == Lines("add", level + 1, out)
<1>1. /\ a \in Seq(ManifestLine)
      /\ \A i \in 1 .. Len(a) :
           \E f \in lower : a[i] = Line("del", level + 1, f)
  BY LinesAre
<1>2. /\ b \in Seq(ManifestLine)
      /\ \A i \in 1 .. Len(b) : \E f \in upper : b[i] = Line("del", level, f)
  BY LinesAre
<1>3. /\ c \in Seq(ManifestLine)
      /\ \A i \in 1 .. Len(c) : \E f \in out : c[i] = Line("add", level + 1, f)
  BY LinesAre
<1> HIDE DEF a, b, c
<1>4. /\ \A l \in Levels, f \in Files : ~Names(a, l, f)
      /\ \A l \in Levels, f \in Files : ~Names(b, l, f)
      /\ \A l \in Levels, f \in Files :
           Names(c, l, f) => l = level + 1 /\ f \in out
  <2>1. \A g, h, j, k : Line("add", j, g) # Line("del", k, h)
    BY DEF Line
  <2>2. \A g, h, j, k :
          Line("add", j, g) = Line("add", k, h) => j = k /\ g = h
    BY DEF Line
  <2>3. \A l \in Levels, f \in Files : ~Names(a, l, f)
    BY <1>1, <2>1 DEF Names
  <2>4. \A l \in Levels, f \in Files : ~Names(b, l, f)
    BY <1>2, <2>1 DEF Names
  <2>5. \A l \in Levels, f \in Files :
          Names(c, l, f) => l = level + 1 /\ f \in out
    BY <1>3, <2>2 DEF Names
  <2> QED  BY <2>3, <2>4, <2>5
<1>5. EditLines(upper, lower, level, out) = (a \o b) \o c
  BY DEF EditLines, a, b, c
<1>6. /\ a \o b \in Seq(ManifestLine)
      /\ \A l \in Levels, f \in Files : ~Names(a \o b, l, f)
  BY <1>1, <1>2, <1>4, JoinedLines
<1>7. PICK d : d = a \o b
  OBVIOUS
<1>8. /\ d \o c \in Seq(ManifestLine)
      /\ \A l \in Levels, f \in Files :
           Names(d \o c, l, f) => Names(d, l, f) \/ Names(c, l, f)
  BY <1>3, <1>6, <1>7, JoinedLines
<1> QED  BY <1>4, <1>5, <1>6, <1>7, <1>8

-----------------------------------------------------------------------------
(* The end of a process.                                                   *)

\* What the manifest that is left has to be.
LEMMA StopKeeps ==
  ASSUME RecoveryInv, NEW written \in Seq(Op), Stop(written),
         disk' \subseteq disk,
         \/ wal' = wal /\ Len(Logged) <= Len(written)
         \/ wal' = wal \o WalRecords(written) /\ Logged = <<>>,
         NEW m \in Seq(ManifestLine), manifest' = m, torn' \in BOOLEAN,
         Parsable(m) \/ torn',
         ~torn' => /\ \A l \in Levels : Listed(m)[l] \subseteq disk'
                   /\ \A l, i \in Levels :
                        l # i => Listed(m)[l] \cap Listed(m)[i] = {}
  PROVE  RecoveryInv'
<1>1. TypeOK /\ DiskTypeOK /\ WalInv
  BY DEF RecoveryInv
<1>2. TypeOK' /\ Files' = Files
  BY <1>1, StopType
<1>3. WalInv' /\ wal' \in Seq(WalRecord)
  BY <1>1, StopWal
<1>4. /\ manifest' \in Seq(ManifestLine') /\ Listed(manifest)' = Listed(m)
      /\ Readable' <=> Parsable(m)
  BY <1>2, ListedKept
<1>5. /\ up' = FALSE /\ live' = NoFiles
      /\ obsolete' = {} /\ pendingDelete' = {} /\ job' = NoJob
      /\ flush' = [pc |-> "idle", table |-> 0, file |-> 0] /\ imm' = 0
      /\ writer' = [w \in Writers |-> [pc |-> "idle", ops |-> <<>>]]
  BY DEF Stop
<1>6. DiskTypeOK'
  BY <1>3, <1>4, <1>5 DEF DiskTypeOK
<1>7. DownInv'
  BY <1>5 DEF DownInv, Condemned
<1>8. ManifestMatchesVersion'
  BY <1>5 DEF ManifestMatchesVersion
<1>9. ~torn' => ListedInv'
  BY <1>4 DEF ListedInv
<1>10. DiskInv'
  BY <1>4, <1>5, <1>9 DEF DiskInv
<1> QED  BY <1>2, <1>3, <1>6, <1>7, <1>8, <1>10 DEF RecoveryInv

\* What it was.
LEMMA ListedLive ==
  ASSUME RecoveryInv, up
  PROVE  /\ TypeOK /\ manifest \in Seq(ManifestLine) /\ torn \in BOOLEAN
         /\ Parsable(manifest) \/ torn
         /\ Parsable(manifest) => Listed(manifest) = live
         /\ ~torn => FilesInv
<1>1. Readable <=> Parsable(manifest)
  BY DEF Readable, Parsable
<1> QED  BY <1>1 DEF RecoveryInv, DiskTypeOK, ManifestMatchesVersion, DiskInv

\* A process that dies outside the append to the WAL.
LEMMA StopAppends ==
  ASSUME TypeOK
  PROVE  /\ Unapplied \in Seq(Op) /\ Len(Logged) <= Len(Unapplied)
BY UnappliedType

LEMMA CrashKeeps ==
  ASSUME RecoveryInv, Crash
  PROVE  RecoveryInv'
<1>1. /\ up /\ manifest' = manifest /\ disk' = disk /\ torn' = torn
  BY DEF Crash, Stop
<1>2. PICK m : m = manifest
  OBVIOUS
<1>3. /\ TypeOK /\ m \in Seq(ManifestLine) /\ torn' \in BOOLEAN
      /\ Parsable(m) \/ torn'
      /\ ~torn' => /\ \A l \in Levels : Listed(m)[l] \subseteq disk'
                   /\ \A l, i \in Levels :
                        l # i => Listed(m)[l] \cap Listed(m)[i] = {}
  BY <1>1, <1>2, ListedLive DEF FilesInv, LiveInv
<1>4. \E written \in Seq(Op) :
        /\ Stop(written)
        /\ \/ wal' = wal /\ Len(Logged) <= Len(written)
           \/ wal' = wal \o WalRecords(written) /\ Logged = <<>>
  <2>1. CASE \E w \in Writers : writer[w].pc = "append"
    <3>1. PICK n \in 0 .. Len(Unapplied) :
            /\ Stop(SubSeq(Unapplied, 1, n))
            /\ wal' = wal \o WalRecords(SubSeq(Unapplied, 1, n))
      BY <2>1 DEF Crash
    <3>2. Logged = <<>>
      <4>1. PICK w \in Writers : writer[w].pc = "append"
        BY <2>1
      <4>2. w = CHOOSE x \in Writers : TRUE
        BY TheWriter
      <4> QED  BY <4>1, <4>2 DEF Logged
    <3>3. SubSeq(Unapplied, 1, n) \in Seq(Op)
      BY <1>3, UnappliedType
    <3> QED  BY <3>1, <3>2, <3>3, Zenon
  <2>2. CASE ~\E w \in Writers : writer[w].pc = "append"
    <3>1. Stop(Unapplied) /\ wal' = wal
      BY <2>2 DEF Crash
    <3> QED  BY <1>3, <3>1, StopAppends, Zenon
  <2> QED  BY <2>1, <2>2
<1>5. PICK written \in Seq(Op) :
        /\ Stop(written)
        /\ \/ wal' = wal /\ Len(Logged) <= Len(written)
           \/ wal' = wal \o WalRecords(written) /\ Logged = <<>>
  BY <1>4
<1>6. disk' \subseteq disk /\ manifest' = m
  BY <1>1, <1>2
<1> QED  BY <1>3, <1>5, <1>6, StopKeeps

LEMMA CrashInPublishKeeps ==
  ASSUME RecoveryInv, CrashInPublish
  PROVE  RecoveryInv'
<1>1. PICK old : old = manifest
  OBVIOUS
<1> DEFINE lines == <<Line("add", 0, flush.file)>>
<1>2. /\ flush.pc = "publish" /\ Stop(Unapplied) /\ up
      /\ wal' = wal /\ disk' = disk /\ torn' = (torn \/ ~Readable')
      /\ \E x \in Partial(lines) \cup {lines} : manifest' = old \o x
  BY <1>1 DEF CrashInPublish, Stop
<1>3. /\ TypeOK /\ old \in Seq(ManifestLine) /\ torn \in BOOLEAN
      /\ Parsable(old) => Listed(old) = live
      /\ ~torn => FilesInv
  BY <1>1, <1>2, ListedLive
<1>4. flush.file \in Files /\ 0 \in Levels
  BY <1>2, <1>3, NamedFiles DEF TypeOK, TablesTypeOK, FlushState, Files
<1>5. /\ lines \in Seq(ManifestLine)
      /\ \A l \in Levels, f \in Files :
           Names(lines, l, f) => l = 0 /\ f = flush.file
  <2>1. Line("add", 0, flush.file) \in ManifestLine
    BY <1>3, <1>4, LineTypes
  <2> QED  BY <2>1 DEF Names, Line
<1>6. PICK x \in Partial(lines) \cup {lines} : manifest' = old \o x
  BY <1>2
<1> HIDE DEF lines
<1>7. /\ x \in Seq(ManifestLine)
      /\ \A l \in Levels, f \in Files :
           Names(x, l, f) => l = 0 /\ f = flush.file
  BY <1>5, <1>6, PartialLines
<1>8. PICK m : m = old \o x
  OBVIOUS
<1>9. m \in Seq(ManifestLine) /\ manifest' = m
  BY <1>3, <1>6, <1>7, <1>8, JoinedLines
<1>10. torn' = (torn \/ ~Parsable(m))
  BY <1>2, <1>9 DEF Readable, Parsable
<1>11. ASSUME ~torn'
       PROVE  /\ \A l \in Levels : Listed(m)[l] \subseteq disk'
              /\ \A l, i \in Levels :
                   l # i => Listed(m)[l] \cap Listed(m)[i] = {}
  <2>1. ~torn /\ Parsable(m)
    BY <1>10, <1>11
  <2>2. \A l \in Levels, f \in Files : f \in Listed(m)[l] =>
          f \in live[l] \/ (l = 0 /\ f = flush.file)
    BY <1>3, <1>7, <1>8, <2>1, ListedPart
  <2>3. \A l \in Levels : Listed(m)[l] \subseteq Files
    BY <1>3, <1>9, <2>1, ListedIs DEF LevelFiles, FileNumbers
  <2>4. FilesInv
    BY <1>3, <2>1
  <2>5. /\ \A l \in Levels : live[l] \subseteq disk
        /\ \A l, i \in Levels : l # i => live[l] \cap live[i] = {}
        /\ flush.file \in disk /\ \A l \in Levels : flush.file \notin live[l]
    BY <1>2, <2>4 DEF FilesInv, LiveInv, FlushFileInv
  <2> QED  BY <1>2, <2>2, <2>3, <2>5
<1>12. torn' \in BOOLEAN /\ (Parsable(m) \/ torn') /\ disk' \subseteq disk
  BY <1>2, <1>3, <1>10
<1>13. Unapplied \in Seq(Op) /\ Len(Logged) <= Len(Unapplied)
  BY <1>3, StopAppends
<1>14. PICK written : written = Unapplied
  OBVIOUS
<1>15. /\ written \in Seq(Op) /\ Stop(written)
       /\ wal' = wal /\ Len(Logged) <= Len(written)
  BY <1>2, <1>13, <1>14
<1> QED  BY <1>9, <1>11, <1>12, <1>15, StopKeeps

\* A prefix of the edit lists old files and outputs; the whole edit lists no
\* input, so that the clean-up may begin.
LEMMA CrashInCommitKeeps ==
  ASSUME RecoveryInv, CrashInCommit
  PROVE  RecoveryInv'
<1>1. PICK old, L, upper, lower, out :
        /\ old = manifest /\ L = job.level
        /\ upper = job.upper /\ lower = job.lower /\ out = job.out
  OBVIOUS
<1> DEFINE lines == EditLines(upper, lower, L, out)
<1>2. /\ job.pc = "write" /\ InputsValid /\ Stop(Unapplied) /\ up
      /\ wal' = wal /\ torn' = (torn \/ ~Readable')
      /\ \/ /\ \E x \in Partial(lines) : manifest' = old \o x
            /\ disk' = disk
         \/ /\ manifest' = old \o lines
            /\ \E deleted \in SUBSET (Condemned \cup Compacting) :
                 disk' = disk \ deleted
  BY <1>1 DEF CrashInCommit, Stop, Finished, Condemned
<1>3. /\ TypeOK /\ old \in Seq(ManifestLine) /\ torn \in BOOLEAN
      /\ Parsable(old) => Listed(old) = live
      /\ ~torn => FilesInv
  BY <1>1, <1>2, ListedLive
<1>4. /\ upper \in SUBSET Files /\ lower \in SUBSET Files
      /\ out \in SUBSET Files /\ L \in Levels /\ L + 1 \in Levels
  BY <1>1, <1>3, NamedFiles
<1>5. /\ lines \in Seq(ManifestLine)
      /\ \A l \in Levels, f \in Files :
           Names(lines, l, f) => l = L + 1 /\ f \in out
  BY <1>3, <1>4, EditNames
<1>6. /\ upper \subseteq live[L] /\ lower \subseteq live[L + 1]
      /\ Compacting = upper \cup lower
  BY <1>1, <1>2 DEF InputsValid, Compacting
<1>7. PICK x \in Partial(lines) \cup {lines} : manifest' = old \o x
  BY <1>2
<1>8. x \in Seq(ManifestLine)
      /\ \A l \in Levels, f \in Files :
           Names(x, l, f) => l = L + 1 /\ f \in out
  <2> HIDE DEF lines
  <2> QED  BY <1>5, <1>7, PartialLines
<1>9. PICK m : m = old \o x
  OBVIOUS
<1>10. m \in Seq(ManifestLine) /\ manifest' = m
  BY <1>3, <1>7, <1>8, <1>9, JoinedLines
<1>11. torn' = (torn \/ ~Parsable(m))
  BY <1>2, <1>10 DEF Readable, Parsable
<1>12. ASSUME ~torn'
       PROVE  /\ \A l \in Levels : Listed(m)[l] \subseteq disk'
              /\ \A l, i \in Levels :
                   l # i => Listed(m)[l] \cap Listed(m)[i] = {}
  <2>1. ~torn /\ Parsable(m) /\ Parsable(old) /\ Listed(old) = live
    <3>1. ~torn /\ Parsable(m)
      BY <1>11, <1>12
    <3>2. Parsable(old)
      BY <1>3, <1>8, <1>9, <3>1, ListedPart
    <3> QED  BY <1>3, <3>1, <3>2
  <2>2. \A l \in Levels, f \in Files : f \in Listed(m)[l] =>
          f \in live[l] \/ (l = L + 1 /\ f \in out)
    BY <1>3, <1>8, <1>9, <2>1, ListedPart
  <2>3. \A l \in Levels : Listed(m)[l] \subseteq Files
    BY <1>3, <1>10, <2>1, ListedIs DEF LevelFiles, FileNumbers
  <2>4. FilesInv
    BY <1>3, <2>1
  <2>5. /\ \A l \in Levels : live[l] \subseteq disk
        /\ \A l, i \in Levels : l # i => live[l] \cap live[i] = {}
        /\ \A l \in Levels : live[l] \cap (out \cup Condemned) = {}
        /\ out \subseteq disk /\ out \cap Condemned = {}
    BY <1>1, <1>2, <2>4 DEF FilesInv, LiveInv, OutputInv
  <2>6. \A l, i \in Levels : l # i => Listed(m)[l] \cap Listed(m)[i] = {}
    BY <2>2, <2>3, <2>5
  <2>7. CASE disk' = disk
    BY <2>2, <2>3, <2>5, <2>6, <2>7
  <2>8. CASE /\ manifest' = old \o lines
             /\ \E deleted \in SUBSET (Condemned \cup Compacting) :
                  disk' = disk \ deleted
    <3>1. m = old \o lines
      BY <1>10, <2>8
    <3>2. Listed(m) = Edited(live, upper, lower, L, out)
      BY <1>3, <1>4, <2>1, <3>1, ListedEdit
    <3>3. live \in [Levels -> SUBSET Files]
      BY <1>3 DEF TypeOK, VersionTypeOK, LevelFiles, FileNumbers
    <3>4. L # L + 1
      BY <1>4 DEF Levels
    <3>5. \A l \in Levels : Listed(m)[l] =
            IF l = L THEN live[l] \ upper
            ELSE IF l = L + 1 THEN (live[l] \ lower) \cup out
            ELSE live[l]
      BY <1>4, <3>2, <3>3, <3>4 DEF Edited
    <3> HIDE DEF lines
    <3>6. \A l \in Levels :
            Listed(m)[l] \cap (Condemned \cup Compacting) = {}
      BY <1>4, <1>6, <2>5, <3>4, <3>5
    <3>7. \A l \in Levels : Listed(m)[l] \subseteq disk
      BY <2>2, <2>3, <2>5
    <3> QED  BY <2>6, <2>8, <3>6, <3>7
  <2> QED  BY <1>2, <2>7, <2>8
<1>13. torn' \in BOOLEAN /\ (Parsable(m) \/ torn') /\ disk' \subseteq disk
  BY <1>2, <1>3, <1>11
<1>14. Unapplied \in Seq(Op) /\ Len(Logged) <= Len(Unapplied)
  BY <1>3, StopAppends
<1>15. PICK written : written = Unapplied
  OBVIOUS
<1>16. /\ written \in Seq(Op) /\ Stop(written)
       /\ wal' = wal /\ Len(Logged) <= Len(written)
  BY <1>2, <1>14, <1>15
<1> QED  BY <1>10, <1>12, <1>13, <1>16, StopKeeps

\* A manifest written anew lists the version or part of it.
LEMMA SnapshotKeeps ==
  ASSUME RecoveryInv, Stop(Unapplied), wal' = wal,
         disk' = disk \ Condemned,
         NEW m \in Seq(ManifestLine), manifest' = m,
         \A l \in Levels, f \in Files : Names(m, l, f) => f \in live[l],
         torn' = (torn \/ ~Parsable(m))
  PROVE  RecoveryInv'
<1>1. up
  BY DEF Stop
<1>2. TypeOK /\ torn \in BOOLEAN /\ (~torn => FilesInv)
  BY <1>1, ListedLive
<1>3. ASSUME ~torn'
      PROVE  /\ \A l \in Levels : Listed(m)[l] \subseteq disk'
             /\ \A l, i \in Levels :
                  l # i => Listed(m)[l] \cap Listed(m)[i] = {}
  <2>1. FilesInv /\ Parsable(m)
    BY <1>2, <1>3
  <2>2. \A l \in Levels, f \in Files : f \in Listed(m)[l] <=> Adds(m, l, f)
    BY <1>2, <2>1, ListedIs
  <2>3. \A l \in Levels, f \in Files : f \in Listed(m)[l] => f \in live[l]
    BY <2>2 DEF Adds, Names
  <2>4. \A l \in Levels : Listed(m)[l] \subseteq Files
    BY <1>2, <2>1, ListedIs DEF LevelFiles, FileNumbers
  <2> QED  BY <2>1, <2>3, <2>4 DEF FilesInv, LiveInv
<1>4. torn' \in BOOLEAN /\ (Parsable(m) \/ torn') /\ disk' \subseteq disk
  BY <1>2
<1>5. Unapplied \in Seq(Op) /\ Len(Logged) <= Len(Unapplied)
  BY <1>2, StopAppends
<1>6. PICK written : written = Unapplied
  OBVIOUS
<1>7. /\ written \in Seq(Op) /\ Stop(written) /\ Len(Logged) <= Len(written)
  BY <1>5, <1>6
<1> QED  BY <1>3, <1>4, <1>7, StopKeeps

LEMMA LiveSnapshot ==
  ASSUME TypeOK
  PROVE  /\ Snapshot(live) \in Seq(ManifestLine) /\ Parsable(Snapshot(live))
         /\ \A l \in Levels, f \in Files :
              Names(Snapshot(live), l, f) => f \in live[l]
<1>1. live \in LevelFiles
  BY DEF TypeOK, VersionTypeOK
<1>2. PICK files \in LevelFiles : files = live
  BY <1>1
<1>3. \A k, h, j, g : Line("add", j, g) = Line("add", k, h) => j = k /\ g = h
  BY DEF Line
<1>4. /\ Snapshot(files) \in Seq(ManifestLine) /\ Parsable(Snapshot(files))
      /\ \A i \in 1 .. Len(Snapshot(files)) :
           \E l \in Levels, f \in Files :
             f \in files[l] /\ Snapshot(files)[i] = Line("add", l, f)
  BY SnapshotIs
<1>5. \A l \in Levels, f \in Files :
        Names(Snapshot(files), l, f) => f \in files[l]
  BY <1>3, <1>4 DEF Names
<1> QED  BY <1>2, <1>4, <1>5

LEMMA CloseKeeps ==
  ASSUME RecoveryInv, Close \/ CrashInClose
  PROVE  RecoveryInv'
<1>1. /\ Stop(Unapplied) /\ wal' = wal /\ disk' = disk \ Condemned
      /\ \/ manifest' = Snapshot(live) /\ torn' = torn
         \/ /\ manifest' \in {<<>>} \cup Partial(Snapshot(live))
            /\ torn' = (torn \/ ~Readable')
  BY Zenon DEF Close, CrashInClose, Condemned
<1>2. TypeOK /\ torn \in BOOLEAN
  BY <1>1, ListedLive DEF Stop
<1>3. PICK s : s = Snapshot(live)
  OBVIOUS
<1>4. /\ s \in Seq(ManifestLine) /\ Parsable(s)
      /\ \A l \in Levels, f \in Files : Names(s, l, f) => f \in live[l]
  BY <1>2, <1>3, LiveSnapshot
<1>5. PICK m : m = manifest'
  OBVIOUS
<1>6. m \in {s, <<>>} \cup Partial(s)
  BY <1>1, <1>3, <1>5
<1>7. /\ m \in Seq(ManifestLine)
      /\ \A l \in Levels, f \in Files : Names(m, l, f) => f \in live[l]
  <2>1. CASE m = <<>>
    BY <2>1 DEF Names
  <2>2. CASE m \in Partial(s)
    BY <1>4, <2>2, PartialLines
  <2> QED  BY <1>4, <1>6, <2>1, <2>2
<1>8. Readable' <=> Parsable(m)
  BY <1>5 DEF Readable, Parsable
<1>9. torn' = (torn \/ ~Parsable(m))
  <2>1. CASE manifest' = Snapshot(live) /\ torn' = torn
    BY <1>2, <1>3, <1>4, <1>5, <2>1
  <2>2. CASE torn' = (torn \/ ~Readable')
    BY <1>8, <2>2
  <2> QED  BY <1>1, <2>1, <2>2
<1> QED  BY <1>1, <1>5, <1>7, <1>9, SnapshotKeeps

-----------------------------------------------------------------------------
(* The start of the next.                                                  *)

\* A version written down reads back as itself.
LEMMA SnapshotListed ==
  ASSUME TypeOK, NEW files \in LevelFiles
  PROVE  Listed(Snapshot(files)) = files
<1>1. /\ Snapshot(files) \in Seq(ManifestLine) /\ Parsable(Snapshot(files))
      /\ \A i \in 1 .. Len(Snapshot(files)) :
           \E l \in Levels, f \in Files :
             f \in files[l] /\ Snapshot(files)[i] = Line("add", l, f)
      /\ \A l \in Levels, f \in Files :
           f \in files[l] => \E i \in 1 .. Len(Snapshot(files)) :
                               Snapshot(files)[i] = Line("add", l, f)
  BY SnapshotIs
<1>2. PICK s : s = Snapshot(files)
  OBVIOUS
<1>3. \A k, h, j, g :
        /\ Line("add", j, g) = Line("add", k, h) => j = k /\ g = h
        /\ Line("add", j, g) # Line("del", k, h)
  BY DEF Line
<1>4. \A l \in Levels, f \in Files : Adds(s, l, f) <=> f \in files[l]
  <2> SUFFICES ASSUME NEW l \in Levels, NEW f \in Files
               PROVE  Adds(s, l, f) <=> f \in files[l]
    OBVIOUS
  <2>1. Adds(s, l, f) => f \in files[l]
    BY <1>1, <1>2, <1>3 DEF Adds
  <2>2. \A i \in 1 .. Len(s) : s[i] # Line("del", l, f)
    BY <1>1, <1>2, <1>3
  <2>3. f \in files[l] => Adds(s, l, f)
    BY <1>1, <1>2, <2>2 DEF Adds
  <2> QED  BY <2>1, <2>3
<1>5. /\ Listed(s) \in LevelFiles
      /\ \A l \in Levels, f \in Files : f \in Listed(s)[l] <=> f \in files[l]
  BY <1>1, <1>2, <1>4, ListedIs
<1>6. \A l \in Levels : Listed(s)[l] = files[l]
  BY <1>5 DEF LevelFiles, FileNumbers
<1>7. Listed(s) = files
  BY <1>5, <1>6 DEF LevelFiles
<1> QED  BY <1>2, <1>7

LEMMA RestartKeeps ==
  ASSUME RecoveryInv, Restart
  PROVE  RecoveryInv'
<1>1. TypeOK /\ DiskTypeOK /\ WalInv /\ DownInv /\ DiskInv
  BY DEF RecoveryInv
<1>2. PICK loaded, old : loaded = LoadedFiles /\ old = manifest
  OBVIOUS
<1>3. /\ live' = loaded /\ disk' = disk \cap InLevels(loaded)
      /\ readers' = disk' /\ up' = TRUE /\ ~up
      /\ manifest' = IF Listed(old) = NoFiles /\ disk # {}
                       THEN Snapshot(loaded) ELSE old
      /\ UNCHANGED <<log, faults, imm, flush, sst, obsolete, pendingDelete,
                     job, writer, view, wal, torn>>
  BY <1>2 DEF Restart, jobVars
<1>4. /\ live = NoFiles /\ Condemned = {} /\ job = NoJob
      /\ flush = [pc |-> "idle", table |-> 0, file |-> 0]
  BY <1>1, <1>3 DEF DownInv
<1>5. TypeOK' /\ Files' = Files
  BY <1>1, <1>3, RestartType DEF Files
<1>6. old \in Seq(ManifestLine) /\ loaded \in LevelFiles
  BY <1>1, <1>2, LoadedType DEF DiskTypeOK
<1>7. loaded = IF Listed(old) = NoFiles THEN [NoFiles EXCEPT ![0] = disk]
               ELSE Listed(old)
  BY <1>2 DEF LoadedFiles
<1>8. \A l \in Levels :
        [NoFiles EXCEPT ![0] = disk][l] = IF l = 0 THEN disk ELSE {}
  BY <1>1, NamedFiles DEF NoFiles
<1>9. Readable <=> Parsable(old)
  BY <1>2 DEF Readable, Parsable
<1>10. \E m \in Seq(ManifestLine) :
         /\ manifest' = m
         /\ Parsable(m) \/ torn
         /\ Parsable(m) => Listed(m) = loaded
  <2>1. CASE Listed(old) = NoFiles /\ disk # {}
    <3>1. manifest' = Snapshot(loaded)
      BY <1>3, <2>1
    <3>2. Snapshot(loaded) \in Seq(ManifestLine) /\ Parsable(Snapshot(loaded))
      BY <1>1, <1>6, SnapshotIs
    <3>3. Listed(Snapshot(loaded)) = loaded
      BY <1>1, <1>6, SnapshotListed
    <3> QED  BY <3>1, <3>2, <3>3
  <2>2. CASE ~(Listed(old) = NoFiles /\ disk # {})
    <3>1. manifest' = old
      BY <1>3, <2>2
    <3>2. Listed(old) = loaded
      <4>1. CASE Listed(old) = NoFiles
        <5>1. disk = {}
          BY <2>2, <4>1
        <5>2. \A l \in Levels : [NoFiles EXCEPT ![0] = disk][l] = NoFiles[l]
          BY <1>8, <5>1 DEF NoFiles
        <5>3. [NoFiles EXCEPT ![0] = disk] = NoFiles
          BY <5>2 DEF NoFiles
        <5> QED  BY <1>7, <4>1, <5>3
      <4> QED  BY <1>7, <4>1
    <3>3. Parsable(old) \/ torn
      BY <1>1, <1>9 DEF DiskInv
    <3> QED  BY <1>6, <3>1, <3>2, <3>3
  <2> QED  BY <2>1, <2>2
<1>11. PICK m \in Seq(ManifestLine) :
         /\ manifest' = m
         /\ Parsable(m) \/ torn
         /\ Parsable(m) => Listed(m) = loaded
  BY <1>10
<1>12. /\ manifest' \in Seq(ManifestLine') /\ Listed(manifest)' = Listed(m)
       /\ Readable' <=> Parsable(m)
  BY <1>5, <1>11, ListedKept
<1>13. DiskTypeOK'
  BY <1>1, <1>3, <1>12 DEF DiskTypeOK
<1>14. WalInv'
  BY <1>1, <1>3 DEF WalInv, Logged
<1>15. DownInv'
  BY <1>3 DEF DownInv
<1>16. ManifestMatchesVersion'
  BY <1>3, <1>11, <1>12 DEF ManifestMatchesVersion
<1>17. ASSUME ~torn PROVE FilesInv'
  <2>1. /\ \A l \in Levels : loaded[l] \subseteq disk
        /\ \A l, i \in Levels : l # i => loaded[l] \cap loaded[i] = {}
    <3>1. CASE Listed(old) = NoFiles
      <4>1. \A l \in Levels : loaded[l] = IF l = 0 THEN disk ELSE {}
        BY <1>7, <1>8, <3>1
      <4> QED  BY <4>1
    <3>2. CASE Listed(old) # NoFiles
      <4>1. loaded = Listed(manifest)
        BY <1>2, <1>7, <3>2
      <4> QED  BY <1>1, <1>3, <1>17, <4>1 DEF DiskInv, ListedInv
    <3> QED  BY <3>1, <3>2
  <2>2. \A l \in Levels : loaded[l] \subseteq InLevels(loaded)
    BY DEF InLevels
  <2>3. Condemned' = {}
    BY <1>3, <1>4 DEF Condemned
  <2>4. job'.pc = "none" /\ job'.out = {}
    BY <1>3, <1>4 DEF NoJob
  <2>5. flush'.pc = "idle"
    BY <1>3, <1>4
  <2>6. Pinned' = {}
    BY RecoveryAssumption DEF Pinned
  <2>7. LiveInv'
    BY <1>3, <2>1, <2>2, <2>3 DEF LiveInv
  <2>8. PinnedInv' /\ OutputInv' /\ FlushFileInv'
    BY <2>3, <2>4, <2>5, <2>6 DEF PinnedInv, OutputInv, FlushFileInv
  <2>9. OwnerInv'
    <3>1. \A f \in disk' : \E l \in Levels : f \in live'[l]
      BY <1>3 DEF InLevels
    <3> QED  BY <3>1 DEF OwnerInv
  <2> QED  BY <2>7, <2>8, <2>9 DEF FilesInv
<1>18. DiskInv'
  BY <1>3, <1>11, <1>12, <1>17 DEF DiskInv
<1> QED  BY <1>5, <1>13, <1>14, <1>15, <1>16, <1>18 DEF RecoveryInv

-----------------------------------------------------------------------------
(* The theorems.                                                           *)

LEMMA RecoveryInitKeeps == RecoveryInit => RecoveryInv
<1> SUFFICES ASSUME RecoveryInit PROVE RecoveryInv
  OBVIOUS
<1>1. /\ Init /\ wal = <<>> /\ manifest = <<>> /\ up = TRUE /\ torn = FALSE
  BY DEF RecoveryInit
<1>2. TypeOK /\ FilesInv
  BY <1>1, InitType, InitFiles
<1>3. live = NoFiles
  BY <1>1 DEF Init
<1>4. DiskTypeOK /\ WalInv /\ DownInv
  <2>1. <<>> \in Seq(WalRecord) /\ <<>> \in Seq(ManifestLine)
        /\ Len(wal) = 0
    BY <1>1
  <2>2. DiskTypeOK
    BY <1>1, <2>1 DEF DiskTypeOK
  <2> QED  BY <1>1, <2>1, <2>2 DEF WalInv, DownInv
<1>5. Listed(manifest) = NoFiles
  BY <1>1 DEF Listed, NoFiles
<1>6. Readable
  BY <1>1 DEF Readable
<1> QED  BY <1>1, <1>2, <1>3, <1>4, <1>5, <1>6
         DEF RecoveryInv, ManifestMatchesVersion, DiskInv

LEMMA RecoveryStutters ==
  ASSUME RecoveryInv, UNCHANGED allVars
  PROVE  RecoveryInv'
<1>1. /\ UNCHANGED vars
      /\ UNCHANGED <<wal, manifest, up, torn>>
  BY DEF allVars, diskVars
<1>2. TypeOK' /\ (FilesInv => FilesInv')
  BY <1>1, NextType, NextFiles DEF RecoveryInv
<1>3. UNCHANGED <<live, obsolete, pendingDelete, job, flush, imm, writer, log,
                  sst, disk>>
  BY <1>1 DEF vars, memVars, versionVars, jobVars
<1>4. Files' = Files /\ Readable' = Readable
  BY <1>1, <1>3 DEF Files, Readable
<1>5. ManifestLine' = ManifestLine /\ Listed(manifest)' = Listed(manifest)
  BY <1>1, <1>4 DEF ManifestLine, Listed
<1>6. DiskTypeOK' /\ WalInv' /\ DownInv'
  BY <1>1, <1>3, <1>5
     DEF RecoveryInv, DiskTypeOK, WalInv, Logged, DownInv, Condemned
<1>7. ManifestMatchesVersion' /\ DiskInv'
  BY <1>1, <1>2, <1>3, <1>4, <1>5
     DEF RecoveryInv, ManifestMatchesVersion, DiskInv, ListedInv
<1> QED  BY <1>2, <1>6, <1>7 DEF RecoveryInv

\* The inductive invariant: what the manifest lists is what the engine has
\* or, once it is down, files that exist, unless a crash left a torn line;
\* and the WAL names writes that were made.
THEOREM RecoveryInvariant == RecoverySpec => []RecoveryInv
<1>1. RecoveryInit => RecoveryInv
  BY RecoveryInitKeeps
<1>2. RecoveryInv /\ [RecoveryNext]_allVars => RecoveryInv'
  <2> SUFFICES ASSUME RecoveryInv, [RecoveryNext]_allVars
               PROVE  RecoveryInv'
    OBVIOUS
  <2>1. CASE \/ \E w \in Writers : LogCall(w) \/ Return(w)
             \/ Publish \/ Commit \/ InMemory
    BY <2>1, LiveKeeps
  <2>2. CASE Crash
    BY <2>2, CrashKeeps
  <2>3. CASE CrashInPublish
    BY <2>3, CrashInPublishKeeps
  <2>4. CASE CrashInCommit
    BY <2>4, CrashInCommitKeeps
  <2>5. CASE Close \/ CrashInClose
    BY <2>5, CloseKeeps
  <2>6. CASE Restart
    BY <2>6, RestartKeeps
  <2>7. CASE UNCHANGED allVars
    BY <2>7, RecoveryStutters
  <2> QED  BY <2>1, <2>2, <2>3, <2>4, <2>5, <2>6, <2>7 DEF RecoveryNext
<1> QED  BY <1>1, <1>2, PTL DEF RecoverySpec

\* A restart rebuilds the very version the engine had: every change of it
\* that the engine makes is in the manifest, and nothing else is.
THEOREM ManifestIsTheVersion == RecoverySpec => []ManifestMatchesVersion
<1>1. RecoveryInv => ManifestMatchesVersion
  BY DEF RecoveryInv
<1> QED  BY <1>1, RecoveryInvariant, PTL

\* The manifest lists no file that is already deleted, wherever the process
\* dies, as long as no crash left a torn line.
THEOREM ManifestListsFiles == RecoverySpec => []ListedFilesExist
<1>1. RecoveryInv => ListedFilesExist
  <2> SUFFICES ASSUME RecoveryInv, ~torn
               PROVE  InLevels(Listed(manifest)) \subseteq disk
    BY DEF ListedFilesExist
  <2>1. \A l \in Levels : Listed(manifest)[l] \subseteq disk
    BY DEF RecoveryInv, DiskInv, ManifestMatchesVersion, FilesInv, LiveInv,
           ListedInv
  <2> QED  BY <2>1 DEF InLevels
<1> QED  BY <1>1, RecoveryInvariant, PTL
=============================================================================
