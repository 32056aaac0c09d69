------------------------------- MODULE Queries -------------------------------
(***************************************************************************)
(* What queries compute from a ReadView: Get, which stops at the first     *)
(* hit; RangeQuery, which merges everything by rank; TTL rules; and        *)
(* Downsample's buckets.  A behaviour is one call: TsdbEngine shows which  *)
(* views there are.                                                        *)
(*                                                                         *)
(* A view holds the records of one measurement, layer by layer.  A layer   *)
(* maps timestamps to "none", "put" or "del"; a result names the layer its *)
(* record came from, which tells versions apart.                           *)
(***************************************************************************)
EXTENDS Int64, FiniteSets, Sequences, SequencesExt

CONSTANTS
  QueryTimes,    \* timestamps of records in views
  Layers,        \* bound: the layers of a view
  ViewRules,     \* bound: the TTL rules of a view
  RankStride,    \* 100000, what separates the ranks of two levels
  SecondNanos,   \* 1000000000
  SampleTimes    \* timestamps of records that are downsampled

ASSUME QueriesRangeAssumption ==
  /\ QueryTimes \cup SampleTimes \subseteq Int64
  /\ RankStride \in Nat \ {0} /\ SecondNanos \in Nat \ {0}
  /\ ViewRules \subseteq [ttl : Int64, latest : Int64]
\* mem, imm, and in each level fewer files than separate its ranks from
\* those of the next.
ASSUME LayersAssumption ==
  Layers \subseteq ({-2, -1} \X {0}) \cup (Nat \X (0 .. RankStride - 1))

VARIABLE call  \* the call: its operation, arguments and result

NoCall == [op |-> "none"]
-----------------------------------------------------------------------------
(* TTL rules.                                                              *)

TtlRules == [ttl : Int64, latest : Int64]

AgeExceeds(rule, t) ==  \* mutant
  /\ rule.ttl > 0 /\ rule.latest # MinInt
  /\ Signed(rule.latest - t) > Signed(rule.ttl * SecondNanos)

\* IsExpiredByRule
IsExpiredByRule(rule, t) ==
  /\ rule.ttl > 0 /\ rule.latest # MinInt
  /\ t < Signed(rule.latest - Signed(rule.ttl * SecondNanos))

\* IsExpiredInMap, for a measurement that has a rule.
AskExpired ==
  \E rule \in TtlRules, t \in Int64 :
    call' = [op |-> "expired", rule |-> rule, timestamp |-> t,
             out |-> IsExpiredByRule(rule, t)]

\* As long as ttl_seconds * 10^9 fits and the newest timestamp is not
\* negative (-1 still does), a rule expires exactly the timestamps more than
\* its seconds older than the newest one, at the ends of int64_t too.
TtlExpiresByAge == call.op = "expired" =>
  LET rule == call.rule
      age == rule.latest - call.timestamp
  IN rule.ttl > 0 /\ rule.ttl * SecondNanos <= MaxInt /\ rule.latest >= -1 =>
       (call.out <=> age > rule.ttl * SecondNanos)
-----------------------------------------------------------------------------
(* Get and RangeQuery.                                                     *)

\* A layer is <<level, files of the level that are newer>>; mem and imm are
\* the layers of levels -2 and -1.  Get goes through them in this order.
SearchedBefore(x, y) == x[1] < y[1] \/ (x[1] = y[1] /\ x[2] < y[2])

Held(table) == {t \in QueryTimes : table[t] # "none"}

\* Does the layer have a version; a file is only asked within the range of
\* its keys.
Hits(view, t) ==
  {y \in Layers :
     /\ view.at[y][t] # "none"
     /\ y[1] < 0 \/ \E a, b \in Held(view.at[y]) : a <= t /\ t <= b}

\* Get and GetFromSSTables: the layer whose value is returned, if any.
Get(view, t) ==
  {y \in Hits(view, t) :
     /\ \A z \in Hits(view, t) : z = y \/ SearchedBefore(y, z)
     /\ ~IsExpiredByRule(view.rule, t)
     /\ view.at[y][t] = "put"}

RankOldestFirst(y) ==  \* mutant
  IF y[1] < 0 THEN y[1] + 2 ELSE 2 + y[1] * RankStride - y[2]

\* The rank of a layer's records in RangeQuery.
Rank(y) ==
  IF y[1] < 0 THEN y[1] + 2 ELSE 2 + y[1] * RankStride + y[2]

\* The loop over the sorted records: the first one of a timestamp decides.
RangeQuery(view, a, b) ==
  LET all == {r \in QueryTimes \X Layers :
                a <= r[1] /\ r[1] <= b /\ view.at[r[2]][r[1]] # "none"}
      latest == {r \in all : \A x \in all :
                   x[1] = r[1] => x = r \/ Rank(r[2]) < Rank(x[2])}
  IN {r \in latest : /\ view.at[r[2]][r[1]] = "put"
                     /\ ~IsExpiredByRule(view.rule, r[1])}

Views == [at : [Layers -> [QueryTimes -> {"none", "put", "del"}]],
          rule : ViewRules]

AskRange ==
  \E view \in Views, a, b \in QueryTimes :
    call' = [op |-> "range", view |-> view, start |-> a, end |-> b,
             out |-> RangeQuery(view, a, b)]

\* Over any layers, with tombstones, holes and expired records, a range
\* query returns for each timestamp exactly the version a Get returns: the
\* ranks order the layers as Get searches them.
RangeQueryAgreesWithGet == call.op = "range" =>
  call.out = {r \in QueryTimes \X Layers :
                /\ call.start <= r[1] /\ r[1] <= call.end
                /\ r[2] \in Get(call.view, r[1])}
-----------------------------------------------------------------------------
(* Downsample.                                                             *)

BucketInclusive(raw, s, interval) ==  \* mutant
  {t \in raw : s <= t /\ t <= Signed(s + interval)}

\* The records of the bucket that starts at s, from the first one that is
\* not before it.
Bucket(raw, s, interval) == {t \in raw : s <= t /\ t < Signed(s + interval)}

\* The loop over bucket_start: the starts and records of the buckets that
\* are not empty.  Each is reduced to its last, least, largest or mean value.
Downsample(raw, start, end, interval) ==
  LET from[s \in Int64] ==
        IF s > end THEN <<>>
        ELSE LET bucket == Bucket(raw, s, interval)
             IN (IF bucket = {} THEN <<>> ELSE <<<<s, bucket>>>>)
                  \o from[Signed(s + interval)]
  IN from[start]

\* What RangeQuery returns, in the order of its timestamps.
SamplesOf(S, start, end) == {t \in S : start <= t /\ t <= end}

\* Bound: the loop would run into an overflow past t_end + interval.
AskDownsample ==
  \E S \in SUBSET SampleTimes, start, end \in Int64, interval \in 1 .. MaxInt :
    /\ start <= end /\ end + interval <= MaxInt
    /\ LET raw == SamplesOf(S, start, end)
       IN call' = [op |-> "downsample", raw |-> raw, start |-> start,
                   interval |-> interval,
                   out |-> Downsample(raw, start, end, interval)]

\* Each record of the range counts in exactly one bucket, the one its
\* distance from t_start says, and buckets come in order, for negative
\* timestamps and at the ends of int64_t too.
DownsamplePartitionsRange == call.op = "downsample" =>
  LET number(t) == (t - call.start) \div call.interval
      bucket(n) == <<call.start + n * call.interval,
                     {t \in call.raw : number(t) = n}>>
  IN /\ ToSet(call.out) = {bucket(number(t)) : t \in call.raw}
     /\ \A i, j \in 1 .. Len(call.out) : i < j => call.out[i][1] < call.out[j][1]
-----------------------------------------------------------------------------
Ask == call = NoCall /\ (AskExpired \/ AskRange \/ AskDownsample)

QueriesSpec == call = NoCall /\ [][Ask]_call
=============================================================================
