----------------------------- MODULE Compression -----------------------------
(***************************************************************************)
(* Varints, and the delta-of-delta code of timestamps: encoder and decoder *)
(* down to the bits and their order in the bytes, with every width scaled. *)
(* Arithmetic wraps around as in the code.  Decoders read only what an     *)
(* encoder wrote.                                                          *)
(***************************************************************************)
EXTENDS Int64, Sequences, SequencesExt

CONSTANTS
  ByteBits,    \* 8
  SmallBits,   \* 6, the bits of a small delta of deltas
  LargeBits,   \* 13, of a large one
  MaxSamples   \* bound: timestamps in a series

ASSUME WidthsAssumption ==
  /\ ByteBits \in Nat /\ ByteBits > 1
  /\ SmallBits \in Nat \ {0} /\ LargeBits \in SmallBits .. WordBits
  /\ MaxSamples \in 0 .. 2 ^ WordBits - 1

VARIABLE series  \* the timestamps added to the encoder
-----------------------------------------------------------------------------
(* Varints: ByteBits - 1 bits in a byte, the highest says "more".          *)

More == 2 ^ (ByteBits - 1)

\* Arithmetic that the provers have no rule for.
ASSUME CodePowersAssumption ==
  /\ \A n \in 0 .. WordBits + ByteBits : 2 ^ (n + 1) = 2 * 2 ^ n
  /\ More ^ 0 = 1
  /\ \A n \in 0 .. WordBits : More ^ (n + 1) = More * More ^ n

\* EncodeVarint, EncodeVarint64
EncodeVarint(value) ==
  LET bytes[v \in 0 .. 2 ^ WordBits - 1] ==
        IF v >= More THEN <<(v % More) + More>> \o bytes[v \div More] ELSE <<v>>
  IN bytes[value]

\* DecodeVarint from position pos of s: the last of its bytes and its value.
VarintEnd(s, pos) ==
  CHOOSE i \in pos .. Len(s) :
    s[i] < More /\ \A j \in pos .. i - 1 : s[j] >= More
DecodeVarint(s, pos) ==
  LET sum[i \in pos .. Len(s)] ==
        Unsigned((s[i] % More) * More ^ (i - pos)) +
          IF s[i] >= More /\ i < Len(s) THEN sum[i + 1] ELSE 0
  IN sum[pos]
-----------------------------------------------------------------------------
(* The encoder.                                                            *)

\* WriteBits: the highest bit first.
BitsOf(n, value) == [i \in 1 .. n |-> (value \div 2 ^ (n - i)) % 2]
SignOf(dod) == <<IF dod < 0 THEN 1 ELSE 0>>
Magnitude(dod) == Unsigned(IF dod < 0 THEN -dod ELSE dod)

InSmallOffByOne(dod) == dod \in -(2 ^ SmallBits) .. 2 ^ SmallBits  \* mutant
InSmall(dod) == dod \in 1 - 2 ^ SmallBits .. 2 ^ SmallBits - 1
InLarge(dod) == dod \in 1 - 2 ^ LargeBits .. 2 ^ LargeBits - 1

\* The bits Add writes for a timestamp after the first.
Code(dod) ==
  IF dod = 0 THEN <<0>>
  ELSE IF InSmall(dod)
    THEN <<1, 0>> \o SignOf(dod) \o BitsOf(SmallBits, Magnitude(dod))
  ELSE IF InLarge(dod)
    THEN <<1, 1, 0>> \o SignOf(dod) \o BitsOf(LargeBits, Magnitude(dod))
  ELSE <<1, 1, 1>> \o SignOf(dod) \o BitsOf(WordBits, Magnitude(dod))

\* last_delta_ after the i-th timestamp.
Delta(s, i) == IF i = 1 THEN 0 ELSE Unsigned(s[i] - s[i - 1])

PayloadBits(s) ==
  FlattenSeq([i \in 1 .. Len(s) - 1 |->
    Code(Signed(Signed(Delta(s, i + 1)) - Signed(Delta(s, i))))])

\* WriteBit and Finish: bits fill byte b from its lowest, the last byte is
\* filled up with zeros.
Byte(bits, b) ==
  LET bit(i) == IF i <= Len(bits) THEN bits[i] ELSE 0
      upper[i \in 0 .. ByteBits] ==
        IF i = ByteBits THEN 0
        ELSE bit((b * ByteBits + i) + 1) * 2 ^ i + upper[i + 1]
  IN upper[0]

Packed(bits) ==
  [b \in 1 .. (Len(bits) + ByteBits - 1) \div ByteBits |-> Byte(bits, b - 1)]

\* What Finish returns when the timestamps s were added.
Encode(s) ==
  EncodeVarint(Len(s)) \o
    IF s = <<>> THEN <<>>
    ELSE EncodeVarint(Unsigned(s[1])) \o Packed(PayloadBits(s))

AddTimestamp ==
  /\ Len(series) < MaxSamples
  /\ \E ts \in Int64 : series' = Append(series, ts)

CompressionSpec == series = <<>> /\ [][AddTimestamp]_series
-----------------------------------------------------------------------------
(* The decoder.                                                            *)

\* ReadBit: the n-th bit behind the first `skip' bytes, 0 past the end.
BitAt(data, skip, n) ==
  LET i == skip + 1 + n \div ByteBits
  IN IF i > Len(data) THEN 0 ELSE (data[i] \div 2 ^ (n % ByteBits)) % 2

\* ReadBits: w bits from bit n on.
ValueAt(data, skip, n, w) ==
  LET value[i \in 0 .. w] ==
        IF i = 0 THEN 0 ELSE 2 * value[i - 1] + BitAt(data, skip, n + i - 1)
  IN value[w]

\* A sign at bit n and w bits behind it.
SignedAt(data, skip, n, w) ==
  LET v == Signed(ValueAt(data, skip, n + 1, w))
  IN IF BitAt(data, skip, n) = 1 THEN -v ELSE v

\* Next: the delta of deltas at bit n, and the bit behind it.
DodAt(data, skip, n) ==
  LET bit(i) == BitAt(data, skip, n + i) IN
  CASE bit(0) = 0 -> [dod |-> 0, n |-> n + 1]
    [] bit(0) = 1 /\ bit(1) = 0 ->
         [dod |-> SignedAt(data, skip, n + 2, SmallBits),
          n |-> n + 3 + SmallBits]
    [] bit(0) = 1 /\ bit(1) = 1 /\ bit(2) = 0 ->
         [dod |-> SignedAt(data, skip, n + 3, LargeBits),
          n |-> n + 4 + LargeBits]
    [] OTHER ->
         [dod |-> SignedAt(data, skip, n + 3, WordBits),
          n |-> n + 4 + WordBits]

\* Init and Next until it returns false.
Decode(data) ==
  LET count == DecodeVarint(data, 1)
      first == VarintEnd(data, 1) + 1
      skip == VarintEnd(data, first)
      state[i \in 1 .. count] ==
        IF i = 1 THEN [ts |-> DecodeVarint(data, first), delta |-> 0, n |-> 0]
        ELSE LET d == DodAt(data, skip, state[i - 1].n)
                 delta == Unsigned(state[i - 1].delta + d.dod)
             IN [ts |-> Unsigned(state[i - 1].ts + delta),
                 delta |-> delta, n |-> d.n]
  IN [i \in 1 .. count |-> Signed(state[i].ts)]
-----------------------------------------------------------------------------
\* Every series of timestamps is decoded to itself: ascending or not, with
\* deltas that wrap around, at the limits of each of the four codes, and
\* whatever position in a byte a code starts and ends at.
DecodesWhatWasEncoded == Decode(Encode(series)) = series
=============================================================================
