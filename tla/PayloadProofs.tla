---------------------------- MODULE PayloadProofs ----------------------------
(***************************************************************************)
(* Firmware and decoder agree on an uplink, for all readings, states and   *)
(* texts and in all layouts: PayloadEncoder and PayloadDecoder.  First one *)
(* number, in every width; then the layouts, what the decoder makes of the *)
(* bytes of a payload, and which bytes the firmware writes.                *)
(***************************************************************************)
EXTENDS PayloadEncoder, PayloadDecoder, SequenceTheorems, WellFoundedInduction,
        TLAPS

\* The powers of 256 by which the firmware takes an integer apart and the decoder
\* puts it together (lorabridge.cpp:314, decode.js:208).
LEMMA Powers ==
  /\ Unit(0) = 1 /\ Unit(1) = 256 /\ Unit(2) = 65536 /\ Unit(3) = 16777216
  /\ Weight(0) = 1 /\ Weight(1) = 256 /\ Weight(2) = 65536
  /\ Weight(3) = 16777216
BY DEF Unit, Weight

\* The range of a field of each width (enc_min and enc_max, lorabridge.cpp:293).
LEMMA Ranges ==
  /\ EncMin(1) = -128 /\ EncMax(1) = 127
  /\ EncMin(2) = -32768 /\ EncMax(2) = 32767
  /\ EncMin(3) = -8388608 /\ EncMax(3) = 8388607
  /\ EncMin(4) = -2147483648 /\ EncMax(4) = 2147483647
BY Powers DEF EncMin, EncMax

\* What the task sends of a valid reading lies between the ends of the usable
\* range, and the range leaves out the pattern for no valid value.
LEMMA ClampedInRange ==
  ASSUME NEW n \in Widths, NEW v \in Int
  PROVE  /\ Clamped(n, v) \in Int
         /\ EncMin(n) < Clamped(n, v)
         /\ Clamped(n, v) <= EncMax(n)
         /\ EncMin(n) < v /\ v <= EncMax(n) => Clamped(n, v) = v
BY Ranges DEF Clamped, Widths

\* An integer is its bytes: with k bytes behind it, the quotient by 256^k is 256
\* times the next quotient and a byte.
LEMMA Quotients ==
  ASSUME NEW v \in Int
  PROVE  /\ v = 256 * (v \div 256) + (v % 256)
         /\ v \div 256 = 256 * (v \div 65536) + ((v \div 256) % 256)
         /\ v \div 65536 = 256 * (v \div 16777216) + ((v \div 65536) % 256)
         /\ v \div 1 = v
OBVIOUS

\* Bytes put together again.
LEMMA Combine ==
  ASSUME NEW v \in Int, NEW a \in Int, NEW b \in Int, NEW q \in Int,
         NEW x \in Int, NEW y \in Int, NEW z \in Int, v = 256 * a + z
  PROVE  /\ a = 256 * b + y => v = b * 65536 + y * 256 + z
         /\ a = 256 * b + y /\ b = 256 * q + x =>
              v = q * 16777216 + x * 65536 + y * 256 + z
BY SMT

\* The first byte of a value in range, with its sign, is the quotient; the sign
\* ignored, a negative one reads 256 too high.
LEMMA FirstByte ==
  ASSUME NEW q \in Int, -128 <= q, q <= 127, NEW signed \in BOOLEAN
  PROVE  (IF signed /\ (q % 256) >= 128 THEN (q % 256) - 256 ELSE q % 256)
           = q + (IF signed \/ q >= 0 THEN 0 ELSE 256)
<1>1. CASE q >= 0
  <2>1. q % 256 = q BY <1>1
  <2> QED BY <1>1, <2>1
<1>2. CASE q < 0
  <2>1. q % 256 = q + 256 BY <1>2
  <2> QED BY <1>2, <2>1
<1> QED BY <1>1, <1>2

\* The bytes, from the last to the first.
LEMMA BytesFromTheEnd ==
  ASSUME NEW n \in Widths, NEW v \in Int
  PROVE  /\ BigEndian(n, v)[n] = v % 256
         /\ n >= 2 => BigEndian(n, v)[n - 1] = (v \div 256) % 256
         /\ n >= 3 => BigEndian(n, v)[n - 2] = (v \div 65536) % 256
         /\ n >= 4 => BigEndian(n, v)[n - 3] = (v \div 16777216) % 256
<1> n \in 1..4 BY DEF Widths
<1>1. \A k \in 0..n - 1 : BigEndian(n, v)[n - k] = (v \div Unit(k)) % 256
  <2> SUFFICES ASSUME NEW k \in 0..n - 1
               PROVE  BigEndian(n, v)[n - k] = (v \div Unit(k)) % 256
    OBVIOUS
  <2>1. n - k \in 1..n /\ n - (n - k) = k OBVIOUS
  <2>2. BigEndian(n, v)[n - k] = (v \div Unit(n - (n - k))) % 256
    BY <2>1 DEF BigEndian
  <2>3. Unit(n - (n - k)) = Unit(k) BY <2>1
  <2> QED BY <2>2, <2>3
<1>2. v \div 1 = v OBVIOUS
<1>3. BigEndian(n, v)[n] = v % 256
  <2>1. 0 \in 0..n - 1 /\ n - 0 = n OBVIOUS
  <2> QED BY <1>1, <1>2, <2>1, Powers
<1> QED BY <1>1, <1>3, Powers

\* readInt, byte by byte.
LEMMA ReadIntOf ==
  ASSUME NEW bytes, NEW signed \in BOOLEAN, NEW first \in Int,
         first = IF signed /\ bytes[1] >= 128 THEN bytes[1] - 256 ELSE bytes[1]
  PROVE  /\ readInt(bytes, 1, signed, 1) = first
         /\ bytes[2] \in Int =>
              readInt(bytes, 1, signed, 2) = first * 256 + bytes[2]
         /\ bytes[2] \in Int /\ bytes[3] \in Int =>
              readInt(bytes, 1, signed, 3)
                = first * 65536 + bytes[2] * 256 + bytes[3]
         /\ bytes[2] \in Int /\ bytes[3] \in Int /\ bytes[4] \in Int =>
              readInt(bytes, 1, signed, 4)
                = first * 16777216 + bytes[2] * 65536 + bytes[3] * 256 + bytes[4]
BY Powers, SMT DEF readInt

\* readInt undoes BigEndian; without a sign a negative value reads 2^(8n) too
\* high.
LEMMA RoundTrip ==
  ASSUME NEW n \in Widths, NEW v \in Int, EncMin(n) <= v, v <= EncMax(n),
         NEW signed \in BOOLEAN
  PROVE  readInt(BigEndian(n, v), 1, signed, n)
           = v + (IF signed \/ v >= 0 THEN 0 ELSE 256) * Weight(n - 1)
<1> DEFINE byte(b) == BigEndian(n, v)[b]
           wrap == IF signed \/ v >= 0 THEN 0 ELSE 256
           first == IF signed /\ byte(1) >= 128 THEN byte(1) - 256 ELSE byte(1)
<1>0. wrap \in Int OBVIOUS
<1>1. CASE n = 1
  <2> DEFINE q == v
  <2>1. /\ byte(1) = v % 256
    BY <1>1, BytesFromTheEnd, SMT
  <2>3. q \in Int /\ -128 <= q /\ q <= 127 /\ (q >= 0 <=> v >= 0)
    BY <1>1, Ranges, SMT
  <2>4. first = q + wrap
    <3>1. byte(1) = q % 256 BY <2>1
    <3> HIDE DEF q, byte
    <3> QED BY <2>3, <3>1, FirstByte
  <2>5. readInt(BigEndian(n, v), 1, signed, 1)
          = first
    <3>1. first \in Int BY <1>0, <2>3, <2>4
    <3> QED BY <3>1, ReadIntOf, SMT
  <2> QED BY <1>0, <1>1, <2>3, <2>4, <2>5, Powers, SMT
<1>2. CASE n = 2
  <2> DEFINE q == v \div 256
  <2>1. /\ byte(2) = v % 256
        /\ byte(1) = (v \div 256) % 256
    BY <1>2, BytesFromTheEnd, SMT
  <2>2. byte(2) \in Int BY <2>1, SMT
  <2>3. q \in Int /\ -128 <= q /\ q <= 127 /\ (q >= 0 <=> v >= 0)
    BY <1>2, Ranges, SMT
  <2>4. first = q + wrap
    <3>1. byte(1) = q % 256 BY <2>1
    <3> HIDE DEF q, byte
    <3> QED BY <2>3, <3>1, FirstByte
  <2>5. readInt(BigEndian(n, v), 1, signed, 2)
          = first * 256 + byte(2)
    <3>1. first \in Int BY <1>0, <2>3, <2>4
    <3> QED BY <2>2, <3>1, ReadIntOf, SMT
  <2>6. /\ v = 256 * (v \div 256) + byte(2)
        /\ v \div 256 \in Int
    BY <2>1, Quotients, SMT
  <2>7. v = q * 256 + byte(2)
    BY <2>2, <2>6, Combine, SMT
  <2>8. readInt(BigEndian(n, v), 1, signed, n) = v + wrap * 256
    <3> HIDE DEF q, byte, wrap, first
    <3> QED BY <1>0, <1>2, <2>2, <2>3, <2>4, <2>5, <2>7, SMT
  <2>9. Weight(n - 1) = 256 BY <1>2, Powers, SMT
  <2> QED BY <2>8, <2>9
<1>3. CASE n = 3
  <2> DEFINE q == v \div 65536
  <2>1. /\ byte(3) = v % 256
        /\ byte(2) = (v \div 256) % 256
        /\ byte(1) = (v \div 65536) % 256
    BY <1>3, BytesFromTheEnd, SMT
  <2>2. byte(2) \in Int /\ byte(3) \in Int BY <2>1, SMT
  <2>3. q \in Int /\ -128 <= q /\ q <= 127 /\ (q >= 0 <=> v >= 0)
    BY <1>3, Ranges, SMT
  <2>4. first = q + wrap
    <3>1. byte(1) = q % 256 BY <2>1
    <3> HIDE DEF q, byte
    <3> QED BY <2>3, <3>1, FirstByte
  <2>5. readInt(BigEndian(n, v), 1, signed, 3)
          = first * 65536 + byte(2) * 256 + byte(3)
    <3>1. first \in Int BY <1>0, <2>3, <2>4
    <3> QED BY <2>2, <3>1, ReadIntOf, SMT
  <2>6. /\ v = 256 * (v \div 256) + byte(3)
        /\ v \div 256 = 256 * (v \div 65536) + byte(2)
        /\ v \div 256 \in Int /\ v \div 65536 \in Int
    BY <2>1, Quotients, SMT
  <2>7. v = q * 65536 + byte(2) * 256 + byte(3)
    BY <2>2, <2>6, Combine, SMT
  <2>8. readInt(BigEndian(n, v), 1, signed, n) = v + wrap * 65536
    <3> HIDE DEF q, byte, wrap, first
    <3> QED BY <1>0, <1>3, <2>2, <2>3, <2>4, <2>5, <2>7, SMT
  <2>9. Weight(n - 1) = 65536 BY <1>3, Powers, SMT
  <2> QED BY <2>8, <2>9
<1>4. CASE n = 4
  <2> DEFINE q == v \div 16777216
  <2>1. /\ byte(4) = v % 256
        /\ byte(3) = (v \div 256) % 256
        /\ byte(2) = (v \div 65536) % 256
        /\ byte(1) = (v \div 16777216) % 256
    BY <1>4, BytesFromTheEnd, SMT
  <2>2. byte(2) \in Int /\ byte(3) \in Int /\ byte(4) \in Int BY <2>1, SMT
  <2>3. q \in Int /\ -128 <= q /\ q <= 127 /\ (q >= 0 <=> v >= 0)
    BY <1>4, Ranges, SMT
  <2>4. first = q + wrap
    <3>1. byte(1) = q % 256 BY <2>1
    <3> HIDE DEF q, byte
    <3> QED BY <2>3, <3>1, FirstByte
  <2>5. readInt(BigEndian(n, v), 1, signed, 4)
          = first * 16777216 + byte(2) * 65536 + byte(3) * 256 + byte(4)
    <3>1. first \in Int BY <1>0, <2>3, <2>4
    <3> QED BY <2>2, <3>1, ReadIntOf, SMT
  <2>6. /\ v = 256 * (v \div 256) + byte(4)
        /\ v \div 256 = 256 * (v \div 65536) + byte(3)
        /\ v \div 65536 = 256 * (v \div 16777216) + byte(2)
        /\ v \div 256 \in Int /\ v \div 65536 \in Int /\ v \div 16777216 \in Int
    BY <2>1, Quotients, SMT
  <2>7. v = q * 16777216 + byte(2) * 65536 + byte(3) * 256 + byte(4)
    BY <2>2, <2>6, Combine, SMT
  <2>8. readInt(BigEndian(n, v), 1, signed, n) = v + wrap * 16777216
    <3> HIDE DEF q, byte, wrap, first
    <3> QED BY <1>0, <1>4, <2>2, <2>3, <2>4, <2>5, <2>7, SMT
  <2>9. Weight(n - 1) = 16777216 BY <1>4, Powers, SMT
  <2> QED BY <2>8, <2>9
<1> QED BY <1>1, <1>2, <1>3, <1>4 DEF Widths

\* Every number arrives: a field of any width that the task fills from a
\* reading (lorabridge.cpp:293-314) is read by the decoder (decode.js:206-221)
\* as no valid value if, and only if, the reading is none, and otherwise as
\* the reading, or the end of the range that it is beyond.  A field without a
\* sign must read no negative value.
THEOREM NumbersArrive ==
  ASSUME NEW n \in Widths, NEW signed \in BOOLEAN,
         NEW reading \in Int \union {NoReading},
         signed \/ reading = NoReading \/ reading >= 0
  PROVE  LET raw == readInt(BigEndian(n, Encoded(n, reading)), 1, signed, n)
         IN  /\ isInvalidSentinel(raw, signed, n) <=> reading = NoReading
             /\ reading # NoReading => raw = Clamped(n, reading)
<1> DEFINE raw == readInt(BigEndian(n, Encoded(n, reading)), 1, signed, n)
           ends == EncMin(n) \in Int /\ EncMax(n) \in Int /\ EncMin(n) < 0
                   /\ EncMax(n) >= 0 /\ EncMin(n) = -(128 * Weight(n - 1))
                   /\ EncMax(n) < 128 * Weight(n - 1)
<1>1. ends /\ Weight(n - 1) \in Int BY Ranges, Powers DEF Widths
<1>2. CASE reading = NoReading
  <2>1. Encoded(n, reading) = EncMin(n) BY <1>2 DEF Encoded
  <2>2. EncMin(n) <= EncMin(n) /\ EncMin(n) <= EncMax(n) BY <1>1
  <2>3. readInt(BigEndian(n, EncMin(n)), 1, signed, n)
          = EncMin(n) + (IF signed \/ EncMin(n) >= 0 THEN 0 ELSE 256) * Weight(n - 1)
    BY <1>1, <2>2, RoundTrip
  <2>4. raw = (IF signed THEN -128 ELSE 128) * Weight(n - 1)
    <3>1. raw = EncMin(n) + (IF signed THEN 0 ELSE 256) * Weight(n - 1)
      BY <1>1, <2>1, <2>3
    <3> HIDE DEF raw
    <3>2. CASE signed BY <1>1, <3>1, <3>2
    <3>3. CASE ~signed BY <1>1, <3>1, <3>3
    <3> QED BY <3>2, <3>3
  <2> QED BY <1>2, <2>4 DEF isInvalidSentinel
<1>3. CASE reading # NoReading
  <2>1. reading \in Int /\ (signed \/ reading >= 0) BY <1>3
  <2>2. Encoded(n, reading) = Clamped(n, reading) BY <1>3 DEF Encoded
  <2>3. /\ Clamped(n, reading) \in Int
        /\ EncMin(n) < Clamped(n, reading) /\ Clamped(n, reading) <= EncMax(n)
    BY <2>1, ClampedInRange
  <2>4. signed \/ Clamped(n, reading) >= 0 BY <1>1, <2>1 DEF Clamped
  <2>5. readInt(BigEndian(n, Clamped(n, reading)), 1, signed, n)
          = Clamped(n, reading) + 0 * Weight(n - 1)
    BY <1>1, <2>3, <2>4, RoundTrip
  <2>6. raw = Clamped(n, reading) BY <1>1, <2>2, <2>3, <2>5
  <2>7. ~isInvalidSentinel(raw, signed, n)
    <3> HIDE DEF raw
    <3>1. CASE signed BY <1>1, <2>3, <2>6, <3>1 DEF isInvalidSentinel
    <3>2. CASE ~signed BY <1>1, <2>3, <2>6, <3>2 DEF isInvalidSentinel
    <3> QED BY <3>1, <3>2
  <2> QED BY <1>3, <2>6, <2>7
<1> QED BY <1>2, <1>3

-----------------------------------------------------------------------------
(* Induction over Nat, for a set in place of a predicate                   *)

\* The order of the naturals, as the library knows it.
LEMMA LessIsWellFounded ==
  IsWellFoundedOn({p \in Nat \X Nat : p[1] < p[2]}, Nat)
BY NatLessThanWellFounded, Zenon DEF OpToRel

\* A set of naturals with 0 and, with each number, the next one, has them all: the
\* library's induction theorem takes an operator, which no prover can instantiate, and a
\* set has a least element outside.
LEMMA SetInduction ==
  ASSUME NEW T, 0 \in T, \A n \in Nat : n \in T => n + 1 \in T
  PROVE  \A n \in Nat : n \in T
<1> DEFINE R == {p \in Nat \X Nat : p[1] < p[2]}
           U == Nat \ T
<1>1. SUFFICES ASSUME U # {} PROVE FALSE
  OBVIOUS
<1>2. \E x \in U : \A y \in U : ~ (<<y, x>> \in R)
  <2> HIDE DEF U, R
  <2>1. IsWellFoundedOn(R, Nat) BY LessIsWellFounded DEF R
  <2>2. U \subseteq Nat BY DEF U
  <2> QED BY <1>1, <2>1, <2>2, WFMin, Zenon
<1>3. PICK x \in U : \A y \in U : ~ (<<y, x>> \in R)
  BY <1>2
<1>4. x # 0 /\ x - 1 \in Nat /\ x \in Nat
  OBVIOUS
<1>5. <<x - 1, x>> \in R
  BY <1>4
<1>6. x - 1 \in T
  BY <1>3, <1>4, <1>5
<1> QED BY <1>4, <1>6

\* f goes from v0 on, in n steps.
Goes(f, n, v0, step) == f[0] = v0 /\ \A k \in 1..n : f[k] = step[k][f[k - 1]]

\* A function that is defined from its previous value exists.
LEMMA Recursion ==
  ASSUME NEW V, NEW n \in Nat, NEW v0 \in V, NEW step \in [1..n -> [V -> V]]
  PROVE  \E f \in [0..n -> V] : Goes(f, n, v0, step)
<1> DEFINE Good(k) == \E f \in [0..k -> V] :
              f[0] = v0 /\ \A j \in 1..k : f[j] = step[j][f[j - 1]]
           T == {k \in Nat : k <= n => Good(k)}
<1>1. 0 \in T
  <2> DEFINE f == [i \in 0..0 |-> v0]
  <2>1. f \in [0..0 -> V] /\ f[0] = v0 OBVIOUS
  <2>2. \A j \in 1..0 : f[j] = step[j][f[j - 1]] OBVIOUS
  <2>3. Good(0)
    <3> HIDE DEF f
    <3> QED BY <2>1, <2>2
  <2> HIDE DEF Good
  <2> QED BY <2>3
<1>2. ASSUME NEW k \in Nat, k + 1 <= n, Good(k)
      PROVE  Good(k + 1)
  <2>1. PICK f \in [0..k -> V] :
          f[0] = v0 /\ \A j \in 1..k : f[j] = step[j][f[j - 1]]
    BY <1>2
  <2> DEFINE g == [i \in 0..k + 1 |-> IF i = k + 1 THEN step[k + 1][f[k]] ELSE f[i]]
  <2>2. g \in [0..k + 1 -> V]
    <3>1. k + 1 \in 1..n /\ f[k] \in V BY <1>2
    <3>2. step[k + 1][f[k]] \in V BY <3>1
    <3> QED BY <3>2
  <2>3. g[0] = v0 BY <2>1
  <2>4. \A j \in 1..k + 1 : g[j] = step[j][g[j - 1]]
    <3> SUFFICES ASSUME NEW j \in 1..k + 1 PROVE g[j] = step[j][g[j - 1]]
      OBVIOUS
    <3>1. g[j - 1] = f[j - 1] OBVIOUS
    <3>2. g[j] = IF j = k + 1 THEN step[k + 1][f[k]] ELSE f[j] OBVIOUS
    <3> HIDE DEF g
    <3>3. CASE j = k + 1 BY <3>1, <3>2, <3>3
    <3>4. CASE j # k + 1
      <4>1. j \in 1..k BY <3>4
      <4> QED BY <2>1, <3>1, <3>2, <3>4, <4>1
    <3> QED BY <3>3, <3>4
  <2> QED
    <3> HIDE DEF g
    <3> QED BY <2>2, <2>3, <2>4
<1>3. \A k \in Nat : k \in T => k + 1 \in T
  <2> HIDE DEF Good
  <2> QED BY <1>2
<1>4. n \in T
  <2> HIDE DEF T
  <2> QED BY <1>1, <1>3, SetInduction
<1> QED BY <1>4 DEF Goes

-----------------------------------------------------------------------------
(* Sequences written one behind the other *)

\* What FlattenSeq computes, as a function.
LEMMA FlattenIs ==
  ASSUME NEW B, NEW s \in Seq(Seq(B))
  PROVE  \E f \in [0..Len(s) -> Seq(B)] :
           /\ f[0] = <<>>
           /\ \A k \in 1..Len(s) : f[k] = f[k - 1] \o s[k]
           /\ FlattenSeq(s) = f[Len(s)]
<1> DEFINE n == Len(s)
           step == [k \in 1..n |-> [v \in Seq(B) |-> v \o s[k]]]
<1>0. n \in Nat /\ \A k \in 1..n : s[k] \in Seq(B)
  BY LenProperties, ElementOfSeq
<1>1. step \in [1..n -> [Seq(B) -> Seq(B)]]
  BY <1>0, ConcatProperties
<1>2. <<>> \in Seq(B) BY EmptySeq
<1>n. n = Len(s) OBVIOUS
<1>s. \A k \in 1..n, v \in Seq(B) : step[k][v] = v \o s[k] OBVIOUS
<1> HIDE DEF step, n
<1>3. PICK f \in [0..n -> Seq(B)] :
        f[0] = <<>> /\ \A k \in 1..n : f[k] = step[k][f[k - 1]]
  <2> DEFINE v0 == <<>>
             V == Seq(B)
  <2>1. n \in Nat /\ v0 \in V /\ step \in [1..n -> [V -> V]] BY <1>0, <1>1, <1>2
  <2>2. \E f \in [0..n -> V] : Goes(f, n, v0, step)
    <3> HIDE DEF v0, V
    <3>1. n \in Nat BY <2>1
    <3>2. v0 \in V BY <2>1
    <3>3. step \in [1..n -> [V -> V]] BY <2>1
    <3> QED BY <3>1, <3>2, <3>3, Recursion
  <2> QED BY <2>2 DEF Goes
<1>4. /\ \A k \in 1..n : f[k] = f[k - 1] \o s[k]
      /\ n # 0 => f[1] = s[1]
  <2>1. \A k \in 1..n : f[k - 1] \in Seq(B) BY <1>0
  <2>2. \A k \in 1..n : f[k] = f[k - 1] \o s[k] BY <1>3, <1>s, <2>1
  <2>3. ASSUME n # 0 PROVE f[1] = s[1]
    <3>1. 1 \in 1..n /\ 1 - 1 = 0 BY <1>0, <2>3
    <3>2. f[1] = <<>> \o s[1] BY <1>3, <2>2, <3>1
    <3>3. s[1] \in Seq(B) BY <1>0, <3>1
    <3> QED BY <3>2, <3>3, ConcatEmptySeq
  <2> QED BY <2>2, <2>3
<1>5. FlattenSeq(s) = f[n]
  <2>1. CASE n = 0
    <3>1. s = <<>> BY <1>n, <2>1, EmptySeq
    <3> QED BY <1>3, <1>n, <2>1, <3>1 DEF FlattenSeq
  <2>2. CASE n # 0
    <3> DEFINE u == CHOOSE u : u = [i \in 1..n |->
                      IF i = 1 THEN s[i] ELSE u[i - 1] \o s[i]]
               g == [i \in 1..n |-> f[i]]
    <3>1. g = [i \in 1..n |-> IF i = 1 THEN s[i] ELSE g[i - 1] \o s[i]]
      <4>1. ASSUME NEW i \in 1..n
            PROVE  f[i] = IF i = 1 THEN s[i] ELSE g[i - 1] \o s[i]
        <5>1. i # 1 => g[i - 1] = f[i - 1] BY <1>0
        <5> HIDE DEF g
        <5> QED BY <1>4, <2>2, <5>1
      <4> QED BY <4>1
    <3>2. u = [i \in 1..n |-> IF i = 1 THEN s[i] ELSE u[i - 1] \o s[i]]
      <4> HIDE DEF g
      <4> QED BY <3>1
    <3>3. FlattenSeq(s) = u[n] BY <1>n, <2>2 DEF FlattenSeq
    <3> DEFINE T == {k \in Nat : k < n => u[k + 1] = f[k + 1]}
    <3>4. 0 \in T
      <4> HIDE DEF u
      <4>1. u[1] = s[1] BY <1>0, <2>2, <3>2
      <4> QED BY <1>4, <2>2, <4>1
    <3> HIDE DEF u
    <3>5. \A k \in Nat : k \in T => k + 1 \in T
      <4> SUFFICES ASSUME NEW k \in Nat, k + 1 < n, u[k + 1] = f[k + 1]
                   PROVE  u[(k + 1) + 1] = f[(k + 1) + 1]
        BY <1>0
      <4>0. (k + 1) + 1 = k + 2 OBVIOUS
      <4>1. k + 2 \in 1..n /\ k + 2 # 1 /\ (k + 2) - 1 = k + 1 BY <1>0
      <4>2. u[k + 2] = u[k + 1] \o s[k + 2] BY <3>2, <4>1
      <4>3. f[k + 2] = f[k + 1] \o s[k + 2] BY <1>4, <4>1
      <4> QED BY <4>0, <4>2, <4>3
    <3>6. n - 1 \in T
      <4> HIDE DEF T
      <4>1. n - 1 \in Nat BY <1>0, <2>2
      <4> QED BY <3>4, <3>5, <4>1, SetInduction
    <3> QED
      <4>1. n - 1 + 1 = n BY <1>0
      <4> QED BY <1>0, <2>2, <3>3, <3>6, <4>1
  <2> QED BY <2>1, <2>2
<1> QED BY <1>3, <1>4, <1>5, <1>n

\* A sequence of sequences written one behind the other: each is found where
\* the ones before it end.
LEMMA Pieces ==
  ASSUME NEW B, NEW s \in Seq(Seq(B)), NEW off \in [0..Len(s) -> Nat],
         off[0] = 0, \A k \in 1..Len(s) : off[k] = off[k - 1] + Len(s[k])
  PROVE  /\ FlattenSeq(s) \in Seq(B)
         /\ Len(FlattenSeq(s)) = off[Len(s)]
         /\ \A k \in 1..Len(s) : \A i \in 1..Len(s[k]) :
              /\ off[k - 1] + i \in 1..off[Len(s)]
              /\ FlattenSeq(s)[off[k - 1] + i] = s[k][i]
<1> DEFINE n == Len(s)
<1>0. n \in Nat /\ \A k \in 1..n : s[k] \in Seq(B) /\ Len(s[k]) \in Nat
  BY LenProperties, ElementOfSeq
<1>1. PICK f \in [0..n -> Seq(B)] :
        /\ f[0] = <<>>
        /\ \A k \in 1..n : f[k] = f[k - 1] \o s[k]
        /\ FlattenSeq(s) = f[n]
  BY FlattenIs
<1> DEFINE Placed(m) ==
             /\ Len(f[m]) = off[m]
             /\ \A k \in 1..m : \A i \in 1..Len(s[k]) :
                  /\ off[k - 1] + i \in 1..off[m]
                  /\ f[m][off[k - 1] + i] = s[k][i]
           T == {m \in Nat : m <= n => Placed(m)}
<1>n. n = Len(s) OBVIOUS
<1>o. off \in [0..n -> Nat] /\ \A k \in 1..n : off[k] = off[k - 1] + Len(s[k])
  OBVIOUS
<1> HIDE DEF n
<1>2. 0 \in T
  <2>1. Len(f[0]) = off[0] BY <1>1, EmptySeq
  <2>2. \A k \in 1..0 : FALSE OBVIOUS
  <2>3. Placed(0) BY <2>1, <2>2
  <2> HIDE DEF Placed
  <2> QED BY <2>3
<1>3. ASSUME NEW m \in Nat, m + 1 <= n, Placed(m)
      PROVE  Placed(m + 1)
  <2>0. m + 1 \in 1..n /\ (m + 1) - 1 = m /\ m \in 0..n BY <1>0, <1>3
  <2>1. f[m] \in Seq(B) /\ s[m + 1] \in Seq(B) /\ off[m] \in Nat
        /\ Len(s[m + 1]) \in Nat
    BY <1>0, <1>o, <2>0
  <2>2. f[m + 1] = f[m] \o s[m + 1] BY <1>1, <2>0
  <2>3. off[m + 1] = off[m] + Len(s[m + 1]) BY <1>o, <2>0
  <2>4. /\ Len(f[m + 1]) = off[m] + Len(s[m + 1])
        /\ \A i \in 1..off[m] + Len(s[m + 1]) :
             f[m + 1][i] = IF i <= off[m] THEN f[m][i] ELSE s[m + 1][i - off[m]]
    <3> DEFINE a == f[m]
               b == s[m + 1]
    <3>1. a \in Seq(B) /\ b \in Seq(B) BY <2>1
    <3>2. /\ Len(a \o b) = Len(a) + Len(b)
          /\ \A i \in 1..Len(a) + Len(b) :
               (a \o b)[i] = IF i <= Len(a) THEN a[i] ELSE b[i - Len(a)]
      <4> HIDE DEF a, b
      <4> QED BY <3>1, ConcatProperties
    <3>3. f[m + 1] = a \o b /\ Len(a) = off[m] BY <1>3, <2>2
    <3> QED BY <3>2, <3>3
  <2>5. ASSUME NEW k \in 1..m + 1, NEW i \in 1..Len(s[k])
        PROVE  /\ off[k - 1] + i \in 1..off[m + 1]
               /\ f[m + 1][off[k - 1] + i] = s[k][i]
    <3>1. CASE k = m + 1
      <4>1. off[k - 1] + i = off[m] + i /\ i \in 1..Len(s[m + 1]) BY <2>0, <3>1
      <4>2. off[m] + i \in 1..off[m + 1] /\ ~(off[m] + i <= off[m])
            /\ (off[m] + i) - off[m] = i
        <5> DEFINE o == off[m]
                   w == Len(s[m + 1])
        <5>1. o \in Nat /\ w \in Nat /\ i \in 1..w /\ off[m + 1] = o + w
          BY <2>1, <2>3, <4>1
        <5> HIDE DEF o, w
        <5>2. o + i \in 1..o + w /\ ~(o + i <= o) /\ (o + i) - o = i BY <5>1
        <5> QED BY <5>1, <5>2 DEF o
      <4> QED BY <2>3, <2>4, <3>1, <4>1, <4>2
    <3>2. CASE k # m + 1
      <4>1. k \in 1..m BY <3>2
      <4>2. /\ off[k - 1] + i \in 1..off[m]
            /\ f[m][off[k - 1] + i] = s[k][i]
        BY <1>3, <4>1
      <4>3. off[k - 1] + i \in 1..off[m + 1] /\ off[k - 1] + i <= off[m]
        BY <2>1, <2>3, <4>2, SMTT(30)
      <4> QED BY <2>3, <2>4, <4>2, <4>3
    <3> QED BY <3>1, <3>2
  <2> QED BY <2>3, <2>4, <2>5
<1>4. \A m \in Nat : m \in T => m + 1 \in T
  <2> HIDE DEF Placed
  <2> QED BY <1>0, <1>3
<1>5. Placed(n)
  <2>1. n \in T
    <3> HIDE DEF T
    <3> QED BY <1>0, <1>2, <1>4, SetInduction
  <2> HIDE DEF Placed
  <2> QED BY <1>0, <2>1
<1>6. f[n] \in Seq(B) BY <1>0
<1> QED BY <1>1, <1>5, <1>6, <1>n

-----------------------------------------------------------------------------
(* The layouts                                                             *)

\* The names of the numbers, and a sensor of a layout.
NumberNames ==
  {"mpptPower", "mpptCurrent", "mpptYieldToday", "batteryVoltage",
   "batteryPower", "batteryCurrent", "batteryConsumedAh",
   "batteryStateOfCharge", "batteryTimeRemaining", "batteryTemperature",
   "batteryStarterVoltage", "fridgeTemperature", "salonTemperature",
   "engineTemperature", "salonHumidity", "latitude", "longitude"}

Field == [name : NumberNames, width : Widths, signed : BOOLEAN]

\* The bytes before sensor s + 1, in every layout that has it.
Offset(s) == IF s <= 14 THEN 2 * s
             ELSE IF s = 15 THEN 29 ELSE IF s = 16 THEN 33 ELSE 37

\* One sequence behind another, and one element.
LEMMA Joined ==
  ASSUME NEW S, NEW a \in Seq(S), NEW b \in Seq(S)
  PROVE  /\ a \o b \in Seq(S)
         /\ Len(a \o b) = Len(a) + Len(b)
         /\ \A i \in 1..Len(a) : (a \o b)[i] = a[i]
         /\ \A i \in 1..Len(b) : (a \o b)[Len(a) + i] = b[i]
<1>1. Len(a) \in Nat /\ Len(b) \in Nat BY LenProperties
<1>2. ASSUME NEW i \in 1..Len(b) PROVE (a \o b)[Len(a) + i] = b[i]
  <2>1. /\ Len(a) + i \in 1..Len(a) + Len(b) /\ ~(Len(a) + i <= Len(a))
        /\ (Len(a) + i) - Len(a) = i
    BY <1>1
  <2> QED BY <2>1, ConcatProperties
<1> QED BY <1>1, <1>2, ConcatProperties

\* Each layout of sensors is the beginning of the next.
LEMMA SensorLists ==
  /\ HomeSensors \in Seq(Field) /\ Len(HomeSensors) = 10
  /\ BoatSensors \in Seq(Field) /\ Len(BoatSensors) = 11
  /\ BoatV2Sensors \in Seq(Field) /\ Len(BoatV2Sensors) = 14
  /\ BoatV3Sensors \in Seq(Field) /\ Len(BoatV3Sensors) = 15
  /\ BoatV4Sensors \in Seq(Field) /\ Len(BoatV4Sensors) = 17
  /\ \A s \in 1..10 : HomeSensors[s] = BoatV4Sensors[s]
  /\ \A s \in 1..11 : BoatSensors[s] = BoatV4Sensors[s]
  /\ \A s \in 1..14 : BoatV2Sensors[s] = BoatV4Sensors[s]
  /\ \A s \in 1..15 : BoatV3Sensors[s] = BoatV4Sensors[s]
  /\ BoatV4Sensors[11] = Signed("batteryStarterVoltage")
  /\ BoatV4Sensors[12] = Signed("fridgeTemperature")
  /\ BoatV4Sensors[13] = Signed("salonTemperature")
  /\ BoatV4Sensors[14] = Signed("engineTemperature")
  /\ BoatV4Sensors[15] = [name |-> "salonHumidity", width |-> 1, signed |-> FALSE]
  /\ BoatV4Sensors[16] = [name |-> "latitude", width |-> 4, signed |-> TRUE]
  /\ BoatV4Sensors[17] = [name |-> "longitude", width |-> 4, signed |-> TRUE]
<1>1. /\ HomeSensors \in Seq(Field) /\ Len(HomeSensors) = 10
  BY DEF HomeSensors, Field, NumberNames, Signed, Unsigned, Widths
<1>f. /\ \A name \in NumberNames : Signed(name) \in Field
      /\ [name |-> "salonHumidity", width |-> 1, signed |-> FALSE] \in Field
      /\ [name |-> "latitude", width |-> 4, signed |-> TRUE] \in Field
      /\ [name |-> "longitude", width |-> 4, signed |-> TRUE] \in Field
  BY DEF Field, NumberNames, Signed, Widths
<1>2. /\ BoatSensors \in Seq(Field) /\ Len(BoatSensors) = 11
      /\ \A s \in 1..10 : BoatSensors[s] = HomeSensors[s]
      /\ BoatSensors[11] = Signed("batteryStarterVoltage")
  <2>1. Signed("batteryStarterVoltage") \in Field BY <1>f DEF NumberNames
  <2>2. BoatSensors = Append(HomeSensors, Signed("batteryStarterVoltage"))
    BY DEF BoatSensors
  <2>m. HomeSensors \in Seq(Field) BY <1>1
  <2>3. /\ BoatSensors \in Seq(Field)
        /\ Len(BoatSensors) = Len(HomeSensors) + 1
        /\ \A s \in 1..Len(HomeSensors) : BoatSensors[s] = HomeSensors[s]
        /\ BoatSensors[Len(HomeSensors) + 1] = Signed("batteryStarterVoltage")
    BY <2>m, <2>1, <2>2, AppendProperties
  <2> QED BY <1>1, <2>3
<1>3. /\ BoatV2Sensors \in Seq(Field) /\ Len(BoatV2Sensors) = 14
      /\ \A s \in 1..11 : BoatV2Sensors[s] = BoatSensors[s]
      /\ BoatV2Sensors[12] = Signed("fridgeTemperature")
      /\ BoatV2Sensors[13] = Signed("salonTemperature")
      /\ BoatV2Sensors[14] = Signed("engineTemperature")
  <2> DEFINE more == <<Signed("fridgeTemperature"), Signed("salonTemperature"),
                       Signed("engineTemperature")>>
  <2>1. more \in Seq(Field) /\ Len(more) = 3
    <3>1. /\ Signed("fridgeTemperature") \in Field
          /\ Signed("salonTemperature") \in Field
          /\ Signed("engineTemperature") \in Field
      BY <1>f DEF NumberNames
    <3> QED BY <3>1
  <2>2. /\ more[1] = Signed("fridgeTemperature")
        /\ more[2] = Signed("salonTemperature")
        /\ more[3] = Signed("engineTemperature")
    OBVIOUS
  <2>3. BoatV2Sensors = BoatSensors \o more BY DEF BoatV2Sensors
  <2> HIDE DEF more
  <2>m. BoatSensors \in Seq(Field) /\ more \in Seq(Field) BY <1>2, <2>1
  <2>4. /\ BoatV2Sensors \in Seq(Field) /\ Len(BoatV2Sensors) = Len(BoatSensors) + Len(more)
        /\ \A s \in 1..Len(BoatSensors) : BoatV2Sensors[s] = BoatSensors[s]
        /\ \A i \in 1..Len(more) : BoatV2Sensors[Len(BoatSensors) + i] = more[i]
    BY <2>m, <2>3, Joined
  <2>5. 1 \in 1..3 /\ 2 \in 1..3 /\ 3 \in 1..3 OBVIOUS
  <2> QED BY <1>2, <2>1, <2>2, <2>4, <2>5
<1>4. /\ BoatV3Sensors \in Seq(Field) /\ Len(BoatV3Sensors) = 15
      /\ \A s \in 1..14 : BoatV3Sensors[s] = BoatV2Sensors[s]
      /\ BoatV3Sensors[15] = [name |-> "salonHumidity", width |-> 1, signed |-> FALSE]
  <2> DEFINE e == [name |-> "salonHumidity", width |-> 1, signed |-> FALSE]
  <2>1. BoatV3Sensors = Append(BoatV2Sensors, e) /\ e \in Field
    BY <1>f DEF BoatV3Sensors
  <2> HIDE DEF e
  <2>m. BoatV2Sensors \in Seq(Field) BY <1>3
  <2>2. /\ BoatV3Sensors \in Seq(Field)
        /\ Len(BoatV3Sensors) = Len(BoatV2Sensors) + 1
        /\ \A s \in 1..Len(BoatV2Sensors) : BoatV3Sensors[s] = BoatV2Sensors[s]
        /\ BoatV3Sensors[Len(BoatV2Sensors) + 1] = e
    BY <2>m, <2>1, AppendProperties
  <2> QED BY <1>3, <2>2 DEF e
<1>5. /\ BoatV4Sensors \in Seq(Field) /\ Len(BoatV4Sensors) = 17
      /\ \A s \in 1..15 : BoatV4Sensors[s] = BoatV3Sensors[s]
      /\ BoatV4Sensors[16] = [name |-> "latitude", width |-> 4, signed |-> TRUE]
      /\ BoatV4Sensors[17] = [name |-> "longitude", width |-> 4, signed |-> TRUE]
  <2> DEFINE a == [name |-> "latitude", width |-> 4, signed |-> TRUE]
             b == [name |-> "longitude", width |-> 4, signed |-> TRUE]
             more == <<a, b>>
  <2>0. a \in Field /\ b \in Field BY <1>f
  <2>1. more \in Seq(Field) /\ Len(more) = 2 /\ more[1] = a /\ more[2] = b
    BY <2>0
  <2>3. BoatV4Sensors = BoatV3Sensors \o more BY DEF BoatV4Sensors
  <2> HIDE DEF more
  <2>m. BoatV3Sensors \in Seq(Field) /\ more \in Seq(Field) BY <1>4, <2>1
  <2>4. /\ BoatV4Sensors \in Seq(Field) /\ Len(BoatV4Sensors) = Len(BoatV3Sensors) + Len(more)
        /\ \A s \in 1..Len(BoatV3Sensors) : BoatV4Sensors[s] = BoatV3Sensors[s]
        /\ \A i \in 1..Len(more) : BoatV4Sensors[Len(BoatV3Sensors) + i] = more[i]
    BY <2>m, <2>3, Joined
  <2>5. 1 \in 1..2 /\ 2 \in 1..2 OBVIOUS
  <2> QED BY <1>4, <2>1, <2>4, <2>5
<1>6. \A s \in 1..14 : BoatV2Sensors[s] = BoatV4Sensors[s]
  <2> SUFFICES ASSUME NEW s \in 1..14 PROVE BoatV2Sensors[s] = BoatV4Sensors[s]
    OBVIOUS
  <2>1. s \in 1..15 OBVIOUS
  <2>2. BoatV4Sensors[s] = BoatV3Sensors[s] BY <1>5, <2>1
  <2>3. BoatV3Sensors[s] = BoatV2Sensors[s] BY <1>4
  <2> QED BY <2>2, <2>3
<1>7. \A s \in 1..11 : BoatSensors[s] = BoatV4Sensors[s]
  <2> SUFFICES ASSUME NEW s \in 1..11 PROVE BoatSensors[s] = BoatV4Sensors[s]
    OBVIOUS
  <2>1. s \in 1..14 OBVIOUS
  <2>2. BoatV2Sensors[s] = BoatV4Sensors[s] BY <1>6, <2>1
  <2>3. BoatV2Sensors[s] = BoatSensors[s] BY <1>3
  <2> QED BY <2>2, <2>3
<1>8. \A s \in 1..10 : HomeSensors[s] = BoatV4Sensors[s] BY <1>2, <1>7
<1> QED BY <1>1, <1>2, <1>3, <1>4, <1>5, <1>6, <1>7, <1>8

\* The numbers of a boat-v4: their widths, that a field without a sign is short, and
\* that no two have the same name.
LEMMA Numbers ==
  /\ \A s \in 1..17 :
       BoatV4Sensors[s].width = IF s <= 14 THEN 2 ELSE IF s = 15 THEN 1 ELSE 4
  /\ \A s \in 1..17 : BoatV4Sensors[s].signed \in BOOLEAN
  /\ \A s \in {16, 17} : BoatV4Sensors[s].signed
  /\ \A s \in 1..17 : BoatV4Sensors[s].name \in NumberNames
  /\ \A s \in 1..17 : BoatV4Sensors[s].name = "batteryTimeRemaining" <=> s = 9
  /\ \A s \in 1..17 : BoatV4Sensors[s].name = "latitude" <=> s = 16
  /\ \A s \in 1..17 : BoatV4Sensors[s].name = "longitude" <=> s = 17
  /\ \A s, t \in 1..17 : BoatV4Sensors[s].name = BoatV4Sensors[t].name => s = t
<1>1. \A s \in 1..10 : BoatV4Sensors[s] = HomeSensors[s] BY SensorLists
<1>2. /\ BoatV4Sensors[1] = Signed("mpptPower")
      /\ BoatV4Sensors[2] = Signed("mpptCurrent")
      /\ BoatV4Sensors[3] = Signed("mpptYieldToday")
      /\ BoatV4Sensors[4] = Signed("batteryVoltage")
      /\ BoatV4Sensors[5] = Signed("batteryPower")
      /\ BoatV4Sensors[6] = Signed("batteryCurrent")
      /\ BoatV4Sensors[7] = Signed("batteryConsumedAh")
      /\ BoatV4Sensors[8] = Unsigned("batteryStateOfCharge")
      /\ BoatV4Sensors[9] = Unsigned("batteryTimeRemaining")
      /\ BoatV4Sensors[10] = Signed("batteryTemperature")
  BY <1>1 DEF HomeSensors
<1>3. /\ BoatV4Sensors[1].name = "mpptPower"
      /\ BoatV4Sensors[2].name = "mpptCurrent"
      /\ BoatV4Sensors[3].name = "mpptYieldToday"
      /\ BoatV4Sensors[4].name = "batteryVoltage"
      /\ BoatV4Sensors[5].name = "batteryPower"
      /\ BoatV4Sensors[6].name = "batteryCurrent"
      /\ BoatV4Sensors[7].name = "batteryConsumedAh"
      /\ BoatV4Sensors[8].name = "batteryStateOfCharge"
      /\ BoatV4Sensors[9].name = "batteryTimeRemaining"
      /\ BoatV4Sensors[10].name = "batteryTemperature"
      /\ BoatV4Sensors[11].name = "batteryStarterVoltage"
      /\ BoatV4Sensors[12].name = "fridgeTemperature"
      /\ BoatV4Sensors[13].name = "salonTemperature"
      /\ BoatV4Sensors[14].name = "engineTemperature"
      /\ BoatV4Sensors[15].name = "salonHumidity"
      /\ BoatV4Sensors[16].name = "latitude"
      /\ BoatV4Sensors[17].name = "longitude"
  BY <1>2, SensorLists DEF Signed, Unsigned
<1>4. \A s \in 1..17 : s \in {1, 2, 3, 4, 5, 6, 7, 8, 9, 10, 11, 12, 13, 14, 15, 16, 17}
  OBVIOUS
<1>w. /\ BoatV4Sensors[1].width = 2
      /\ BoatV4Sensors[2].width = 2
      /\ BoatV4Sensors[3].width = 2
      /\ BoatV4Sensors[4].width = 2
      /\ BoatV4Sensors[5].width = 2
      /\ BoatV4Sensors[6].width = 2
      /\ BoatV4Sensors[7].width = 2
      /\ BoatV4Sensors[8].width = 2
      /\ BoatV4Sensors[9].width = 2
      /\ BoatV4Sensors[10].width = 2
      /\ BoatV4Sensors[11].width = 2
      /\ BoatV4Sensors[12].width = 2
      /\ BoatV4Sensors[13].width = 2
      /\ BoatV4Sensors[14].width = 2
      /\ BoatV4Sensors[15].width = 1
      /\ BoatV4Sensors[16].width = 4
      /\ BoatV4Sensors[17].width = 4
  BY <1>2, SensorLists DEF Signed, Unsigned
<1>5. \A s \in 1..17 :
        BoatV4Sensors[s].width = IF s <= 14 THEN 2 ELSE IF s = 15 THEN 1 ELSE 4
  <2> SUFFICES ASSUME NEW s \in 1..17
               PROVE  BoatV4Sensors[s].width
                        = IF s <= 14 THEN 2 ELSE IF s = 15 THEN 1 ELSE 4
    OBVIOUS
  <2>1. CASE s <= 14
    <3>1. s \in {1, 2, 3, 4, 5, 6, 7, 8, 9, 10, 11, 12, 13, 14} BY <2>1
    <3>2. BoatV4Sensors[s].width = 2 BY <3>1, <1>w
    <3> QED BY <2>1, <3>2
  <2>2. CASE s = 15 BY <2>2, <1>w
  <2>3. CASE s > 15
    <3>1. s \in {16, 17} /\ ~(s <= 14) /\ s # 15 BY <2>3
    <3>2. BoatV4Sensors[s].width = 4 BY <3>1, <1>w
    <3> QED BY <3>1, <3>2
  <2> QED BY <2>1, <2>2, <2>3
<1>s. /\ \A s \in 1..17 : BoatV4Sensors[s].signed \in BOOLEAN
      /\ \A s \in {16, 17} : BoatV4Sensors[s].signed
  <2>1. \A s \in 1..17 : BoatV4Sensors[s] \in Field
    BY SensorLists, ElementOfSeq
  <2>2. \A s \in 1..17 : BoatV4Sensors[s].signed \in BOOLEAN
    BY <2>1 DEF Field
  <2>3. BoatV4Sensors[16].signed /\ BoatV4Sensors[17].signed BY SensorLists
  <2> QED BY <2>2, <2>3
<1>6. \A s \in 1..17 : BoatV4Sensors[s].name \in NumberNames
  BY <1>3, <1>4 DEF NumberNames
<1>7. /\ \A s \in 1..17 : BoatV4Sensors[s].name = "batteryTimeRemaining" <=> s = 9
      /\ \A s \in 1..17 : BoatV4Sensors[s].name = "latitude" <=> s = 16
      /\ \A s \in 1..17 : BoatV4Sensors[s].name = "longitude" <=> s = 17
  BY <1>3, <1>4
<1>8. \A s, t \in 1..17 : BoatV4Sensors[s].name = BoatV4Sensors[t].name => s = t
  BY <1>3, <1>4
<1> QED BY <1>5, <1>6, <1>7, <1>8, <1>s

\* SensorBytes, of the sensors of any layout.
LEMMA SensorBytesIs ==
  ASSUME NEW sensors, NEW n \in 0..17,
         \A s \in 1..n : sensors[s] = BoatV4Sensors[s], NEW m \in 0..n
  PROVE  SensorBytes(sensors, m) = Offset(m)
<1> DEFINE u == CHOOSE u : u = [k \in 0..m |->
                  IF k = 0 THEN 0 ELSE u[k - 1] + sensors[k].width]
           g == [k \in 0..m |-> Offset(k)]
<1>0. ASSUME NEW k \in 1..m
      PROVE  Offset(k) = Offset(k - 1) + sensors[k].width
  <2>1. k \in 1..17 /\ sensors[k] = BoatV4Sensors[k] OBVIOUS
  <2>2. sensors[k].width = IF k <= 14 THEN 2 ELSE IF k = 15 THEN 1 ELSE 4
    BY <2>1, Numbers
  <2> QED BY <2>1, <2>2 DEF Offset
<1>1. g = [k \in 0..m |-> IF k = 0 THEN 0 ELSE g[k - 1] + sensors[k].width]
  <2>1. ASSUME NEW k \in 0..m
        PROVE  Offset(k) = IF k = 0 THEN 0 ELSE g[k - 1] + sensors[k].width
    <3>1. CASE k = 0 BY <3>1 DEF Offset
    <3>2. CASE k # 0
      <4>1. k \in 1..m /\ k - 1 \in 0..m BY <3>2
      <4>2. g[k - 1] = Offset(k - 1) BY <4>1
      <4> HIDE DEF g
      <4> QED BY <1>0, <3>2, <4>1, <4>2
    <3> QED BY <3>1, <3>2
  <2> QED BY <2>1
<1>2. u = [k \in 0..m |-> IF k = 0 THEN 0 ELSE u[k - 1] + sensors[k].width]
  <2> HIDE DEF g
  <2> QED BY <1>1
<1>3. SensorBytes(sensors, m) = u[m] BY DEF SensorBytes
<1> HIDE DEF u
<1> DEFINE T == {k \in Nat : k <= m => u[k] = Offset(k)}
<1>4. 0 \in T
  <2>1. u[0] = 0 BY <1>2
  <2> QED BY <2>1 DEF Offset
<1>5. \A k \in Nat : k \in T => k + 1 \in T
  <2> SUFFICES ASSUME NEW k \in Nat, k + 1 <= m, u[k] = Offset(k)
               PROVE  u[k + 1] = Offset(k + 1)
    OBVIOUS
  <2>1. k + 1 \in 1..m /\ k + 1 # 0 /\ (k + 1) - 1 = k OBVIOUS
  <2>2. u[k + 1] = u[k] + sensors[k + 1].width BY <1>2, <2>1
  <2>3. Offset(k + 1) = Offset(k) + sensors[k + 1].width BY <1>0, <2>1
  <2> QED BY <2>2, <2>3
<1>6. m \in T
  <2> HIDE DEF T
  <2> QED BY <1>4, <1>5, SetInduction
<1> QED BY <1>3, <1>6

\* f is where the texts of a layout start, and where the last of n ends.
TextsStart(f, bytes, layout, n) ==
  /\ f[0] = FixedLength(layout) + 1
  /\ \A t \in 1..n : f[t] = readText(bytes, f[t - 1])
  /\ \A t \in 0..n : TextStart(bytes, layout, t) = f[t]

\* TextStart goes from each text to the next.
LEMMA TextStartIs ==
  ASSUME NEW bytes \in Seq(Byte), NEW layout, FixedLength(layout) \in Nat,
         NEW n \in Nat
  PROVE  \E f \in [0..n -> Nat] : TextsStart(f, bytes, layout, n)
<1> DEFINE v0 == FixedLength(layout) + 1
           step == [k \in 1..n |-> [v \in Nat |-> readText(bytes, v)]]
<1>0. ASSUME NEW i \in Nat PROVE readText(bytes, i) \in Nat
  <2>1. CASE i \in 1..Len(bytes) /\ i + bytes[i] <= Len(bytes)
    <3>1. PICK b \in 0..255 : bytes[i] = b BY <2>1, ElementOfSeq DEF Byte
    <3>2. readText(bytes, i) = i + 1 + b BY <2>1, <3>1 DEF readText
    <3> QED BY <3>2
  <2>2. CASE ~(i \in 1..Len(bytes) /\ i + bytes[i] <= Len(bytes))
    BY <2>2 DEF readText, NoText
  <2> QED BY <2>1, <2>2
<1>1. step \in [1..n -> [Nat -> Nat]] BY <1>0
<1>2. v0 \in Nat OBVIOUS
<1>s. \A k \in 1..n, v \in Nat : step[k][v] = readText(bytes, v) OBVIOUS
<1>v. v0 = FixedLength(layout) + 1 OBVIOUS
<1> HIDE DEF step, v0
<1>3. PICK f \in [0..n -> Nat] :
        f[0] = v0 /\ \A k \in 1..n : f[k] = step[k][f[k - 1]]
  <2>1. \E f \in [0..n -> Nat] : Goes(f, n, v0, step) BY <1>1, <1>2, Recursion
  <2> QED BY <2>1 DEF Goes
<1>4. \A k \in 1..n : f[k] = readText(bytes, f[k - 1])
  <2>1. \A k \in 1..n : f[k - 1] \in Nat OBVIOUS
  <2> QED BY <1>3, <1>s, <2>1
<1>5. ASSUME NEW t \in 0..n PROVE TextStart(bytes, layout, t) = f[t]
  <2> DEFINE u == CHOOSE u : u = [k \in 0..t |->
                    IF k = 0 THEN FixedLength(layout) + 1
                    ELSE readText(bytes, u[k - 1])]
             g == [k \in 0..t |-> f[k]]
  <2>1. g = [k \in 0..t |-> IF k = 0 THEN FixedLength(layout) + 1
                            ELSE readText(bytes, g[k - 1])]
    <3>1. ASSUME NEW k \in 0..t
          PROVE  f[k] = IF k = 0 THEN FixedLength(layout) + 1
                        ELSE readText(bytes, g[k - 1])
      <4>1. CASE k = 0 BY <1>3, <1>v, <4>1
      <4>2. CASE k # 0
        <5>1. k \in 1..n /\ k - 1 \in 0..t BY <4>2
        <5>2. g[k - 1] = f[k - 1] BY <5>1
        <5> HIDE DEF g
        <5> QED BY <1>4, <4>2, <5>1, <5>2
      <4> QED BY <4>1, <4>2
    <3> QED BY <3>1
  <2>2. u = [k \in 0..t |-> IF k = 0 THEN FixedLength(layout) + 1
                            ELSE readText(bytes, u[k - 1])]
    <3> HIDE DEF g
    <3> QED BY <2>1
  <2>3. TextStart(bytes, layout, t) = u[t] BY DEF TextStart
  <2> HIDE DEF u
  <2> DEFINE T == {k \in Nat : k <= t => u[k] = f[k]}
  <2>4. 0 \in T
    <3>1. u[0] = FixedLength(layout) + 1 BY <2>2
    <3> QED BY <1>3, <1>v, <3>1
  <2>5. \A k \in Nat : k \in T => k + 1 \in T
    <3> SUFFICES ASSUME NEW k \in Nat, k + 1 <= t, u[k] = f[k]
                 PROVE  u[k + 1] = f[k + 1]
      OBVIOUS
    <3>1. /\ k + 1 \in 0..t /\ k + 1 \in 1..n
          /\ k + 1 # 0 /\ (k + 1) - 1 = k
      OBVIOUS
    <3>2. u[k + 1] = readText(bytes, u[k]) BY <2>2, <3>1
    <3>3. f[k + 1] = readText(bytes, f[k]) BY <1>4, <3>1
    <3> QED BY <3>2, <3>3
  <2>6. t \in T
    <3> HIDE DEF T
    <3>1. t \in Nat OBVIOUS
    <3> QED BY <2>4, <2>5, <3>1, SetInduction
  <2> QED BY <2>3, <2>6
<1> QED BY <1>3, <1>4, <1>5, <1>v DEF TextsStart

\* Sensors, bits and texts of each layout, and the bytes before its texts.
Counts == <<17, 15, 14, 11, 10>>
BitCounts == <<12, 4, 4, 4, 3>>
TextCounts == <<3, 5, 5, 5, 3>>
FixedLengths == <<39, 30, 29, 23, 21>>

\* The sensors of each layout (LAYOUTS, decode.js:93).
LEMMA LayoutSensors ==
  /\ DOMAIN LAYOUTS = 1..5 /\ Len(LAYOUTS) = 5
  /\ \A l \in 1..5 : /\ LAYOUTS[l].sensors \in Seq(Field)
                     /\ Len(LAYOUTS[l].sensors) = Counts[l]
                     /\ DOMAIN LAYOUTS[l].sensors = 1..Counts[l]
                     /\ Counts[l] \in 10..17
                     /\ \A s \in 1..Counts[l] :
                          LAYOUTS[l].sensors[s] = BoatV4Sensors[s]
<1>1. DOMAIN LAYOUTS = 1..5 /\ Len(LAYOUTS) = 5 BY DEF LAYOUTS
<1>2. /\ LAYOUTS[1].sensors = BoatV4Sensors /\ LAYOUTS[2].sensors = BoatV3Sensors
      /\ LAYOUTS[3].sensors = BoatV2Sensors /\ LAYOUTS[4].sensors = BoatSensors
      /\ LAYOUTS[5].sensors = HomeSensors
  BY DEF LAYOUTS, Layout
<1>3. \A l \in 1..5 : l = 1 \/ l = 2 \/ l = 3 \/ l = 4 \/ l = 5 OBVIOUS
<1>4. /\ Counts[1] = 17 /\ Counts[2] = 15 /\ Counts[3] = 14
      /\ Counts[4] = 11 /\ Counts[5] = 10
  BY DEF Counts
<1>5. ASSUME NEW l \in 1..5
      PROVE  /\ LAYOUTS[l].sensors \in Seq(Field)
             /\ Len(LAYOUTS[l].sensors) = Counts[l]
             /\ \A s \in 1..Counts[l] : LAYOUTS[l].sensors[s] = BoatV4Sensors[s]
             /\ Counts[l] \in 10..17
  <2>1. CASE l = 1
    <3>1. LAYOUTS[l].sensors = BoatV4Sensors /\ Counts[l] = 17
      BY <1>2, <1>4, <2>1
    <3> QED BY <3>1, SensorLists
  <2>2. CASE l = 2
    <3>1. LAYOUTS[l].sensors = BoatV3Sensors /\ Counts[l] = 15
      BY <1>2, <1>4, <2>2
    <3> QED BY <3>1, SensorLists
  <2>3. CASE l = 3
    <3>1. LAYOUTS[l].sensors = BoatV2Sensors /\ Counts[l] = 14
      BY <1>2, <1>4, <2>3
    <3> QED BY <3>1, SensorLists
  <2>4. CASE l = 4
    <3>1. LAYOUTS[l].sensors = BoatSensors /\ Counts[l] = 11
      BY <1>2, <1>4, <2>4
    <3> QED BY <3>1, SensorLists
  <2>5. CASE l = 5
    <3>1. LAYOUTS[l].sensors = HomeSensors /\ Counts[l] = 10
      BY <1>2, <1>4, <2>5
    <3> QED BY <3>1, SensorLists
  <2> QED BY <1>3, <2>1, <2>2, <2>3, <2>4, <2>5
<1>6. \A l \in 1..5 : DOMAIN LAYOUTS[l].sensors = 1..Counts[l]
  <2>1. ASSUME NEW l \in 1..5 PROVE DOMAIN LAYOUTS[l].sensors = 1..Counts[l]
    <3>1. LAYOUTS[l].sensors \in Seq(Field) BY <1>5
    <3>2. DOMAIN LAYOUTS[l].sensors = 1..Len(LAYOUTS[l].sensors)
      BY <3>1, LenProperties
    <3>3. Len(LAYOUTS[l].sensors) = Counts[l] BY <1>5
    <3> QED BY <3>2, <3>3
  <2> QED BY <2>1
<1> QED BY <1>1, <1>5, <1>6

\* A function over 1..n is a sequence of length n.
LEMMA FunctionIsSeq ==
  ASSUME NEW S, NEW n \in Nat, NEW f \in [1..n -> S]
  PROVE  f \in Seq(S) /\ Len(f) = n /\ DOMAIN f = 1..n
<1>1. f \in Seq(S) BY SeqDef
<1>2. DOMAIN f = 1..Len(f) /\ Len(f) \in Nat BY <1>1, LenProperties
<1>3. Len(f) = n
  <2>1. 1..Len(f) = 1..n BY <1>2
  <2>2. CASE Len(f) < n
    <3>1. n \in 1..n /\ n \notin 1..Len(f) BY <1>2, <2>2
    <3> QED BY <2>1, <3>1
  <2>3. CASE Len(f) > n
    <3>1. Len(f) \in 1..Len(f) /\ Len(f) \notin 1..n BY <1>2, <2>3
    <3> QED BY <2>1, <3>1
  <2> QED BY <1>2, <2>2, <2>3
<1> QED BY <1>1, <1>3

\* The names of the bits and of the texts, and a bit of a layout.
BitNames == {"batteryAlarm", "mpptFault", "mpptError", "orionError",
             "mpptState", "orionState"}
WordNames == {"batteryAlarmReason", "mpptState", "mpptErrorReason",
              "orionState", "orionErrorReason"}
BitField == [name : BitNames, label : Seq(Nat)]

\* The words of the states are not empty.
LEMMA Words ==
  /\ Off \in Seq(Nat) /\ Bulk \in Seq(Nat) /\ Absorption \in Seq(Nat)
  /\ Float \in Seq(Nat)
  /\ Off # <<>> /\ Bulk # <<>> /\ Absorption # <<>> /\ Float # <<>>
<1>1. ASSUME NEW c \in Nat, NEW n \in Nat \ {0}
      PROVE  Word(c, n) \in Seq(Nat) /\ Word(c, n) # <<>>
  <2>1. Word(c, n) \in [1..n -> Nat] BY DEF Word
  <2>2. Word(c, n) \in Seq(Nat) /\ Len(Word(c, n)) = n BY <2>1, FunctionIsSeq
  <2> QED BY <2>2, EmptySeq
<1>2. /\ 111 \in Nat /\ 66 \in Nat /\ 65 \in Nat /\ 70 \in Nat
      /\ 3 \in Nat \ {0} /\ 4 \in Nat \ {0} /\ 5 \in Nat \ {0}
      /\ 10 \in Nat \ {0}
  OBVIOUS
<1>3. Off \in Seq(Nat) /\ Off # <<>> BY <1>1, <1>2 DEF Off
<1>4. Bulk \in Seq(Nat) /\ Bulk # <<>> BY <1>1, <1>2 DEF Bulk
<1>5. Absorption \in Seq(Nat) /\ Absorption # <<>>
  BY <1>1, <1>2 DEF Absorption
<1>6. Float \in Seq(Nat) /\ Float # <<>> BY <1>1, <1>2 DEF Float
<1> QED BY <1>3, <1>4, <1>5, <1>6

\* A state is four bits of one name, each with its word (decode.js:117).
LEMMA StatesAre ==
  ASSUME NEW name \in BitNames
  PROVE  /\ States(name) \in Seq(BitField) /\ Len(States(name)) = 4
         /\ \A i \in 1..4 : /\ States(name)[i].name = name
                            /\ States(name)[i].label # <<>>
<1> DEFINE labels == <<Off, Bulk, Absorption, Float>>
<1>1. \A i \in 1..4 : labels[i] \in Seq(Nat) /\ labels[i] # <<>>
  <2>1. /\ labels[1] = Off /\ labels[2] = Bulk /\ labels[3] = Absorption
        /\ labels[4] = Float
    OBVIOUS
  <2> HIDE DEF labels
  <2>2. \A i \in 1..4 : i = 1 \/ i = 2 \/ i = 3 \/ i = 4 OBVIOUS
  <2>3. /\ labels[1] \in Seq(Nat) /\ labels[1] # <<>>
        /\ labels[2] \in Seq(Nat) /\ labels[2] # <<>>
        /\ labels[3] \in Seq(Nat) /\ labels[3] # <<>>
        /\ labels[4] \in Seq(Nat) /\ labels[4] # <<>>
    BY <2>1, Words
  <2> QED BY <2>2, <2>3
<1>2. States(name) = [i \in 1..4 |-> [name |-> name, label |-> labels[i]]]
  BY DEF States
<1> HIDE DEF labels
<1>3. States(name) \in [1..4 -> BitField] BY <1>1, <1>2 DEF BitField
<1>4. States(name) \in Seq(BitField) /\ Len(States(name)) = 4
  <2>1. 4 \in Nat OBVIOUS
  <2> QED BY <1>3, <2>1, FunctionIsSeq
<1>5. ASSUME NEW i \in 1..4
      PROVE  States(name)[i].name = name /\ States(name)[i].label # <<>>
  <2>1. States(name)[i] = [name |-> name, label |-> labels[i]] BY <1>2
  <2>2. labels[i] # <<>> BY <1>1
  <2> QED BY <2>1, <2>2
<1> QED BY <1>4, <1>5

\* The bits of each layout are the first bits of a boat-v4.
LEMMA BitLists ==
  /\ HomeBinaries \in Seq(BitField) /\ Len(HomeBinaries) = 3
  /\ BoatBinaries \in Seq(BitField) /\ Len(BoatBinaries) = 4
  /\ BoatV4Binaries \in Seq(BitField) /\ Len(BoatV4Binaries) = 12
  /\ \A b \in 1..3 : HomeBinaries[b] = BoatV4Binaries[b]
  /\ \A b \in 1..4 : BoatBinaries[b] = BoatV4Binaries[b]
  /\ BoatV4Binaries[1] = Plain("batteryAlarm")
  /\ BoatV4Binaries[2] = Plain("mpptFault")
  /\ BoatV4Binaries[3] = Plain("mpptError")
  /\ BoatV4Binaries[4] = Plain("orionError")
  /\ \A i \in 1..4 : /\ BoatV4Binaries[4 + i].name = "mpptState"
                     /\ BoatV4Binaries[4 + i].label # <<>>
                     /\ BoatV4Binaries[8 + i].name = "orionState"
                     /\ BoatV4Binaries[8 + i].label # <<>>
<1>0. <<>> \in Seq(Nat) BY EmptySeq
<1>p. \A name \in BitNames : Plain(name) \in BitField
  BY <1>0 DEF Plain, BitField
<1>n. /\ "batteryAlarm" \in BitNames /\ "mpptFault" \in BitNames
      /\ "mpptError" \in BitNames /\ "orionError" \in BitNames
      /\ "mpptState" \in BitNames /\ "orionState" \in BitNames
  BY DEF BitNames
<1>q. /\ Plain("batteryAlarm") \in BitField /\ Plain("mpptFault") \in BitField
      /\ Plain("mpptError") \in BitField /\ Plain("orionError") \in BitField
  BY <1>p, <1>n
<1>1. /\ HomeBinaries \in Seq(BitField) /\ Len(HomeBinaries) = 3
      /\ HomeBinaries[1] = Plain("batteryAlarm")
      /\ HomeBinaries[2] = Plain("mpptFault")
      /\ HomeBinaries[3] = Plain("mpptError")
  BY <1>q DEF HomeBinaries
<1>2. /\ BoatBinaries \in Seq(BitField) /\ Len(BoatBinaries) = 4
      /\ \A b \in 1..3 : BoatBinaries[b] = HomeBinaries[b]
      /\ BoatBinaries[4] = Plain("orionError")
  <2>1. BoatBinaries = Append(HomeBinaries, Plain("orionError"))
    BY DEF BoatBinaries
  <2>2. HomeBinaries \in Seq(BitField) BY <1>1
  <2>3. Plain("orionError") \in BitField BY <1>q
  <2>4. /\ BoatBinaries \in Seq(BitField)
        /\ Len(BoatBinaries) = Len(HomeBinaries) + 1
        /\ \A b \in 1..Len(HomeBinaries) : BoatBinaries[b] = HomeBinaries[b]
        /\ BoatBinaries[Len(HomeBinaries) + 1] = Plain("orionError")
    BY <2>1, <2>2, <2>3, AppendProperties
  <2> QED BY <1>1, <2>4
<1> DEFINE mppt == States("mpptState")
           orion == States("orionState")
           both == BoatBinaries \o mppt
<1>3. /\ mppt \in Seq(BitField) /\ Len(mppt) = 4
      /\ orion \in Seq(BitField) /\ Len(orion) = 4
      /\ \A i \in 1..4 : /\ mppt[i].name = "mpptState" /\ mppt[i].label # <<>>
                         /\ orion[i].name = "orionState" /\ orion[i].label # <<>>
  BY <1>n, StatesAre
<1>4. BoatV4Binaries = both \o orion BY DEF BoatV4Binaries
<1> HIDE DEF mppt, orion
<1>5. /\ both \in Seq(BitField) /\ Len(both) = 8
      /\ \A b \in 1..4 : both[b] = BoatBinaries[b]
      /\ \A i \in 1..4 : both[4 + i] = mppt[i]
  <2>1. BoatBinaries \in Seq(BitField) /\ mppt \in Seq(BitField) BY <1>2, <1>3
  <2>2. /\ both \in Seq(BitField)
        /\ Len(both) = Len(BoatBinaries) + Len(mppt)
        /\ \A b \in 1..Len(BoatBinaries) : both[b] = BoatBinaries[b]
        /\ \A i \in 1..Len(mppt) : both[Len(BoatBinaries) + i] = mppt[i]
    BY <2>1, Joined
  <2>3. Len(BoatBinaries) = 4 /\ Len(mppt) = 4 BY <1>2, <1>3
  <2> HIDE DEF both
  <2> QED BY <2>2, <2>3
<1> HIDE DEF both
<1>6. /\ BoatV4Binaries \in Seq(BitField) /\ Len(BoatV4Binaries) = 12
      /\ \A b \in 1..8 : BoatV4Binaries[b] = both[b]
      /\ \A i \in 1..4 : BoatV4Binaries[8 + i] = orion[i]
  <2>1. both \in Seq(BitField) /\ orion \in Seq(BitField) BY <1>3, <1>5
  <2>2. /\ BoatV4Binaries \in Seq(BitField)
        /\ Len(BoatV4Binaries) = Len(both) + Len(orion)
        /\ \A b \in 1..Len(both) : BoatV4Binaries[b] = both[b]
        /\ \A i \in 1..Len(orion) : BoatV4Binaries[Len(both) + i] = orion[i]
    BY <1>4, <2>1, Joined
  <2>3. Len(both) = 8 /\ Len(orion) = 4 BY <1>3, <1>5
  <2> QED BY <2>2, <2>3
<1>7. \A b \in 1..4 : BoatBinaries[b] = BoatV4Binaries[b] BY <1>5, <1>6
<1>8. \A b \in 1..3 : HomeBinaries[b] = BoatV4Binaries[b] BY <1>2, <1>7
<1>9. \A i \in 1..4 : BoatV4Binaries[4 + i] = mppt[i]
  <2>1. \A i \in 1..4 : 4 + i \in 1..8 OBVIOUS
  <2> QED BY <1>5, <1>6, <2>1
<1>10. /\ BoatV4Binaries[1] = Plain("batteryAlarm")
       /\ BoatV4Binaries[2] = Plain("mpptFault")
       /\ BoatV4Binaries[3] = Plain("mpptError")
       /\ BoatV4Binaries[4] = Plain("orionError")
  BY <1>1, <1>2, <1>7, <1>8
<1> QED BY <1>1, <1>2, <1>3, <1>6, <1>7, <1>8, <1>9, <1>10

\* The first four bits are plain and have names of their own; the other eight have
\* labels, and the names of two devices.
LEMMA Bits ==
  /\ \A b \in 1..12 : BoatV4Binaries[b].name \in BitNames
  /\ \A b \in 1..12 : BoatV4Binaries[b].label = <<>> <=> b <= 4
  /\ \A b \in 1..4 : \A c \in 1..12 :
       BoatV4Binaries[c].name = BoatV4Binaries[b].name => c = b
  /\ \A b \in 1..4 : BoatV4Binaries[b].name \notin WordNames
  /\ \A b \in 1..12 : BoatV4Binaries[b].name
       \notin {"batteryAlarmReason", "mpptErrorReason", "orionErrorReason"}
<1>1. \A b \in 1..12 : BoatV4Binaries[b] \in BitField BY BitLists, ElementOfSeq
<1>2. /\ BoatV4Binaries[1].name = "batteryAlarm"
      /\ BoatV4Binaries[2].name = "mpptFault"
      /\ BoatV4Binaries[3].name = "mpptError"
      /\ BoatV4Binaries[4].name = "orionError"
      /\ BoatV4Binaries[1].label = <<>> /\ BoatV4Binaries[2].label = <<>>
      /\ BoatV4Binaries[3].label = <<>> /\ BoatV4Binaries[4].label = <<>>
  BY BitLists DEF Plain
<1>3. \A b \in 5..12 :
        /\ BoatV4Binaries[b].name \in {"mpptState", "orionState"}
        /\ BoatV4Binaries[b].label # <<>>
  <2> SUFFICES ASSUME NEW b \in 5..12
               PROVE  /\ BoatV4Binaries[b].name \in {"mpptState", "orionState"}
                      /\ BoatV4Binaries[b].label # <<>>
    OBVIOUS
  <2>1. CASE b <= 8
    <3>1. b - 4 \in 1..4 /\ 4 + (b - 4) = b BY <2>1
    <3> QED BY <3>1, BitLists
  <2>2. CASE b > 8
    <3>1. b - 8 \in 1..4 /\ 8 + (b - 8) = b BY <2>2
    <3> QED BY <3>1, BitLists
  <2> QED BY <2>1, <2>2
<1>4. /\ \A b \in 1..4 : b = 1 \/ b = 2 \/ b = 3 \/ b = 4
      /\ \A b \in 1..12 : b \in 1..4 \/ b \in 5..12
  OBVIOUS
<1>5. \A b \in 1..12 : BoatV4Binaries[b].label = <<>> <=> b <= 4
  <2>1. \A b \in 1..4 : BoatV4Binaries[b].label = <<>> /\ b <= 4 BY <1>2, <1>4
  <2>2. \A b \in 5..12 : BoatV4Binaries[b].label # <<>> /\ ~(b <= 4) BY <1>3
  <2> QED BY <1>4, <2>1, <2>2
<1>6. \A b \in 1..12 : BoatV4Binaries[b].name \in BitNames BY <1>1 DEF BitField
<1>7. \A b \in 1..4 : BoatV4Binaries[b].name \notin WordNames
  BY <1>2, <1>4 DEF WordNames
<1>8. \A b \in 1..12 : BoatV4Binaries[b].name
        \notin {"batteryAlarmReason", "mpptErrorReason", "orionErrorReason"}
  BY <1>6 DEF BitNames
<1>9. \A b \in 1..4 : \A c \in 1..12 :
        BoatV4Binaries[c].name = BoatV4Binaries[b].name => c = b
  <2> SUFFICES ASSUME NEW b \in 1..4, NEW c \in 1..12,
                      BoatV4Binaries[c].name = BoatV4Binaries[b].name
               PROVE  c = b
    OBVIOUS
  <2>1. CASE c \in 1..4 BY <1>2, <1>4, <2>1
  <2>2. CASE c \in 5..12
    <3>1. BoatV4Binaries[b].name \notin {"mpptState", "orionState"}
      BY <1>2, <1>4
    <3> QED BY <1>3, <2>2, <3>1
  <2> QED BY <1>4, <2>1, <2>2
<1> QED BY <1>5, <1>6, <1>7, <1>8, <1>9

\* The bits of the layouts.
LEMMA LayoutBits ==
  \A l \in 1..5 : /\ LAYOUTS[l].binaries \in Seq(BitField)
                  /\ Len(LAYOUTS[l].binaries) = BitCounts[l]
                  /\ DOMAIN LAYOUTS[l].binaries = 1..BitCounts[l]
                  /\ BitCounts[l] \in 3..12
                  /\ l # 1 => BitCounts[l] <= 4
                  /\ \A b \in 1..BitCounts[l] :
                       LAYOUTS[l].binaries[b] = BoatV4Binaries[b]
<1>2. /\ LAYOUTS[1].binaries = BoatV4Binaries
      /\ LAYOUTS[2].binaries = BoatBinaries
      /\ LAYOUTS[3].binaries = BoatBinaries
      /\ LAYOUTS[4].binaries = BoatBinaries
      /\ LAYOUTS[5].binaries = HomeBinaries
  BY DEF LAYOUTS, Layout
<1>3. \A l \in 1..5 : l = 1 \/ l = 2 \/ l = 3 \/ l = 4 \/ l = 5 OBVIOUS
<1>4. /\ BitCounts[1] = 12 /\ BitCounts[2] = 4 /\ BitCounts[3] = 4
      /\ BitCounts[4] = 4 /\ BitCounts[5] = 3
  BY DEF BitCounts
<1> DEFINE P(list, n) == /\ list \in Seq(BitField)
                         /\ Len(list) = n
                         /\ \A b \in 1..n : list[b] = BoatV4Binaries[b]
<1>5. P(BoatV4Binaries, 12) /\ P(BoatBinaries, 4) /\ P(HomeBinaries, 3)
  BY BitLists
<1>6. \A l \in 1..5 : P(LAYOUTS[l].binaries, BitCounts[l])
  <2> HIDE DEF P
  <2> QED BY <1>2, <1>3, <1>4, <1>5
<1>7. \A l \in 1..5 : BitCounts[l] \in 3..12 /\ (l # 1 => BitCounts[l] <= 4)
  BY <1>3, <1>4
<1>8. ASSUME NEW l \in 1..5
      PROVE  DOMAIN LAYOUTS[l].binaries = 1..BitCounts[l]
  <2>1. LAYOUTS[l].binaries \in Seq(BitField) BY <1>6
  <2>2. DOMAIN LAYOUTS[l].binaries = 1..Len(LAYOUTS[l].binaries)
    BY <2>1, LenProperties
  <2>3. Len(LAYOUTS[l].binaries) = BitCounts[l] BY <1>6
  <2> QED BY <2>2, <2>3
<1> QED BY <1>6, <1>7, <1>8

\* The texts of the layouts: no two of a layout have the same name.
LEMMA LayoutTexts ==
  \A l \in 1..5 : /\ LAYOUTS[l].texts \in Seq(WordNames)
                  /\ Len(LAYOUTS[l].texts) = TextCounts[l]
                  /\ DOMAIN LAYOUTS[l].texts = 1..TextCounts[l]
                  /\ TextCounts[l] \in 3..5
                  /\ \A s, t \in 1..TextCounts[l] :
                       LAYOUTS[l].texts[s] = LAYOUTS[l].texts[t] => s = t
                  /\ l = 1 => \A t \in 1..TextCounts[l] : LAYOUTS[l].texts[t] \in
                       {"batteryAlarmReason", "mpptErrorReason", "orionErrorReason"}
<1> DEFINE v4 == <<"batteryAlarmReason", "mpptErrorReason", "orionErrorReason">>
           home == <<"batteryAlarmReason", "mpptState", "mpptErrorReason">>
<1>2. /\ LAYOUTS[1].texts = v4
      /\ LAYOUTS[2].texts = BoatTexts
      /\ LAYOUTS[3].texts = BoatTexts
      /\ LAYOUTS[4].texts = BoatTexts
      /\ LAYOUTS[5].texts = home
  BY DEF LAYOUTS, Layout
<1>3. \A l \in 1..5 : l = 1 \/ l = 2 \/ l = 3 \/ l = 4 \/ l = 5 OBVIOUS
<1>4. /\ TextCounts[1] = 3 /\ TextCounts[2] = 5 /\ TextCounts[3] = 5
      /\ TextCounts[4] = 5 /\ TextCounts[5] = 3
  BY DEF TextCounts
<1> DEFINE P(list, n) == /\ list \in Seq(WordNames)
                         /\ Len(list) = n
                         /\ DOMAIN list = 1..n
                         /\ \A s, t \in 1..n : list[s] = list[t] => s = t
<1>5. P(v4, 3) /\ P(home, 3)
  BY DEF WordNames
<1>6. P(BoatTexts, 5)
  <2>1. /\ BoatTexts[1] = "batteryAlarmReason" /\ BoatTexts[2] = "mpptState"
        /\ BoatTexts[3] = "mpptErrorReason" /\ BoatTexts[4] = "orionState"
        /\ BoatTexts[5] = "orionErrorReason"
        /\ BoatTexts \in Seq(WordNames) /\ Len(BoatTexts) = 5
        /\ DOMAIN BoatTexts = 1..5
    BY DEF BoatTexts, WordNames
  <2>2. \A s \in 1..5 : s = 1 \/ s = 2 \/ s = 3 \/ s = 4 \/ s = 5 OBVIOUS
  <2> QED BY <2>1, <2>2
<1>7. \A t \in 1..3 : v4[t] \in
        {"batteryAlarmReason", "mpptErrorReason", "orionErrorReason"}
  OBVIOUS
<1>8. \A l \in 1..5 : P(LAYOUTS[l].texts, TextCounts[l])
  <2> HIDE DEF P, v4, home
  <2> QED BY <1>2, <1>3, <1>4, <1>5, <1>6
<1>9. \A l \in 1..5 : TextCounts[l] \in 3..5 BY <1>3, <1>4
<1> HIDE DEF v4, home
<1> QED BY <1>2, <1>4, <1>7, <1>8, <1>9

\* The bytes in front of the texts.
LEMMA LayoutLengths ==
  \A l \in 1..5 :
     /\ \A m \in 0..Counts[l] : SensorBytes(LAYOUTS[l].sensors, m) = Offset(m)
     /\ FixedLength(LAYOUTS[l]) = FixedLengths[l]
     /\ FixedLengths[l] = Offset(Counts[l]) + BitmaskBytes(BitCounts[l])
     /\ FixedLengths[l] \in 21..39
     /\ \A k \in 1..5 : k < l => FixedLengths[k] > FixedLengths[l]
<1>1. ASSUME NEW l \in 1..5, NEW m \in 0..Counts[l]
      PROVE  SensorBytes(LAYOUTS[l].sensors, m) = Offset(m)
  <2>1. Counts[l] \in 0..17
    <3>1. Counts[l] \in 10..17 BY LayoutSensors
    <3> QED BY <3>1
  <2>2. \A s \in 1..Counts[l] : LAYOUTS[l].sensors[s] = BoatV4Sensors[s]
    BY LayoutSensors
  <2> DEFINE sensors == LAYOUTS[l].sensors
             n == Counts[l]
  <2>3. n \in 0..17 /\ m \in 0..n
        /\ \A s \in 1..n : sensors[s] = BoatV4Sensors[s]
    BY <2>1, <2>2
  <2> HIDE DEF sensors, n
  <2>4. SensorBytes(sensors, m) = Offset(m) BY <2>3, SensorBytesIs
  <2> QED BY <2>4 DEF sensors
<1>2. \A l \in 1..5 : l = 1 \/ l = 2 \/ l = 3 \/ l = 4 \/ l = 5 OBVIOUS
<1>3. /\ Counts[1] = 17 /\ Counts[2] = 15 /\ Counts[3] = 14
      /\ Counts[4] = 11 /\ Counts[5] = 10
      /\ BitCounts[1] = 12 /\ BitCounts[2] = 4 /\ BitCounts[3] = 4
      /\ BitCounts[4] = 4 /\ BitCounts[5] = 3
      /\ FixedLengths[1] = 39 /\ FixedLengths[2] = 30 /\ FixedLengths[3] = 29
      /\ FixedLengths[4] = 23 /\ FixedLengths[5] = 21
  BY DEF Counts, BitCounts, FixedLengths
<1>4. \A l \in 1..5 : FixedLengths[l] = Offset(Counts[l]) + BitmaskBytes(BitCounts[l])
  BY <1>2, <1>3 DEF Offset, BitmaskBytes
<1>5. ASSUME NEW l \in 1..5
      PROVE  FixedLength(LAYOUTS[l]) = FixedLengths[l]
  <2>1. Len(LAYOUTS[l].sensors) = Counts[l] /\ Counts[l] \in 0..Counts[l]
    BY LayoutSensors
  <2>2. SensorBytes(LAYOUTS[l].sensors, Counts[l]) = Offset(Counts[l])
    BY <1>1, <2>1
  <2>3. Len(LAYOUTS[l].binaries) = BitCounts[l] BY LayoutBits
  <2> QED BY <1>4, <2>1, <2>2, <2>3 DEF FixedLength, BitmaskBytes
<1>6. \A l \in 1..5 : /\ FixedLengths[l] \in 21..39
                      /\ \A k \in 1..5 : k < l => FixedLengths[k] > FixedLengths[l]
  BY <1>2, <1>3
<1> QED BY <1>1, <1>4, <1>5, <1>6

\* A bit and a text of the same layout have different names.
LEMMA BitsAndTexts ==
  ASSUME NEW l \in 1..5, NEW b \in 1..BitCounts[l], NEW t \in 1..TextCounts[l]
  PROVE  BoatV4Binaries[b].name # LAYOUTS[l].texts[t]
<1>1. /\ BitCounts[l] \in 3..12 /\ (l # 1 => BitCounts[l] <= 4) BY LayoutBits
<1>2. LAYOUTS[l].texts \in Seq(WordNames) /\ Len(LAYOUTS[l].texts) = TextCounts[l]
  BY LayoutTexts
<1>3. LAYOUTS[l].texts[t] \in WordNames BY <1>2, ElementOfSeq
<1>4. CASE l = 1
  <2>1. LAYOUTS[l].texts[t] \in
          {"batteryAlarmReason", "mpptErrorReason", "orionErrorReason"}
    BY <1>4, LayoutTexts
  <2>2. b \in 1..12 BY <1>1
  <2> QED BY <2>1, <2>2, Bits
<1>5. CASE l # 1
  <2>1. b \in 1..4 BY <1>1, <1>5
  <2> QED BY <1>3, <2>1, Bits
<1> QED BY <1>4, <1>5

\* No number has the name of a bit or of a text.
LEMMA NamesDiffer ==
  /\ NumberNames \intersect BitNames = {}
  /\ NumberNames \intersect WordNames = {}
  /\ "latitude" \notin BitNames \union WordNames
  /\ "longitude" \notin BitNames \union WordNames
BY DEF NumberNames, BitNames, WordNames

-----------------------------------------------------------------------------
(* The decoder: numbers                                                    *)

\* What the decoder reads where the bytes of another sequence stand, it reads from
\* that one (readInt, decode.js:208).
LEMMA ReadIntShift ==
  ASSUME NEW bytes, NEW part, NEW i \in Nat, NEW n \in Widths,
         \A b \in 1..n : bytes[i + b] = part[b], NEW signed
  PROVE  readInt(bytes, i + 1, signed, n) = readInt(part, 1, signed, n)
<1> n \in 1..4 BY DEF Widths
<1>1. bytes[i + 1] = part[1] OBVIOUS
<1> DEFINE First(byte) == IF signed /\ byte >= 128 THEN byte - 256 ELSE byte
           Digit(byte, b) == IF b < n THEN byte * Weight(n - 1 - b) ELSE 0
           Sum(p, x, y, z) == First(p) * Weight(n - 1) + Digit(x, 1) + Digit(y, 2)
                              + Digit(z, 3)
<1>2. ASSUME NEW b \in 1..3
      PROVE  Digit(bytes[i + 1 + b], b) = Digit(part[1 + b], b)
  <2>1. b < n => 1 + b \in 1..n /\ i + (1 + b) = i + 1 + b OBVIOUS
  <2>2. b < n => bytes[i + 1 + b] = part[1 + b] BY <2>1
  <2> QED BY <2>2
<1>3. readInt(bytes, i + 1, signed, n)
        = Sum(bytes[i + 1], bytes[i + 1 + 1], bytes[i + 1 + 2], bytes[i + 1 + 3])
  BY DEF readInt
<1>4. readInt(part, 1, signed, n)
        = Sum(part[1], part[1 + 1], part[1 + 2], part[1 + 3])
  BY DEF readInt
<1> HIDE DEF First, Digit
<1>5. 1 \in 1..3 /\ 2 \in 1..3 /\ 3 \in 1..3 OBVIOUS
<1>6. /\ Digit(bytes[i + 1 + 1], 1) = Digit(part[1 + 1], 1)
      /\ Digit(bytes[i + 1 + 2], 2) = Digit(part[1 + 2], 2)
      /\ Digit(bytes[i + 1 + 3], 3) = Digit(part[1 + 3], 3)
  BY <1>2, <1>5
<1> QED BY <1>1, <1>3, <1>4, <1>6

\* Any bytes are read as a number of the field's width.
LEMMA RawRange ==
  ASSUME NEW bytes, NEW i \in Nat, NEW n \in Widths,
         \A b \in 1..n : bytes[i + b] \in Byte, NEW signed \in BOOLEAN
  PROVE  /\ readInt(bytes, i + 1, signed, n) \in Int
         /\ signed => /\ readInt(bytes, i + 1, signed, n) >= (-128) * Weight(n - 1)
                      /\ readInt(bytes, i + 1, signed, n) < 128 * Weight(n - 1)
         /\ ~signed => /\ readInt(bytes, i + 1, signed, n) >= 0
                       /\ readInt(bytes, i + 1, signed, n) < 256 * Weight(n - 1)
<1> DEFINE part == [b \in 1..n |-> bytes[i + b]]
           first == IF signed /\ part[1] >= 128 THEN part[1] - 256 ELSE part[1]
           raw == readInt(bytes, i + 1, signed, n)
<1> n \in 1..4 BY DEF Widths
<1>1. \A b \in 1..n : part[b] \in 0..255 /\ bytes[i + b] = part[b] BY DEF Byte
<1>2. raw = readInt(part, 1, signed, n)
  <2> HIDE DEF part
  <2> QED BY <1>1, ReadIntShift DEF Widths
<1>3. part[1] \in 0..255 /\ (n >= 2 => part[2] \in 0..255)
      /\ (n >= 3 => part[3] \in 0..255) /\ (n >= 4 => part[4] \in 0..255)
  <2> HIDE DEF part
  <2> QED BY <1>1
<1> HIDE DEF part
<1>4. /\ first \in Int
      /\ signed => first \in (-128)..127
      /\ ~signed => first \in 0..255
  BY <1>3
<1>5. first = IF signed /\ part[1] >= 128 THEN part[1] - 256 ELSE part[1]
  OBVIOUS
<1> HIDE DEF first
<1> DEFINE Within(w) ==
             /\ raw \in Int
             /\ signed => raw >= (-128) * w /\ raw < 128 * w
             /\ ~signed => raw >= 0 /\ raw < 256 * w
<1>6. CASE n = 1
  <2>1. raw = first BY <1>2, <1>4, <1>5, <1>6, ReadIntOf, SMT
  <2> HIDE DEF raw
  <2>2. Within(1) BY <1>4, <2>1
  <2> QED BY <1>6, <2>2, Powers, SMT DEF raw
<1>7. CASE n = 2
  <2>1. PICK x \in 0..255 : x = part[2] BY <1>3, <1>7
  <2>2. raw = first * 256 + x BY <1>2, <1>4, <1>5, <1>7, <2>1, ReadIntOf, SMT
  <2> HIDE DEF raw
  <2>3. Within(256) BY <1>4, <2>2, SMT
  <2> QED BY <1>7, <2>3, Powers, SMT DEF raw
<1>8. CASE n = 3
  <2>1. PICK x \in 0..255 : x = part[2] BY <1>3, <1>8
  <2>2. PICK y \in 0..255 : y = part[3] BY <1>3, <1>8
  <2>3. raw = first * 65536 + x * 256 + y
    BY <1>2, <1>4, <1>5, <1>8, <2>1, <2>2, ReadIntOf, SMT
  <2> HIDE DEF raw
  <2>4. Within(65536) BY <1>4, <2>3, SMT
  <2> QED BY <1>8, <2>4, Powers, SMT DEF raw
<1>9. CASE n = 4
  <2>1. PICK x \in 0..255 : x = part[2] BY <1>3, <1>9
  <2>2. PICK y \in 0..255 : y = part[3] BY <1>3, <1>9
  <2>3. PICK z \in 0..255 : z = part[4] BY <1>3, <1>9
  <2>4. raw = first * 16777216 + x * 65536 + y * 256 + z
    BY <1>2, <1>4, <1>5, <1>9, <2>1, <2>2, <2>3, ReadIntOf, SMT
  <2> HIDE DEF raw
  <2>5. Within(16777216) BY <1>4, <2>4, SMT
  <2> QED BY <1>9, <2>5, Powers, SMT DEF raw
<1> QED BY <1>6, <1>7, <1>8, <1>9

\* What stands in a payload for sensor s, and whether the decoder omits it.
Raw(bytes, s) == readInt(bytes, Offset(s - 1) + 1, BoatV4Sensors[s].signed,
                         BoatV4Sensors[s].width)
LeftOut(bytes, s) ==
  \/ isInvalidSentinel(Raw(bytes, s), BoatV4Sensors[s].signed,
                       BoatV4Sensors[s].width)
  \/ s = 9 /\ Raw(bytes, s) = Infinite

\* The numbers of a payload, in every layout (decode.js:247-263).
LEMMA SensorDataIs ==
  ASSUME NEW bytes, NEW l \in 1..5
  PROVE  LET data == SensorData(bytes, LAYOUTS[l])
             sent == {s \in 1..Counts[l] : ~LeftOut(bytes, s)}
         IN  /\ DOMAIN data = {BoatV4Sensors[s].name : s \in sent}
             /\ \A s \in sent : data[BoatV4Sensors[s].name] = Raw(bytes, s)
<1> DEFINE layout == LAYOUTS[l]
           n == Counts[l]
           raw == [s \in DOMAIN layout.sensors |->
                     readInt(bytes, SensorBytes(layout.sensors, s - 1) + 1,
                             layout.sensors[s].signed, layout.sensors[s].width)]
           Omitted(s) ==
             \/ isInvalidSentinel(raw[s], layout.sensors[s].signed,
                                  layout.sensors[s].width)
             \/ layout.sensors[s].name = "batteryTimeRemaining" /\ raw[s] = Infinite
           given == {s \in DOMAIN layout.sensors : ~Omitted(s)}
           sent == {s \in 1..n : ~LeftOut(bytes, s)}
<1>1. SensorData(bytes, layout)
        = [name \in {layout.sensors[s].name : s \in given} |->
             raw[CHOOSE s \in given : layout.sensors[s].name = name]]
  BY DEF SensorData
<1>2. /\ DOMAIN layout.sensors = 1..n
      /\ \A s \in 1..n : layout.sensors[s] = BoatV4Sensors[s]
  BY LayoutSensors
<1>n. n \in 10..17 BY LayoutSensors
<1>3. \A s \in 1..n : raw[s] = Raw(bytes, s)
  <2> SUFFICES ASSUME NEW s \in 1..n PROVE raw[s] = Raw(bytes, s)
    OBVIOUS
  <2>1. s - 1 \in 0..n BY <1>n
  <2>2. SensorBytes(layout.sensors, s - 1) = Offset(s - 1)
    BY <2>1, LayoutLengths
  <2>3. raw[s] = readInt(bytes, SensorBytes(layout.sensors, s - 1) + 1,
                         layout.sensors[s].signed, layout.sensors[s].width)
    BY <1>2
  <2> HIDE DEF raw
  <2> QED BY <1>2, <2>2, <2>3 DEF Raw
<1> HIDE DEF raw
<1>4. \A s \in 1..n : Omitted(s) <=> LeftOut(bytes, s)
  <2> SUFFICES ASSUME NEW s \in 1..n PROVE Omitted(s) <=> LeftOut(bytes, s)
    OBVIOUS
  <2>1. s \in 1..17 BY <1>n
  <2>2. BoatV4Sensors[s].name = "batteryTimeRemaining" <=> s = 9
    BY <2>1, Numbers
  <2> QED BY <1>2, <1>3, <2>2 DEF LeftOut
<1>5. given = sent
  <2> HIDE DEF Omitted
  <2> QED BY <1>2, <1>4
<1>6. \A s \in sent : s \in 1..n /\ s \in 1..17 BY <1>n
<1>d. \A s, t \in 1..17 :
        BoatV4Sensors[s].name = BoatV4Sensors[t].name => s = t
  BY Numbers
<1> HIDE DEF given, sent
<1>7. SensorData(bytes, layout)
        = [name \in {layout.sensors[s].name : s \in sent} |->
             raw[CHOOSE s \in sent : layout.sensors[s].name = name]]
  BY <1>1, <1>5
<1>8. {layout.sensors[s].name : s \in sent} = {BoatV4Sensors[s].name : s \in sent}
  BY <1>2, <1>6
<1>9. ASSUME NEW s \in sent
      PROVE  SensorData(bytes, layout)[BoatV4Sensors[s].name] = Raw(bytes, s)
  <2> DEFINE name == BoatV4Sensors[s].name
             t == CHOOSE t \in sent : layout.sensors[t].name = name
  <2>1. SensorData(bytes, layout)[name] = raw[t]
    <3>1. name \in {layout.sensors[r].name : r \in sent} BY <1>8
    <3> HIDE DEF name
    <3> QED BY <1>7, <3>1
  <2>2. layout.sensors[s].name = name BY <1>2, <1>6
  <2>3. t \in sent /\ layout.sensors[t].name = name BY <2>2
  <2>4. t \in 1..17 /\ s \in 1..17 /\ t \in 1..n BY <1>6, <2>3
  <2>5. BoatV4Sensors[t].name = BoatV4Sensors[s].name BY <1>2, <2>3, <2>4
  <2>6. t = s BY <1>d, <2>4, <2>5
  <2> QED BY <1>3, <1>6, <2>1, <2>6
<1> QED BY <1>7, <1>8, <1>9 DEF sent

\* The domains of the other data.
LEMMA OtherNames ==
  ASSUME NEW bytes, NEW l \in 1..5
  PROVE  /\ DOMAIN TextData(bytes, LAYOUTS[l])
              = {LAYOUTS[l].texts[t] : t \in 1..TextCounts[l]}
         /\ DOMAIN TextData(bytes, LAYOUTS[l]) \subseteq WordNames
         /\ DOMAIN BinaryData(bytes, LAYOUTS[l]) \subseteq BitNames
<1>1. /\ DOMAIN LAYOUTS[l].texts = 1..TextCounts[l]
      /\ LAYOUTS[l].texts \in Seq(WordNames)
      /\ Len(LAYOUTS[l].texts) = TextCounts[l]
  BY LayoutTexts
<1>2. DOMAIN TextData(bytes, LAYOUTS[l]) = {LAYOUTS[l].texts[t] : t \in 1..TextCounts[l]}
  BY <1>1 DEF TextData, Range
<1>3. \A t \in 1..TextCounts[l] : LAYOUTS[l].texts[t] \in WordNames
  BY <1>1, ElementOfSeq
<1>4. /\ DOMAIN LAYOUTS[l].binaries = 1..BitCounts[l]
      /\ LAYOUTS[l].binaries \in Seq(BitField)
      /\ Len(LAYOUTS[l].binaries) = BitCounts[l]
  BY LayoutBits
<1>5. \A b \in 1..BitCounts[l] : LAYOUTS[l].binaries[b].name \in BitNames
  <2>1. \A b \in 1..BitCounts[l] : LAYOUTS[l].binaries[b] \in BitField
    BY <1>4, ElementOfSeq
  <2> QED BY <2>1 DEF BitField
<1>6. DOMAIN BinaryData(bytes, LAYOUTS[l])
        \subseteq {LAYOUTS[l].binaries[b].name : b \in DOMAIN LAYOUTS[l].binaries}
  BY DEF BinaryData
<1> QED BY <1>2, <1>3, <1>4, <1>5, <1>6

\* The fields of a payload: a number is there, and is what its bytes stand for,
\* unless it is omitted or belongs to the position 0/0 (decode.js:320-336).
LEMMA NumberFields ==
  ASSUME NEW bytes, NEW l \in 1..5
  PROVE  LET fields == Fields(bytes, LAYOUTS[l])
             nowhere == /\ Counts[l] = 17
                        /\ ~LeftOut(bytes, 16) /\ Raw(bytes, 16) = 0
                        /\ ~LeftOut(bytes, 17) /\ Raw(bytes, 17) = 0
         IN  \A s \in 1..17 :
               /\ BoatV4Sensors[s].name \in DOMAIN fields
                    <=> s <= Counts[l] /\ ~LeftOut(bytes, s) /\ ~(nowhere /\ s >= 16)
               /\ BoatV4Sensors[s].name \in DOMAIN fields
                    => fields[BoatV4Sensors[s].name] = Raw(bytes, s)
<1> DEFINE layout == LAYOUTS[l]
           n == Counts[l]
           td == TextData(bytes, layout)
           bd == BinaryData(bytes, layout)
           sd == SensorData(bytes, layout)
           data == Over(td, Over(bd, sd))
           position == {"latitude", "longitude"}
           none == position \subseteq DOMAIN data /\ \A p \in position : data[p] = 0
           fields == Fields(bytes, layout)
           nowhere == /\ n = 17
                      /\ ~LeftOut(bytes, 16) /\ Raw(bytes, 16) = 0
                      /\ ~LeftOut(bytes, 17) /\ Raw(bytes, 17) = 0
           Sent(s) == s <= n /\ ~LeftOut(bytes, s)
           Name(s) == BoatV4Sensors[s].name
<1>n. n \in 10..17 BY LayoutSensors
<1>1. fields = IF none THEN [f \in DOMAIN data \ position |-> data[f]] ELSE data
  BY DEF Fields
<1>2. /\ DOMAIN td \subseteq WordNames /\ DOMAIN bd \subseteq BitNames
      /\ DOMAIN sd = {Name(s) : s \in {s \in 1..n : ~LeftOut(bytes, s)}}
      /\ \A s \in {s \in 1..n : ~LeftOut(bytes, s)} : sd[Name(s)] = Raw(bytes, s)
  BY OtherNames, SensorDataIs
<1>3. /\ DOMAIN data = DOMAIN td \union DOMAIN bd \union DOMAIN sd
      /\ \A x \in DOMAIN data :
           x \notin DOMAIN td /\ x \notin DOMAIN bd => data[x] = sd[x]
  <2> HIDE DEF td, bd, sd
  <2> QED BY DEF Over
<1>4. \A s \in 1..17 : Name(s) \notin DOMAIN td /\ Name(s) \notin DOMAIN bd
  <2>1. \A s \in 1..17 : Name(s) \in NumberNames BY Numbers
  <2> HIDE DEF td, bd
  <2> QED BY <1>2, <2>1, NamesDiffer
<1>d. /\ \A s, t \in 1..17 : Name(s) = Name(t) => s = t
      /\ \A s \in 1..17 : Name(s) = "latitude" <=> s = 16
      /\ \A s \in 1..17 : Name(s) = "longitude" <=> s = 17
  BY Numbers
<1> HIDE DEF td, bd, sd, Name
<1>5. \A s \in 1..17 : /\ Name(s) \in DOMAIN data <=> Sent(s)
                       /\ Sent(s) => data[Name(s)] = Raw(bytes, s)
  <2> SUFFICES ASSUME NEW s \in 1..17
               PROVE  /\ Name(s) \in DOMAIN data <=> Sent(s)
                      /\ Sent(s) => data[Name(s)] = Raw(bytes, s)
    OBVIOUS
  <2>1. Name(s) \in DOMAIN sd <=> Sent(s)
    <3>1. Sent(s) => Name(s) \in DOMAIN sd BY <1>2
    <3>2. ASSUME Name(s) \in DOMAIN sd PROVE Sent(s)
      <4>1. PICK t \in 1..n : ~LeftOut(bytes, t) /\ Name(t) = Name(s)
        BY <1>2, <3>2
      <4>2. t \in 1..17 BY <1>n
      <4>3. t = s BY <1>d, <4>1, <4>2
      <4> QED BY <1>n, <4>1, <4>3
    <3> QED BY <3>1, <3>2
  <2>2. Name(s) \in DOMAIN data <=> Name(s) \in DOMAIN sd BY <1>3, <1>4
  <2>3. Name(s) \in DOMAIN data => data[Name(s)] = sd[Name(s)] BY <1>3, <1>4
  <2>4. Sent(s) => sd[Name(s)] = Raw(bytes, s) BY <1>2
  <2> QED BY <2>1, <2>2, <2>3, <2>4
<1> HIDE DEF data
<1>6. none <=> nowhere
  <2>1. 16 \in 1..17 /\ 17 \in 1..17 OBVIOUS
  <2>2. Name(16) = "latitude" /\ Name(17) = "longitude" BY <1>d, <2>1
  <2>3. Sent(16) /\ Sent(17) <=> n = 17 /\ ~LeftOut(bytes, 16) /\ ~LeftOut(bytes, 17)
    BY <1>n
  <2>4. none <=> /\ Name(16) \in DOMAIN data /\ Name(17) \in DOMAIN data
                 /\ data[Name(16)] = 0 /\ data[Name(17)] = 0
    BY <2>2
  <2> QED BY <1>5, <2>1, <2>3, <2>4
<1> HIDE DEF none, nowhere, fields
<1>7. ASSUME NEW s \in 1..17
      PROVE  /\ Name(s) \in DOMAIN fields <=> Sent(s) /\ ~(nowhere /\ s >= 16)
             /\ Name(s) \in DOMAIN fields => fields[Name(s)] = Raw(bytes, s)
  <2>1. Name(s) \in position <=> s >= 16 BY <1>d
  <2>2. CASE none BY <1>1, <1>5, <1>6, <2>1, <2>2
  <2>3. CASE ~none BY <1>1, <1>5, <1>6, <2>1, <2>3
  <2> QED BY <2>2, <2>3
<1> QED BY <1>7 DEF Name, fields, nowhere

-----------------------------------------------------------------------------
(* The decoder: bits                                                       *)

\* The byte of eight bits, the lowest first.
Eight(p0, p1, p2, p3, p4, p5, p6, p7) ==
  p0 + 2 * p1 + 4 * p2 + 8 * p3 + 16 * p4 + 32 * p5 + 64 * p6 + 128 * p7

\* Each of the eight bits of a byte is found.
LEMMA EightBits ==
  ASSUME NEW p0 \in {0, 1}, NEW p1 \in {0, 1}, NEW p2 \in {0, 1}, NEW p3 \in {0, 1},
         NEW p4 \in {0, 1}, NEW p5 \in {0, 1}, NEW p6 \in {0, 1}, NEW p7 \in {0, 1}
  PROVE  /\ Eight(p0, p1, p2, p3, p4, p5, p6, p7) \in Byte
         /\ BitAt(Eight(p0, p1, p2, p3, p4, p5, p6, p7), 0) = p0
         /\ BitAt(Eight(p0, p1, p2, p3, p4, p5, p6, p7), 1) = p1
         /\ BitAt(Eight(p0, p1, p2, p3, p4, p5, p6, p7), 2) = p2
         /\ BitAt(Eight(p0, p1, p2, p3, p4, p5, p6, p7), 3) = p3
         /\ BitAt(Eight(p0, p1, p2, p3, p4, p5, p6, p7), 4) = p4
         /\ BitAt(Eight(p0, p1, p2, p3, p4, p5, p6, p7), 5) = p5
         /\ BitAt(Eight(p0, p1, p2, p3, p4, p5, p6, p7), 6) = p6
         /\ BitAt(Eight(p0, p1, p2, p3, p4, p5, p6, p7), 7) = p7
<1> DEFINE byte == Eight(p0, p1, p2, p3, p4, p5, p6, p7)
<1>0. byte = p0 + 2 * p1 + 4 * p2 + 8 * p3 + 16 * p4 + 32 * p5 + 64 * p6 + 128 * p7
  BY DEF Eight
<1> HIDE DEF byte
<1>1. byte \in 0..255 BY <1>0, SMT
<1>2. byte % 2 = p0 BY <1>0, SMT
<1>3. (byte \div 2) % 2 = p1 BY <1>0, SMT
<1>4. (byte \div 4) % 2 = p2 BY <1>0, SMT
<1>5. (byte \div 8) % 2 = p3 BY <1>0, SMT
<1>6. (byte \div 16) % 2 = p4 BY <1>0, SMT
<1>7. (byte \div 32) % 2 = p5 BY <1>0, SMT
<1>8. (byte \div 64) % 2 = p6 BY <1>0, SMT
<1>9. (byte \div 128) % 2 = p7 BY <1>0, SMT
<1>10. /\ BitAt(byte, 0) = (byte \div 1) % 2 /\ BitAt(byte, 1) = (byte \div 2) % 2
       /\ BitAt(byte, 2) = (byte \div 4) % 2 /\ BitAt(byte, 3) = (byte \div 8) % 2
       /\ BitAt(byte, 4) = (byte \div 16) % 2 /\ BitAt(byte, 5) = (byte \div 32) % 2
       /\ BitAt(byte, 6) = (byte \div 64) % 2 /\ BitAt(byte, 7) = (byte \div 128) % 2
  BY DEF BitAt
<1>11. byte \div 1 = byte BY <1>1
<1> QED BY <1>1, <1>2, <1>3, <1>4, <1>5, <1>6, <1>7, <1>8, <1>9, <1>10, <1>11
        DEF byte, Byte

\* The decoder finds each bit where the firmware puts it (pack_binary_sensors,
\* lorabridge.cpp:38, and decode.js:266).
LEMMA BitsRoundTrip ==
  ASSUME NEW m \in Nat, NEW states \in [1..m -> BOOLEAN]
  PROVE  /\ PackedBits(states) \in Seq(Byte)
         /\ Len(PackedBits(states)) = BitmaskBytes(m)
         /\ \A b \in 1..m :
              /\ (b - 1) \div 8 + 1 \in 1..BitmaskBytes(m)
              /\ BitAt(PackedBits(states)[(b - 1) \div 8 + 1], (b - 1) % 8) = 1
                   <=> states[b]
<1> DEFINE Part(i, bit) == IF 8 * (i - 1) + bit < Len(states)
                                 /\ states[8 * (i - 1) + bit + 1]
                            THEN Bit(bit) ELSE 0
           On(i, bit) == IF 8 * (i - 1) + bit < m /\ states[8 * (i - 1) + bit + 1]
                         THEN 1 ELSE 0
           Sum(i) == Part(i, 0) + Part(i, 1) + Part(i, 2) + Part(i, 3)
                     + Part(i, 4) + Part(i, 5) + Part(i, 6) + Part(i, 7)
           n == BitmaskBytes(m)
<1>1. Len(states) = m BY FunctionIsSeq
<1>2. PackedBits(states) = [i \in 1..BitmaskBytes(Len(states)) |-> Sum(i)]
  BY DEF PackedBits
<1>3. n \in Nat BY DEF BitmaskBytes
<1>4. \A i \in 1..n : \A bit \in 0..7 : Part(i, bit) = Bit(bit) * On(i, bit)
  <2> SUFFICES ASSUME NEW i \in 1..n, NEW bit \in 0..7
               PROVE  Part(i, bit) = Bit(bit) * On(i, bit)
    OBVIOUS
  <2>1. Bit(bit) \in Nat BY DEF Bit
  <2> QED BY <1>1, <2>1
<1>5. /\ Bit(0) = 1 /\ Bit(1) = 2 /\ Bit(2) = 4 /\ Bit(3) = 8
      /\ Bit(4) = 16 /\ Bit(5) = 32 /\ Bit(6) = 64 /\ Bit(7) = 128
  BY DEF Bit
<1>o. \A i, bit : On(i, bit) \in {0, 1} OBVIOUS
<1> HIDE DEF Part, On
<1>6. ASSUME NEW i \in 1..n
      PROVE  /\ Sum(i) \in Byte
             /\ \A bit \in 0..7 : BitAt(Sum(i), bit) = On(i, bit)
  <2>1. Sum(i) = Eight(On(i, 0), On(i, 1), On(i, 2), On(i, 3),
                       On(i, 4), On(i, 5), On(i, 6), On(i, 7))
    <3>1. /\ 0 \in 0..7 /\ 1 \in 0..7 /\ 2 \in 0..7 /\ 3 \in 0..7
          /\ 4 \in 0..7 /\ 5 \in 0..7 /\ 6 \in 0..7 /\ 7 \in 0..7
      OBVIOUS
    <3>2. /\ Part(i, 0) = 1 * On(i, 0) /\ Part(i, 1) = 2 * On(i, 1)
          /\ Part(i, 2) = 4 * On(i, 2) /\ Part(i, 3) = 8 * On(i, 3)
          /\ Part(i, 4) = 16 * On(i, 4) /\ Part(i, 5) = 32 * On(i, 5)
          /\ Part(i, 6) = 64 * On(i, 6) /\ Part(i, 7) = 128 * On(i, 7)
      BY <1>4, <1>5, <3>1
    <3>3. 1 * On(i, 0) = On(i, 0) BY <1>o
    <3> QED BY <3>2, <3>3 DEF Eight
  <2> DEFINE byte == Sum(i)
  <2> HIDE DEF byte
  <2>2. byte = Eight(On(i, 0), On(i, 1), On(i, 2), On(i, 3),
                     On(i, 4), On(i, 5), On(i, 6), On(i, 7))
    BY <2>1 DEF byte
  <2>3. /\ byte \in Byte
        /\ BitAt(byte, 0) = On(i, 0) /\ BitAt(byte, 1) = On(i, 1)
        /\ BitAt(byte, 2) = On(i, 2) /\ BitAt(byte, 3) = On(i, 3)
        /\ BitAt(byte, 4) = On(i, 4) /\ BitAt(byte, 5) = On(i, 5)
        /\ BitAt(byte, 6) = On(i, 6) /\ BitAt(byte, 7) = On(i, 7)
    BY <1>o, <2>2, EightBits
  <2>4. \A bit \in 0..7 : \/ bit = 0 \/ bit = 1 \/ bit = 2 \/ bit = 3
                          \/ bit = 4 \/ bit = 5 \/ bit = 6 \/ bit = 7
    OBVIOUS
  <2> QED BY <2>3, <2>4 DEF byte
<1> HIDE DEF Sum
<1>7. /\ PackedBits(states) \in Seq(Byte) /\ Len(PackedBits(states)) = n
      /\ \A i \in 1..n : PackedBits(states)[i] = Sum(i)
  <2>1. PackedBits(states) = [i \in 1..n |-> Sum(i)] BY <1>1, <1>2
  <2>s. \A i \in 1..n : Sum(i) \in Byte BY <1>6
  <2>2. PackedBits(states) \in [1..n -> Byte]
    <3> HIDE DEF n
    <3> QED BY <2>1, <2>s
  <2> HIDE DEF n
  <2> QED BY <1>3, <2>1, <2>2, FunctionIsSeq
<1>8. ASSUME NEW b \in 1..m
      PROVE  /\ (b - 1) \div 8 + 1 \in 1..n
             /\ BitAt(PackedBits(states)[(b - 1) \div 8 + 1], (b - 1) % 8) = 1
                  <=> states[b]
  <2> DEFINE i == (b - 1) \div 8 + 1
             bit == (b - 1) % 8
  <2>1. i \in 1..n BY DEF BitmaskBytes
  <2>2. bit \in 0..7 /\ 8 * (i - 1) + bit = b - 1 OBVIOUS
  <2> HIDE DEF i, bit
  <2>3. BitAt(PackedBits(states)[i], bit) = On(i, bit)
    BY <1>6, <1>7, <2>1, <2>2
  <2>4. On(i, bit) = 1 <=> states[b]
    <3>1. 8 * (i - 1) + bit < m /\ 8 * (i - 1) + bit + 1 = b BY <2>2
    <3> QED BY <3>1 DEF On
  <2> QED BY <2>1, <2>3, <2>4 DEF i, bit
<1> QED BY <1>7, <1>8

\* The other fields of a payload are its texts and, behind them, its bits.
LEMMA OtherFields ==
  ASSUME NEW bytes, NEW l \in 1..5
  PROVE  LET fields == Fields(bytes, LAYOUTS[l])
             td == TextData(bytes, LAYOUTS[l])
             bd == BinaryData(bytes, LAYOUTS[l])
         IN  /\ \A name \in DOMAIN td : /\ name \in DOMAIN fields
                                        /\ fields[name] = td[name]
             /\ \A name \in BitNames \ DOMAIN td :
                  /\ name \in DOMAIN fields <=> name \in DOMAIN bd
                  /\ name \in DOMAIN fields => fields[name] = bd[name]
<1> DEFINE layout == LAYOUTS[l]
           td == TextData(bytes, layout)
           bd == BinaryData(bytes, layout)
           sd == SensorData(bytes, layout)
           data == Over(td, Over(bd, sd))
           position == {"latitude", "longitude"}
           none == position \subseteq DOMAIN data /\ \A p \in position : data[p] = 0
           fields == Fields(bytes, layout)
           sent == {s \in 1..Counts[l] : ~LeftOut(bytes, s)}
<1>1. fields = IF none THEN [f \in DOMAIN data \ position |-> data[f]] ELSE data
  BY DEF Fields
<1>2. /\ DOMAIN td \subseteq WordNames /\ DOMAIN bd \subseteq BitNames
      /\ DOMAIN sd = {BoatV4Sensors[s].name : s \in sent}
  BY OtherNames, SensorDataIs
<1>3. DOMAIN sd \subseteq NumberNames
  <2>1. \A s \in sent : s \in 1..17
    <3>1. Counts[l] \in 10..17 BY LayoutSensors
    <3> QED BY <3>1
  <2> HIDE DEF sent, sd
  <2> QED BY <1>2, <2>1, Numbers
<1> HIDE DEF td, bd, sd, none
<1>4. /\ DOMAIN data = DOMAIN td \union DOMAIN bd \union DOMAIN sd
      /\ \A x \in DOMAIN td : data[x] = td[x]
      /\ \A x \in DOMAIN bd \ DOMAIN td : data[x] = bd[x]
  BY DEF Over
<1>5. \A x \in BitNames \union WordNames : x \notin position
  BY NamesDiffer
<1> HIDE DEF data, position
<1>6. ASSUME NEW x \in BitNames \union WordNames
      PROVE  /\ x \in DOMAIN fields <=> x \in DOMAIN data
             /\ x \in DOMAIN fields => fields[x] = data[x]
  <2> HIDE DEF fields
  <2>1. x \notin position BY <1>5
  <2>2. CASE none BY <1>1, <2>1, <2>2
  <2>3. CASE ~none BY <1>1, <2>3
  <2> QED BY <2>2, <2>3
<1>7. \A x \in BitNames : x \notin DOMAIN sd BY <1>3, NamesDiffer
<1> HIDE DEF fields
<1>8. /\ \A name \in DOMAIN td : name \in DOMAIN fields /\ fields[name] = td[name]
      /\ \A name \in BitNames \ DOMAIN td :
                  /\ name \in DOMAIN fields <=> name \in DOMAIN bd
                  /\ name \in DOMAIN fields => fields[name] = bd[name]
  BY <1>2, <1>4, <1>6, <1>7
<1> QED BY <1>8 DEF fields, td, bd

\* What a field of a bit is in a payload whose bits are states.
StateIsThere(fields, states, m, b) ==
  LET bit == BoatV4Binaries[b]
      set == {c \in 1..m : BoatV4Binaries[c].name = bit.name /\ states[c]}
  IN  IF bit.label = <<>>
      THEN /\ bit.name \in DOMAIN fields
           /\ fields[bit.name] = IF states[b] THEN "on" ELSE "off"
      ELSE /\ set = {b} => /\ bit.name \in DOMAIN fields
                           /\ fields[bit.name] = bit.label
           /\ set = {} => bit.name \notin DOMAIN fields

\* A payload whose bits are states (decode.js:265-279): the plain ones are on or
\* off; one state that is set is named by its label; none is set, and the field
\* is not there.
LEMMA StateFields ==
  ASSUME NEW bytes, NEW l \in 1..5, NEW states \in [1..BitCounts[l] -> BOOLEAN],
         \A b \in 1..BitCounts[l] :
           BitAt(bytes[Offset(Counts[l]) + 1 + (b - 1) \div 8], (b - 1) % 8) = 1
             <=> states[b],
         NEW b \in 1..BitCounts[l]
  PROVE  StateIsThere(Fields(bytes, LAYOUTS[l]), states, BitCounts[l], b)
<1> DEFINE layout == LAYOUTS[l]
           n == BitCounts[l]
           td == TextData(bytes, layout)
           bd == BinaryData(bytes, layout)
           fields == Fields(bytes, layout)
           bit == BoatV4Binaries[b]
           alike == {c \in 1..n : BoatV4Binaries[c].name = bit.name}
           mask == SensorBytes(layout.sensors, Len(layout.sensors)) + 1
           Set(c) == BitAt(bytes[mask + (c - 1) \div 8], (c - 1) % 8) = 1
           binary == layout.binaries
           given == {c \in DOMAIN binary : binary[c].label = <<>> \/ Set(c)}
           First(name) == CHOOSE c \in given :
             binary[c].name = name /\ \A d \in given : binary[d].name = name => c <= d
           Value(c) == IF binary[c].label # <<>> THEN binary[c].label
                       ELSE IF Set(c) THEN "on" ELSE "off"
<1>1. bd = [name \in {binary[c].name : c \in given} |-> Value(First(name))]
  BY DEF BinaryData
<1>2. /\ DOMAIN binary = 1..n /\ n \in 3..12
      /\ \A c \in 1..n : binary[c] = BoatV4Binaries[c]
  BY LayoutBits
<1>n. \A c \in 1..n : c \in 1..12
  <2>1. n \in 3..12 BY <1>2
  <2> HIDE DEF n
  <2> QED BY <2>1
<1>3. \A c \in 1..n : Set(c) <=> states[c]
  <2>1. mask = Offset(Counts[l]) + 1
    <3>1. Len(layout.sensors) = Counts[l] /\ Counts[l] \in 0..Counts[l]
      BY LayoutSensors, SMTT(30)
    <3>2. SensorBytes(layout.sensors, Counts[l]) = Offset(Counts[l])
      BY <3>1, LayoutLengths
    <3> QED BY <3>1, <3>2
  <2> HIDE DEF mask
  <2> QED BY <2>1
<1> HIDE DEF Set
<1>4. given = {c \in 1..n : BoatV4Binaries[c].label = <<>> \/ states[c]}
  BY <1>2, <1>3
<1>5. /\ bit.name \in BitNames
      /\ bit.name \notin DOMAIN td
  <2>1. b \in 1..12 BY <1>n
  <2>2. \A t \in 1..TextCounts[l] : bit.name # layout.texts[t] BY BitsAndTexts
  <2>3. DOMAIN td = {layout.texts[t] : t \in 1..TextCounts[l]} BY OtherNames
  <2> QED BY <2>1, <2>2, <2>3, Bits
<1>6. /\ bit.name \in DOMAIN fields <=> bit.name \in DOMAIN bd
      /\ bit.name \in DOMAIN fields => fields[bit.name] = bd[bit.name]
  BY <1>5, OtherFields
<1>7. DOMAIN bd = {binary[c].name : c \in given}
  <2> HIDE DEF Value, First
  <2> QED BY <1>1
<1> HIDE DEF td, bd, fields, bit, given, binary, Value
<1>8. /\ bit = BoatV4Binaries[b] /\ binary[b] = bit /\ b \in 1..n
      /\ \A c \in 1..n : binary[c].name = bit.name => c \in alike
  BY <1>2 DEF bit
<1>9. ASSUME b \in given, \A c \in given : binary[c].name = bit.name => c = b
      PROVE  /\ bit.name \in DOMAIN fields
             /\ fields[bit.name] = Value(b)
  <2>1. bit.name \in DOMAIN bd BY <1>7, <1>8, <1>9
  <2>2. bd[bit.name] = Value(First(bit.name))
    <3>1. \A name \in {binary[c].name : c \in given} : bd[name] = Value(First(name))
      <4> HIDE DEF First
      <4> QED BY <1>1
    <3> HIDE DEF First
    <3> QED BY <1>7, <2>1, <3>1
  <2>3. First(bit.name) = b
    <3>1. binary[b].name = bit.name /\ b <= b BY <1>8
    <3>2. \A d \in given : binary[d].name = bit.name => b <= d BY <1>9, <3>1
    <3> DEFINE c == First(bit.name)
    <3>3. c \in given /\ binary[c].name = bit.name BY <1>9, <3>1, <3>2
    <3> QED BY <1>9, <3>3
  <2> QED BY <1>6, <2>1, <2>2, <2>3
<1>10. CASE bit.label = <<>>
  <2>1. b \in 1..4
    <3>1. b \in 1..12 BY <1>n
    <3> QED BY <1>8, <1>10, <3>1, Bits
  <2>2. b \in given BY <1>4, <1>8, <1>10
  <2>3. \A c \in given : binary[c].name = bit.name => c = b
    <3> SUFFICES ASSUME NEW c \in given, binary[c].name = bit.name PROVE c = b
      OBVIOUS
    <3>0. c \in 1..n BY <1>4
    <3>1. c \in 1..n /\ c \in 1..12
      <4> HIDE DEF n
      <4> QED BY <1>2, <3>0
    <3>2. BoatV4Binaries[c].name = BoatV4Binaries[b].name BY <1>2, <1>8, <3>1
    <3> QED BY <2>1, <3>1, <3>2, Bits
  <2>4. Value(b) = IF states[b] THEN "on" ELSE "off"
    <3>1. binary[b].label = <<>> BY <1>8, <1>10
    <3>2. Set(b) <=> states[b] BY <1>3
    <3> QED BY <3>1, <3>2 DEF Value
  <2> QED BY <1>9, <1>10, <2>2, <2>3, <2>4 DEF bit, fields, StateIsThere
<1>11. CASE bit.label # <<>>
  <2> DEFINE set == {c \in 1..n : BoatV4Binaries[c].name = bit.name /\ states[c]}
  <2>1. \A c \in 1..n : BoatV4Binaries[c].name = bit.name
                          => BoatV4Binaries[c].label # <<>>
    <3> SUFFICES ASSUME NEW c \in 1..n, BoatV4Binaries[c].name = bit.name,
                        BoatV4Binaries[c].label = <<>>
                 PROVE  FALSE
      OBVIOUS
    <3>1. c \in 1..12 /\ b \in 1..12 BY <1>n
    <3>2. c \in 1..4
      <4>1. c <= 4 BY <3>1, Bits
      <4> QED BY <3>1, <4>1
    <3>3. b = c
      <4>1. BoatV4Binaries[b].name = BoatV4Binaries[c].name BY <1>8
      <4> QED BY <3>1, <3>2, <4>1, Bits
    <3> QED BY <1>8, <1>11, <3>3
  <2>2. \A c \in given : binary[c].name = bit.name => c \in set
    <3> SUFFICES ASSUME NEW c \in given, binary[c].name = bit.name PROVE c \in set
      OBVIOUS
    <3>1. c \in 1..n /\ BoatV4Binaries[c].name = bit.name BY <1>2, <1>4
    <3> QED BY <1>4, <2>1, <3>1
  <2>3. ASSUME set = {b}
        PROVE  bit.name \in DOMAIN fields /\ fields[bit.name] = bit.label
    <3>1. b \in given BY <1>4, <2>3
    <3>2. \A c \in given : binary[c].name = bit.name => c = b BY <2>2, <2>3
    <3>3. Value(b) = bit.label BY <1>8, <1>11 DEF Value
    <3> QED BY <1>9, <3>1, <3>2, <3>3
  <2>4. ASSUME set = {} PROVE bit.name \notin DOMAIN fields
    BY <1>6, <1>7, <2>2, <2>4
  <2> QED BY <1>11, <2>3, <2>4 DEF bit, fields, StateIsThere
<1> QED BY <1>10, <1>11

\* A field that is a text has the value of the text.
LEMMA TextFieldIs ==
  ASSUME NEW bytes, NEW l \in 1..5,
         NEW name \in DOMAIN TextData(bytes, LAYOUTS[l])
  PROVE  /\ name \in DOMAIN Fields(bytes, LAYOUTS[l])
         /\ Fields(bytes, LAYOUTS[l])[name] = TextData(bytes, LAYOUTS[l])[name]
BY OtherFields

-----------------------------------------------------------------------------
(* The decoder: the numbers that the firmware writes                       *)

\* Each sensor starts where the one before it ends.
LEMMA OffsetSteps ==
  /\ \A s \in 0..17 : Offset(s) \in 0..37
  /\ \A s \in 1..17 : Offset(s) = Offset(s - 1) + BoatV4Sensors[s].width
  /\ \A s \in 1..17 : BoatV4Sensors[s].width \in Widths
  /\ \A n \in 0..17 : \A s \in 0..n : Offset(s) <= Offset(n)
<1>1. \A s \in 1..17 :
        BoatV4Sensors[s].width = IF s <= 14 THEN 2 ELSE IF s = 15 THEN 1 ELSE 4
  BY Numbers
<1>2. \A s \in 0..17 : Offset(s) \in 0..37 BY DEF Offset
<1>3. ASSUME NEW s \in 1..17
      PROVE  Offset(s) = Offset(s - 1) + BoatV4Sensors[s].width
  <2>1. BoatV4Sensors[s].width = IF s <= 14 THEN 2 ELSE IF s = 15 THEN 1 ELSE 4
    BY <1>1
  <2> QED BY <2>1 DEF Offset
<1>4. \A s \in 1..17 : BoatV4Sensors[s].width \in Widths BY <1>1 DEF Widths
<1>5. \A n \in 0..17 : \A s \in 0..n : Offset(s) <= Offset(n) BY DEF Offset
<1> QED BY <1>2, <1>3, <1>4, <1>5

\* A sensor that the firmware wrote from a reading: the decoder omits it if, and only
\* if, there was none, and otherwise finds the reading, within the field's range.
LEMMA NumberRead ==
  ASSUME NEW bytes, NEW s \in 1..17, NEW v \in Int \union {NoReading},
         \A b \in 1..BoatV4Sensors[s].width :
           bytes[Offset(s - 1) + b]
             = BigEndian(BoatV4Sensors[s].width,
                         Encoded(BoatV4Sensors[s].width, v))[b],
         BoatV4Sensors[s].signed \/ v = NoReading \/ v >= 0
  PROVE  /\ LeftOut(bytes, s) <=> v = NoReading
         /\ v # NoReading => Raw(bytes, s) = Clamped(BoatV4Sensors[s].width, v)
<1> DEFINE w == BoatV4Sensors[s].width
           signed == BoatV4Sensors[s].signed
           part == BigEndian(w, Encoded(w, v))
<1>1. w \in Widths /\ signed \in BOOLEAN /\ (s = 9 => w = 2)
  <2>1. w \in Widths BY OffsetSteps
  <2>2. signed \in BOOLEAN BY Numbers
  <2>3. s = 9 => w = 2
    <3>1. w = IF s <= 14 THEN 2 ELSE IF s = 15 THEN 1 ELSE 4 BY Numbers
    <3> QED BY <3>1
  <2> QED BY <2>1, <2>2, <2>3
<1>2. Offset(s - 1) \in Nat
  <2>1. s - 1 \in 0..17 OBVIOUS
  <2>2. Offset(s - 1) \in 0..37 BY <2>1, OffsetSteps
  <2> QED BY <2>2
<1>3. \A b \in 1..w : bytes[Offset(s - 1) + b] = part[b] OBVIOUS
<1>4. signed \/ v = NoReading \/ v >= 0 OBVIOUS
<1>5. Raw(bytes, s) = readInt(bytes, Offset(s - 1) + 1, signed, w) BY DEF Raw
<1>6. /\ LeftOut(bytes, s) <=> \/ isInvalidSentinel(Raw(bytes, s), signed, w)
                               \/ s = 9 /\ Raw(bytes, s) = Infinite
  BY DEF LeftOut
<1> HIDE DEF w, signed, part
<1>7. Raw(bytes, s) = readInt(part, 1, signed, w)
  BY <1>1, <1>2, <1>3, <1>5, ReadIntShift
<1>8. /\ isInvalidSentinel(Raw(bytes, s), signed, w) <=> v = NoReading
      /\ v # NoReading => Raw(bytes, s) = Clamped(w, v)
  BY <1>1, <1>4, <1>7, NumbersArrive DEF part
<1>9. ASSUME s = 9, v # NoReading PROVE Raw(bytes, s) # Infinite
  <2>1. v \in Int /\ w = 2 BY <1>1, <1>9
  <2>2. Clamped(w, v) <= EncMax(w) /\ Clamped(w, v) \in Int
    BY <1>1, <2>1, ClampedInRange
  <2>3. EncMax(w) = 32767 BY <2>1, Ranges
  <2>4. Clamped(w, v) # 65535
    <3> DEFINE x == Clamped(w, v)
    <3>1. x \in Int /\ x <= 32767 BY <2>2, <2>3
    <3> HIDE DEF x
    <3>2. x # 65535 BY <3>1, SMT
    <3> QED BY <3>2, SMT DEF x
  <2> QED BY <1>8, <1>9, <2>4 DEF Infinite
<1> QED BY <1>6, <1>8, <1>9 DEF w

\* An integer of so many bytes that is not the pattern for no valid value.
LEMMA InRange ==
  ASSUME NEW w \in Widths, NEW raw \in Int
  PROVE  /\ /\ raw >= (-128) * Weight(w - 1)
            /\ raw < 128 * Weight(w - 1)
            /\ raw # (-128) * Weight(w - 1)
            => EncMin(w) + 1 <= raw /\ raw <= EncMax(w)
         /\ raw >= 0 /\ raw < 256 * Weight(w - 1)
            => raw \in 0..256 * Unit(w - 1) - 1
<1> DEFINE u == Weight(w - 1)
           lo == EncMin(w)
           hi == EncMax(w)
<1>1. w \in 1..4 BY DEF Widths
<1>2. u \in Int BY <1>1, Powers, SMT
<1>u. Unit(w - 1) = u BY <1>1 DEF Unit, Weight
<1>3. lo = (-128) * u BY <1>u DEF EncMin
<1>4. hi = -(lo + 1) BY DEF EncMax
<1> HIDE DEF u, lo, hi
<1>5. raw >= (-128) * u /\ raw < 128 * u /\ raw # (-128) * u
        => lo + 1 <= raw /\ raw <= hi
  BY <1>2, <1>3, <1>4, SMT
<1>6. raw >= 0 /\ raw < 256 * u => raw \in 0..256 * u - 1
  BY <1>2, SMT
<1> QED BY <1>5, <1>6, <1>u DEF u, lo, hi

\* Any bytes of a payload: what the decoder makes of them for a sensor is a value that
\* the field can carry.
LEMMA AnyNumber ==
  ASSUME NEW bytes \in Seq(Byte), NEW s \in 1..17, Offset(s) <= Len(bytes),
         ~LeftOut(bytes, s)
  PROVE  LET w == BoatV4Sensors[s].width
         IN  /\ Raw(bytes, s) \in Int
             /\ BoatV4Sensors[s].signed =>
                  EncMin(w) + 1 <= Raw(bytes, s) /\ Raw(bytes, s) <= EncMax(w)
             /\ ~BoatV4Sensors[s].signed => Raw(bytes, s) \in 0..256 * Unit(w - 1) - 1
<1> DEFINE w == BoatV4Sensors[s].width
           signed == BoatV4Sensors[s].signed
           i == Offset(s - 1)
           raw == Raw(bytes, s)
<1>1. w \in Widths /\ signed \in BOOLEAN BY OffsetSteps, Numbers
<1>2. i \in Nat /\ i + w <= Len(bytes)
  <2>1. s - 1 \in 0..17 OBVIOUS
  <2>2. Offset(s - 1) \in 0..37 BY <2>1, OffsetSteps
  <2>3. Offset(s) = Offset(s - 1) + w BY OffsetSteps
  <2>4. \A c \in 0..37 : c \in Nat OBVIOUS
  <2>5. i + w <= Len(bytes)
    <3>1. i + w = Offset(s) BY <2>3
    <3> HIDE DEF i, w
    <3> QED BY <3>1
  <2>6. i \in Nat BY <2>2, <2>4
  <2> QED BY <2>5, <2>6
<1>3. raw = readInt(bytes, i + 1, signed, w) BY DEF Raw
<1>4. ~isInvalidSentinel(raw, signed, w) BY DEF LeftOut
<1> HIDE DEF w, signed, i, raw
<1>6. \A b \in 1..w : bytes[i + b] \in Byte
  <2> SUFFICES ASSUME NEW b \in 1..w PROVE bytes[i + b] \in Byte
    OBVIOUS
  <2>1. Len(bytes) \in Nat BY LenProperties
  <2>2. w \in 1..4 BY <1>1 DEF Widths
  <2>3. i + b \in 1..Len(bytes) BY <1>2, <2>1, <2>2
  <2> QED BY <2>3, ElementOfSeq
<1>7. /\ raw \in Int
      /\ signed => raw >= (-128) * Weight(w - 1) /\ raw < 128 * Weight(w - 1)
      /\ ~signed => raw >= 0 /\ raw < 256 * Weight(w - 1)
  BY <1>1, <1>2, <1>3, <1>6, RawRange
<1>8. /\ signed => raw # (-128) * Weight(w - 1)
      /\ ~signed => raw # 128 * Weight(w - 1)
  BY <1>4 DEF isInvalidSentinel
<1>10. signed => EncMin(w) + 1 <= raw /\ raw <= EncMax(w)
  BY <1>1, <1>7, <1>8, InRange
<1>11. ~signed => raw \in 0..256 * Unit(w - 1) - 1
  BY <1>1, <1>7, InRange
<1>12. raw \in Int BY <1>7
<1> QED BY <1>10, <1>11, <1>12 DEF w, signed, raw

-----------------------------------------------------------------------------
(* The bytes that the firmware writes *)

\* A number is as many bytes as its field is wide (lorabridge.cpp:314).
LEMMA BigEndianBytes ==
  ASSUME NEW n \in Widths, NEW v \in Int
  PROVE  BigEndian(n, v) \in Seq(Byte) /\ Len(BigEndian(n, v)) = n
<1>1. n \in 1..4 BY DEF Widths
<1>2. \A b \in 1..n : (v \div Unit(n - b)) % 256 \in Byte
  <2> SUFFICES ASSUME NEW b \in 1..n PROVE (v \div Unit(n - b)) % 256 \in Byte
    OBVIOUS
  <2>1. n - b \in {0, 1, 2, 3} BY <1>1
  <2>2. Unit(n - b) \in {1, 256, 65536, 16777216} BY <2>1, Powers
  <2>3. PICK u \in {1, 256, 65536, 16777216} : Unit(n - b) = u BY <2>2
  <2>4. v \div u \in Int BY <2>3, SMT
  <2> DEFINE x == v \div u
  <2>5. x \in Int BY <2>4
  <2> HIDE DEF x
  <2>6. x % 256 \in Byte BY <2>5 DEF Byte
  <2> QED BY <2>3, <2>6 DEF x
<1>3. BigEndian(n, v) \in [1..n -> Byte] BY <1>2 DEF BigEndian
<1>4. n \in Nat BY <1>1
<1> QED BY <1>3, <1>4, FunctionIsSeq

\* A text is its length, at most 255, and as many bytes (pack_text_sensors,
\* lorabridge.cpp:69).
LEMMA TextBytes ==
  ASSUME NEW text \in Seq(Byte)
  PROVE  LET n == TextLength(text)
         IN  /\ n \in 0..255 /\ n <= Len(text)
             /\ Len(text) <= 255 => n = Len(text)
             /\ PackedText(text) \in Seq(Byte)
             /\ Len(PackedText(text)) = 1 + n
             /\ PackedText(text)[1] = n
             /\ \A i \in 1..n : PackedText(text)[1 + i] = text[i]
<1> DEFINE n == TextLength(text)
           head == <<n>>
           body == SubSeq(text, 1, n)
<1>0. Len(text) \in Nat BY LenProperties
<1>1. n \in 0..255 /\ n <= Len(text) /\ (Len(text) <= 255 => n = Len(text))
  <2> DEFINE len == Len(text)
  <2>1. len \in Nat BY <1>0
  <2>2. n = IF len > 255 THEN 255 ELSE len BY DEF TextLength
  <2> HIDE DEF len, n
  <2>3. n \in 0..255 /\ n <= len /\ (len <= 255 => n = len) BY <2>1, <2>2
  <2> QED BY <2>3 DEF len, n
<1>2. PackedText(text) = head \o body BY DEF PackedText
<1>3. n \in Byte BY <1>1 DEF Byte
<1> HIDE DEF n
<1>4. head \in Seq(Byte) /\ Len(head) = 1 /\ head[1] = n BY <1>3
<1>5. body \in Seq(Byte) /\ Len(body) = n /\ \A i \in 1..n : body[i] = text[i]
  <2>1. \A i \in 1..n : text[i] \in Byte
    <3>1. \A i \in 1..n : i \in 1..Len(text) BY <1>0, <1>1
    <3> QED BY <3>1, ElementOfSeq
  <2>2. n \in Int /\ 1 \in Int BY <1>1
  <2>3. /\ body \in Seq(Byte)
        /\ Len(body) = IF 1 <= n THEN n - 1 + 1 ELSE 0
        /\ \A i \in 1..n - 1 + 1 : body[i] = text[1 + i - 1]
    BY <2>1, <2>2, SubSeqProperties
  <2>4. n - 1 + 1 = n BY <1>1
  <2>5. \A i \in 1..n : 1 + i - 1 = i OBVIOUS
  <2> HIDE DEF body
  <2> QED BY <1>1, <2>3, <2>4, <2>5
<1> HIDE DEF head, body
<1>6. /\ PackedText(text) \in Seq(Byte)
      /\ Len(PackedText(text)) = Len(head) + Len(body)
      /\ \A i \in 1..Len(head) : PackedText(text)[i] = head[i]
      /\ \A i \in 1..Len(body) : PackedText(text)[Len(head) + i] = body[i]
  <2>1. head \in Seq(Byte) /\ body \in Seq(Byte) BY <1>4, <1>5
  <2> QED BY <1>2, <2>1, Joined
<1> QED BY <1>1, <1>4, <1>5, <1>6 DEF n

\* What the firmware writes for readings, states and texts, in the layout.
WrittenAs(layout, readings, states, words) ==
  FlattenSeq([s \in DOMAIN readings |->
                BigEndian(layout.sensors[s].width,
                          Encoded(layout.sensors[s].width, readings[s]))])
  \o PackedBits(states)
  \o FlattenSeq([t \in DOMAIN words |-> PackedText(words[t])])

\* off tells where each of parts starts, one behind the other.
Offsets(off, parts) ==
  /\ off \in [0..Len(parts) -> Nat]
  /\ off[0] = 0
  /\ \A k \in 1..Len(parts) : off[k] = off[k - 1] + Len(parts[k])

\* Each of parts stands in whole where off says.
Placed(whole, off, parts) ==
  /\ Len(whole) = off[Len(parts)]
  /\ \A k \in 1..Len(parts) : \A i \in 1..Len(parts[k]) :
       /\ off[k - 1] + i \in 1..off[Len(parts)]
       /\ whole[off[k - 1] + i] = parts[k][i]

\* Parts written one behind the other stand where they start.
LEMMA PartsPlaced ==
  ASSUME NEW B, NEW parts \in Seq(Seq(B)), NEW off, Offsets(off, parts)
  PROVE  FlattenSeq(parts) \in Seq(B) /\ Placed(FlattenSeq(parts), off, parts)
<1>1. /\ off \in [0..Len(parts) -> Nat] /\ off[0] = 0
      /\ \A k \in 1..Len(parts) : off[k] = off[k - 1] + Len(parts[k])
  BY DEF Offsets
<1> QED BY <1>1, Pieces, SMTT(30) DEF Placed

\* What the task writes for a reading is a number.
LEMMA EncodedIsInt ==
  ASSUME NEW n \in Widths, NEW v \in Int \union {NoReading}
  PROVE  Encoded(n, v) \in Int
<1>1. EncMin(n) \in Int /\ EncMax(n) \in Int BY Ranges DEF Widths
<1> QED BY <1>1 DEF Encoded, Clamped

\* The numbers, one behind the other.
LEMMA NumbersWritten ==
  ASSUME NEW l \in 1..5, NEW readings \in Seq(Int \union {NoReading}),
         Len(readings) = Counts[l]
  PROVE  LET numbers == FlattenSeq([s \in DOMAIN readings |->
                          BigEndian(LAYOUTS[l].sensors[s].width,
                                    Encoded(LAYOUTS[l].sensors[s].width, readings[s]))])
         IN  /\ numbers \in Seq(Byte)
             /\ Len(numbers) = Offset(Counts[l])
             /\ \A s \in 1..Counts[l] : \A b \in 1..BoatV4Sensors[s].width :
                  /\ Offset(s - 1) + b \in 1..Offset(Counts[l])
                  /\ numbers[Offset(s - 1) + b]
                       = BigEndian(BoatV4Sensors[s].width,
                                   Encoded(BoatV4Sensors[s].width, readings[s]))[b]
<1> DEFINE n == Counts[l]
           Wide(s) == BoatV4Sensors[s].width
           pieces == [s \in DOMAIN readings |->
                       BigEndian(LAYOUTS[l].sensors[s].width,
                                 Encoded(LAYOUTS[l].sensors[s].width, readings[s]))]
           off == [k \in 0..n |-> Offset(k)]
<1>1. /\ n \in 10..17
      /\ \A s \in 1..n : LAYOUTS[l].sensors[s] = BoatV4Sensors[s]
  BY LayoutSensors
<1>2. DOMAIN readings = 1..n /\ \A s \in 1..n : readings[s] \in Int \union {NoReading}
  BY LenProperties, ElementOfSeq
<1>3. \A s \in 1..n : s \in 1..17 /\ s - 1 \in 0..n
  <2>1. n \in 10..17 BY <1>1
  <2> HIDE DEF n
  <2> QED BY <2>1
<1>4. /\ \A s \in 1..n : Wide(s) \in Widths /\ Offset(s) = Offset(s - 1) + Wide(s)
      /\ \A k \in 0..n : Offset(k) \in Nat
  <2>0. n \in 10..17 BY <1>1
  <2> HIDE DEF n
  <2>1. \A k \in 0..n : k \in 0..17 BY <2>0
  <2>2. \A k \in 0..n : Offset(k) \in 0..37 BY <2>1, OffsetSteps
  <2>3. \A k \in 0..37 : k \in Nat OBVIOUS
  <2> QED BY <1>3, <2>2, <2>3, OffsetSteps
<1>5. \A s \in 1..n : pieces[s] = BigEndian(Wide(s), Encoded(Wide(s), readings[s]))
  BY <1>1, <1>2
<1>6. \A s \in 1..n : pieces[s] \in Seq(Byte) /\ Len(pieces[s]) = Wide(s)
  <2> SUFFICES ASSUME NEW s \in 1..n
               PROVE  pieces[s] \in Seq(Byte) /\ Len(pieces[s]) = Wide(s)
    OBVIOUS
  <2>1. Wide(s) \in Widths /\ readings[s] \in Int \union {NoReading}
    BY <1>2, <1>4
  <2>2. Encoded(Wide(s), readings[s]) \in Int BY <2>1, EncodedIsInt
  <2> HIDE DEF Wide, pieces
  <2> QED BY <1>5, <2>1, <2>2, BigEndianBytes
<1>7. pieces \in Seq(Seq(Byte)) /\ Len(pieces) = n
  <2>1. pieces \in [1..n -> Seq(Byte)]
    <3>1. DOMAIN pieces = 1..n BY <1>2
    <3>2. pieces = [s \in 1..n |-> pieces[s]] BY <1>2
    <3> HIDE DEF pieces
    <3> QED BY <1>6, <3>2
  <2>2. n \in Nat BY <1>1
  <2> HIDE DEF pieces, n
  <2> QED BY <2>1, <2>2, FunctionIsSeq
<1>8. /\ off \in [0..n -> Nat] /\ off[0] = 0
      /\ \A k \in 1..n : off[k] = off[k - 1] + Len(pieces[k])
      /\ \A k \in 0..n : off[k] = Offset(k)
  <2>1. off \in [0..n -> Nat] BY <1>4
  <2>2. \A k \in 0..n : off[k] = Offset(k) OBVIOUS
  <2>3. 0 \in 0..n /\ Offset(0) = 0 BY <1>1 DEF Offset
  <2> HIDE DEF off, pieces
  <2>4. \A k \in 1..n : off[k] = off[k - 1] + Len(pieces[k])
    <3> SUFFICES ASSUME NEW k \in 1..n PROVE off[k] = off[k - 1] + Len(pieces[k])
      OBVIOUS
    <3>1. k \in 0..n /\ k - 1 \in 0..n BY <1>1
    <3>2. off[k] = Offset(k) /\ off[k - 1] = Offset(k - 1) BY <2>2, <3>1
    <3>3. Len(pieces[k]) = Wide(k) BY <1>6
    <3>4. Offset(k) = Offset(k - 1) + Wide(k) BY <1>4
    <3> QED BY <3>2, <3>3, <3>4
  <2> QED BY <2>1, <2>2, <2>3, <2>4
<1> HIDE DEF pieces, off, n
<1>9. /\ FlattenSeq(pieces) \in Seq(Byte)
      /\ Len(FlattenSeq(pieces)) = off[n]
      /\ \A k \in 1..n : \A i \in 1..Len(pieces[k]) :
           /\ off[k - 1] + i \in 1..off[n]
           /\ FlattenSeq(pieces)[off[k - 1] + i] = pieces[k][i]
  <2>1. Offsets(off, pieces)
    <3> SUFFICES /\ off \in [0..Len(pieces) -> Nat] /\ off[0] = 0
                 /\ \A k \in 1..Len(pieces) : off[k] = off[k - 1] + Len(pieces[k])
      BY DEF Offsets
    <3> QED BY <1>7, <1>8
  <2>2. pieces \in Seq(Seq(Byte)) BY <1>7
  <2>3. FlattenSeq(pieces) \in Seq(Byte) /\ Placed(FlattenSeq(pieces), off, pieces)
    BY <2>1, <2>2, PartsPlaced
  <2> QED BY <1>7, <2>3 DEF Placed
<1>10. off[n] = Offset(n)
  <2>1. n \in 0..n BY <1>1
  <2> QED BY <1>8, <2>1
<1>11. ASSUME NEW s \in 1..n, NEW b \in 1..Wide(s)
       PROVE  /\ Offset(s - 1) + b \in 1..Offset(n)
              /\ FlattenSeq(pieces)[Offset(s - 1) + b]
                   = BigEndian(Wide(s), Encoded(Wide(s), readings[s]))[b]
  <2>1. off[s - 1] = Offset(s - 1) BY <1>3, <1>8
  <2>2. b \in 1..Len(pieces[s]) BY <1>6
  <2> QED BY <1>5, <1>9, <1>10, <2>1, <2>2
<1> QED BY <1>9, <1>10, <1>11 DEF n, pieces

\* Where each text starts: q[t - 1] is the place of the length byte of text t, q of the
\* last one is where the payload ends.
Starts(q, start, words) ==
  /\ q \in [0..Len(words) -> Nat]
  /\ q[0] = start
  /\ \A t \in 1..Len(words) : q[t] = q[t - 1] + 1 + TextLength(words[t])

\* Every list of texts has such starts.
LEMMA StartsExist ==
  ASSUME NEW words \in Seq(Seq(Byte)), NEW start \in Nat
  PROVE  \E q : Starts(q, start, words)
<1> DEFINE n == Len(words)
           step == [k \in 1..n |-> [v \in Nat |-> v + 1 + TextLength(words[k])]]
<1>1. n \in Nat /\ \A k \in 1..n : TextLength(words[k]) \in Nat
  <2>1. n \in Nat BY LenProperties
  <2>2. ASSUME NEW k \in 1..n PROVE TextLength(words[k]) \in Nat
    <3>1. words[k] \in Seq(Byte) BY ElementOfSeq
    <3>2. \A c \in 0..255 : c \in Nat OBVIOUS
    <3>3. TextLength(words[k]) \in 0..255 BY <3>1, TextBytes
    <3> QED BY <3>2, <3>3
  <2> QED BY <2>1, <2>2
<1>2. step \in [1..n -> [Nat -> Nat]] BY <1>1
<1>3. \A k \in 1..n, v \in Nat : step[k][v] = v + 1 + TextLength(words[k])
  OBVIOUS
<1> HIDE DEF step
<1>4. PICK q \in [0..n -> Nat] : Goes(q, n, start, step)
  <2> HIDE DEF n
  <2> QED BY <1>1, <1>2, Recursion
<1>5. \A t \in 1..n : q[t] = q[t - 1] + 1 + TextLength(words[t])
  <2> HIDE DEF n
  <2>0. \A t \in 1..n : t - 1 \in 0..n BY <1>1
  <2>1. \A t \in 1..n : q[t - 1] \in Nat BY <1>4, <2>0
  <2> QED BY <1>3, <1>4, <2>1 DEF Goes
<1> QED BY <1>4, <1>5 DEF Starts, Goes

\* The texts, one behind the other.
LEMMA TextsWritten ==
  ASSUME NEW words \in Seq(Seq(Byte)), NEW start \in Nat, NEW q, Starts(q, start, words)
  PROVE  LET texts == FlattenSeq([t \in DOMAIN words |-> PackedText(words[t])])
             n == Len(words)
         IN  /\ texts \in Seq(Byte)
             /\ q[n] \in Nat /\ q[n] >= start
             /\ Len(texts) = q[n] - start
             /\ \A t \in 1..n :
                  /\ q[t - 1] - start + 1 \in 1..Len(texts)
                  /\ texts[q[t - 1] - start + 1] = TextLength(words[t])
                  /\ \A i \in 1..TextLength(words[t]) :
                       /\ q[t - 1] - start + 1 + i \in 1..Len(texts)
                       /\ texts[q[t - 1] - start + 1 + i] = words[t][i]
<1> DEFINE n == Len(words)
           pieces == [t \in DOMAIN words |-> PackedText(words[t])]
           off == [t \in 0..n |-> q[t] - start]
<1>1. n \in Nat /\ DOMAIN words = 1..n /\ \A t \in 1..n : words[t] \in Seq(Byte)
  BY LenProperties, ElementOfSeq
<1>2. \A t \in 1..n : /\ pieces[t] = PackedText(words[t])
                      /\ pieces[t] \in Seq(Byte)
                      /\ TextLength(words[t]) \in Nat
                      /\ Len(pieces[t]) = 1 + TextLength(words[t])
                      /\ pieces[t][1] = TextLength(words[t])
                      /\ \A i \in 1..TextLength(words[t]) : pieces[t][1 + i] = words[t][i]
  <2> SUFFICES ASSUME NEW t \in 1..n
               PROVE  /\ PackedText(words[t]) \in Seq(Byte)
                      /\ TextLength(words[t]) \in Nat
                      /\ Len(PackedText(words[t])) = 1 + TextLength(words[t])
                      /\ PackedText(words[t])[1] = TextLength(words[t])
                      /\ \A i \in 1..TextLength(words[t]) :
                           PackedText(words[t])[1 + i] = words[t][i]
    BY <1>1
  <2>1. words[t] \in Seq(Byte) BY <1>1
  <2>2. \A c \in 0..255 : c \in Nat OBVIOUS
  <2>3. TextLength(words[t]) \in Nat BY <2>1, <2>2, TextBytes
  <2> DEFINE text == words[t]
  <2>4. text \in Seq(Byte) BY <2>1
  <2> HIDE DEF text
  <2>5. /\ PackedText(text) \in Seq(Byte)
        /\ Len(PackedText(text)) = 1 + TextLength(text)
        /\ PackedText(text)[1] = TextLength(text)
        /\ \A i \in 1..TextLength(text) : PackedText(text)[1 + i] = text[i]
    BY <2>4, TextBytes
  <2> QED BY <2>3, <2>5 DEF text
<1>3. pieces \in Seq(Seq(Byte)) /\ Len(pieces) = n
  <2>1. pieces \in [1..n -> Seq(Byte)]
    <3>1. pieces = [t \in 1..n |-> pieces[t]] BY <1>1
    <3> HIDE DEF pieces
    <3> QED BY <1>2, <3>1
  <2> HIDE DEF pieces, n
  <2> QED BY <1>1, <2>1, FunctionIsSeq
<1>4. /\ q \in [0..n -> Nat] /\ q[0] = start
      /\ \A t \in 1..n : q[t] = q[t - 1] + 1 + TextLength(words[t])
  BY DEF Starts
<1> HIDE DEF n, pieces
<1>5. \A t \in 0..n : q[t] \in Nat /\ q[t] >= start
  <2> DEFINE T == {t \in Nat : t <= n => q[t] >= start}
  <2>1. 0 \in T BY <1>1, <1>4
  <2>2. \A t \in Nat : t \in T => t + 1 \in T
    <3> SUFFICES ASSUME NEW t \in Nat, t + 1 <= n, q[t] >= start
                 PROVE  q[t + 1] >= start
      BY <1>1
    <3>1. t + 1 \in 1..n /\ t \in 0..n /\ t + 1 - 1 = t BY <1>1
    <3>2. q[t + 1] = q[t] + 1 + TextLength(words[t + 1]) BY <1>4, <3>1
    <3>3. q[t] \in Nat /\ TextLength(words[t + 1]) \in Nat BY <1>2, <1>4, <3>1
    <3> QED BY <3>2, <3>3
  <2>3. \A t \in Nat : t \in T
    <3> HIDE DEF T
    <3> QED BY <2>1, <2>2, SetInduction
  <2> QED BY <1>1, <1>4, <2>3
<1>6. /\ off \in [0..n -> Nat] /\ off[0] = 0
      /\ \A k \in 1..n : off[k] = off[k - 1] + Len(pieces[k])
      /\ \A k \in 0..n : off[k] = q[k] - start
  <2>1. \A k \in 0..n : off[k] = q[k] - start OBVIOUS
  <2>2. off \in [0..n -> Nat] BY <1>5
  <2> HIDE DEF off
  <2>3. off[0] = 0
    <3>1. 0 \in 0..n BY <1>1
    <3> QED BY <1>4, <1>5, <2>1, <3>1
  <2>4. ASSUME NEW k \in 1..n PROVE off[k] = off[k - 1] + Len(pieces[k])
    <3>1. k \in 0..n /\ k - 1 \in 0..n BY <1>1
    <3>2. off[k] = q[k] - start /\ off[k - 1] = q[k - 1] - start BY <2>1, <3>1
    <3>3. q[k] = q[k - 1] + 1 + TextLength(words[k]) BY <1>4
    <3>4. /\ Len(pieces[k]) = 1 + TextLength(words[k])
          /\ TextLength(words[k]) \in Nat /\ q[k - 1] \in Nat
      BY <1>2, <1>5, <3>1
    <3> DEFINE o == off[k]
               o1 == off[k - 1]
               p == q[k]
               p1 == q[k - 1]
               len == Len(pieces[k])
               size == TextLength(words[k])
    <3>5. /\ o = p - start /\ o1 = p1 - start /\ p = p1 + 1 + size
          /\ len = 1 + size /\ size \in Nat /\ p1 \in Nat
      BY <3>2, <3>3, <3>4
    <3> HIDE DEF o, o1, p, p1, len, size
    <3>6. o = o1 + len BY <3>5
    <3> QED BY <3>6 DEF o, o1, len
  <2> QED BY <2>1, <2>2, <2>3, <2>4
<1> HIDE DEF off
<1>7. /\ FlattenSeq(pieces) \in Seq(Byte)
      /\ Len(FlattenSeq(pieces)) = off[n]
      /\ \A k \in 1..n : \A i \in 1..Len(pieces[k]) :
           /\ off[k - 1] + i \in 1..off[n]
           /\ FlattenSeq(pieces)[off[k - 1] + i] = pieces[k][i]
  <2>1. Offsets(off, pieces)
    <3> SUFFICES /\ off \in [0..Len(pieces) -> Nat] /\ off[0] = 0
                 /\ \A k \in 1..Len(pieces) : off[k] = off[k - 1] + Len(pieces[k])
      BY DEF Offsets
    <3> QED BY <1>3, <1>6
  <2>2. pieces \in Seq(Seq(Byte)) BY <1>3
  <2>3. FlattenSeq(pieces) \in Seq(Byte) /\ Placed(FlattenSeq(pieces), off, pieces)
    BY <2>1, <2>2, PartsPlaced
  <2> QED BY <1>3, <2>3 DEF Placed
<1>8. off[n] = q[n] - start /\ q[n] \in Nat /\ q[n] >= start
  <2>1. n \in 0..n BY <1>1
  <2> QED BY <1>5, <1>6, <2>1
<1>9. ASSUME NEW t \in 1..n
      PROVE  /\ q[t - 1] - start + 1 \in 1..off[n]
             /\ FlattenSeq(pieces)[q[t - 1] - start + 1] = TextLength(words[t])
             /\ \A i \in 1..TextLength(words[t]) :
                  /\ q[t - 1] - start + 1 + i \in 1..off[n]
                  /\ FlattenSeq(pieces)[q[t - 1] - start + 1 + i] = words[t][i]
  <2>1. t - 1 \in 0..n BY <1>1
  <2>2. off[t - 1] = q[t - 1] - start /\ q[t - 1] \in Nat BY <1>5, <1>6, <2>1
  <2>3. /\ TextLength(words[t]) \in Nat
        /\ Len(pieces[t]) = 1 + TextLength(words[t])
    BY <1>2
  <2>4. 1 \in 1..Len(pieces[t]) BY <2>3
  <2>5. ASSUME NEW i \in 1..TextLength(words[t])
        PROVE  /\ q[t - 1] - start + 1 + i \in 1..off[n]
               /\ FlattenSeq(pieces)[q[t - 1] - start + 1 + i] = words[t][i]
    <3>1. 1 + i \in 1..Len(pieces[t]) BY <2>3
    <3>2. off[t - 1] + (1 + i) = q[t - 1] - start + 1 + i
      <4> DEFINE o == off[t - 1]
                 p == q[t - 1]
      <4>1. o = p - start /\ p \in Nat BY <2>2
      <4>2. i \in Nat BY <2>3
      <4> HIDE DEF o, p
      <4>3. o + (1 + i) = p - start + 1 + i BY <4>1, <4>2
      <4> QED BY <4>3 DEF o, p
    <3>3. /\ off[t - 1] + (1 + i) \in 1..off[n]
          /\ FlattenSeq(pieces)[off[t - 1] + (1 + i)] = pieces[t][1 + i]
      BY <1>7, <3>1
    <3>4. pieces[t][1 + i] = words[t][i] BY <1>2
    <3> QED BY <3>2, <3>3, <3>4
  <2>6. /\ off[t - 1] + 1 \in 1..off[n]
        /\ FlattenSeq(pieces)[off[t - 1] + 1] = pieces[t][1]
    BY <1>7, <2>4
  <2>7. pieces[t][1] = TextLength(words[t]) BY <1>2
  <2>8. off[t - 1] + 1 = q[t - 1] - start + 1 BY <2>2
  <2> QED BY <2>5, <2>6, <2>7, <2>8
<1> QED BY <1>7, <1>8, <1>9 DEF n, pieces

\* The readings stand in a payload, as the firmware writes them.
NumbersStand(bytes, l, readings) ==
  \A s \in 1..Counts[l] : \A b \in 1..BoatV4Sensors[s].width :
    bytes[Offset(s - 1) + b]
      = BigEndian(BoatV4Sensors[s].width,
                  Encoded(BoatV4Sensors[s].width, readings[s]))[b]

\* So do the states,
BitsStand(bytes, l, states) ==
  \A b \in 1..BitCounts[l] :
    BitAt(bytes[Offset(Counts[l]) + 1 + (b - 1) \div 8], (b - 1) % 8) = 1
      <=> states[b]

\* and the texts.
TextsStand(bytes, q, words) ==
  \A t \in 1..Len(words) :
    /\ q[t - 1] \in 1..Len(bytes)
    /\ bytes[q[t - 1]] = TextLength(words[t])
    /\ \A i \in 1..TextLength(words[t]) :
         /\ q[t - 1] + i \in 1..Len(bytes)
         /\ bytes[q[t - 1] + i] = words[t][i]

\* whole is two sequences one behind the other, or three.
TwoParts(whole, S, a, b) ==
  /\ whole \in Seq(S)
  /\ Len(whole) = Len(a) + Len(b)
  /\ \A i \in 1..Len(a) : whole[i] = a[i]
  /\ \A i \in 1..Len(b) : whole[Len(a) + i] = b[i]
ThreeParts(whole, S, a, b, c) ==
  /\ whole \in Seq(S)
  /\ Len(whole) = Len(a) + Len(b) + Len(c)
  /\ \A i \in 1..Len(a) : whole[i] = a[i]
  /\ \A i \in 1..Len(b) : whole[Len(a) + i] = b[i]
  /\ \A i \in 1..Len(c) : whole[Len(a) + Len(b) + i] = c[i]

\* Two sequences one behind the other.
LEMMA TwoJoined ==
  ASSUME NEW S, NEW a \in Seq(S), NEW b \in Seq(S)
  PROVE  TwoParts(a \o b, S, a, b)
BY Joined DEF TwoParts

\* Three sequences one behind the other.
LEMMA ThreeJoined ==
  ASSUME NEW S, NEW a \in Seq(S), NEW b \in Seq(S), NEW c \in Seq(S)
  PROVE  ThreeParts(a \o b \o c, S, a, b, c)
<1> DEFINE ab == a \o b
<1>1. /\ Len(a) \in Nat /\ Len(b) \in Nat /\ Len(c) \in Nat BY LenProperties
<1>2. /\ ab \in Seq(S) /\ Len(ab) = Len(a) + Len(b)
      /\ \A i \in 1..Len(a) : ab[i] = a[i]
      /\ \A i \in 1..Len(b) : ab[Len(a) + i] = b[i]
  BY TwoJoined DEF TwoParts
<1> HIDE DEF ab
<1>3. /\ ab \o c \in Seq(S) /\ Len(ab \o c) = Len(ab) + Len(c)
      /\ \A i \in 1..Len(ab) : (ab \o c)[i] = ab[i]
      /\ \A i \in 1..Len(c) : (ab \o c)[Len(ab) + i] = c[i]
  <2>1. ab \in Seq(S) /\ c \in Seq(S) BY <1>2
  <2>2. TwoParts(ab \o c, S, ab, c) BY <2>1, TwoJoined
  <2> QED BY <2>2 DEF TwoParts
<1>4. ASSUME NEW i \in 1..Len(a) PROVE (ab \o c)[i] = a[i]
  <2>1. i \in 1..Len(ab) BY <1>1, <1>2
  <2> QED BY <1>2, <1>3, <2>1
<1>5. ASSUME NEW i \in 1..Len(b) PROVE (ab \o c)[Len(a) + i] = b[i]
  <2>1. Len(a) + i \in 1..Len(ab) BY <1>1, <1>2
  <2> QED BY <1>2, <1>3, <2>1
<1>6. ASSUME NEW i \in 1..Len(c) PROVE (ab \o c)[Len(a) + Len(b) + i] = c[i]
  BY <1>2, <1>3
<1>7. Len(ab \o c) = Len(a) + Len(b) + Len(c) BY <1>2, <1>3
<1> QED BY <1>3, <1>4, <1>5, <1>6, <1>7 DEF ab, ThreeParts

\* Readings, states and texts stand in what the firmware writes.
LEMMA WrittenBytes ==
  ASSUME NEW l \in 1..5, NEW readings \in Seq(Int \union {NoReading}),
         Len(readings) = Counts[l], NEW states \in [1..BitCounts[l] -> BOOLEAN],
         NEW words \in Seq(Seq(Byte)),
         NEW q, Starts(q, FixedLengths[l] + 1, words)
  PROVE  LET written == WrittenAs(LAYOUTS[l], readings, states, words)
         IN  /\ written \in Seq(Byte)
             /\ q[Len(words)] \in Nat
             /\ Len(written) = q[Len(words)] - 1
             /\ Len(written) >= FixedLengths[l]
             /\ NumbersStand(written, l, readings)
             /\ BitsStand(written, l, states)
             /\ TextsStand(written, q, words)
<1> DEFINE wide(s) == BoatV4Sensors[s].width
           numbers == FlattenSeq([s \in DOMAIN readings |->
                          BigEndian(LAYOUTS[l].sensors[s].width,
                                    Encoded(LAYOUTS[l].sensors[s].width, readings[s]))])
           bits == PackedBits(states)
           texts == FlattenSeq([t \in DOMAIN words |-> PackedText(words[t])])
           start == FixedLengths[l] + 1
           n == Len(words)
           written == numbers \o bits \o texts
<1>0. WrittenAs(LAYOUTS[l], readings, states, words) = written
  BY DEF WrittenAs
<1>1. /\ FixedLengths[l] = Offset(Counts[l]) + BitmaskBytes(BitCounts[l])
      /\ FixedLengths[l] \in 21..39
  BY LayoutLengths
<1>2. /\ numbers \in Seq(Byte) /\ Len(numbers) = Offset(Counts[l])
      /\ \A s \in 1..Counts[l] : \A b \in 1..wide(s) :
           /\ Offset(s - 1) + b \in 1..Offset(Counts[l])
           /\ numbers[Offset(s - 1) + b]
                = BigEndian(wide(s), Encoded(wide(s), readings[s]))[b]
  BY NumbersWritten
<1>3. /\ bits \in Seq(Byte) /\ Len(bits) = BitmaskBytes(BitCounts[l])
      /\ \A b \in 1..BitCounts[l] :
           /\ (b - 1) \div 8 + 1 \in 1..BitmaskBytes(BitCounts[l])
           /\ BitAt(bits[(b - 1) \div 8 + 1], (b - 1) % 8) = 1 <=> states[b]
  <2>1. BitCounts[l] \in Nat
    <3>1. \A c \in 3..12 : c \in Nat OBVIOUS
    <3> QED BY <3>1, LayoutBits
  <2> QED BY <2>1, BitsRoundTrip
<1>4. start \in Nat /\ Starts(q, start, words)
  <2>1. \A c \in 21..39 : c + 1 \in Nat OBVIOUS
  <2> QED BY <1>1, <2>1
<1> HIDE DEF numbers, bits
<1>5. /\ texts \in Seq(Byte)
      /\ q[n] \in Nat /\ q[n] >= start
      /\ Len(texts) = q[n] - start
      /\ \A t \in 1..n :
           /\ q[t - 1] - start + 1 \in 1..Len(texts)
           /\ texts[q[t - 1] - start + 1] = TextLength(words[t])
           /\ \A i \in 1..TextLength(words[t]) :
                /\ q[t - 1] - start + 1 + i \in 1..Len(texts)
                /\ texts[q[t - 1] - start + 1 + i] = words[t][i]
  <2> HIDE DEF start
  <2> QED BY <1>4, TextsWritten, ZenonT(30)
<1>6. n \in Nat /\ q \in [0..n -> Nat]
  BY LenProperties DEF Starts
<1> HIDE DEF texts
<1>7. /\ written \in Seq(Byte)
      /\ Len(written) = Len(numbers) + Len(bits) + Len(texts)
      /\ \A i \in 1..Len(numbers) : written[i] = numbers[i]
      /\ \A i \in 1..Len(bits) : written[Len(numbers) + i] = bits[i]
      /\ \A i \in 1..Len(texts) : written[Len(numbers) + Len(bits) + i] = texts[i]
  <2>1. numbers \in Seq(Byte) /\ bits \in Seq(Byte) /\ texts \in Seq(Byte)
    BY <1>2, <1>3, <1>5
  <2>2. ThreeParts(written, Byte, numbers, bits, texts) BY <2>1, ThreeJoined
  <2> HIDE DEF written
  <2> QED BY <2>2 DEF ThreeParts
<1>8. /\ Len(numbers) \in Nat /\ Len(bits) \in Nat /\ Len(texts) \in Nat
  BY <1>2, <1>3, <1>5, LenProperties
<1>9. Len(numbers) + Len(bits) = FixedLengths[l] /\ start = FixedLengths[l] + 1
      /\ FixedLengths[l] \in Nat
  <2>1. \A c \in 21..39 : c \in Nat OBVIOUS
  <2> QED BY <1>1, <1>2, <1>3, <2>1
<1> HIDE DEF written, start, n
<1>10. Len(written) = q[n] - 1 /\ Len(written) >= FixedLengths[l]
  <2> DEFINE whole == Len(written)
             a == Len(numbers)
             b == Len(bits)
             c == Len(texts)
             p == q[n]
             fixed == FixedLengths[l]
  <2>1. /\ whole = a + b + c /\ a \in Nat /\ b \in Nat /\ c \in Nat
        /\ c = p - start /\ start = fixed + 1 /\ a + b = fixed
        /\ p \in Nat /\ fixed \in Nat
    BY <1>5, <1>7, <1>8, <1>9
  <2> HIDE DEF whole, a, b, c, p, fixed
  <2>2. whole = p - 1 /\ whole >= fixed BY <2>1
  <2> QED BY <2>2 DEF whole, p, fixed
<1>11. NumbersStand(written, l, readings)
  <2> SUFFICES ASSUME NEW s \in 1..Counts[l], NEW b \in 1..wide(s)
               PROVE  written[Offset(s - 1) + b]
                        = BigEndian(wide(s), Encoded(wide(s), readings[s]))[b]
    BY DEF NumbersStand
  <2>1. Offset(s - 1) + b \in 1..Len(numbers) BY <1>2
  <2> QED BY <1>2, <1>7, <2>1
<1>12. BitsStand(written, l, states)
  <2> SUFFICES ASSUME NEW b \in 1..BitCounts[l]
               PROVE  BitAt(written[Offset(Counts[l]) + 1 + (b - 1) \div 8],
                            (b - 1) % 8) = 1 <=> states[b]
    BY DEF BitsStand
  <2> DEFINE i == (b - 1) \div 8 + 1
  <2>1. i \in 1..Len(bits) BY <1>3
  <2>2. written[Len(numbers) + i] = bits[i] BY <1>7, <2>1
  <2>3. Len(numbers) + i = Offset(Counts[l]) + 1 + (b - 1) \div 8
    <3> DEFINE d == (b - 1) \div 8
               o == Offset(Counts[l])
    <3>1. d + 1 \in 1..Len(bits) /\ o \in Nat /\ Len(numbers) = o BY <1>2, <1>8, <2>1
    <3>2. d \in Int
      <4>1. b \in Int OBVIOUS
      <4> QED BY <4>1
    <3> HIDE DEF d, o
    <3>3. Len(numbers) + (d + 1) = o + 1 + d BY <3>1, <3>2
    <3> QED BY <3>3 DEF d, o
  <2> HIDE DEF i
  <2>4. written[Offset(Counts[l]) + 1 + (b - 1) \div 8] = bits[i] BY <2>2, <2>3
  <2>5. BitAt(bits[i], (b - 1) % 8) = 1 <=> states[b] BY <1>3 DEF i
  <2> QED BY <2>4, <2>5
<1>13. TextsStand(written, q, words)
  <2> SUFFICES ASSUME NEW t \in 1..n
               PROVE  /\ q[t - 1] \in 1..Len(written)
                      /\ written[q[t - 1]] = TextLength(words[t])
                      /\ \A i \in 1..TextLength(words[t]) :
                           /\ q[t - 1] + i \in 1..Len(written)
                           /\ written[q[t - 1] + i] = words[t][i]
    BY DEF TextsStand, n
  <2> DEFINE p == q[t - 1]
             h == Len(numbers) + Len(bits)
  <2>1. p \in Nat
    <3>1. t - 1 \in 0..n BY <1>6
    <3> QED BY <1>6, <3>1
  <2>2. h \in Nat /\ start = h + 1 /\ Len(written) = h + Len(texts) BY <1>7, <1>8, <1>9
  <2>3. /\ p - start + 1 \in 1..Len(texts)
        /\ texts[p - start + 1] = TextLength(words[t])
        /\ \A i \in 1..TextLength(words[t]) :
             /\ p - start + 1 + i \in 1..Len(texts)
             /\ texts[p - start + 1 + i] = words[t][i]
    BY <1>5
  <2>4. \A i \in 1..Len(texts) : written[h + i] = texts[i] BY <1>7
  <2> HIDE DEF p, h
  <2>5. h + (p - start + 1) = p BY <2>1, <2>2
  <2>6. p \in 1..Len(written) /\ written[p] = TextLength(words[t])
    <3>1. p \in 1..Len(written) BY <1>8, <2>1, <2>2, <2>3
    <3>2. written[p] = texts[p - start + 1] BY <2>3, <2>4, <2>5
    <3> QED BY <2>3, <3>1, <3>2
  <2>7. ASSUME NEW i \in 1..TextLength(words[t])
        PROVE  p + i \in 1..Len(written) /\ written[p + i] = words[t][i]
    <3>1. p - start + 1 + i \in 1..Len(texts) BY <2>3
    <3>i. i \in Int OBVIOUS
    <3>2. h + (p - start + 1 + i) = p + i BY <2>1, <2>2, <3>i
    <3>3. written[p + i] = texts[p - start + 1 + i] BY <2>4, <3>1, <3>2
    <3>4. p + i \in 1..Len(written) BY <1>8, <2>1, <2>2, <3>1, <3>i
    <3> QED BY <2>3, <3>3, <3>4
  <2> QED BY <2>6, <2>7 DEF p
<1> QED BY <1>0, <1>5, <1>7, <1>10, <1>11, <1>12, <1>13 DEF n

\* A payload of so many bytes: what the firmware writes, cut off or filled up with 0.
LEMMA PayloadBytes ==
  ASSUME NEW written \in Seq(Byte), NEW total \in Nat
  PROVE  LET payload == SubSeq(written \o [i \in 1..total |-> 0], 1, total)
         IN  /\ payload \in Seq(Byte)
             /\ Len(payload) = total
             /\ \A i \in 1..total : i <= Len(written) => payload[i] = written[i]
             /\ Len(written) = total => payload = written
<1> DEFINE zeros == [i \in 1..total |-> 0]
           all == written \o zeros
           payload == SubSeq(all, 1, total)
<1>1. zeros \in Seq(Byte) /\ Len(zeros) = total
  <2>1. zeros \in [1..total -> Byte] BY DEF Byte
  <2> HIDE DEF zeros
  <2> QED BY <2>1, FunctionIsSeq
<1> HIDE DEF zeros
<1>2. Len(written) \in Nat BY LenProperties
<1>3. /\ all \in Seq(Byte) /\ Len(all) = Len(written) + total
      /\ \A i \in 1..Len(written) : all[i] = written[i]
  BY <1>1, Joined
<1> HIDE DEF all
<1>4. \A i \in 1..total : i \in 1..Len(all) BY <1>2, <1>3
<1>5. /\ payload \in Seq(Byte) /\ Len(payload) = total
      /\ \A i \in 1..total : payload[i] = all[i]
  <2>1. 1..total \subseteq 1..Len(all) BY <1>4
  <2>2. \A i \in 1..total : all[i] \in Byte BY <1>3, <1>4, ElementOfSeq
  <2>3. payload = [i \in 1..total |-> all[i]]
    BY <1>3
  <2>4. payload \in [1..total -> Byte] BY <2>2, <2>3
  <2>5. \A i \in 1..total : payload[i] = all[i] BY <2>3
  <2> HIDE DEF payload
  <2> QED BY <2>4, <2>5, FunctionIsSeq
<1> HIDE DEF payload
<1>6. ASSUME NEW i \in 1..total, i <= Len(written) PROVE payload[i] = written[i]
  <2>1. i \in 1..Len(written) BY <1>2, <1>6
  <2> QED BY <1>3, <1>5, <2>1
<1>7. ASSUME Len(written) = total PROVE payload = written
  <2>1. \A i \in 1..Len(payload) : payload[i] = written[i]
    BY <1>5, <1>6, <1>7
  <2>2. Len(payload) = Len(written) BY <1>5, <1>7
  <2> QED BY <1>5, <2>1, <2>2, SeqEqual
<1> QED BY <1>5, <1>6, <1>7 DEF payload, all, zeros

-----------------------------------------------------------------------------
(* The layout and the texts of a payload of printable texts                *)

\* A payload whose texts, of printable characters, start at q and end where it ends;
\* it is no longer than an uplink.
Texted(bytes, q, start, words) ==
  /\ bytes \in Seq(Byte) /\ Len(bytes) <= 51
  /\ words \in Seq(Seq(Byte))
  /\ \A t \in 1..Len(words) : \A i \in 1..Len(words[t]) : words[t][i] >= 32
  /\ start \in Nat /\ start >= 22
  /\ Starts(q, start, words)
  /\ TextsStand(bytes, q, words)
  /\ Len(bytes) = q[Len(words)] - 1

\* Every text starts behind the ones before it.
LEMMA StartsGrow ==
  ASSUME NEW bytes, NEW q, NEW start, NEW words, Texted(bytes, q, start, words)
  PROVE  /\ Len(words) \in Nat
         /\ \A t \in 0..Len(words) : q[t] \in Nat /\ q[t] >= start
         /\ \A s, t \in 0..Len(words) : s <= t => q[t] >= q[s] + (t - s)
<1> DEFINE n == Len(words)
<1>1. /\ n \in Nat /\ start \in Nat
      /\ q \in [0..n -> Nat] /\ q[0] = start
      /\ \A t \in 1..n : q[t] = q[t - 1] + 1 + TextLength(words[t])
      /\ \A t \in 1..n : TextLength(words[t]) \in Nat
  <2>1. n \in Nat BY LenProperties DEF Texted
  <2>2. ASSUME NEW t \in 1..n PROVE TextLength(words[t]) \in Nat
    <3>1. words[t] \in Seq(Byte) BY ElementOfSeq DEF Texted
    <3>2. \A c \in 0..255 : c \in Nat OBVIOUS
    <3> QED BY <3>1, <3>2, TextBytes
  <2> QED BY <2>1, <2>2 DEF Texted, Starts
<1> HIDE DEF n
<1>2. ASSUME NEW s \in 0..n
      PROVE  \A t \in 0..n : s <= t => q[t] >= q[s] + (t - s)
  <2> DEFINE T == {t \in Nat : s <= t /\ t <= n => q[t] >= q[s] + (t - s)}
  <2>1. 0 \in T
    <3>1. s <= 0 => s = 0 BY <1>1
    <3>2. q[s] \in Nat BY <1>1
    <3> QED BY <3>1, <3>2
  <2>2. \A t \in Nat : t \in T => t + 1 \in T
    <3> SUFFICES ASSUME NEW t \in Nat, t \in T, s <= t + 1, t + 1 <= n
                 PROVE  q[t + 1] >= q[s] + ((t + 1) - s)
      OBVIOUS
    <3>1. t \in 0..n /\ t + 1 \in 1..n /\ (t + 1) - 1 = t /\ s \in Nat BY <1>1
    <3>2. q[t + 1] = q[t] + 1 + TextLength(words[t + 1])
      BY <1>1, <3>1
    <3>3. q[t] \in Nat /\ q[s] \in Nat /\ TextLength(words[t + 1]) \in Nat
      BY <1>1, <3>1
    <3>4. CASE s = t + 1
      <4>1. (t + 1) - s = 0 BY <3>1, <3>4
      <4>2. q[t + 1] = q[s] BY <3>4
      <4> QED BY <3>3, <4>1, <4>2
    <3>5. CASE s <= t
      <4>1. q[t] >= q[s] + (t - s) BY <3>1, <3>5
      <4> DEFINE a == q[t + 1]
                 b == q[t]
                 c == q[s]
                 e == TextLength(words[t + 1])
      <4>2. /\ a = b + 1 + e /\ b >= c + (t - s) /\ b \in Nat /\ c \in Nat /\ e \in Nat
            /\ s \in Nat
        BY <3>1, <3>2, <3>3, <4>1
      <4> HIDE DEF a, b, c, e
      <4>3. a >= c + ((t + 1) - s) BY <4>2
      <4> QED BY <4>3 DEF a, c
    <3> QED BY <3>1, <3>4, <3>5
  <2>3. \A t \in Nat : t \in T
    <3> HIDE DEF T
    <3> QED BY <2>1, <2>2, SetInduction
  <2> QED BY <1>1, <2>3
<1>3. ASSUME NEW t \in 0..n PROVE q[t] \in Nat /\ q[t] >= start
  <2>1. 0 \in 0..n /\ 0 <= t /\ t \in Nat BY <1>1
  <2>2. q[t] >= q[0] + (t - 0) BY <1>2, <2>1
  <2>3. q[t] \in Nat BY <1>1
  <2> QED BY <1>1, <2>1, <2>2, <2>3
<1> QED BY <1>1, <1>2, <1>3 DEF n

\* From where a text starts, the decoder goes to the next.
LEMMA NextText ==
  ASSUME NEW bytes, NEW q, NEW start, NEW words, Texted(bytes, q, start, words),
         NEW t \in 1..Len(words)
  PROVE  readText(bytes, q[t - 1]) = q[t]
<1> DEFINE n == Len(words)
           len == Len(bytes)
           p == q[t - 1]
           size == TextLength(words[t])
           end == q[n]
           next == q[t]
<1>1. n \in Nat /\ t \in 0..n /\ n \in 0..n /\ t <= n
  <2>1. n \in Nat /\ t \in 1..n BY StartsGrow
  <2> HIDE DEF n
  <2> QED BY <2>1
<1>2. end >= next + (n - t) /\ next \in Nat /\ end \in Nat
  BY <1>1, StartsGrow
<1>3. p \in 1..len /\ bytes[p] = size BY DEF Texted, TextsStand
<1>4. next = p + 1 + size BY DEF Texted, Starts
<1>5. len = end - 1 /\ len \in Nat BY LenProperties DEF Texted
<1>6. size \in Nat
  <2>1. words[t] \in Seq(Byte) BY ElementOfSeq DEF Texted
  <2>2. \A c \in 0..255 : c \in Nat OBVIOUS
  <2> QED BY <2>1, <2>2, TextBytes
<1>7. readText(bytes, p) = IF p \in 1..len /\ p + bytes[p] <= len
                           THEN p + 1 + bytes[p] ELSE 0
  BY DEF readText, NoText
<1> HIDE DEF n, len, p, size, end, next
<1>8. p + size <= len BY <1>1, <1>2, <1>3, <1>4, <1>5, <1>6
<1> QED BY <1>3, <1>4, <1>7, <1>8 DEF p, next

\* From anywhere else the decoder does not go on: what it takes for a length is a
\* character, and too long for the payload.
LEMMA NoOtherText ==
  ASSUME NEW bytes, NEW q, NEW start, NEW words, Texted(bytes, q, start, words),
         NEW p \in Nat, p = 0 \/ p >= start, readText(bytes, p) # 0
  PROVE  \E t \in 1..Len(words) : p = q[t - 1]
<1> DEFINE n == Len(words)
           len == Len(bytes)
<1>1. p \in 1..len /\ p + bytes[p] <= len BY DEF readText, NoText
<1>2. n \in Nat /\ start \in Nat /\ start >= 22 /\ p >= start
      /\ \A t \in 0..n : q[t] \in Nat
  <2>1. p # 0 BY <1>1
  <2> QED BY <2>1, StartsGrow DEF Texted
<1>3. len = q[n] - 1 /\ len \in Nat /\ len <= 51
  BY LenProperties DEF Texted
<1>4. q[0] = start /\ \A t \in 1..n : q[t] = q[t - 1] + 1 + TextLength(words[t])
  BY DEF Texted, Starts
<1> HIDE DEF n, len
<1> DEFINE T == {t \in Nat : t <= n /\ p < q[t] =>
                   \E s \in 1..t : q[s - 1] <= p /\ p < q[s]}
<1>5. 0 \in T BY <1>2, <1>4
<1>6. \A t \in Nat : t \in T => t + 1 \in T
  <2> SUFFICES ASSUME NEW t \in Nat, t \in T, t + 1 <= n, p < q[t + 1]
               PROVE  \E s \in 1..t + 1 : q[s - 1] <= p /\ p < q[s]
    OBVIOUS
  <2>1. t + 1 \in 1..t + 1 /\ (t + 1) - 1 = t /\ t \in 0..n /\ t <= n BY <1>2
  <2>2. CASE p < q[t]
    <3>1. PICK s \in 1..t : q[s - 1] <= p /\ p < q[s] BY <2>1, <2>2
    <3>2. s \in 1..t + 1 OBVIOUS
    <3> QED BY <3>1, <3>2
  <2>3. CASE ~(p < q[t])
    <3>1. q[t] <= p
      <4>1. q[t] \in Nat BY <1>2, <2>1
      <4> QED BY <2>3, <4>1
    <3>2. q[(t + 1) - 1] <= p BY <2>1, <3>1
    <3> QED BY <2>1, <3>2
  <2> QED BY <2>2, <2>3
<1>7. n \in T
  <2>1. \A t \in Nat : t \in T
    <3> HIDE DEF T
    <3> QED BY <1>5, <1>6, SetInduction
  <2> QED BY <1>2, <2>1
<1>8. PICK s \in 1..n : q[s - 1] <= p /\ p < q[s]
  <2>1. n <= n /\ p < q[n]
    <3>1. n \in 0..n /\ q[n] \in Nat BY <1>2
    <3> QED BY <1>1, <1>2, <1>3, <3>1
  <2> QED BY <1>7, <2>1
<1>9. ASSUME p # q[s - 1] PROVE FALSE
  <2> DEFINE o == q[s - 1]
             i == p - o
             size == TextLength(words[s])
             char == bytes[p]
  <2>1. o \in Nat /\ o >= start
    <3>1. s - 1 \in 0..n BY <1>2
    <3> QED BY <3>1, StartsGrow DEF n
  <2>2. words[s] \in Seq(Byte) BY ElementOfSeq DEF Texted, n
  <2>3. size \in Nat /\ size <= Len(words[s]) /\ Len(words[s]) \in Nat
    <3>1. \A c \in 0..255 : c \in Nat OBVIOUS
    <3> QED BY <2>2, <3>1, TextBytes, LenProperties
  <2>4. o <= p /\ p < o + 1 + size /\ p # o BY <1>4, <1>8, <1>9
  <2>5. i \in 1..size
    <3> HIDE DEF o, size
    <3> QED BY <2>1, <2>3, <2>4
  <2>6. bytes[o + i] = words[s][i] BY <2>5 DEF Texted, TextsStand, n
  <2>7. i \in 1..Len(words[s])
    <3> HIDE DEF i, size
    <3> QED BY <2>3, <2>5
  <2>8. words[s][i] >= 32 BY <2>7 DEF Texted, n
  <2>9. o + i = p
    <3> HIDE DEF o
    <3> QED BY <2>1
  <2>10. char >= 32
    <3> HIDE DEF i
    <3> QED BY <2>6, <2>8, <2>9
  <2>11. char \in Int
    <3>1. p \in 1..Len(bytes) /\ bytes \in Seq(Byte) BY <1>1 DEF len, Texted
    <3>2. bytes[p] \in Byte BY <3>1, ElementOfSeq
    <3> QED BY <3>2 DEF Byte
  <2>12. p + char <= len BY <1>1
  <2> HIDE DEF char
  <2> QED BY <1>2, <1>3, <2>10, <2>11, <2>12
<1> QED BY <1>9 DEF n

\* The texts of a layout end where the payload ends if, and only if, its first text
\* starts where one of the payload's texts does, with as many behind it.
LEMMA ParsesIff ==
  ASSUME NEW bytes, NEW q, NEW start, NEW words, Texted(bytes, q, start, words),
         NEW l \in 1..5, FixedLengths[l] + 1 >= start
  PROVE  Parses(bytes, LAYOUTS[l])
           <=> /\ TextCounts[l] <= Len(words)
               /\ FixedLengths[l] + 1 = q[Len(words) - TextCounts[l]]
<1> DEFINE n == Len(words)
           m == TextCounts[l]
           len == Len(bytes)
           p0 == FixedLengths[l] + 1
           layout == LAYOUTS[l]
<1>1. /\ n \in Nat /\ m \in Nat /\ m > 0 /\ p0 \in Nat /\ p0 >= start
      /\ start \in Nat /\ start >= 22 /\ len \in Nat /\ len = q[n] - 1
  <2>1. /\ \A c \in 3..5 : c \in Nat /\ c > 0
        /\ \A c \in 21..39 : c \in Nat /\ c + 1 \in Nat
    OBVIOUS
  <2>2. m \in 3..5 /\ FixedLengths[l] \in 21..39 BY LayoutTexts, LayoutLengths
  <2>3. n \in Nat BY StartsGrow
  <2> QED BY <2>1, <2>2, <2>3, LenProperties DEF Texted
<1>2. /\ Len(layout.texts) = m
      /\ FixedLength(layout) = FixedLengths[l] /\ FixedLengths[l] \in Nat
  <2>1. \A c \in 21..39 : c \in Nat OBVIOUS
  <2> QED BY <2>1, LayoutTexts, LayoutLengths
<1>3. PICK f \in [0..m -> Nat] :
        /\ f[0] = FixedLength(layout) + 1
        /\ \A t \in 1..m : f[t] = readText(bytes, f[t - 1])
        /\ \A t \in 0..m : TextStart(bytes, layout, t) = f[t]
  <2>1. bytes \in Seq(Byte) BY DEF Texted
  <2>2. FixedLength(layout) \in Nat /\ m \in Nat BY <1>1, <1>2
  <2> HIDE DEF layout, m
  <2>3. PICK f \in [0..m -> Nat] : TextsStart(f, bytes, layout, m)
    BY <2>1, <2>2, TextStartIs
  <2> QED BY <2>3 DEF TextsStart
<1>4. Parses(bytes, layout) <=> len >= FixedLengths[l] + m /\ f[m] = len + 1
  <2>1. m \in 0..m BY <1>1
  <2> QED BY <1>2, <1>3, <2>1 DEF Parses
<1>5. f[0] = p0 BY <1>2, <1>3
<1>6. /\ \A t \in 0..n : q[t] \in Nat /\ q[t] >= start
      /\ \A s, t \in 0..n : s <= t => q[t] >= q[s] + (t - s)
      /\ \A t \in 1..n : readText(bytes, q[t - 1]) = q[t]
  BY StartsGrow, NextText
<1>7. \A p \in Nat : (p = 0 \/ p >= start) /\ readText(bytes, p) # 0
                       => \E t \in 1..n : p = q[t - 1]
  BY NoOtherText
<1> HIDE DEF n, m, len, p0, layout
\* One of the payload's texts: the decoder goes on to the end.
<1>8. ASSUME m <= n, p0 = q[n - m] PROVE Parses(bytes, layout)
  <2> DEFINE j == n - m
             T == {k \in Nat : k <= m => f[k] = q[j + k]}
  <2>1. j \in Nat /\ j + m = n /\ j <= n /\ j \in 0..n /\ n \in 0..n
        /\ m \in 0..m /\ 0 \in 0..m
    BY <1>1, <1>8
  <2>2. 0 \in T
    <3>1. j + 0 = j BY <2>1
    <3> QED BY <1>5, <1>8, <3>1
  <2> HIDE DEF j
  <2>3. \A k \in Nat : k \in T => k + 1 \in T
    <3> SUFFICES ASSUME NEW k \in Nat, k \in T, k + 1 <= m
                 PROVE  f[k + 1] = q[j + (k + 1)]
      OBVIOUS
    <3>1. /\ k + 1 \in 1..m /\ (k + 1) - 1 = k /\ k <= m
          /\ j + (k + 1) \in 1..n /\ (j + (k + 1)) - 1 = j + k
      BY <1>1, <2>1
    <3>2. f[k] = q[j + k] BY <3>1
    <3>3. f[k + 1] = readText(bytes, f[k]) BY <1>3, <3>1
    <3>4. readText(bytes, q[j + k]) = q[j + (k + 1)] BY <1>6, <3>1
    <3> QED BY <3>2, <3>3, <3>4
  <2>4. f[m] = q[n]
    <3>1. \A k \in Nat : k \in T
      <4> HIDE DEF T
      <4> QED BY <2>2, <2>3, SetInduction
    <3>2. f[m] = q[j + m] BY <1>1, <3>1
    <3> QED BY <2>1, <3>2
  <2>5. q[n] >= q[j] + (n - j) /\ q[n] \in Nat /\ q[j] \in Nat BY <1>6, <2>1
  <2>6. len >= FixedLengths[l] + m /\ f[m] = len + 1
    <3> DEFINE a == q[n]
               b == q[j]
               c == FixedLengths[l]
    <3>1. /\ a >= b + (n - j) /\ a \in Nat /\ b \in Nat /\ c \in Nat
          /\ b = c + 1 /\ len = a - 1 /\ f[m] = a
      BY <1>1, <1>2, <1>8, <2>4, <2>5 DEF p0, j
    <3> HIDE DEF a, b, c
    <3>2. len >= c + m /\ f[m] = len + 1 BY <1>1, <2>1, <3>1
    <3> QED BY <3>2 DEF c
  <2> QED BY <1>4, <2>6
\* The decoder gets to the end: it came from one of the payload's texts.
<1>9. ASSUME Parses(bytes, layout) PROVE m <= n /\ p0 = q[n - m]
  <2>1. f[m] = q[n] /\ n \in 0..n
    <3>1. n \in 0..n /\ q[n] \in Nat BY <1>1, <1>6
    <3> QED BY <1>1, <1>4, <1>9, <3>1
  <2> DEFINE U == {k \in Nat : k <= m => f[k] = 0 \/ f[k] >= start}
  <2>2. \A k \in Nat : k \in U
    <3>1. 0 \in U BY <1>1, <1>5
    <3>2. \A k \in Nat : k \in U => k + 1 \in U
      <4> SUFFICES ASSUME NEW k \in Nat, k \in U, k + 1 <= m, f[k + 1] # 0
                   PROVE  f[k + 1] >= start
        OBVIOUS
      <4>1. k + 1 \in 1..m /\ (k + 1) - 1 = k /\ k <= m /\ k \in 0..m BY <1>1
      <4>2. f[k + 1] = readText(bytes, f[k]) /\ f[k] \in Nat BY <1>3, <4>1
      <4>3. PICK t \in 1..n : f[k] = q[t - 1] BY <1>7, <4>1, <4>2
      <4>4. f[k + 1] = q[t] BY <1>6, <4>2, <4>3
      <4>5. t \in 0..n BY <1>1
      <4> QED BY <1>6, <4>4, <4>5
    <3> HIDE DEF U
    <3> QED BY <3>1, <3>2, SetInduction
  <2> DEFINE T == {k \in Nat : k <= m => k <= n /\ f[m - k] = q[n - k]}
  <2>3. 0 \in T
    <3>1. m - 0 = m /\ n - 0 = n /\ 0 <= n BY <1>1
    <3> QED BY <2>1, <3>1
  <2>4. \A k \in Nat : k \in T => k + 1 \in T
    <3> SUFFICES ASSUME NEW k \in Nat, k \in T, k + 1 <= m
                 PROVE  k + 1 <= n /\ f[m - (k + 1)] = q[n - (k + 1)]
      OBVIOUS
    <3> DEFINE i == m - k
               j == m - (k + 1)
    <3>1. /\ i \in 1..m /\ i - 1 = j /\ j \in Nat /\ j <= m /\ j \in 0..m /\ k <= m
      BY <1>1
    <3>2. k <= n /\ f[i] = q[n - k] BY <3>1
    <3>3. n - k \in 0..n BY <1>1, <3>2
    <3>4. f[i] # 0
      <4>1. q[n - k] \in Nat /\ q[n - k] >= start BY <1>6, <3>3
      <4> QED BY <1>1, <3>2, <4>1
    <3>5. f[i] = readText(bytes, f[j]) /\ f[j] \in Nat BY <1>3, <3>1
    <3>6. f[j] = 0 \/ f[j] >= start BY <2>2, <3>1
    <3>7. PICK t \in 1..n : f[j] = q[t - 1] BY <1>7, <3>4, <3>5, <3>6
    <3>8. q[t] = q[n - k] BY <1>6, <3>2, <3>5, <3>7
    <3>9. t = n - k
      <4> DEFINE r == n - k
                 a == q[t]
                 b == q[r]
      <4>1. t \in 0..n /\ r \in 0..n BY <1>1, <3>3
      <4>2. /\ t <= r => b >= a + (r - t)
            /\ r <= t => a >= b + (t - r)
            /\ a \in Nat /\ b \in Nat
        BY <1>6, <4>1
      <4>3. a = b BY <3>8
      <4>4. t \in Int /\ r \in Int BY <4>1
      <4> HIDE DEF a, b, r
      <4>5. t = r BY <4>2, <4>3, <4>4
      <4> QED BY <4>5 DEF r
    <3>10. t - 1 = n - (k + 1) /\ k + 1 <= n BY <1>1, <3>9
    <3> QED BY <3>7, <3>10
  <2>5. \A k \in Nat : k \in T
    <3> HIDE DEF T
    <3> QED BY <2>3, <2>4, SetInduction
  <2>6. m <= n /\ f[m - m] = q[n - m]
    <3>1. m \in T BY <1>1, <2>5
    <3> QED BY <1>1, <3>1
  <2>7. m - m = 0 BY <1>1
  <2> QED BY <1>5, <2>6, <2>7
<1> QED BY <1>8, <1>9 DEF n, m, p0, layout

\* The layout that the decoder finds for a payload that was written in layout d, and
\* whose texts are printable (decodeUplink, decode.js:305): d, unless it has five
\* texts and the third starts where the texts of a boat-v4 do.
LEMMA DetectedLayout ==
  ASSUME NEW bytes, NEW d \in 1..5, NEW q, NEW words,
         Texted(bytes, q, FixedLengths[d] + 1, words),
         Len(words) = TextCounts[d]
  PROVE  /\ Parses(bytes, LAYOUTS[d])
         /\ Len(bytes) >= 24
         /\ \A l \in 1..5 : l < d /\ Parses(bytes, LAYOUTS[l])
              => l = 1 /\ TextCounts[d] = 5 /\ q[2] = 40
         /\ TextCounts[d] = 5 /\ q[2] = 40 => Parses(bytes, LAYOUTS[1])
<1> DEFINE n == TextCounts[d]
           start == FixedLengths[d] + 1
<1>0. /\ \A l \in 1..5 : TextCounts[l] \in 3..5 /\ FixedLengths[l] \in 21..39
      /\ n \in 3..5
  BY LayoutTexts, LayoutLengths
<1>v. /\ TextCounts[1] = 3 /\ TextCounts[2] = 5 /\ TextCounts[3] = 5
      /\ TextCounts[4] = 5 /\ TextCounts[5] = 3 /\ FixedLengths[1] = 39
  BY DEF TextCounts, FixedLengths
<1>1. /\ \A t \in 0..n : q[t] \in Nat /\ q[t] >= start
      /\ \A s, t \in 0..n : s <= t => q[t] >= q[s] + (t - s)
  BY StartsGrow
<1>2. q[0] = start BY DEF Texted, Starts
<1>3. FixedLengths[d] \in 21..39 BY <1>0
<1>4. Parses(bytes, LAYOUTS[d])
  <2>1. n - n = 0 /\ n <= n BY <1>0
  <2>2. FixedLengths[d] + 1 >= start
    <3> DEFINE b == FixedLengths[d]
    <3>1. b \in 21..39 BY <1>3
    <3> HIDE DEF b
    <3>2. b + 1 >= b + 1 BY <3>1
    <3> QED BY <3>2 DEF b
  <2>3. n = Len(words) OBVIOUS
  <2>4. TextCounts[d] <= Len(words) /\ FixedLengths[d] + 1 = q[Len(words) - TextCounts[d]]
    BY <1>2, <2>1, <2>3
  <2> QED BY <2>2, <2>4, ParsesIff
<1>5. Len(bytes) >= 24
  <2>1. Len(bytes) >= FixedLength(LAYOUTS[d]) + Len(LAYOUTS[d].texts)
    BY <1>4 DEF Parses
  <2>2. FixedLength(LAYOUTS[d]) = FixedLengths[d] /\ Len(LAYOUTS[d].texts) = n
    BY LayoutLengths, LayoutTexts
  <2>3. Len(bytes) \in Nat BY LenProperties DEF Texted
  <2> DEFINE fixed == FixedLengths[d]
             len == Len(bytes)
  <2>4. len >= fixed + n /\ fixed \in 21..39 /\ n \in 3..5 /\ len \in Nat
    BY <1>0, <1>3, <2>1, <2>2, <2>3
  <2> HIDE DEF fixed, len, n
  <2>5. len >= 24 BY <2>4
  <2> QED BY <2>5 DEF len
<1>6. ASSUME NEW l \in 1..5, l < d, Parses(bytes, LAYOUTS[l])
      PROVE  l = 1 /\ n = 5 /\ q[2] = 40
  <2> DEFINE m == TextCounts[l]
             p0 == FixedLengths[l] + 1
  <2>1. FixedLengths[l] > FixedLengths[d] BY <1>6, LayoutLengths
  <2>2. p0 > start /\ FixedLengths[l] + 1 >= start
    <3> DEFINE a == FixedLengths[l]
               b == FixedLengths[d]
    <3>1. a > b /\ a \in 21..39 /\ b \in 21..39 BY <1>0, <1>3, <2>1
    <3> HIDE DEF a, b
    <3>2. a + 1 > b + 1 /\ a + 1 >= b + 1 BY <3>1
    <3> QED BY <3>2 DEF a, b
  <2>3. m <= Len(words) /\ p0 = q[Len(words) - m]
    BY <1>6, <2>2, ParsesIff
  <2>4. m <= n /\ p0 = q[n - m] BY <2>3
  <2>5. m # n
    <3> SUFFICES ASSUME m = n PROVE FALSE
      OBVIOUS
    <3>1. n - m = 0 BY <1>0
    <3>2. p0 = start BY <1>2, <2>4, <3>1
    <3>3. start \in Int
      <4> DEFINE b == FixedLengths[d]
      <4>1. b \in 21..39 BY <1>3
      <4> HIDE DEF b
      <4>2. b + 1 \in Int BY <4>1
      <4> QED BY <4>2 DEF b
    <3> HIDE DEF p0, start
    <3> QED BY <2>2, <3>2, <3>3
  <2>6. /\ m = 3 \/ m = 5
        /\ n = 3 \/ n = 5
        /\ m = 3 => l = 1 \/ l = 5
    <3>1. l \in {1, 2, 3, 4, 5} /\ d \in {1, 2, 3, 4, 5} OBVIOUS
    <3> QED BY <1>v, <3>1
  <2>7. m = 3 /\ n = 5
    <3> HIDE DEF m, n
    <3> QED BY <2>4, <2>5, <2>6
  <2>8. l = 1
    <3>1. l # 5 BY <1>6
    <3> QED BY <2>6, <2>7, <3>1
  <2>9. n - m = 2 BY <2>7
  <2>10. p0 = 40 BY <1>v, <2>8
  <2> QED BY <2>4, <2>7, <2>8, <2>9, <2>10
<1>7. ASSUME n = 5, q[2] = 40 PROVE Parses(bytes, LAYOUTS[1])
  <2>1. TextCounts[1] <= Len(words) /\ Len(words) - TextCounts[1] = 2
    BY <1>7, <1>v
  <2>2. FixedLengths[1] + 1 = q[Len(words) - TextCounts[1]] BY <1>7, <1>v, <2>1
  <2>3. FixedLengths[1] + 1 >= FixedLengths[d] + 1
    <3> DEFINE b == FixedLengths[d]
    <3>1. b \in 21..39 /\ FixedLengths[1] = 39 BY <1>3, <1>v
    <3> HIDE DEF b
    <3>2. 39 + 1 >= b + 1 BY <3>1
    <3> QED BY <3>1, <3>2 DEF b
  <2>4. 1 \in 1..5 OBVIOUS
  <2> QED BY <2>1, <2>2, <2>3, <2>4, ParsesIff
<1> QED BY <1>4, <1>5, <1>6, <1>7

\* A text that fits into an uplink is whole.
LEMMA WholeTexts ==
  ASSUME NEW bytes, NEW q, NEW start, NEW words, Texted(bytes, q, start, words),
         NEW t \in 1..Len(words)
  PROVE  TextLength(words[t]) = Len(words[t]) /\ words[t] \in Seq(Byte)
<1> DEFINE n == Len(words)
           p == q[t - 1]
           next == q[t]
           end == q[n]
           size == TextLength(words[t])
           whole == Len(words[t])
<1>1. words[t] \in Seq(Byte) BY ElementOfSeq DEF Texted
<1>2. size = (IF whole > 255 THEN 255 ELSE whole) /\ whole \in Nat
  BY <1>1, LenProperties DEF TextLength
<1>3. n \in Nat /\ t - 1 \in 0..n /\ t \in 0..n /\ n \in 0..n /\ t <= n
  <2>1. n \in Nat /\ t \in 1..n BY StartsGrow
  <2> HIDE DEF n
  <2> QED BY <2>1
<1>4. /\ p \in Nat /\ next \in Nat /\ end \in Nat /\ end >= next + (n - t)
  BY <1>3, StartsGrow
<1>5. next = p + 1 + size BY DEF Texted, Starts
<1>6. end - 1 <= 51
  <2>1. Len(bytes) = end - 1 /\ Len(bytes) <= 51 BY DEF Texted
  <2> QED BY <2>1
<1> HIDE DEF n, p, next, end, size, whole
<1>7. size = whole BY <1>2, <1>3, <1>4, <1>5, <1>6
<1> QED BY <1>1, <1>7 DEF size, whole

\* The decoder shows word t of words under the name that the layout gives it.
WordShown(bytes, d, words, t) ==
  LET name == LAYOUTS[d].texts[t]
      data == TextData(bytes, LAYOUTS[d])
  IN  /\ name \in DOMAIN data
      /\ data[name] = IF words[t] = OffText THEN Off ELSE words[t]

\* The decoder finds each text where the firmware put it (pack_text_sensors,
\* lorabridge.cpp:69, readText, decode.js:225).
LEMMA TextFields ==
  ASSUME NEW bytes, NEW d \in 1..5, NEW q, NEW words,
         Texted(bytes, q, FixedLengths[d] + 1, words),
         Len(words) = TextCounts[d], NEW t \in 1..TextCounts[d]
  PROVE  WordShown(bytes, d, words, t)
<1> DEFINE n == TextCounts[d]
           layout == LAYOUTS[d]
           name == layout.texts[t]
           p == q[t - 1]
           word == words[t]
           size == Len(word)
           read == SubSeq(bytes, p + 1, p + bytes[p])
<1>1. /\ DOMAIN layout.texts = 1..n /\ n \in 3..5
      /\ \A s \in 1..n : layout.texts[s] = name => s = t
  BY LayoutTexts
<1>n. n \in Nat /\ t \in 1..n /\ t - 1 \in 0..n
  <2>1. n \in 3..5 /\ t \in 1..n BY <1>1
  <2> HIDE DEF n
  <2> QED BY <2>1
<1>2. TextStart(bytes, layout, t - 1) = p
  <2>1. FixedLength(layout) = FixedLengths[d] /\ FixedLength(layout) \in Nat
    <3>1. \A c \in 21..39 : c \in Nat OBVIOUS
    <3> QED BY <3>1, LayoutLengths
  <2>2. bytes \in Seq(Byte) BY DEF Texted
  <2>3. PICK f \in [0..n -> Nat] : TextsStart(f, bytes, layout, n)
    <3> HIDE DEF n, layout
    <3> QED BY <1>n, <2>1, <2>2, TextStartIs
  <2>4. /\ f[0] = q[0] /\ \A k \in 1..n : f[k] = readText(bytes, f[k - 1])
        /\ \A k \in 0..n : TextStart(bytes, layout, k) = f[k]
    BY <2>1, <2>3 DEF TextsStart, Texted, Starts
  <2>5. \A k \in 1..n : readText(bytes, q[k - 1]) = q[k] BY NextText
  <2> DEFINE T == {k \in Nat : k <= n => f[k] = q[k]}
  <2> HIDE DEF n
  <2>6. 0 \in T BY <2>4
  <2>7. \A k \in Nat : k \in T => k + 1 \in T
    <3> SUFFICES ASSUME NEW k \in Nat, k \in T, k + 1 <= n
                 PROVE  f[k + 1] = q[k + 1]
      OBVIOUS
    <3>1. k + 1 \in 1..n /\ (k + 1) - 1 = k /\ k <= n BY <1>n
    <3> QED BY <2>4, <2>5, <3>1
  <2>8. f[t - 1] = q[t - 1]
    <3>1. \A k \in Nat : k \in T
      <4> HIDE DEF T
      <4> QED BY <2>6, <2>7, SetInduction
    <3>2. t - 1 \in Nat /\ t - 1 <= n BY <1>n
    <3> QED BY <3>1, <3>2
  <2> QED BY <1>n, <2>4, <2>8
<1>3. /\ TextLength(word) = size /\ word \in Seq(Byte)
      /\ p \in 1..Len(bytes) /\ bytes[p] = size
      /\ \A i \in 1..size : p + i \in 1..Len(bytes) /\ bytes[p + i] = word[i]
  <2>1. TextLength(word) = size /\ word \in Seq(Byte) BY WholeTexts
  <2>2. /\ p \in 1..Len(bytes) /\ bytes[p] = TextLength(word)
        /\ \A i \in 1..TextLength(word) :
             p + i \in 1..Len(bytes) /\ bytes[p + i] = word[i]
    BY DEF Texted, TextsStand
  <2> HIDE DEF p, word
  <2> QED BY <2>1, <2>2
<1>4. bytes \in Seq(Byte) /\ size \in Nat /\ p \in Nat
  <2>1. p \in 1..Len(bytes) BY <1>3
  <2> HIDE DEF p, word
  <2> QED BY <1>3, <2>1, LenProperties DEF Texted
<1>5. read = word
  <2> DEFINE cut == SubSeq(bytes, p + 1, p + size)
  <2>0. read = cut BY <1>3
  <2>1. \A i \in p + 1..p + size : bytes[i] \in Byte
    <3> SUFFICES ASSUME NEW i \in p + 1..p + size PROVE bytes[i] \in Byte
      OBVIOUS
    <3> HIDE DEF p, size, word
    <3>1. i - p \in 1..size /\ p + (i - p) = i BY <1>4
    <3>2. i \in 1..Len(bytes) BY <1>3, <3>1
    <3> QED BY <1>4, <3>2, ElementOfSeq
  <2>2. p + 1 \in Int /\ p + size \in Int
    <3> HIDE DEF p, size
    <3> QED BY <1>4
  <2>3. /\ cut \in Seq(Byte)
        /\ Len(cut) = IF p + 1 <= p + size THEN (p + size) - (p + 1) + 1 ELSE 0
        /\ \A i \in 1..(p + size) - (p + 1) + 1 : cut[i] = bytes[(p + 1) + i - 1]
    <3> HIDE DEF p, size
    <3> QED BY <2>1, <2>2, SubSeqProperties
  <2>4. Len(cut) = size /\ \A i \in 1..size : cut[i] = word[i]
    <3> HIDE DEF p, size, word, cut
    <3>1. /\ (p + size) - (p + 1) + 1 = size
          /\ (IF p + 1 <= p + size THEN (p + size) - (p + 1) + 1 ELSE 0) = size
          /\ \A i \in 1..size : (p + 1) + i - 1 = p + i
      BY <1>4
    <3> QED BY <1>3, <2>3, <3>1
  <2>5. cut = word
    <3>1. Len(cut) = Len(word) /\ \A i \in 1..Len(cut) : cut[i] = word[i] BY <2>4
    <3> HIDE DEF cut, word
    <3> QED BY <1>3, <2>3, <3>1, SeqEqual
  <2> QED BY <2>0, <2>5
<1>6. TextAt(bytes, p) = IF word = OffText THEN Off ELSE word
  <2> HIDE DEF p, word
  <2> QED BY <1>5 DEF TextAt
<1>7. (CHOOSE k \in DOMAIN layout.texts : layout.texts[k] = name) = t
  <2>1. t \in DOMAIN layout.texts /\ layout.texts[t] = name BY <1>1
  <2>2. \A k \in DOMAIN layout.texts : layout.texts[k] = name => k = t BY <1>1
  <2> HIDE DEF layout, name
  <2> QED BY <2>1, <2>2
<1>8. name \in Range(layout.texts) BY <1>1 DEF Range
<1> HIDE DEF layout, name, word
<1>9. /\ name \in DOMAIN TextData(bytes, layout)
      /\ TextData(bytes, layout)[name] = TextAt(bytes, TextStart(bytes, layout, t - 1))
  BY <1>7, <1>8 DEF TextData
<1> QED BY <1>2, <1>6, <1>9 DEF layout, name, word, WordShown
=============================================================================
