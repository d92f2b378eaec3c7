-------------------------- MODULE ReportCodecProofs --------------------------
(***************************************************************************)
(* What the encoder and the decoder of ReportCodec compute, for reports    *)
(* and fields of any size.                                                 *)
(***************************************************************************)
EXTENDS ReportCodec, FiniteSetTheorems, FlatteningProofs

-----------------------------------------------------------------------------
(* Numbers.                                                                 *)

(* The powers of two up to that of n.                                       *)
ArePowers(f, n) ==
    f \in [0 .. n -> Nat] /\ f[0] = 1 /\ \A k \in 1 .. n : f[k] = 2 * f[k - 1]

LEMMA PowersExist ==
    ASSUME NEW n \in Nat
    PROVE  \E f : ArePowers(f, n)
<1> DEFINE step == [k \in 1 .. n |-> [v \in Nat |-> 2 * v]]
<1>1. step \in [1 .. n -> [Nat -> Nat]]
    OBVIOUS
<1>2. \A k \in 1 .. n, v \in Nat : step[k][v] = 2 * v
    OBVIOUS
<1> HIDE DEF step
<1>3. 1 \in Nat
    OBVIOUS
<1>4. PICK f : Solves(f, n, 1, step, Nat)
    BY <1>1, <1>3, Recursion
<1>5. \A k \in 1 .. n : k - 1 \in 0 .. n /\ f[k - 1] \in Nat
    BY <1>4 DEF Solves
<1>6. \A k \in 1 .. n : f[k] = 2 * f[k - 1]
    BY <1>2, <1>4, <1>5 DEF Solves
<1> QED
    BY <1>4, <1>6 DEF ArePowers, Solves

LEMMA PowersAgree ==
    ASSUME NEW m \in Nat, NEW n \in m .. m + 1,
           NEW f, ArePowers(f, m), NEW g, ArePowers(g, n)
    PROVE  f[m] = g[m]
<1> DEFINE T == {k \in 0 .. m : f[k] = g[k]}
<1>1. 0 \in T
    BY DEF ArePowers
<1>2. ASSUME NEW k \in 1 .. m, k - 1 \in T
      PROVE  k \in T
    BY <1>2 DEF ArePowers
<1> HIDE DEF T
<1>3. 0 .. m \subseteq T
    BY <1>1, <1>2, Induction
<1> QED
    BY <1>3 DEF T

LEMMA PowerRecursion ==
    /\ PowerOf2[0] = 1
    /\ \A k \in Nat \ {0} : PowerOf2[k] = 2 * PowerOf2[k - 1]
<1> DEFINE upTo  == [n \in Nat |-> CHOOSE f : ArePowers(f, n)]
           power == [n \in Nat |-> upTo[n][n]]
<1>1. \A n \in Nat : ArePowers(upTo[n], n)
    BY PowersExist
<1> HIDE DEF upTo
<1>2. power[0] = 1
    BY <1>1 DEF ArePowers
<1>3. ASSUME NEW n \in Nat \ {0}
      PROVE  power[n] = 2 * power[n - 1]
  <2>1. n - 1 \in Nat /\ n \in n - 1 .. n - 1 + 1
      OBVIOUS
  <2>2. upTo[n - 1][n - 1] = upTo[n][n - 1]
      BY <2>1, <1>1, PowersAgree
  <2>3. upTo[n][n] = 2 * upTo[n][n - 1]
      BY <1>1 DEF ArePowers
  <2> QED
      BY <2>1, <2>2, <2>3
<1>4. power = [k \in Nat |-> IF k = 0 THEN 1 ELSE 2 * power[k - 1]]
    BY <1>2, <1>3
<1> HIDE DEF power
<1>5. PowerOf2 = [k \in Nat |-> IF k = 0 THEN 1 ELSE 2 * PowerOf2[k - 1]]
    BY <1>4 DEF PowerOf2
<1> QED
    BY <1>5

LEMMA PowerPositive ==
    \A k \in Nat : PowerOf2[k] \in Nat \ {0}
<1> SUFFICES ASSUME NEW N \in Nat
             PROVE  PowerOf2[N] \in Nat \ {0}
    OBVIOUS
<1> DEFINE T == {k \in Nat : PowerOf2[k] \in Nat \ {0}}
<1>1. 0 \in T
    BY PowerRecursion
<1>2. ASSUME NEW k \in 1 .. N, k - 1 \in T
      PROVE  k \in T
    BY <1>2, PowerRecursion
<1> HIDE DEF T
<1>3. 0 .. N \subseteq T
    BY <1>1, <1>2, Induction
<1> QED
    BY <1>3 DEF T

(* The equations that the recursion of FromBits stands for.                 *)
LEMMA FromBitsRecursion ==
    ASSUME NEW bits \in Seq(Nat)
    PROVE  \E number \in [0 .. Len(bits) -> Nat] :
               /\ number[0] = 0
               /\ \A k \in 1 .. Len(bits) : number[k] = 2 * number[k - 1] + bits[k]
               /\ FromBits(bits) = number[Len(bits)]
<1> DEFINE N == Len(bits)
           step == [k \in 1 .. N |-> [v \in Nat |-> 2 * v + bits[k]]]
           Equation(f) == f = [k \in 0 .. N |-> IF k = 0 THEN 0 ELSE 2 * f[k - 1] + bits[k]]
           number == CHOOSE f : Equation(f)
<1>1. N \in Nat /\ \A k \in 1 .. N : bits[k] \in Nat
    OBVIOUS
<1>2. step \in [1 .. N -> [Nat -> Nat]] /\ \A k \in 1 .. N, v \in Nat : step[k][v] = 2 * v + bits[k]
    BY <1>1
<1>3. 0 \in Nat
    OBVIOUS
<1>4. FromBits(bits) = number[N]
    BY DEF FromBits
<1> HIDE DEF N, step
<1>5. PICK f : Solves(f, N, 0, step, Nat)
    BY <1>1, <1>2, <1>3, Recursion
<1>6. \A k \in 1 .. N : f[k - 1] \in Nat
    BY <1>1, <1>5, SolvesFacts
<1>7. \A k \in 0 .. N : f[k] = IF k = 0 THEN 0 ELSE step[k][f[k - 1]]
    BY <1>1, <1>5, SolvesFacts
<1>8. Equation(f)
  <2>1. f \in [0 .. N -> Nat]
      BY <1>5 DEF Solves
  <2>2. ASSUME NEW k \in 0 .. N
        PROVE  f[k] = IF k = 0 THEN 0 ELSE 2 * f[k - 1] + bits[k]
    <3>1. CASE k = 0
        BY <3>1, <1>7
    <3>2. CASE k # 0
      <4>1. k \in 1 .. N
          BY <3>2, <1>1
      <4>2. f[k - 1] \in Nat /\ f[k] = step[k][f[k - 1]]
          BY <4>1, <1>6, <1>7, <3>2
      <4> QED
          BY <4>1, <4>2, <1>2, <3>2
    <3> QED
        BY <3>1, <3>2
  <2> QED
      BY <2>1, <2>2
<1>9. Equation(number)
    BY <1>8
<1> HIDE DEF number
<1>10. number[0] = 0 /\ \A k \in 1 .. N : number[k] = 2 * number[k - 1] + bits[k]
    BY <1>1, <1>9
<1> DEFINE T == {k \in 0 .. N : number[k] \in Nat}
<1>11. 0 \in T
    BY <1>1, <1>10
<1>12. ASSUME NEW k \in 1 .. N, k - 1 \in T
       PROVE  k \in T
  <2>1. number[k] = 2 * number[k - 1] + bits[k] /\ number[k - 1] \in Nat /\ bits[k] \in Nat
      BY <1>1, <1>10, <1>12
  <2> QED
      BY <2>1
<1> HIDE DEF T
<1>13. 0 .. N \subseteq T
    BY <1>1, <1>11, <1>12, Induction
<1>14. number \in [0 .. N -> Nat]
    BY <1>9, <1>13 DEF T
<1> QED
    BY <1>4, <1>10, <1>14 DEF N

LEMMA FromBitsType ==
    ASSUME NEW bits \in Seq(Nat)
    PROVE  FromBits(bits) \in Nat
<1>1. Len(bits) \in 0 .. Len(bits)
    OBVIOUS
<1> QED
    BY <1>1, FromBitsRecursion

LEMMA DivisionUnique ==
    ASSUME NEW n \in Nat, NEW p \in Nat, NEW q \in Nat, NEW r \in Nat, n = p * q + r, r < p
    PROVE  n \div p = q
    OBVIOUS

LEMMA Division ==
    ASSUME NEW n \in Nat, NEW p \in Nat \ {0}
    PROVE  n \div p \in Nat /\ n % p \in 0 .. p - 1 /\ n = p * (n \div p) + (n % p)
    OBVIOUS

(* The last bit of a quotient.                                              *)
LEMMA Halving ==
    ASSUME NEW n \in Nat, NEW p \in Nat \ {0}
    PROVE  n \div p = 2 * (n \div (2 * p)) + ((n \div p) % 2)
<1> DEFINE q == n \div p
           r == n % p
           half == q \div 2
           bit == q % 2
<1>1. n = p * q + r /\ q \in Nat /\ r \in 0 .. p - 1
    BY Division
<1>2. q = 2 * half + bit /\ half \in Nat /\ bit \in 0 .. 1
    BY <1>1
<1> HIDE DEF q, r, half, bit
<1>3. p * q = (2 * p) * half + p * bit
    BY <1>1, <1>2
<1>4. p * bit \in Nat /\ p * bit <= p
    BY <1>2
<1>5. n = (2 * p) * half + (p * bit + r) /\ p * bit + r < 2 * p /\ p * bit + r \in Nat
    BY <1>1, <1>2, <1>3, <1>4
<1>6. n \div (2 * p) = half
    BY <1>2, <1>5, DivisionUnique
<1> QED
    BY <1>2, <1>6 DEF q, bit

(* A number that fits is written with all bits of its field.                *)
LEMMA ToBitsOfFitting ==
    ASSUME NEW n \in Nat, NEW size \in Nat, Fits(n, size)
    PROVE  /\ ToBits(n, size) = [k \in 1 .. size |-> (n \div PowerOf2[size - k]) % 2]
           /\ ToBits(n, size) \in Seq({0, 1})
           /\ Len(ToBits(n, size)) = size
<1> DEFINE Wide(w) == n < PowerOf2[w] /\ \A shorter \in size .. w - 1 : n >= PowerOf2[shorter]
<1>1. size \in size .. size + n /\ Wide(size)
    BY DEF Fits
<1>2. ASSUME NEW w \in size .. size + n, Wide(w)
      PROVE  w = size
  <2> SUFFICES ASSUME w # size PROVE FALSE
      OBVIOUS
  <2>1. size \in size .. w - 1
      OBVIOUS
  <2>2. PowerOf2[size] \in Nat
      BY PowerPositive
  <2> QED
      BY <1>2, <2>1, <2>2 DEF Fits
<1>3. Width(n, size) = size
  <2>1. Width(n, size) = CHOOSE w \in size .. size + n : Wide(w)
      BY DEF Width
  <2> HIDE DEF Wide
  <2> QED
      BY <1>1, <1>2, <2>1
<1>4. ToBits(n, size) = [k \in 1 .. size |-> (n \div PowerOf2[size - k]) % 2]
    BY <1>3 DEF ToBits
<1>5. ASSUME NEW k \in 1 .. size
      PROVE  (n \div PowerOf2[size - k]) % 2 \in {0, 1}
  <2>1. PowerOf2[size - k] \in Nat \ {0}
      BY PowerPositive
  <2>2. n \div PowerOf2[size - k] \in Nat
      BY <2>1
  <2> QED
      BY <2>2
<1> DEFINE bit(k) == (n \div PowerOf2[size - k]) % 2
<1>6. [k \in 1 .. size |-> bit(k)] \in Seq({0, 1}) /\ Len([k \in 1 .. size |-> bit(k)]) = size
  <2>1. \A k \in 1 .. size : bit(k) \in {0, 1}
      BY <1>5
  <2> HIDE DEF bit
  <2> QED
      BY <2>1
<1> QED
    BY <1>4, <1>6

(* Reading a number back from its bits.                                     *)
LEMMA NumberComesBack ==
    ASSUME NEW n \in Nat, NEW size \in Nat, Fits(n, size)
    PROVE  FromBits(ToBits(n, size)) = n
<1> DEFINE bits == ToBits(n, size)
<1>1. bits \in Seq(Nat) /\ Len(bits) = size
  <2>1. {0, 1} \subseteq Nat
      OBVIOUS
  <2> QED
      BY <2>1, ToBitsOfFitting, SeqMonotonic
<1>2. \A k \in 1 .. size : bits[k] = (n \div PowerOf2[size - k]) % 2
    BY ToBitsOfFitting
<1> HIDE DEF bits
<1>3. PICK number \in [0 .. size -> Nat] :
          /\ number[0] = 0
          /\ \A k \in 1 .. size : number[k] = 2 * number[k - 1] + bits[k]
          /\ FromBits(bits) = number[size]
    BY <1>1, FromBitsRecursion
<1> DEFINE T == {k \in 0 .. size : number[k] = n \div PowerOf2[size - k]}
<1>4. 0 \in T
  <2>1. n \div PowerOf2[size] = 0
    <3>1. PowerOf2[size] \in Nat \ {0} /\ n < PowerOf2[size] /\ n = PowerOf2[size] * 0 + n
        BY PowerPositive DEF Fits
    <3> QED
        BY <3>1, DivisionUnique
  <2> QED
      BY <1>3, <2>1
<1>5. ASSUME NEW k \in 1 .. size, k - 1 \in T
      PROVE  k \in T
  <2> DEFINE p == PowerOf2[size - k]
  <2>1. p \in Nat \ {0}
      BY PowerPositive
  <2>2. PowerOf2[size - (k - 1)] = 2 * p
    <3>1. size - (k - 1) \in Nat \ {0} /\ size - (k - 1) - 1 = size - k
        OBVIOUS
    <3> QED
        BY <3>1, PowerRecursion
  <2>3. number[k - 1] = n \div (2 * p)
      BY <1>5, <2>2
  <2>4. number[k] = 2 * number[k - 1] + ((n \div p) % 2)
      BY <1>2, <1>3
  <2> HIDE DEF p
  <2>5. number[k] = n \div p
      BY <2>1, <2>3, <2>4, Halving
  <2> QED
      BY <2>5 DEF p
<1> HIDE DEF T
<1>6. 0 .. size \subseteq T
    BY <1>4, <1>5, Induction
<1>7. number[size] = n \div PowerOf2[0]
    BY <1>6 DEF T
<1>8. n \div PowerOf2[0] = n
    BY PowerRecursion
<1> QED
    BY <1>3, <1>7, <1>8 DEF bits

-----------------------------------------------------------------------------
(* Fields within bits.                                                      *)

Bits == Seq({0, 1})

(* The bits of a field, from place p on.                                    *)
Occurs(field, bits, p) ==
    /\ p + Len(field) - 1 <= Len(bits)
    /\ \A i \in 1 .. Len(field) : bits[p + i - 1] = field[i]

LEMMA OccursItself ==
    ASSUME NEW bits \in Bits
    PROVE  Occurs(bits, bits, 1)
<1>1. Len(bits) \in Nat
    BY DEF Bits
<1> QED
    BY <1>1 DEF Occurs

LEMMA OccursParts ==
    ASSUME NEW s \in Bits, NEW t \in Bits, NEW whole, whole = s \o t,
           NEW bits \in Bits, NEW p \in Nat, Occurs(whole, bits, p)
    PROVE  Occurs(s, bits, p) /\ Occurs(t, bits, p + Len(s)) /\ p + Len(s) \in Nat
<1>1. /\ Len(s) \in Nat /\ Len(t) \in Nat
      /\ Len(whole) = Len(s) + Len(t)
      /\ \A i \in 1 .. Len(s) : whole[i] = s[i]
      /\ \A i \in 1 .. Len(t) : whole[Len(s) + i] = t[i]
    BY ConcatParts DEF Bits
<1>2. Len(bits) \in Nat
    BY DEF Bits
<1>3. /\ p + Len(whole) - 1 <= Len(bits)
      /\ \A i \in 1 .. Len(whole) : bits[p + i - 1] = whole[i]
    BY DEF Occurs
<1>4. Occurs(s, bits, p)
    BY <1>1, <1>2, <1>3 DEF Occurs
<1>5. ASSUME NEW i \in 1 .. Len(t)
      PROVE  bits[p + Len(s) + i - 1] = t[i]
  <2>1. Len(s) + i \in 1 .. Len(whole) /\ p + (Len(s) + i) - 1 = p + Len(s) + i - 1
      BY <1>1
  <2>2. bits[p + (Len(s) + i) - 1] = whole[Len(s) + i]
      BY <2>1, <1>3
  <2> QED
      BY <2>1, <2>2, <1>1
<1>6. p + Len(s) + Len(t) - 1 <= Len(bits)
    BY <1>1, <1>2, <1>3
<1> QED
    BY <1>1, <1>4, <1>5, <1>6 DEF Occurs

LEMMA OccursWithin ==
    ASSUME NEW a \in Bits, NEW b \in Bits, NEW c \in Bits, NEW p \in Nat \ {0}, NEW q \in Nat,
           Occurs(a, b, p), Occurs(b, c, q)
    PROVE  Occurs(a, c, q + p - 1)
<1>1. Len(a) \in Nat /\ Len(b) \in Nat /\ Len(c) \in Nat
    BY DEF Bits
<1>2. q + p - 1 + Len(a) - 1 <= Len(c)
    BY <1>1 DEF Occurs
<1>3. ASSUME NEW i \in 1 .. Len(a)
      PROVE  c[q + p - 1 + i - 1] = a[i]
  <2>1. p + i - 1 \in 1 .. Len(b) /\ q + (p + i - 1) - 1 = q + p - 1 + i - 1
      BY <1>1 DEF Occurs
  <2>2. c[q + (p + i - 1) - 1] = b[p + i - 1] /\ b[p + i - 1] = a[i]
      BY <2>1 DEF Occurs
  <2> QED
      BY <2>1, <2>2
<1> QED
    BY <1>2, <1>3 DEF Occurs

LEMMA SliceOfField ==
    ASSUME NEW field \in Bits, NEW bits \in Bits, NEW p \in Nat \ {0}, Occurs(field, bits, p),
           NEW size, size = Len(field)
    PROVE  Slice(bits, p, size) = field
<1> DEFINE last == p + size - 1
<1>1. size \in Nat /\ Len(bits) \in Nat /\ last \in Nat /\ last <= Len(bits)
    BY DEF Bits, Occurs
<1>2. Slice(bits, p, size) = SubSeq(bits, p, last)
    BY <1>1 DEF Slice
<1>3. \A i \in p .. last : bits[i] \in {0, 1}
    BY <1>1 DEF Bits
<1> HIDE DEF last
<1>4. /\ SubSeq(bits, p, last) \in Seq({0, 1})
      /\ Len(SubSeq(bits, p, last)) = IF p <= last THEN last - p + 1 ELSE 0
      /\ \A i \in 1 .. last - p + 1 : SubSeq(bits, p, last)[i] = bits[p + i - 1]
    BY <1>1, <1>3, SubSeqProperties
<1>5. Len(SubSeq(bits, p, last)) = size /\ last - p + 1 = size
    BY <1>1, <1>4 DEF last
<1>6. \A i \in 1 .. size : SubSeq(bits, p, last)[i] = field[i]
    BY <1>4, <1>5 DEF Occurs
<1>7. SubSeq(bits, p, last) = field
    BY <1>4, <1>5, <1>6, SeqEqual DEF Bits
<1> QED
    BY <1>2, <1>7

LEMMA ReadsNumber ==
    ASSUME NEW n \in Nat, NEW size \in Nat, Fits(n, size),
           NEW bits \in Bits, NEW p \in Nat \ {0}, Occurs(ToBits(n, size), bits, p)
    PROVE  /\ Slice(bits, p, size) = ToBits(n, size)
           /\ FromBits(Slice(bits, p, size)) = n
<1>1. ToBits(n, size) \in Bits /\ size = Len(ToBits(n, size))
    BY ToBitsOfFitting DEF Bits
<1> QED
    BY <1>1, SliceOfField, NumberComesBack

-----------------------------------------------------------------------------
(* Instances.                                                               *)

(* The numbers of the types fit their field.                                *)
TypesFit(types) == types \subseteq 0 .. PowerOf2[TypeSize] - 1

(* What is read of an instance: one without an end line ends where it       *)
(* starts.                                                                  *)
Read(v) ==
    [type |-> v.type, start |-> v.start, end |-> IF HasEnd(v) THEN v.end ELSE v.start]

LEMMA Sizes ==
    /\ TypeSize \in Nat \ {0} /\ LineSize \in Nat \ {0} /\ EndSize \in Nat \ {0}
    /\ HashSize \in Nat \ {0} /\ HexBits \in Nat \ {0}
    /\ VersionSizes[1] \in Nat \ {0} /\ VersionSizes[2] \in Nat \ {0} /\ VersionSizes[3] \in Nat \ {0}
    BY CodecAssumption

LEMMA FieldsFit ==
    ASSUME NEW types, TypesFit(types), NEW v \in Instances, InstanceFits(v, types)
    PROVE  /\ v.type \in Nat /\ Fits(v.type, TypeSize)
           /\ v.start \in Nat /\ Fits(v.start, LineSize)
           /\ HasEnd(v) => v.end - v.start \in Nat /\ Fits(v.end - v.start, EndSize)
<1>1. v.type \in Nat /\ v.start \in Int /\ v.end \in Int
    BY DEF Instances
<1>2. PowerOf2[TypeSize] \in Nat
    BY PowerPositive, Sizes
<1>3. v.type \in 0 .. PowerOf2[TypeSize] - 1
    BY DEF TypesFit, InstanceFits
<1> QED
    BY <1>1, <1>2, <1>3 DEF InstanceFits, Fits

(* The fields of an instance.                                               *)
Flag(v)      == <<IF HasEnd(v) THEN 1 ELSE 0>>
Extent(v)    == IF HasEnd(v) THEN ToBits(v.end - v.start, EndSize) ELSE <<>>

LEMMA CodeIsBits ==
    ASSUME NEW types, TypesFit(types), NEW v \in Instances, InstanceFits(v, types)
    PROVE  /\ ToBits(v.type, TypeSize) \in Bits /\ Len(ToBits(v.type, TypeSize)) = TypeSize
           /\ Flag(v) \in Bits /\ Len(Flag(v)) = 1
           /\ ToBits(v.start, LineSize) \in Bits /\ Len(ToBits(v.start, LineSize)) = LineSize
           /\ Extent(v) \in Bits /\ Len(Extent(v)) = IF HasEnd(v) THEN EndSize ELSE 0
           /\ EncodeInstance(v) \in Bits
           /\ Len(EncodeInstance(v)) = TypeSize + 1 + LineSize + (IF HasEnd(v) THEN EndSize ELSE 0)
<1>1. ToBits(v.type, TypeSize) \in Bits /\ Len(ToBits(v.type, TypeSize)) = TypeSize
    BY FieldsFit, ToBitsOfFitting, Sizes DEF Bits
<1>2. Flag(v) \in Bits /\ Len(Flag(v)) = 1
    BY DEF Flag, Bits
<1>3. ToBits(v.start, LineSize) \in Bits /\ Len(ToBits(v.start, LineSize)) = LineSize
    BY FieldsFit, ToBitsOfFitting, Sizes DEF Bits
<1>4. Extent(v) \in Bits /\ Len(Extent(v)) = IF HasEnd(v) THEN EndSize ELSE 0
  <2>1. CASE HasEnd(v)
      BY <2>1, FieldsFit, ToBitsOfFitting, Sizes DEF Bits, Extent
  <2>2. CASE ~HasEnd(v)
      BY <2>2 DEF Bits, Extent
  <2> QED
      BY <2>1, <2>2
<1> DEFINE a == ToBits(v.type, TypeSize)
           b == Flag(v)
           c == ToBits(v.start, LineSize)
           d == Extent(v)
<1>5. EncodeInstance(v) = ((a \o b) \o c) \o d
    BY DEF EncodeInstance, Flag, Extent
<1>6. a \in Bits /\ b \in Bits /\ c \in Bits /\ d \in Bits
    BY <1>1, <1>2, <1>3, <1>4
<1> HIDE DEF a, b, c, d
<1>7. /\ ((a \o b) \o c) \o d \in Bits
      /\ Len(((a \o b) \o c) \o d) = Len(a) + Len(b) + Len(c) + Len(d)
    BY <1>6 DEF Bits
<1>8. /\ EncodeInstance(v) \in Bits
      /\ Len(EncodeInstance(v)) = TypeSize + 1 + LineSize + (IF HasEnd(v) THEN EndSize ELSE 0)
    BY <1>1, <1>2, <1>3, <1>4, <1>5, <1>7 DEF a, b, c, d
<1> QED
    BY <1>1, <1>2, <1>3, <1>4, <1>8

(* Where its code is, an instance is read, and exactly its bits are         *)
(* consumed.                                                                *)
LEMMA ReadsInstance ==
    ASSUME NEW types, TypesFit(types), NEW v \in Instances, InstanceFits(v, types),
           NEW bits \in Bits, NEW p \in Nat \ {0}, Occurs(EncodeInstance(v), bits, p)
    PROVE  /\ Consumed(bits, p) = Len(EncodeInstance(v))
           /\ DecodeInstance(bits, p) = Read(v)
           /\ \A known : InstanceIsSound(bits, p, known) <=> v.type \in known
<1> DEFINE a == ToBits(v.type, TypeSize)
           b == Flag(v)
           c == ToBits(v.start, LineSize)
           d == Extent(v)
<1>1. /\ a \in Bits /\ b \in Bits /\ c \in Bits /\ d \in Bits
      /\ Len(a) = TypeSize /\ Len(b) = 1 /\ Len(c) = LineSize
      /\ Len(d) = IF HasEnd(v) THEN EndSize ELSE 0
    BY CodeIsBits
<1>2. EncodeInstance(v) = ((a \o b) \o c) \o d
    BY DEF EncodeInstance, Flag, Extent
<1>3. /\ Occurs(a, bits, p)
      /\ Occurs(b, bits, p + TypeSize)
      /\ Occurs(c, bits, p + TypeSize + 1)
      /\ Occurs(d, bits, p + TypeSize + 1 + LineSize)
  <2> HIDE DEF a, b, c, d
  <2>1. a \o b \in Bits /\ (a \o b) \o c \in Bits
      BY <1>1 DEF Bits
  <2>2. Len(a \o b) = TypeSize + 1 /\ Len((a \o b) \o c) = TypeSize + 1 + LineSize
    <3>1. Len(a \o b) = Len(a) + Len(b)
        BY <1>1, ConcatProperties DEF Bits
    <3>2. Len((a \o b) \o c) = Len(a \o b) + Len(c)
        BY <1>1, <2>1, ConcatProperties DEF Bits
    <3> QED
        BY <3>1, <3>2, <1>1
  <2>3. Occurs((a \o b) \o c, bits, p) /\ Occurs(d, bits, p + Len((a \o b) \o c))
      BY <1>1, <1>2, <2>1, OccursParts
  <2>4. Occurs(a \o b, bits, p) /\ Occurs(c, bits, p + Len(a \o b))
      BY <1>1, <2>1, <2>3, OccursParts
  <2>5. Occurs(a, bits, p) /\ Occurs(b, bits, p + Len(a))
      BY <1>1, <2>1, <2>4, OccursParts
  <2>6. p + (TypeSize + 1) = p + TypeSize + 1 /\ p + (TypeSize + 1 + LineSize) = p + TypeSize + 1 + LineSize
      BY Sizes
  <2> QED
      BY <1>1, <2>2, <2>3, <2>4, <2>5, <2>6
<1>4. /\ p + TypeSize \in Nat \ {0} /\ p + TypeSize + 1 \in Nat \ {0}
      /\ p + TypeSize + 1 + LineSize \in Nat \ {0}
    BY Sizes
<1>5. TypeAt(bits, p) = a /\ FromBits(TypeAt(bits, p)) = v.type
    BY <1>3, FieldsFit, Sizes, ReadsNumber DEF TypeAt
<1>6. FlagAt(bits, p) = Flag(v) /\ (FlagAt(bits, p) = <<1>> <=> HasEnd(v))
  <2>1. FlagAt(bits, p) = Flag(v)
    <3> DEFINE one == 1
               place == p + TypeSize
    <3>1. one = Len(b) /\ b \in Bits /\ place \in Nat \ {0} /\ Occurs(b, bits, place)
        BY <1>1, <1>3, <1>4
    <3>2. FlagAt(bits, p) = Slice(bits, place, one)
        BY DEF FlagAt
    <3> HIDE DEF b, one, place
    <3>3. Slice(bits, place, one) = b
        BY <3>1, SliceOfField
    <3> QED
        BY <3>2, <3>3 DEF b
  <2>2. <<0>> # <<1>>
      OBVIOUS
  <2> QED
      BY <2>1, <2>2 DEF Flag
<1>7. StartAt(bits, p) = c /\ FromBits(StartAt(bits, p)) = v.start
    BY <1>3, <1>4, FieldsFit, Sizes, ReadsNumber DEF StartAt
<1>8. HasEnd(v) => EndAt(bits, p) = d /\ FromBits(EndAt(bits, p)) = v.end - v.start
    BY <1>3, <1>4, FieldsFit, Sizes, ReadsNumber DEF EndAt, Extent
<1>9. Consumed(bits, p) = Len(EncodeInstance(v))
    BY <1>6, CodeIsBits DEF Consumed
<1>10. DecodeInstance(bits, p) = Read(v)
  <2>1. v.start \in Nat /\ v.end \in Int
      BY FieldsFit DEF Instances
  <2>2. CASE HasEnd(v)
    <3>1. v.start + (v.end - v.start) = v.end
        BY <2>1
    <3> QED
        BY <2>2, <3>1, <1>5, <1>6, <1>7, <1>8 DEF DecodeInstance, Read
  <2>3. CASE ~HasEnd(v)
    <3>1. v.start + 0 = v.start
        BY <2>1
    <3> QED
        BY <2>3, <3>1, <1>5, <1>6, <1>7 DEF DecodeInstance, Read
  <2> QED
      BY <2>2, <2>3
<1>11. ASSUME NEW known
       PROVE  InstanceIsSound(bits, p, known) <=> v.type \in known
  <2>1. Flag(v) # <<>> /\ c # <<>> /\ (HasEnd(v) => d # <<>>)
    <3>1. Len(Flag(v)) = 1 /\ Len(c) # 0 /\ (HasEnd(v) => Len(d) # 0)
        BY <1>1, Sizes
    <3> QED
        BY <3>1, NotEmpty, SMTT(30)
  <2>2. Len(TypeAt(bits, p)) = TypeSize
      BY <1>1, <1>5
  <2> HIDE DEF a, b, c, d
  <2> QED
      BY <2>1, <2>2, <1>5, <1>6, <1>7, <1>8 DEF InstanceIsSound
<1> QED
    BY <1>9, <1>10, <1>11

(* What is read depends on the code only.                                   *)
LEMMA SameCodeSameReading ==
    ASSUME NEW types, TypesFit(types),
           NEW v \in Instances, InstanceFits(v, types),
           NEW w \in Instances, InstanceFits(w, types),
           EncodeInstance(v) = EncodeInstance(w)
    PROVE  Read(v) = Read(w)
<1> DEFINE code == EncodeInstance(v)
<1>1. code \in Bits /\ Occurs(code, code, 1)
    BY CodeIsBits, OccursItself
<1>2. DecodeInstance(code, 1) = Read(v)
    BY <1>1, ReadsInstance
<1>3. DecodeInstance(code, 1) = Read(w)
    BY <1>1, ReadsInstance
<1> QED
    BY <1>2, <1>3

-----------------------------------------------------------------------------
(* The loop that consumes the bits.                                         *)

LEMMA HeaderIsPositive ==
    HeaderSize + HashSize + 1 \in Nat \ {0}
    BY Sizes DEF HeaderSize

LEMMA ConsumedIsPositive ==
    ASSUME NEW bits, NEW p
    PROVE  Consumed(bits, p) \in Nat \ {0}
<1>1. CASE FlagAt(bits, p) = <<1>>
    BY <1>1, Sizes DEF Consumed
<1>2. CASE FlagAt(bits, p) # <<1>>
    BY <1>2, Sizes DEF Consumed
<1> QED
    BY <1>1, <1>2

(* The equations that the recursion of Places stands for.                   *)
LEMMA PlacesRecursion ==
    ASSUME NEW bits \in Bits
    PROVE  \E place \in [0 .. Len(bits) -> Nat] :
               /\ place[0] = HeaderSize + HashSize + 1
               /\ \A k \in 1 .. Len(bits) :
                     place[k] = place[k - 1] + Consumed(bits, place[k - 1])
               /\ Places(bits) = [k \in {n \in 1 .. Len(bits) : place[n - 1] <= Len(bits)}
                                     |-> place[k - 1]]
<1> DEFINE N == Len(bits)
           first == HeaderSize + HashSize + 1
           step == [k \in 1 .. N |-> [v \in Nat |-> v + Consumed(bits, v)]]
           Equation(f) == f = [k \in 0 .. N |-> IF k = 0 THEN first
                                                ELSE f[k - 1] + Consumed(bits, f[k - 1])]
           place == CHOOSE f : Equation(f)
<1>1. N \in Nat /\ first \in Nat
    BY HeaderIsPositive DEF Bits
<1>2. \A v : Consumed(bits, v) \in Nat
    BY ConsumedIsPositive
<1>3. step \in [1 .. N -> [Nat -> Nat]] /\ \A k \in 1 .. N, v \in Nat : step[k][v] = v + Consumed(bits, v)
    BY <1>1, <1>2
<1>4. Places(bits) = [k \in {n \in 1 .. N : place[n - 1] <= N} |-> place[k - 1]]
    BY DEF Places
<1> HIDE DEF N, step, first
<1>5. PICK f : Solves(f, N, first, step, Nat)
    BY <1>1, <1>3, Recursion
<1>6. \A k \in 1 .. N : f[k - 1] \in Nat
    BY <1>1, <1>5, SolvesFacts
<1>7. \A k \in 0 .. N : f[k] = IF k = 0 THEN first ELSE step[k][f[k - 1]]
    BY <1>1, <1>5, SolvesFacts
<1>8. Equation(f)
  <2>1. f \in [0 .. N -> Nat]
      BY <1>5 DEF Solves
  <2>2. ASSUME NEW k \in 0 .. N
        PROVE  f[k] = IF k = 0 THEN first ELSE f[k - 1] + Consumed(bits, f[k - 1])
    <3>1. CASE k = 0
        BY <3>1, <1>7
    <3>2. CASE k # 0
      <4>1. k \in 1 .. N
          BY <3>2, <1>1
      <4>2. f[k - 1] \in Nat /\ f[k] = step[k][f[k - 1]]
          BY <4>1, <1>6, <1>7, <3>2
      <4> QED
          BY <4>1, <4>2, <1>3, <3>2
    <3> QED
        BY <3>1, <3>2
  <2> QED
      BY <2>1, <2>2
<1>9. Equation(place)
  <2> HIDE DEF Equation
  <2> QED
      BY <1>8
<1> HIDE DEF place
<1>10. place[0] = first /\ \A k \in 1 .. N : place[k] = place[k - 1] + Consumed(bits, place[k - 1])
    BY <1>1, <1>9
<1> DEFINE T == {k \in 0 .. N : place[k] \in Nat}
<1>11. 0 \in T
    BY <1>1, <1>10
<1>12. ASSUME NEW k \in 1 .. N, k - 1 \in T
       PROVE  k \in T
  <2>1. /\ place[k] = place[k - 1] + Consumed(bits, place[k - 1])
        /\ place[k - 1] \in Nat /\ Consumed(bits, place[k - 1]) \in Nat
      BY <1>1, <1>2, <1>10, <1>12
  <2> QED
      BY <2>1
<1> HIDE DEF T
<1>13. 0 .. N \subseteq T
    BY <1>1, <1>11, <1>12, Induction
<1>14. place \in [0 .. N -> Nat]
    BY <1>9, <1>13 DEF T
<1> QED
    BY <1>4, <1>10, <1>14 DEF N, first

(* If the bits from the end of the hash on are pieces, of which those in    *)
(* Found are what one round consumes, and the others empty, then there is   *)
(* one place for each in Found.                                             *)
LEMMA WalksThrough ==
    ASSUME NEW bits \in Bits, NEW N \in Nat, NEW Found \in SUBSET (1 .. N),
           NEW start \in [0 .. N -> Nat],
           start[0] = HeaderSize + HashSize + 1, start[N] = Len(bits) + 1,
           \A k \in 1 .. N : start[k] <= Len(bits) + 1,
           \A k \in Found : start[k] = start[k - 1] + Consumed(bits, start[k - 1]),
           \A k \in (1 .. N) \ Found : start[k] = start[k - 1],
           NEW count \in [0 .. N -> Nat], count[0] = 0,
           \A k \in Found : count[k] = count[k - 1] + 1,
           \A k \in (1 .. N) \ Found : count[k] = count[k - 1]
    PROVE  /\ DOMAIN Places(bits) = 1 .. count[N]
           /\ \A k \in Found : count[k] \in 1 .. count[N] /\ Places(bits)[count[k]] = start[k - 1]
           /\ \A i \in 1 .. count[N] : \E k \in Found : count[k] = i
<1> DEFINE L == Len(bits)
<1>1. L \in Nat
    BY DEF Bits
<1>2. PICK place \in [0 .. L -> Nat] :
          /\ place[0] = HeaderSize + HashSize + 1
          /\ \A k \in 1 .. L : place[k] = place[k - 1] + Consumed(bits, place[k - 1])
          /\ Places(bits) = [k \in {n \in 1 .. L : place[n - 1] <= L} |-> place[k - 1]]
    BY PlacesRecursion
<1>3. /\ start[N] = L + 1
      /\ \A k \in 1 .. N : start[k] <= L + 1
    OBVIOUS
<1> HIDE DEF L
<1> DEFINE Reaches(m) == /\ count[m] \in 0 .. L /\ count[m] < start[m]
                         /\ place[count[m]] = start[m]
           Counts(m) == \A k \in Found : k <= m => /\ count[k - 1] + 1 = count[k] /\ count[k] \in 1 .. count[m]
                                                   /\ place[count[k] - 1] = start[k - 1]
                                                   /\ start[k - 1] <= L
           IsCounted(m) == \A i \in 1 .. count[m] : \E k \in Found : k <= m /\ count[k] = i
           T == {m \in 0 .. N : Reaches(m) /\ Counts(m) /\ IsCounted(m)}
<1>4. 0 \in T
  <2>1. 0 \in 0 .. N /\ Reaches(0)
      BY <1>1, <1>2, HeaderIsPositive
  <2>2. Counts(0) /\ IsCounted(0)
      OBVIOUS
  <2> QED
      BY <2>1, <2>2
<1>5. ASSUME NEW m \in 1 .. N, m - 1 \in T
      PROVE  m \in T
  <2>1. /\ Reaches(m - 1) /\ Counts(m - 1) /\ IsCounted(m - 1)
        /\ m - 1 \in 0 .. N /\ m \in 0 .. N
        /\ count[m] \in Nat /\ count[m - 1] \in Nat /\ start[m] \in Nat /\ start[m - 1] \in Nat
      BY <1>5
  <2>2. CASE m \notin Found
    <3>1. count[m] = count[m - 1] /\ start[m] = start[m - 1]
        BY <2>2
    <3>2. \A k \in Found : k <= m => k <= m - 1
        BY <2>2
    <3>3. Reaches(m)
        BY <2>1, <3>1
    <3>4. Counts(m)
        BY <2>1, <3>1, <3>2
    <3>5. IsCounted(m)
        BY <2>1, <3>1, <3>2
    <3> QED
        BY <2>1, <3>3, <3>4, <3>5
  <2>3. CASE m \in Found
    <3>1. count[m] = count[m - 1] + 1 /\ start[m] = start[m - 1] + Consumed(bits, start[m - 1])
        BY <2>3
    <3>2. Consumed(bits, start[m - 1]) \in Nat \ {0}
        BY ConsumedIsPositive
    <3>3. start[m - 1] <= L /\ count[m] \in 1 .. L /\ count[m] < start[m]
      <4>1. start[m] <= L + 1 /\ count[m - 1] < start[m - 1]
          BY <1>3, <2>1
      <4> DEFINE used == Consumed(bits, start[m - 1])
                 before == start[m - 1]
                 after == start[m]
                 seen == count[m - 1]
                 now == count[m]
      <4>2. /\ before \in Nat /\ after \in Nat /\ seen \in Nat /\ now = seen + 1 /\ used \in Nat \ {0}
            /\ after = before + used /\ after <= L + 1 /\ seen < before
          BY <2>1, <3>1, <3>2, <4>1
      <4> HIDE DEF used, before, after, seen, now
      <4>3. before <= L /\ now \in 1 .. L /\ now < after
          BY <4>2, <1>1
      <4> QED
          BY <4>3 DEF before, now, after
    <3>4. place[count[m]] = start[m] /\ place[count[m] - 1] = start[m - 1]
      <4>1. count[m] - 1 = count[m - 1]
          BY <2>1, <3>1
      <4>2. place[count[m]] = place[count[m] - 1] + Consumed(bits, place[count[m] - 1])
          BY <1>2, <3>3
      <4> QED
          BY <4>1, <4>2, <2>1, <3>1
    <3>5. Reaches(m)
        BY <3>3, <3>4, <1>1
    <3>6. Counts(m)
      <4> SUFFICES ASSUME NEW k \in Found, k <= m
                   PROVE  /\ count[k - 1] + 1 = count[k] /\ count[k] \in 1 .. count[m]
                          /\ place[count[k] - 1] = start[k - 1]
                          /\ start[k - 1] <= L
          OBVIOUS
      <4>1. CASE k = m
          BY <4>1, <2>1, <3>1, <3>3, <3>4
      <4>2. CASE k # m
        <5>1. k <= m - 1
            BY <4>2
        <5>2. /\ count[k - 1] + 1 = count[k] /\ count[k] \in 1 .. count[m - 1]
              /\ place[count[k] - 1] = start[k - 1]
              /\ start[k - 1] <= L
            BY <5>1, <2>1
        <5>3. count[k] \in 1 .. count[m]
            BY <5>2, <2>1, <3>1, SMTT(30)
        <5> QED
            BY <5>2, <5>3
      <4> QED
          BY <4>1, <4>2
    <3>7. IsCounted(m)
      <4> SUFFICES ASSUME NEW i \in 1 .. count[m]
                   PROVE  \E k \in Found : k <= m /\ count[k] = i
          OBVIOUS
      <4>1. CASE i = count[m]
          BY <4>1, <2>3
      <4>2. CASE i # count[m]
        <5>1. i \in 1 .. count[m - 1]
            BY <4>2, <2>1, <3>1
        <5> QED
            BY <5>1, <2>1
      <4> QED
          BY <4>1, <4>2
    <3> QED
        BY <2>1, <3>5, <3>6, <3>7
  <2> QED
      BY <2>2, <2>3
<1> HIDE DEF T
<1>6. 0 .. N \subseteq T
    BY <1>4, <1>5, Induction
<1>7. Reaches(N) /\ Counts(N) /\ IsCounted(N)
  <2>1. N \in 0 .. N
      OBVIOUS
  <2> QED
      BY <2>1, <1>6 DEF T
<1>8. \A i \in 0 .. L : place[i] <= L <=> i < count[N]
  <2> DEFINE U == {i \in 0 .. L : i >= count[N] => place[i] >= L + 1}
  <2>1. 0 \in U
      BY <1>1, <1>3, <1>7
  <2>2. ASSUME NEW i \in 1 .. L, i - 1 \in U
        PROVE  i \in U
    <3>1. place[i] = place[i - 1] + Consumed(bits, place[i - 1]) /\ place[i] \in Nat /\ place[i - 1] \in Nat
        BY <1>1, <1>2
    <3>2. Consumed(bits, place[i - 1]) \in Nat
        BY ConsumedIsPositive
    <3>3. CASE i = count[N]
        BY <3>3, <1>1, <1>3, <1>7
    <3>4. CASE i # count[N]
        BY <3>1, <3>2, <3>4, <2>2, <1>1, SMTT(30)
    <3> QED
        BY <3>3, <3>4
  <2> HIDE DEF U
  <2>3. 0 .. L \subseteq U
      BY <1>1, <2>1, <2>2, Induction
  <2>4. ASSUME NEW i \in 0 .. L, i < count[N]
        PROVE  place[i] <= L
    <3>1. i + 1 \in 1 .. count[N] /\ count[N] \in Nat
        BY <2>4
    <3>2. PICK k \in Found : count[k] = i + 1
        BY <3>1, <1>7
    <3>3. k <= N
        OBVIOUS
    <3>4. place[count[k] - 1] = start[k - 1] /\ start[k - 1] <= L
        BY <3>3, <1>7
    <3>5. count[k] - 1 = i
        BY <3>2
    <3> QED
        BY <3>4, <3>5
  <2>5. \A i \in 0 .. L : place[i] \in Nat
      BY <1>2
  <2> QED
      BY <2>3, <2>4, <2>5, <1>1, SMTT(30) DEF U
<1>9. {n \in 1 .. L : place[n - 1] <= L} = 1 .. count[N]
  <2>1. \A n \in 1 .. L : n - 1 \in 0 .. L /\ (place[n - 1] <= L <=> n - 1 < count[N])
      BY <1>1, <1>8
  <2>2. count[N] \in 0 .. L
      BY <1>7
  <2> QED
      BY <2>1, <2>2, <1>1, SMTT(30)
<1>10. Places(bits) = [k \in 1 .. count[N] |-> place[k - 1]]
    BY <1>2, <1>9
<1>11. ASSUME NEW k \in Found
       PROVE  count[k] \in 1 .. count[N] /\ place[count[k] - 1] = start[k - 1]
  <2>1. k <= N
      OBVIOUS
  <2> QED
      BY <2>1, <1>7
<1> QED
    BY <1>7, <1>10, <1>11

-----------------------------------------------------------------------------
(* Reports.                                                                 *)

(* Of equal members, one is the first.                                      *)
LEMMA FirstOfEquals ==
    ASSUME NEW S, NEW seq \in Seq(S), NEW k \in 1 .. Len(seq)
    PROVE  \E j \in 1 .. Len(seq) : j <= k /\ seq[j] = seq[k] /\ IsFirst(seq, j)
<1> DEFINE N == Len(seq)
           x == seq[k]
           Has(m) == \E j \in 1 .. N : j <= m /\ seq[j] = x
           HasFirst(m) == \E j \in 1 .. N : j <= m /\ seq[j] = x /\ IsFirst(seq, j)
           T == {m \in 0 .. N : Has(m) => HasFirst(m)}
<1>1. N \in Nat
    OBVIOUS
<1> HIDE DEF N, x
<1>2. 0 \in T
    BY <1>1
<1>3. ASSUME NEW m \in 1 .. N, m - 1 \in T
      PROVE  m \in T
  <2> SUFFICES ASSUME Has(m) PROVE HasFirst(m)
      BY <1>1
  <2>1. CASE Has(m - 1)
    <3>1. PICK j \in 1 .. N : j <= m - 1 /\ seq[j] = x /\ IsFirst(seq, j)
        BY <2>1, <1>3
    <3>2. j <= m
        BY <3>1
    <3> QED
        BY <3>1, <3>2
  <2>2. CASE ~Has(m - 1)
    <3>1. PICK j \in 1 .. N : j <= m /\ seq[j] = x
        OBVIOUS
    <3>2. \A i \in 1 .. j - 1 : seq[i] # seq[j]
      <4> SUFFICES ASSUME NEW i \in 1 .. j - 1 PROVE seq[i] # x
          BY <3>1
      <4>1. i \in 1 .. N /\ i <= m - 1
          BY <1>1, <3>1
      <4> QED
          BY <4>1, <2>2
    <3>3. IsFirst(seq, j)
        BY <3>2 DEF IsFirst
    <3> QED
        BY <3>1, <3>3
  <2> QED
      BY <2>1, <2>2
<1> HIDE DEF T
<1>4. 0 .. N \subseteq T
    BY <1>1, <1>2, <1>3, Induction
<1>5. k \in 0 .. N /\ k \in 1 .. N
    BY DEF N
<1>6. Has(k)
    BY <1>5 DEF x
<1>7. HasFirst(k)
    BY <1>4, <1>5, <1>6 DEF T
<1> QED
    BY <1>7 DEF N, x

Codes(found) == [k \in DOMAIN found |-> EncodeInstance(found[k])]

(* What is read of a report, in its order: of instances with the same code, *)
(* the first.                                                               *)
Readings(found) ==
    FlattenSeq([k \in DOMAIN found |-> IF IsFirst(Codes(found), k) THEN <<Read(found[k])>> ELSE <<>>])

LEMMA VulnerabilitiesAreBits ==
    ASSUME NEW types, TypesFit(types), NEW found \in Seq(Instances),
           \A k \in DOMAIN found : InstanceFits(found[k], types)
    PROVE  /\ Codes(found) \in Seq(Bits)
           /\ [k \in DOMAIN found |-> IF IsFirst(Codes(found), k) THEN Codes(found)[k] ELSE <<>>] \in Seq(Bits)
           /\ EncodeVulnerabilities(found) \in Bits
<1> DEFINE N == Len(found)
           pieces == [k \in DOMAIN found |-> IF IsFirst(Codes(found), k) THEN Codes(found)[k] ELSE <<>>]
<1>1. DOMAIN found = 1 .. N /\ N \in Nat /\ \A k \in 1 .. N : found[k] \in Instances
    OBVIOUS
<1>2. \A k \in 1 .. N : EncodeInstance(found[k]) \in Bits
    BY <1>1, CodeIsBits
<1>3. Codes(found) \in Seq(Bits)
    BY <1>1, <1>2 DEF Codes
<1>4. <<>> \in Bits
    BY DEF Bits
<1>5. pieces \in Seq(Bits)
  <2>1. ASSUME NEW k \in 1 .. N
        PROVE  (IF IsFirst(Codes(found), k) THEN Codes(found)[k] ELSE <<>>) \in Bits
      BY <1>1, <1>2, <1>4 DEF Codes
  <2> DEFINE piece(k) == IF IsFirst(Codes(found), k) THEN Codes(found)[k] ELSE <<>>
  <2>2. pieces = [k \in 1 .. N |-> piece(k)] /\ \A k \in 1 .. N : piece(k) \in Bits
      BY <1>1, <2>1
  <2> HIDE DEF pieces, piece
  <2> QED
      BY <2>2, <1>1
<1>6. EncodeVulnerabilities(found) = FlattenSeq(pieces)
    BY DEF EncodeVulnerabilities, Codes
<1> HIDE DEF pieces
<1>7. FlattenSeq(pieces) \in Bits
    BY <1>5, FlattenPieces DEF Bits
<1> QED
    BY <1>3, <1>5, <1>6, <1>7 DEF pieces

(* Of the vulnerabilities of a report, the decoder reads Readings, and it   *)
(* raises unless it knows the types of all of them.                         *)
LEMMA DecodesVulnerabilities ==
    ASSUME NEW types, TypesFit(types), NEW found \in Seq(Instances),
           \A k \in DOMAIN found : InstanceFits(found[k], types),
           NEW bits \in Bits,
           Occurs(EncodeVulnerabilities(found), bits, HeaderSize + HashSize + 1),
           Len(bits) = HeaderSize + HashSize + Len(EncodeVulnerabilities(found))
    PROVE  /\ DecodeVulnerabilities(bits) = Readings(found)
           /\ \A known : Decodes(bits, known) <=> \A k \in DOMAIN found : found[k].type \in known
<1> DEFINE N == Len(found)
           first == HeaderSize + HashSize + 1
           codes == Codes(found)
           Found == {k \in 1 .. N : IsFirst(codes, k)}
           pieces == [k \in 1 .. N |-> IF IsFirst(codes, k) THEN codes[k] ELSE <<>>]
           readings == [k \in 1 .. N |-> IF IsFirst(codes, k) THEN <<Read(found[k])>> ELSE <<>>]
           S == {Read(found[k]) : k \in 1 .. N}
           whole == FlattenSeq(pieces)
           L == Len(bits)
<1>1. DOMAIN found = 1 .. N /\ N \in Nat /\ \A k \in 1 .. N : found[k] \in Instances /\ InstanceFits(found[k], types)
    OBVIOUS
<1>2. EncodeVulnerabilities(found) = whole
    BY <1>1 DEF EncodeVulnerabilities, Codes
<1>3. Readings(found) = FlattenSeq(readings)
    BY <1>1 DEF Readings
<1>4. /\ codes \in Seq(Bits) /\ pieces \in Seq(Bits) /\ whole \in Bits
    BY <1>1, <1>2, VulnerabilitiesAreBits
<1>5. Len(codes) = N /\ \A k \in 1 .. N : codes[k] = EncodeInstance(found[k])
    BY <1>1 DEF Codes
<1>6. first \in Nat \ {0} /\ L \in Nat /\ Len(whole) \in Nat /\ first + Len(whole) = L + 1
  <2>1. HeaderSize \in Nat /\ HashSize \in Nat
      BY Sizes, SMTT(30) DEF HeaderSize
  <2>2. L \in Nat /\ Len(whole) \in Nat /\ L = HeaderSize + HashSize + Len(whole)
      BY <1>2, <1>4 DEF Bits
  <2> HIDE DEF L, whole
  <2> QED
      BY <2>1, <2>2
<1>7. /\ Len(pieces) = N
      /\ \A k \in Found : k \in 1 .. N /\ pieces[k] = EncodeInstance(found[k])
      /\ \A k \in (1 .. N) \ Found : pieces[k] = <<>>
    BY <1>1, <1>5
<1>8. /\ readings \in Seq(Seq(S)) /\ Len(readings) = N
      /\ \A k \in Found : readings[k] = <<Read(found[k])>>
      /\ \A k \in (1 .. N) \ Found : readings[k] = <<>>
  <2> DEFINE reading(k) == IF IsFirst(codes, k) THEN <<Read(found[k])>> ELSE <<>>
  <2>1. \A k \in 1 .. N : reading(k) \in Seq(S)
    <3>1. \A k \in 1 .. N : Read(found[k]) \in S
        OBVIOUS
    <3> HIDE DEF S
    <3>2. \A x \in S : <<x>> \in Seq(S)
        OBVIOUS
    <3> QED
        BY <3>1, <3>2
  <2> QED
      BY <2>1, <1>1
<1>9. Occurs(whole, bits, first)
    BY <1>2
<1> HIDE DEF N, codes, pieces, readings, whole, first, S, L
<1>10. PICK ends \in [0 .. N -> Nat] :
           /\ ends[0] = 0 /\ ends[N] = Len(whole)
           /\ \A k \in 1 .. N :
                 /\ ends[k] = ends[k - 1] + Len(pieces[k])
                 /\ ends[k] <= Len(whole)
                 /\ \A i \in 1 .. Len(pieces[k]) : whole[ends[k - 1] + i] = pieces[k][i]
  <2>1. pieces \in Seq(Seq({0, 1})) /\ Len(pieces) = N
      BY <1>4, <1>7 DEF Bits
  <2>2. PICK ends : AreEnds(ends, pieces, whole)
      BY <2>1, FlattenPieces DEF whole
  <2> QED
      BY <2>1, <2>2 DEF AreEnds
<1>11. /\ FlattenSeq(readings) \in Seq(S)
       /\ \E count \in [0 .. N -> Nat] :
             /\ count[0] = 0 /\ count[N] = Len(FlattenSeq(readings))
             /\ \A k \in 1 .. N :
                   /\ count[k] = count[k - 1] + Len(readings[k])
                   /\ \A i \in 1 .. Len(readings[k]) : FlattenSeq(readings)[count[k - 1] + i] = readings[k][i]
  <2>1. FlattenSeq(readings) \in Seq(S) /\ \E count : AreEnds(count, readings, FlattenSeq(readings))
      BY <1>8, FlattenPieces
  <2>2. PICK count : AreEnds(count, readings, FlattenSeq(readings))
      BY <2>1
  <2> QED
      BY <2>1, <2>2, <1>8 DEF AreEnds
<1>12. PICK count \in [0 .. N -> Nat] :
           /\ count[0] = 0 /\ count[N] = Len(FlattenSeq(readings))
           /\ \A k \in 1 .. N :
                 /\ count[k] = count[k - 1] + Len(readings[k])
                 /\ \A i \in 1 .. Len(readings[k]) : FlattenSeq(readings)[count[k - 1] + i] = readings[k][i]
    BY <1>11
<1>13. /\ \A k \in Found : count[k] = count[k - 1] + 1 /\ FlattenSeq(readings)[count[k]] = Read(found[k])
       /\ \A k \in (1 .. N) \ Found : count[k] = count[k - 1]
  <2>1. ASSUME NEW k \in Found
        PROVE  count[k] = count[k - 1] + 1 /\ FlattenSeq(readings)[count[k]] = Read(found[k])
    <3>1. readings[k] = <<Read(found[k])>> /\ k \in 1 .. N
        BY <1>8
    <3>2. Len(readings[k]) = 1 /\ readings[k][1] = Read(found[k])
        BY <3>1
    <3>3. /\ count[k] = count[k - 1] + Len(readings[k])
          /\ \A i \in 1 .. Len(readings[k]) : FlattenSeq(readings)[count[k - 1] + i] = readings[k][i]
        BY <3>1, <1>12
    <3>4. 1 \in 1 .. Len(readings[k])
        BY <3>2
    <3>5. FlattenSeq(readings)[count[k - 1] + 1] = Read(found[k]) /\ count[k] = count[k - 1] + 1
        BY <3>2, <3>3, <3>4
    <3> QED
        BY <3>5
  <2>2. ASSUME NEW k \in (1 .. N) \ Found
        PROVE  count[k] = count[k - 1]
    <3>1. Len(readings[k]) = 0 /\ k - 1 \in 0 .. N
        BY <1>1, <1>8
    <3> QED
        BY <3>1, <1>12
  <2> QED
      BY <2>1, <2>2
<1> DEFINE start == [k \in 0 .. N |-> first + ends[k]]
<1>14. /\ start \in [0 .. N -> Nat] /\ start[0] = first /\ start[N] = L + 1
       /\ \A k \in 1 .. N : start[k] <= L + 1
  <2>1. \A k \in 0 .. N : ends[k] \in Nat /\ first + ends[k] \in Nat
    <3> SUFFICES ASSUME NEW k \in 0 .. N
                 PROVE  ends[k] \in Nat /\ first + ends[k] \in Nat
        OBVIOUS
    <3>1. ends \in [0 .. N -> Nat]
        BY <1>10
    <3>2. ends[k] \in Nat /\ first \in Nat
        BY <3>1, <1>6
    <3> HIDE DEF first
    <3> QED
        BY <3>2
  <2>2. 0 \in 0 .. N /\ N \in 0 .. N /\ \A k \in 1 .. N : k \in 0 .. N
      BY <1>1
  <2>3. start[0] = first
      BY <2>2, <1>6, <1>10
  <2>4. start[N] = L + 1
      BY <2>2, <1>6, <1>10
  <2>5. ASSUME NEW k \in 1 .. N
        PROVE  start[k] <= L + 1
    <3>1. start[k] = first + ends[k] /\ ends[k] \in Nat /\ ends[k] <= Len(whole)
        BY <2>1, <2>2, <1>10
    <3> QED
        BY <3>1, <1>6
  <2>6. start \in [0 .. N -> Nat]
      BY <2>1
  <2> QED
      BY <2>3, <2>4, <2>5, <2>6
<1>15. ASSUME NEW k \in Found
       PROVE  /\ start[k - 1] \in Nat \ {0}
              /\ Occurs(EncodeInstance(found[k]), bits, start[k - 1])
              /\ start[k] = start[k - 1] + Len(EncodeInstance(found[k]))
  <2> DEFINE code == EncodeInstance(found[k])
             before == ends[k - 1]
  <2>1. k \in 1 .. N /\ k \in 0 .. N /\ k - 1 \in 0 .. N /\ pieces[k] = code /\ code \in Bits
    <3>1. k \in 1 .. N /\ k \in 0 .. N /\ k - 1 \in 0 .. N /\ pieces[k] = code
        BY <1>1, <1>7
    <3> QED
        BY <3>1, <1>1, CodeIsBits
  <2>2. before \in Nat /\ start[k - 1] = first + before /\ start[k] = first + ends[k]
      BY <2>1
  <2>3. /\ ends[k] = before + Len(code) /\ ends[k] <= Len(whole)
        /\ \A i \in 1 .. Len(code) : whole[before + i] = code[i]
      BY <2>1, <1>10
  <2>4. Len(code) \in Nat
      BY <2>1 DEF Bits
  <2> HIDE DEF code, before, start
  <2>5. Occurs(code, whole, before + 1)
    <3>1. before + 1 + Len(code) - 1 <= Len(whole)
        BY <2>2, <2>3, <2>4
    <3>2. \A i \in 1 .. Len(code) : before + 1 + i - 1 = before + i
        BY <2>2, <2>4
    <3> QED
        BY <3>1, <3>2, <2>3 DEF Occurs
  <2>6. Occurs(code, bits, first + (before + 1) - 1)
    <3>1. before + 1 \in Nat \ {0}
        BY <2>2
    <3> DEFINE q == before + 1
    <3> HIDE DEF q
    <3>2. Occurs(code, bits, first + q - 1)
        BY <3>1, <2>1, <2>5, <1>4, <1>6, <1>9, OccursWithin DEF q
    <3> QED
        BY <3>2 DEF q
  <2>7. first + (before + 1) - 1 = start[k - 1] /\ start[k - 1] \in Nat \ {0}
      BY <2>2, <1>6
  <2>8. start[k] = start[k - 1] + Len(code)
      BY <2>2, <2>3, <2>4, <1>6
  <2> QED
      BY <2>6, <2>7, <2>8 DEF code
<1>16. ASSUME NEW k \in Found
       PROVE  /\ start[k] = start[k - 1] + Consumed(bits, start[k - 1])
              /\ DecodeInstance(bits, start[k - 1]) = Read(found[k])
              /\ \A known : InstanceIsSound(bits, start[k - 1], known) <=> found[k].type \in known
  <2>1. found[k] \in Instances /\ InstanceFits(found[k], types)
      BY <1>1, <1>7
  <2> DEFINE p == start[k - 1]
  <2>2. /\ p \in Nat \ {0} /\ Occurs(EncodeInstance(found[k]), bits, p)
        /\ start[k] = p + Len(EncodeInstance(found[k]))
      BY <1>15
  <2> HIDE DEF p
  <2>3. /\ Consumed(bits, p) = Len(EncodeInstance(found[k]))
        /\ DecodeInstance(bits, p) = Read(found[k])
        /\ \A known : InstanceIsSound(bits, p, known) <=> found[k].type \in known
      BY <2>1, <2>2, ReadsInstance
  <2> QED
      BY <2>2, <2>3 DEF p
<1>17. ASSUME NEW k \in (1 .. N) \ Found
       PROVE  start[k] = start[k - 1]
  <2>1. Len(pieces[k]) = 0 /\ k - 1 \in 0 .. N /\ k \in 0 .. N
      BY <1>1, <1>7
  <2> QED
      BY <2>1, <1>10
<1> HIDE DEF start
<1>18. /\ DOMAIN Places(bits) = 1 .. count[N]
       /\ \A k \in Found : count[k] \in 1 .. count[N] /\ Places(bits)[count[k]] = start[k - 1]
       /\ \A i \in 1 .. count[N] : \E k \in Found : count[k] = i
  <2>1. Found \in SUBSET (1 .. N) /\ count[0] = 0
      BY <1>12
  <2>2. /\ start[0] = HeaderSize + HashSize + 1 /\ start[N] = Len(bits) + 1
        /\ \A k \in 1 .. N : start[k] <= Len(bits) + 1
      BY <1>14 DEF first, L
  <2> HIDE DEF Found
  <2> QED
      BY <2>1, <2>2, <1>1, <1>13, <1>14, <1>16, <1>17, WalksThrough, ZenonT(60)
<1>19. DecodeVulnerabilities(bits) = Readings(found)
  <2> DEFINE read == DecodeVulnerabilities(bits)
             all == Readings(found)
  <2>1. DOMAIN read = 1 .. count[N] /\ read = [i \in 1 .. count[N] |-> DecodeInstance(bits, Places(bits)[i])]
      BY <1>18 DEF DecodeVulnerabilities
  <2>2. all \in Seq(S) /\ Len(all) = count[N]
      BY <1>3, <1>11, <1>12
  <2>3. ASSUME NEW i \in 1 .. count[N]
        PROVE  DecodeInstance(bits, Places(bits)[i]) = all[i]
    <3>1. PICK k \in Found : count[k] = i
        BY <1>18
    <3>2. Places(bits)[i] = start[k - 1] /\ all[i] = Read(found[k])
        BY <3>1, <1>3, <1>13, <1>18
    <3> QED
        BY <3>2, <1>16
  <2>4. all = [i \in 1 .. count[N] |-> all[i]]
      BY <2>2
  <2> HIDE DEF all, read
  <2>5. read = [i \in 1 .. count[N] |-> all[i]]
      BY <2>1, <2>3
  <2>6. read = all
      BY <2>4, <2>5
  <2> QED
      BY <2>6 DEF read, all
<1>20. ASSUME NEW known
       PROVE  Decodes(bits, known) <=> \A k \in 1 .. N : found[k].type \in known
  <2>1. Decodes(bits, known) <=> \A k \in Found : found[k].type \in known
    <3>1. Decodes(bits, known) <=> \A i \in 1 .. count[N] : InstanceIsSound(bits, Places(bits)[i], known)
        BY <1>18 DEF Decodes
    <3>2. ASSUME NEW i \in 1 .. count[N], \A k \in Found : found[k].type \in known
          PROVE  InstanceIsSound(bits, Places(bits)[i], known)
      <4>1. PICK k \in Found : count[k] = i
          BY <1>18
      <4> QED
          BY <4>1, <3>2, <1>16, <1>18
    <3>3. ASSUME NEW k \in Found, \A i \in 1 .. count[N] : InstanceIsSound(bits, Places(bits)[i], known)
          PROVE  found[k].type \in known
        BY <3>3, <1>16, <1>18
    <3> QED
        BY <3>1, <3>2, <3>3
  <2>2. ASSUME NEW k \in 1 .. N, \A j \in Found : found[j].type \in known
        PROVE  found[k].type \in known
    <3>1. PICK j \in 1 .. N : codes[j] = codes[k] /\ IsFirst(codes, j)
        BY <1>4, <1>5, FirstOfEquals
    <3>2. Read(found[j]) = Read(found[k])
        BY <3>1, <1>1, <1>5, SameCodeSameReading
    <3>3. found[j].type = found[k].type
        BY <3>2 DEF Read
    <3> QED
        BY <3>1, <3>3, <2>2
  <2>3. \A k \in Found : k \in 1 .. N
      OBVIOUS
  <2> QED
      BY <2>1, <2>2, <2>3
<1> QED
    BY <1>1, <1>19, <1>20

(* What compressing asks for, other than whole digits.                      *)
FitsAll(r, types) ==
    /\ \A k \in 1 .. 3 : Fits(r.version[k], VersionSizes[k])
    /\ \A k \in DOMAIN r.found : InstanceFits(r.found[k], types)

(* The header and the hash come back, and behind them are the               *)
(* vulnerabilities, up to the end.                                          *)
LEMMA DecodesHeader ==
    ASSUME NEW types, TypesFit(types), NEW r \in Reports, FitsAll(r, types)
    PROVE  /\ Compress(r) \in Bits
           /\ Decode(Compress(r)).version = r.version
           /\ Decode(Compress(r)).audit_state = r.audit_state
           /\ Decode(Compress(r)).status = r.status
           /\ Decode(Compress(r)).hash.digits = r.hash.digits
           /\ Occurs(EncodeVulnerabilities(r.found), Compress(r), HeaderSize + HashSize + 1)
           /\ Len(Compress(r)) = HeaderSize + HashSize + Len(EncodeVulnerabilities(r.found))
<1> DEFINE bits == Compress(r)
           n1 == VersionSizes[1]
           n2 == VersionSizes[2]
           n3 == VersionSizes[3]
           v1 == ToBits(r.version[1], n1)
           v2 == ToBits(r.version[2], n2)
           v3 == ToBits(r.version[3], n3)
           s1 == IF r.audit_state = StateSuccess THEN 1 ELSE 0
           s2 == IF r.status = "success" THEN 1 ELSE 0
           flags == <<s1, s2>>
           hash == ToBits(r.hash.digits, HashSize)
           found == EncodeVulnerabilities(r.found)
<1>1. /\ r.version \in [1 .. 3 -> Nat] /\ r.audit_state \in {StateSuccess, StateError}
      /\ r.status \in {"success", "error"} /\ r.hash.digits \in Nat
      /\ r.hash.digits < PowerOf2[HashSize] /\ r.found \in Seq(Instances)
  <2>1. r.hash.digits \in 0 .. PowerOf2[HashSize] - 1 /\ PowerOf2[HashSize] \in Nat
      BY Sizes, PowerPositive DEF Reports
  <2> QED
      BY <2>1 DEF Reports
<1>2. /\ r.version[1] \in Nat /\ r.version[2] \in Nat /\ r.version[3] \in Nat
      /\ Fits(r.version[1], n1) /\ Fits(r.version[2], n2) /\ Fits(r.version[3], n3)
    BY <1>1 DEF FitsAll
<1>3. Fits(r.hash.digits, HashSize)
    BY <1>1 DEF Fits
<1>4. /\ v1 \in Bits /\ v2 \in Bits /\ v3 \in Bits /\ flags \in Bits /\ hash \in Bits /\ found \in Bits
      /\ Len(v1) = n1 /\ Len(v2) = n2 /\ Len(v3) = n3 /\ Len(flags) = 2 /\ Len(hash) = HashSize
  <2>1. v1 \in Bits /\ v2 \in Bits /\ v3 \in Bits /\ Len(v1) = n1 /\ Len(v2) = n2 /\ Len(v3) = n3
      BY <1>2, Sizes, ToBitsOfFitting DEF Bits
  <2>2. hash \in Bits /\ Len(hash) = HashSize
      BY <1>1, <1>3, Sizes, ToBitsOfFitting DEF Bits
  <2>3. flags \in Bits /\ Len(flags) = 2
      BY DEF Bits
  <2>4. found \in Bits
      BY <1>1, VulnerabilitiesAreBits DEF FitsAll
  <2> QED
      BY <2>1, <2>2, <2>3, <2>4
<1>5. bits = ((((v1 \o v2) \o v3) \o flags) \o hash) \o found
    BY DEF Compress, EncodeHeader
<1>6. n1 \in Nat \ {0} /\ n2 \in Nat \ {0} /\ n3 \in Nat \ {0} /\ HashSize \in Nat \ {0}
    BY Sizes
<1>7. HeaderSize = n1 + n2 + n3 + 2
    BY DEF HeaderSize
<1>8. FromBits(v1) = r.version[1] /\ FromBits(v2) = r.version[2] /\ FromBits(v3) = r.version[3]
    BY <1>2, <1>6, NumberComesBack
<1>9. FromBits(hash) = r.hash.digits
    BY <1>1, <1>3, <1>6, NumberComesBack
<1>10. flags[1] = s1 /\ flags[2] = s2
    OBVIOUS
<1> HIDE DEF bits, n1, n2, n3, v1, v2, v3, flags, hash, found
<1> DEFINE w2 == v1 \o v2
           w3 == w2 \o v3
           w4 == w3 \o flags
           w5 == w4 \o hash
<1>11. /\ w2 \in Bits /\ w3 \in Bits /\ w4 \in Bits /\ w5 \in Bits
       /\ bits \in Bits
  <2>1. w2 \in Bits
      BY <1>4, ConcatProperties DEF Bits
  <2> HIDE DEF w2
  <2>2. w3 \in Bits
      BY <1>4, <2>1, ConcatProperties DEF Bits
  <2> HIDE DEF w3
  <2>3. w4 \in Bits
      BY <1>4, <2>2, ConcatProperties DEF Bits
  <2> HIDE DEF w4
  <2>4. w5 \in Bits
      BY <1>4, <2>3, ConcatProperties DEF Bits
  <2>5. bits = w5 \o found
      BY <1>5 DEF w2, w3, w4
  <2> HIDE DEF w5
  <2>6. bits \in Bits
      BY <1>4, <2>4, <2>5, ConcatProperties DEF Bits
  <2> QED
      BY <2>1, <2>2, <2>3, <2>4, <2>6
<1>12. /\ Len(w2) = n1 + n2 /\ Len(w3) = n1 + n2 + n3 /\ Len(w4) = HeaderSize
       /\ Len(w5) = HeaderSize + HashSize
       /\ Len(bits) = HeaderSize + HashSize + Len(found)
  <2>1. Len(w2) = Len(v1) + Len(v2)
      BY <1>4, ConcatProperties DEF Bits
  <2>2. Len(w3) = Len(w2) + Len(v3)
      BY <1>4, <1>11, ConcatProperties DEF Bits
  <2>3. Len(w4) = Len(w3) + Len(flags)
      BY <1>4, <1>11, ConcatProperties DEF Bits
  <2>4. Len(w5) = Len(w4) + Len(hash)
      BY <1>4, <1>11, ConcatProperties DEF Bits
  <2>5. Len(bits) = Len(w5) + Len(found)
      BY <1>4, <1>5, <1>11, ConcatProperties DEF Bits
  <2> HIDE DEF w2, w3, w4, w5
  <2> QED
      BY <2>1, <2>2, <2>3, <2>4, <2>5, <1>4, <1>6, <1>7
<1>13. /\ Occurs(w5, bits, 1) /\ Occurs(found, bits, 1 + Len(w5))
       /\ Occurs(w4, bits, 1) /\ Occurs(hash, bits, 1 + Len(w4))
       /\ Occurs(w3, bits, 1) /\ Occurs(flags, bits, 1 + Len(w3))
       /\ Occurs(w2, bits, 1) /\ Occurs(v3, bits, 1 + Len(w2))
       /\ Occurs(v1, bits, 1) /\ Occurs(v2, bits, 1 + Len(v1))
  <2> DEFINE one == 1
  <2>1. one \in Nat /\ Occurs(bits, bits, one)
      BY <1>11, OccursItself
  <2>2. bits = w5 \o found /\ w5 = w4 \o hash /\ w4 = w3 \o flags /\ w3 = w2 \o v3 /\ w2 = v1 \o v2
      BY <1>5
  <2> HIDE DEF one, w2, w3, w4, w5
  <2>3. Occurs(w5, bits, one) /\ Occurs(found, bits, one + Len(w5))
    <3> DEFINE whole == w5 \o found
    <3>1. Occurs(whole, bits, one) /\ whole = w5 \o found
        BY <2>1, <2>2
    <3> HIDE DEF whole
    <3> QED
        BY <3>1, <2>1, <1>4, <1>11, OccursParts
  <2>4. Occurs(w4, bits, one) /\ Occurs(hash, bits, one + Len(w4))
    <3> DEFINE whole == w4 \o hash
    <3>1. Occurs(whole, bits, one) /\ whole = w4 \o hash
        BY <2>3, <2>2
    <3> HIDE DEF whole
    <3> QED
        BY <3>1, <2>1, <1>4, <1>11, OccursParts
  <2>5. Occurs(w3, bits, one) /\ Occurs(flags, bits, one + Len(w3))
    <3> DEFINE whole == w3 \o flags
    <3>1. Occurs(whole, bits, one) /\ whole = w3 \o flags
        BY <2>4, <2>2
    <3> HIDE DEF whole
    <3> QED
        BY <3>1, <2>1, <1>4, <1>11, OccursParts
  <2>6. Occurs(w2, bits, one) /\ Occurs(v3, bits, one + Len(w2))
    <3> DEFINE whole == w2 \o v3
    <3>1. Occurs(whole, bits, one) /\ whole = w2 \o v3
        BY <2>5, <2>2
    <3> HIDE DEF whole
    <3> QED
        BY <3>1, <2>1, <1>4, <1>11, OccursParts
  <2>7. Occurs(v1, bits, one) /\ Occurs(v2, bits, one + Len(v1))
    <3> DEFINE whole == v1 \o v2
    <3>1. Occurs(whole, bits, one) /\ whole = v1 \o v2
        BY <2>6, <2>2
    <3> HIDE DEF whole
    <3> QED
        BY <3>1, <2>1, <1>4, <1>11, OccursParts
  <2> QED
      BY <2>3, <2>4, <2>5, <2>6, <2>7 DEF one
<1> HIDE DEF w2, w3, w4, w5
<1>14. /\ Slice(bits, 1, n1) = v1 /\ Slice(bits, 1 + n1, n2) = v2 /\ Slice(bits, 1 + n1 + n2, n3) = v3
       /\ Slice(bits, HeaderSize + 1, HashSize) = hash
  <2> DEFINE p1 == 1
             p2 == 1 + n1
             p3 == 1 + n1 + n2
             p4 == HeaderSize + 1
  <2>1. /\ p1 \in Nat \ {0} /\ p2 \in Nat \ {0} /\ p3 \in Nat \ {0} /\ p4 \in Nat \ {0}
        /\ p2 = 1 + Len(v1) /\ p3 = 1 + Len(w2) /\ p4 = 1 + Len(w4)
      BY <1>4, <1>6, <1>7, <1>12
  <2>2. Occurs(v1, bits, p1) /\ Occurs(v2, bits, p2) /\ Occurs(v3, bits, p3) /\ Occurs(hash, bits, p4)
      BY <2>1, <1>13
  <2> HIDE DEF p1, p2, p3, p4
  <2>3. /\ Slice(bits, p1, n1) = v1 /\ Slice(bits, p2, n2) = v2 /\ Slice(bits, p3, n3) = v3
        /\ Slice(bits, p4, HashSize) = hash
      BY <2>1, <2>2, <1>4, <1>11, SliceOfField
  <2> QED
      BY <2>3 DEF p1, p2, p3, p4
<1>15. bits[HeaderSize - 1] = s1 /\ bits[HeaderSize] = s2
  <2>1. 1 \in 1 .. Len(flags) /\ 2 \in 1 .. Len(flags)
      BY <1>4
  <2>2. bits[1 + Len(w3) + 1 - 1] = flags[1] /\ bits[1 + Len(w3) + 2 - 1] = flags[2]
      BY <2>1, <1>13 DEF Occurs
  <2>3. 1 + Len(w3) + 1 - 1 = HeaderSize - 1 /\ 1 + Len(w3) + 2 - 1 = HeaderSize
      BY <1>6, <1>7, <1>12
  <2> QED
      BY <2>2, <2>3, <1>10
<1>16. Decode(bits).version = r.version
  <2>1. VersionStart(1) = 1 /\ VersionStart(2) = 1 + n1 /\ VersionStart(3) = 1 + n1 + n2
      BY <1>6 DEF VersionStart, n1, n2
  <2>2. Decode(bits).version = [k \in 1 .. 3 |-> FromBits(Slice(bits, VersionStart(k), VersionSizes[k]))]
      BY DEF Decode
  <2>3. \A k \in 1 .. 3 : FromBits(Slice(bits, VersionStart(k), VersionSizes[k])) = r.version[k]
    <3>1. FromBits(Slice(bits, VersionStart(1), VersionSizes[1])) = r.version[1]
        BY <2>1, <1>8, <1>14 DEF n1
    <3>2. FromBits(Slice(bits, VersionStart(2), VersionSizes[2])) = r.version[2]
        BY <2>1, <1>8, <1>14 DEF n2
    <3>3. FromBits(Slice(bits, VersionStart(3), VersionSizes[3])) = r.version[3]
        BY <2>1, <1>8, <1>14 DEF n3
    <3>4. 1 .. 3 = {1, 2, 3}
        OBVIOUS
    <3> QED
        BY <3>1, <3>2, <3>3, <3>4
  <2> QED
      BY <2>2, <2>3, <1>1
<1>17. Decode(bits).audit_state = r.audit_state /\ Decode(bits).status = r.status
    BY <1>1, <1>15 DEF Decode, StateSuccess, StateError
<1>18. Decode(bits).hash.digits = r.hash.digits
    BY <1>9, <1>14 DEF Decode
<1>19. Occurs(found, bits, HeaderSize + HashSize + 1)
  <2>1. 1 + Len(w5) = HeaderSize + HashSize + 1
      BY <1>6, <1>7, <1>12
  <2> QED
      BY <2>1, <1>13
<1> QED
    BY <1>11, <1>12, <1>16, <1>17, <1>18, <1>19 DEF bits, found

(* Grouping by type neither loses an instance nor makes one up.             *)
LEMMA GroupType ==
    ASSUME NEW S, NEW found \in Seq(S), NEW type
    PROVE  /\ Group(found, type) \in Seq(S)
           /\ Range(Group(found, type)) = {v \in Range(found) : v.type = type}
<1> DEFINE N == Len(found)
           piece(k) == IF found[k].type = type THEN <<found[k]>> ELSE <<>>
           pieces == [k \in 1 .. N |-> piece(k)]
<1>1. N \in Nat /\ DOMAIN found = 1 .. N /\ \A k \in 1 .. N : found[k] \in S
    OBVIOUS
<1>2. Group(found, type) = FlattenSeq(pieces)
    BY <1>1 DEF Group
<1>3. \A k \in 1 .. N : piece(k) \in Seq(S)
  <2>1. <<>> \in Seq(S) /\ \A x \in S : <<x>> \in Seq(S)
      OBVIOUS
  <2> QED
      BY <2>1, <1>1
<1>4. \A k \in 1 .. N : Range(piece(k)) = {v \in {found[k]} : v.type = type}
  <2> SUFFICES ASSUME NEW k \in 1 .. N PROVE Range(piece(k)) = {v \in {found[k]} : v.type = type}
      OBVIOUS
  <2>1. Range(<<found[k]>>) = {found[k]} /\ Range(<<>>) = {}
      BY DEF Range
  <2> QED
      BY <2>1
<1> HIDE DEF piece
<1>5. pieces \in Seq(Seq(S)) /\ Len(pieces) = N /\ \A k \in 1 .. N : pieces[k] = piece(k)
    BY <1>1, <1>3
<1> HIDE DEF pieces, N
<1>6. FlattenSeq(pieces) \in Seq(S)
    BY <1>5, FlattenPieces
<1>7. Range(FlattenSeq(pieces)) = UNION {Range(pieces[k]) : k \in 1 .. N}
    BY <1>5, FlattenRange
<1>8. UNION {Range(pieces[k]) : k \in 1 .. N} = {v \in Range(found) : v.type = type}
  <2>1. Range(found) = {found[k] : k \in 1 .. N}
      BY <1>1 DEF Range
  <2>2. \A k \in 1 .. N : Range(pieces[k]) = {v \in {found[k]} : v.type = type}
      BY <1>4, <1>5
  <2> QED
      BY <2>1, <2>2
<1> QED
    BY <1>2, <1>6, <1>7, <1>8

LEMMA GroupedRange ==
    ASSUME NEW S, NEW found \in Seq(S)
    PROVE  Grouped(found) \in Seq(S) /\ Range(Grouped(found)) = Range(found)
<1> DEFINE N == Len(found)
           types == [k \in 1 .. N |-> found[k].type]
           piece(k) == IF IsFirst(types, k) THEN Group(found, types[k]) ELSE <<>>
           pieces == [k \in 1 .. N |-> piece(k)]
           T == {found[k].type : k \in 1 .. N}
<1>1. N \in Nat /\ DOMAIN found = 1 .. N /\ \A k \in 1 .. N : found[k] \in S
    OBVIOUS
<1>2. Grouped(found) = FlattenSeq(pieces)
    BY <1>1 DEF Grouped
<1>3. types \in Seq(T) /\ Len(types) = N /\ \A k \in 1 .. N : types[k] = found[k].type
    BY <1>1
<1> HIDE DEF types, T
<1>4. \A k \in 1 .. N : piece(k) \in Seq(S)
  <2>1. <<>> \in Seq(S)
      OBVIOUS
  <2> QED
      BY <2>1, GroupType
<1>5. /\ \A k \in 1 .. N : Range(piece(k)) \subseteq Range(found)
      /\ \A k \in 1 .. N : IsFirst(types, k) => Range(piece(k)) = {v \in Range(found) : v.type = types[k]}
  <2>1. Range(<<>>) = {}
      BY DEF Range
  <2> QED
      BY <2>1, GroupType
<1> HIDE DEF piece
<1>6. pieces \in Seq(Seq(S)) /\ Len(pieces) = N /\ \A k \in 1 .. N : pieces[k] = piece(k)
    BY <1>1, <1>4
<1> HIDE DEF pieces, N
<1>7. FlattenSeq(pieces) \in Seq(S)
    BY <1>6, FlattenPieces
<1>8. Range(FlattenSeq(pieces)) = UNION {Range(pieces[k]) : k \in 1 .. N}
    BY <1>6, FlattenRange
<1>9. Range(found) \subseteq UNION {Range(pieces[k]) : k \in 1 .. N}
  <2> SUFFICES ASSUME NEW k \in 1 .. N
               PROVE  found[k] \in UNION {Range(pieces[i]) : i \in 1 .. N}
      BY <1>1 DEF Range
  <2>1. PICK j \in 1 .. N : types[j] = types[k] /\ IsFirst(types, j)
      BY <1>3, FirstOfEquals
  <2>2. found[k] \in Range(found) /\ found[k].type = types[j]
      BY <2>1, <1>1, <1>3 DEF Range
  <2>3. found[k] \in Range(pieces[j])
      BY <2>1, <2>2, <1>5, <1>6
  <2> QED
      BY <2>3
<1> QED
    BY <1>2, <1>5, <1>6, <1>7, <1>8, <1>9

LEMMA ReadingsRange ==
    ASSUME NEW types, TypesFit(types), NEW found \in Seq(Instances),
           \A k \in DOMAIN found : InstanceFits(found[k], types)
    PROVE  /\ Readings(found) \in Seq({Read(found[k]) : k \in DOMAIN found})
           /\ Range(Readings(found)) = {Read(found[k]) : k \in DOMAIN found}
<1> DEFINE N == Len(found)
           codes == Codes(found)
           S == {Read(found[k]) : k \in 1 .. N}
           piece(k) == IF IsFirst(codes, k) THEN <<Read(found[k])>> ELSE <<>>
           pieces == [k \in 1 .. N |-> piece(k)]
<1>1. DOMAIN found = 1 .. N /\ N \in Nat /\ \A k \in 1 .. N : found[k] \in Instances /\ InstanceFits(found[k], types)
    OBVIOUS
<1>2. Readings(found) = FlattenSeq(pieces)
    BY <1>1 DEF Readings
<1>3. codes \in Seq(Bits) /\ Len(codes) = N /\ \A k \in 1 .. N : codes[k] = EncodeInstance(found[k])
  <2>1. codes \in Seq(Bits)
      BY VulnerabilitiesAreBits
  <2> QED
      BY <2>1, <1>1 DEF Codes
<1> HIDE DEF codes
<1>4. ASSUME NEW k \in 1 .. N
      PROVE  /\ Read(found[k]) \in S /\ piece(k) \in Seq(S)
             /\ Range(piece(k)) = IF IsFirst(codes, k) THEN {Read(found[k])} ELSE {}
  <2>1. Read(found[k]) \in S
      OBVIOUS
  <2> HIDE DEF S
  <2>2. <<>> \in Seq(S) /\ <<Read(found[k])>> \in Seq(S)
      BY <2>1
  <2>3. Range(<<Read(found[k])>>) = {Read(found[k])} /\ Range(<<>>) = {}
      BY DEF Range
  <2> QED
      BY <2>1, <2>2, <2>3
<1> HIDE DEF piece
<1>5. pieces \in Seq(Seq(S)) /\ Len(pieces) = N /\ \A k \in 1 .. N : pieces[k] = piece(k)
    BY <1>1, <1>4
<1> HIDE DEF pieces
<1>6. FlattenSeq(pieces) \in Seq(S)
    BY <1>5, FlattenPieces
<1>7. Range(FlattenSeq(pieces)) = UNION {Range(pieces[k]) : k \in 1 .. N}
    BY <1>5, FlattenRange
<1>8. S \subseteq UNION {Range(pieces[k]) : k \in 1 .. N}
  <2> SUFFICES ASSUME NEW k \in 1 .. N
               PROVE  Read(found[k]) \in UNION {Range(pieces[i]) : i \in 1 .. N}
      OBVIOUS
  <2>1. PICK j \in 1 .. N : codes[j] = codes[k] /\ IsFirst(codes, j)
      BY <1>3, FirstOfEquals
  <2>2. Read(found[j]) = Read(found[k])
      BY <2>1, <1>1, <1>3, SameCodeSameReading
  <2>3. Read(found[j]) \in Range(pieces[j])
      BY <2>1, <1>4, <1>5
  <2> QED
      BY <2>2, <2>3
<1>9. UNION {Range(pieces[k]) : k \in 1 .. N} \subseteq S
  <2>1. ASSUME NEW k \in 1 .. N
        PROVE  Range(pieces[k]) \subseteq S
    <3>1. pieces[k] = piece(k) /\ {Read(found[k])} \subseteq S
        BY <1>4, <1>5
    <3> QED
        BY <3>1, <1>4
  <2> QED
      BY <2>1
<1> QED
    BY <1>1, <1>2, <1>6, <1>7, <1>8, <1>9

(* The codec: of a report that compresses, the decoder reads the header and *)
(* the hash as they are and the readings of the vulnerabilities in groups,  *)
(* unless there is one of a type that it does not know.  Nothing is read    *)
(* that was not written.                                                    *)
THEOREM CodecIsFaithful ==
    ASSUME NEW types, TypesFit(types), NEW r \in Reports, Compresses(r, types)
    PROVE  LET read == Decode(Compress(r)) IN
           /\ Compress(r) \in Bits /\ Compress(r) # <<>> /\ Len(Compress(r)) % HexBits = 0
           /\ read.version = r.version /\ read.audit_state = r.audit_state
           /\ read.status = r.status /\ read.hash.digits = r.hash.digits
           /\ read.found = Grouped(Readings(r.found))
           /\ Range(read.found) = {Read(r.found[k]) : k \in DOMAIN r.found}
           /\ \A known : Decodes(Compress(r), known) <=> \A k \in DOMAIN r.found : r.found[k].type \in known
<1> DEFINE bits == Compress(r)
           found == r.found
           whole == EncodeVulnerabilities(found)
<1>1. found \in Seq(Instances) /\ \A k \in DOMAIN found : InstanceFits(found[k], types)
    BY DEF Reports, Compresses
<1>2. /\ bits \in Bits /\ Len(bits) % HexBits = 0
      /\ Decode(bits).version = r.version /\ Decode(bits).audit_state = r.audit_state
      /\ Decode(bits).status = r.status /\ Decode(bits).hash.digits = r.hash.digits
      /\ Occurs(whole, bits, HeaderSize + HashSize + 1)
      /\ Len(bits) = HeaderSize + HashSize + Len(whole)
    BY DecodesHeader DEF Compresses, FitsAll
<1>3. Decode(bits).found = Grouped(DecodeVulnerabilities(bits))
    BY DEF Decode
<1>4. whole \in Bits
    BY <1>1, VulnerabilitiesAreBits
<1> HIDE DEF bits, found, whole
<1>5. bits # <<>>
  <2>1. Len(whole) \in Nat /\ HeaderSize \in Nat /\ HashSize \in Nat \ {0}
      BY <1>4, Sizes DEF Bits, HeaderSize
  <2>2. Len(bits) # 0
      BY <2>1, <1>2
  <2> QED
      BY <2>2, NotEmpty
<1>6. /\ DecodeVulnerabilities(bits) = Readings(found)
      /\ \A known : Decodes(bits, known) <=> \A k \in DOMAIN found : found[k].type \in known
    BY <1>1, <1>2, DecodesVulnerabilities DEF whole
<1>7. Range(Grouped(Readings(found))) = {Read(found[k]) : k \in DOMAIN found}
    BY <1>1, ReadingsRange, GroupedRange
<1> QED
    BY <1>2, <1>3, <1>5, <1>6, <1>7 DEF bits, found

-----------------------------------------------------------------------------
(* Encoding again what was decoded.                                         *)

LEMMA ReadAgain ==
    ASSUME NEW v \in Instances, NEW types, InstanceFits(v, types)
    PROVE  /\ Read(v) \in Instances /\ Read(Read(v)) = Read(v)
           /\ EncodeInstance(Read(v)) = EncodeInstance(v)
           /\ \A known : v.type \in known => InstanceFits(Read(v), known)
<1>1. v.type \in Nat /\ v.start \in Int /\ v.end \in Int
    BY DEF Instances
<1>2. /\ Read(v).type = v.type /\ Read(v).start = v.start
      /\ Read(v).end = IF HasEnd(v) THEN v.end ELSE v.start
    BY DEF Read
<1>3. HasEnd(Read(v)) <=> HasEnd(v)
    BY <1>2 DEF HasEnd
<1>4. HasEnd(v) => Read(v).end = v.end
    BY <1>2
<1>5. Read(v) \in Instances
    BY <1>1 DEF Read, Instances
<1>6. Read(Read(v)) = Read(v)
    BY <1>2, <1>3 DEF Read
<1>7. EncodeInstance(Read(v)) = EncodeInstance(v)
    BY <1>2, <1>3, <1>4 DEF EncodeInstance
<1>8. \A known : v.type \in known => InstanceFits(Read(v), known)
    BY <1>2, <1>3, <1>4 DEF InstanceFits
<1> QED
    BY <1>5, <1>6, <1>7, <1>8

CodeSize == TypeSize + 1 + LineSize

(* What the codes in a set take, if each is written once.                   *)
SizeOfCodes(codes) ==
    CodeSize * Cardinality(codes) + EndSize * Cardinality({c \in codes : Len(c) # CodeSize})

LEMMA OneMore ==
    ASSUME NEW a \in Nat, NEW n \in Nat
    PROVE  a * (n + 1) = a * n + a /\ a * n \in Nat
    OBVIOUS

LEMMA SizeOfOneMore ==
    ASSUME NEW codes, IsFiniteSet(codes), NEW c, c \notin codes,
           Len(c) \in {CodeSize, CodeSize + EndSize}
    PROVE  IsFiniteSet(codes \cup {c}) /\ SizeOfCodes(codes \cup {c}) = SizeOfCodes(codes) + Len(c)
<1> DEFINE more == codes \cup {c}
           long == {x \in codes : Len(x) # CodeSize}
           longMore == {x \in more : Len(x) # CodeSize}
           m == Cardinality(codes)
           n == Cardinality(long)
<1>1. IsFiniteSet(more) /\ Cardinality(more) = m + 1 /\ m \in Nat
    BY FS_AddElement, FS_CardinalityType
<1>2. IsFiniteSet(long) /\ n \in Nat
  <2>1. long \subseteq codes
      OBVIOUS
  <2> QED
      BY <2>1, FS_Subset, FS_CardinalityType
<1>3. CodeSize \in Nat /\ EndSize \in Nat \ {0}
    BY Sizes DEF CodeSize
<1>4. SizeOfCodes(codes) = CodeSize * m + EndSize * n
    BY DEF SizeOfCodes
<1>5. SizeOfCodes(more) = CodeSize * Cardinality(more) + EndSize * Cardinality(longMore)
    BY DEF SizeOfCodes
<1>6. CodeSize * (m + 1) = CodeSize * m + CodeSize /\ CodeSize * m \in Nat
    BY <1>1, <1>3, OneMore
<1>7. EndSize * (n + 1) = EndSize * n + EndSize /\ EndSize * n \in Nat
    BY <1>2, <1>3, OneMore
<1>8. CASE Len(c) = CodeSize
  <2>1. longMore = long
      BY <1>8
  <2> HIDE DEF m, n, more, long, longMore
  <2> DEFINE a == CodeSize * m
             b == EndSize * n
             size == CodeSize
  <2>2. SizeOfCodes(codes) = a + b /\ SizeOfCodes(more) = (a + size) + b /\ a \in Nat /\ b \in Nat /\ size \in Nat
      BY <2>1, <1>1, <1>3, <1>4, <1>5, <1>6, <1>7 DEF n
  <2> HIDE DEF a, b, size
  <2>3. SizeOfCodes(more) = SizeOfCodes(codes) + size
      BY <2>2
  <2> QED
      BY <2>3, <1>1, <1>8 DEF size, more
<1>9. CASE Len(c) # CodeSize
  <2>1. longMore = long \cup {c} /\ c \notin long /\ Len(c) = CodeSize + EndSize
      BY <1>9
  <2>2. Cardinality(longMore) = n + 1
      BY <2>1, <1>2, FS_AddElement
  <2> HIDE DEF m, n, more, long, longMore
  <2> DEFINE a == CodeSize * m
             b == EndSize * n
             size == CodeSize
             end == EndSize
  <2>3. /\ SizeOfCodes(codes) = a + b /\ SizeOfCodes(more) = (a + size) + (b + end)
        /\ a \in Nat /\ b \in Nat /\ size \in Nat /\ end \in Nat /\ Len(c) = size + end
      BY <2>1, <2>2, <1>1, <1>3, <1>4, <1>5, <1>6, <1>7
  <2> HIDE DEF a, b, size, end
  <2>4. SizeOfCodes(more) = SizeOfCodes(codes) + Len(c)
      BY <2>3
  <2> QED
      BY <2>4, <1>1 DEF more
<1> QED
    BY <1>8, <1>9

(* The size of a report depends on the set of its codes only.               *)
LEMMA SizeOfVulnerabilities ==
    ASSUME NEW types, TypesFit(types), NEW found \in Seq(Instances),
           \A k \in DOMAIN found : InstanceFits(found[k], types)
    PROVE  Len(EncodeVulnerabilities(found)) = SizeOfCodes(Range(Codes(found)))
<1> DEFINE N == Len(found)
           codes == Codes(found)
           pieces == [k \in DOMAIN found |-> IF IsFirst(codes, k) THEN codes[k] ELSE <<>>]
           whole == FlattenSeq(pieces)
           seen(m) == {codes[k] : k \in 1 .. m}
<1>1. DOMAIN found = 1 .. N /\ N \in Nat /\ \A k \in 1 .. N : found[k] \in Instances /\ InstanceFits(found[k], types)
    OBVIOUS
<1>2. EncodeVulnerabilities(found) = whole
    BY DEF EncodeVulnerabilities, Codes
<1>3. codes \in Seq(Bits) /\ pieces \in Seq(Bits)
    BY VulnerabilitiesAreBits
<1>4. \A k \in 1 .. N : codes[k] = EncodeInstance(found[k])
    BY <1>1 DEF Codes
<1>5. \A k \in 1 .. N : Len(codes[k]) \in {CodeSize, CodeSize + EndSize}
  <2> SUFFICES ASSUME NEW k \in 1 .. N PROVE Len(codes[k]) \in {CodeSize, CodeSize + EndSize}
      OBVIOUS
  <2>1. Len(EncodeInstance(found[k])) = TypeSize + 1 + LineSize + (IF HasEnd(found[k]) THEN EndSize ELSE 0)
      BY <1>1, CodeIsBits
  <2>2. CodeSize \in Nat /\ CodeSize = TypeSize + 1 + LineSize
      BY Sizes DEF CodeSize
  <2> QED
      BY <2>1, <2>2, <1>4
<1>6. /\ Len(pieces) = N
      /\ \A k \in 1 .. N : pieces[k] = IF IsFirst(codes, k) THEN codes[k] ELSE <<>>
    BY <1>1
<1>7. Range(codes) = seen(N)
    BY <1>1 DEF Codes, Range
<1> HIDE DEF N, codes, pieces, whole
<1>8. PICK ends : AreEnds(ends, pieces, whole)
    BY <1>3, FlattenPieces DEF whole, Bits
<1>9. /\ ends[0] = 0 /\ ends[N] = Len(whole) /\ \A m \in 0 .. N : ends[m] \in Nat
      /\ \A m \in 1 .. N : ends[m] = ends[m - 1] + Len(pieces[m])
  <2>1. pieces \in Seq(Seq({0, 1})) /\ N = Len(pieces)
      BY <1>3, <1>6 DEF Bits
  <2>2. ends[0] = 0 /\ ends[N] = Len(whole)
      BY <2>1, <1>8, EndsFacts
  <2>3. \A m \in 0 .. N : ends[m] \in Nat
      BY <2>1, <1>8, EndsFacts
  <2>4. \A m \in 1 .. N : ends[m] = ends[m - 1] + Len(pieces[m])
      BY <2>1, <1>8, Zenon DEF AreEnds
  <2> QED
      BY <2>2, <2>3, <2>4
<1> DEFINE T == {m \in 0 .. N : IsFiniteSet(seen(m)) /\ ends[m] = SizeOfCodes(seen(m))}
<1>10. 0 \in T
  <2>1. seen(0) = {} /\ {c \in {} : Len(c) # CodeSize} = {}
      OBVIOUS
  <2>2. IsFiniteSet({}) /\ Cardinality({}) = 0
      BY FS_EmptySet
  <2>3. CodeSize * 0 + EndSize * 0 = 0
      BY Sizes DEF CodeSize
  <2>4. SizeOfCodes({}) = 0
      BY <2>1, <2>2, <2>3 DEF SizeOfCodes
  <2> QED
    <3>1. 0 \in 0 .. N /\ ends[0] = 0
        BY <1>1, <1>9
    <3> HIDE DEF seen
    <3> QED
        BY <3>1, <2>1, <2>2, <2>4
<1>11. ASSUME NEW m \in 1 .. N, m - 1 \in T
       PROVE  m \in T
  <2>1. seen(m) = seen(m - 1) \cup {codes[m]} /\ m \in 0 .. N
    <3>1. 1 .. m = (1 .. m - 1) \cup {m} /\ m \in 0 .. N
        BY <1>1
    <3> QED
        BY <3>1
  <2>2. IsFiniteSet(seen(m - 1)) /\ ends[m - 1] = SizeOfCodes(seen(m - 1)) /\ ends[m - 1] \in Nat
      BY <1>1, <1>9, <1>11
  <2>3. ends[m] = ends[m - 1] + Len(pieces[m])
      BY <1>9
  <2>4. CASE IsFirst(codes, m)
    <3>1. pieces[m] = codes[m] /\ codes[m] \notin seen(m - 1)
        BY <2>4, <1>6 DEF IsFirst
    <3>2. /\ IsFiniteSet(seen(m - 1) \cup {codes[m]})
          /\ SizeOfCodes(seen(m - 1) \cup {codes[m]}) = SizeOfCodes(seen(m - 1)) + Len(codes[m])
      <4> DEFINE before == seen(m - 1)
                 c == codes[m]
      <4>1. IsFiniteSet(before) /\ c \notin before /\ Len(c) \in {CodeSize, CodeSize + EndSize}
          BY <2>2, <3>1, <1>5
      <4> HIDE DEF before, c
      <4>2. IsFiniteSet(before \cup {c}) /\ SizeOfCodes(before \cup {c}) = SizeOfCodes(before) + Len(c)
          BY <4>1, SizeOfOneMore
      <4> QED
          BY <4>2 DEF before, c
    <3> QED
        BY <2>1, <2>2, <2>3, <3>1, <3>2
  <2>5. CASE ~IsFirst(codes, m)
    <3>1. pieces[m] = <<>> /\ codes[m] \in seen(m - 1)
        BY <2>5, <1>6 DEF IsFirst
    <3>2. seen(m) = seen(m - 1) /\ Len(pieces[m]) = 0
        BY <2>1, <3>1
    <3>3. ends[m] = ends[m - 1]
        BY <2>2, <2>3, <3>2
    <3> QED
        BY <2>1, <2>2, <3>2, <3>3
  <2> QED
      BY <2>4, <2>5
<1> HIDE DEF T
<1>12. 0 .. N \subseteq T
    BY <1>1, <1>10, <1>11, Induction
<1>13. N \in T
    BY <1>1, <1>12
<1>14. Len(whole) = SizeOfCodes(Range(codes))
    BY <1>7, <1>9, <1>13 DEF T
<1> QED
    BY <1>2, <1>14 DEF codes

(* No two readings of a report are equal.                                   *)
LEMMA ReadingsDiffer ==
    ASSUME NEW types, TypesFit(types), NEW found \in Seq(Instances),
           \A k \in DOMAIN found : InstanceFits(found[k], types)
    PROVE  IsInjective(Readings(found))
<1> DEFINE N == Len(found)
           codes == Codes(found)
           S == {Read(found[k]) : k \in 1 .. N}
           piece(k) == IF IsFirst(codes, k) THEN <<Read(found[k])>> ELSE <<>>
           pieces == [k \in 1 .. N |-> piece(k)]
<1>1. DOMAIN found = 1 .. N /\ N \in Nat /\ \A k \in 1 .. N : found[k] \in Instances /\ InstanceFits(found[k], types)
    OBVIOUS
<1>2. Readings(found) = FlattenSeq(pieces)
    BY <1>1 DEF Readings
<1>3. \A k \in 1 .. N : codes[k] = EncodeInstance(found[k])
    BY <1>1 DEF Codes
<1> HIDE DEF codes
<1>4. ASSUME NEW k \in 1 .. N
      PROVE  /\ piece(k) \in Seq(S)
             /\ \A i \in 1 .. Len(piece(k)) : i = 1 /\ IsFirst(codes, k) /\ piece(k)[i] = Read(found[k])
  <2>1. Read(found[k]) \in S
      OBVIOUS
  <2> HIDE DEF S
  <2>2. CASE IsFirst(codes, k)
    <3>1. <<Read(found[k])>> \in Seq(S) /\ Len(<<Read(found[k])>>) = 1 /\ <<Read(found[k])>>[1] = Read(found[k])
        BY <2>1
    <3> QED
        BY <2>2, <3>1
  <2>3. CASE ~IsFirst(codes, k)
    <3>1. <<>> \in Seq(S) /\ Len(<<>>) = 0
        OBVIOUS
    <3> QED
        BY <2>3, <3>1
  <2> QED
      BY <2>2, <2>3
<1> HIDE DEF piece
<1>5. pieces \in Seq(Seq(S)) /\ Len(pieces) = N /\ \A k \in 1 .. N : pieces[k] = piece(k)
    BY <1>1, <1>4
<1> HIDE DEF pieces, S
<1>6. ASSUME NEW k \in 1 .. N, NEW m \in 1 .. N,
             NEW i \in 1 .. Len(pieces[k]), NEW j \in 1 .. Len(pieces[m]), pieces[k][i] = pieces[m][j]
      PROVE  k = m
  <2>1. /\ IsFirst(codes, k) /\ IsFirst(codes, m) /\ Read(found[k]) = Read(found[m])
      BY <1>4, <1>5, <1>6
  <2>2. codes[k] = codes[m]
    <3>1. found[k] \in Instances /\ InstanceFits(found[k], types)
        BY <1>1
    <3>2. found[m] \in Instances /\ InstanceFits(found[m], types)
        BY <1>1
    <3>3. EncodeInstance(Read(found[k])) = EncodeInstance(found[k])
        BY <3>1, ReadAgain
    <3>4. EncodeInstance(Read(found[m])) = EncodeInstance(found[m])
        BY <3>2, ReadAgain
    <3> QED
        BY <2>1, <3>3, <3>4, <1>3
  <2> QED
      BY <2>1, <2>2 DEF IsFirst
<1>7. ASSUME NEW k \in 1 .. N, NEW i \in 1 .. Len(pieces[k]), NEW j \in 1 .. Len(pieces[k])
      PROVE  i = j
  <2>1. i \in 1 .. Len(piece(k)) /\ j \in 1 .. Len(piece(k))
      BY <1>5
  <2> HIDE DEF N
  <2> QED
      BY <2>1, <1>4
<1>8. IsInjective(FlattenSeq(pieces))
    BY <1>5, <1>6, <1>7, FlattenInjective
<1> QED
    BY <1>2, <1>8

(* Of instances that are readings, and differ, all are read as they are.    *)
LEMMA ReadingsOfReadings ==
    ASSUME NEW types, TypesFit(types), NEW found \in Seq(Instances), IsInjective(found),
           \A k \in DOMAIN found : InstanceFits(found[k], types) /\ Read(found[k]) = found[k]
    PROVE  Readings(found) = found
<1> DEFINE N == Len(found)
           codes == Codes(found)
<1>1. DOMAIN found = 1 .. N /\ N \in Nat /\ \A k \in 1 .. N : found[k] \in Instances /\ InstanceFits(found[k], types)
    OBVIOUS
<1>2. \A k \in 1 .. N : codes[k] = EncodeInstance(found[k])
    BY <1>1 DEF Codes
<1>3. ASSUME NEW k \in 1 .. N
      PROVE  IsFirst(codes, k)
  <2> SUFFICES ASSUME NEW j \in 1 .. k - 1, codes[j] = codes[k] PROVE FALSE
      BY DEF IsFirst
  <2>1. j \in 1 .. N /\ j # k
      BY <1>1
  <2>2. EncodeInstance(found[j]) = EncodeInstance(found[k])
      BY <2>1, <1>2
  <2>3. Read(found[j]) = Read(found[k])
      BY <2>1, <2>2, <1>1, SameCodeSameReading
  <2>4. found[j] = found[k]
      BY <2>1, <2>3, <1>1
  <2> QED
      BY <2>1, <2>4, <1>1 DEF IsInjective
<1>4. Readings(found) = FlattenSeq([k \in 1 .. N |-> <<found[k]>>])
  <2>1. \A k \in 1 .. N : Read(found[k]) = found[k]
      BY <1>1
  <2>2. [k \in DOMAIN found |-> IF IsFirst(codes, k) THEN <<Read(found[k])>> ELSE <<>>]
            = [k \in 1 .. N |-> <<found[k]>>]
      BY <2>1, <1>1, <1>3
  <2> QED
      BY <2>2 DEF Readings
<1> QED
    BY <1>4, FlattenSingles

(* The instances of one type are side by side, as a block.                  *)
IsBlock(block, type, from, to, found) ==
    /\ from \in Nat /\ to \in from .. Len(found) /\ Len(block) = to - from
    /\ \A q \in 1 .. Len(found) : found[q].type = type <=> from < q /\ q <= to
    /\ \A i \in 1 .. Len(block) : found[from + i] = block[i]

LEMMA GroupOfBlock ==
    ASSUME NEW S, NEW found \in Seq(S), NEW type, NEW from, NEW to,
           NEW block \in Seq(S), IsBlock(block, type, from, to, found)
    PROVE  Group(found, type) = block
<1> DEFINE N == Len(found)
           piece(k) == IF found[k].type = type THEN <<found[k]>> ELSE <<>>
           pieces == [k \in 1 .. N |-> piece(k)]
           cuts == [q \in 0 .. N |-> IF q <= from THEN 0 ELSE IF q <= to THEN q - from ELSE to - from]
<1>1. /\ N \in Nat /\ DOMAIN found = 1 .. N
      /\ from \in Nat /\ to \in Nat /\ to <= N /\ from <= to /\ Len(block) = to - from
      /\ \A q \in 1 .. N : found[q].type = type <=> from < q /\ q <= to
      /\ \A i \in 1 .. Len(block) : found[from + i] = block[i]
    BY DEF IsBlock
<1>2. \A k \in 1 .. N : found[k] \in S
    OBVIOUS
<1>3. Group(found, type) = FlattenSeq(pieces)
    BY <1>1 DEF Group
<1>4. ASSUME NEW k \in 1 .. N
      PROVE  piece(k) \in Seq(S)
  <2>1. <<>> \in Seq(S) /\ \A x \in S : <<x>> \in Seq(S)
      OBVIOUS
  <2> QED
      BY <2>1, <1>2
<1>5. \A k \in 1 .. N : Len(piece(k)) = IF from < k /\ k <= to THEN 1 ELSE 0
  <2> SUFFICES ASSUME NEW k \in 1 .. N
               PROVE  Len(piece(k)) = IF from < k /\ k <= to THEN 1 ELSE 0
      OBVIOUS
  <2>1. found[k].type = type <=> from < k /\ k <= to
      BY <1>1
  <2>2. Len(<<found[k]>>) = 1 /\ Len(<<>>) = 0
      OBVIOUS
  <2> QED
      BY <2>1, <2>2
<1>6. \A k \in 1 .. N : \A i \in 1 .. Len(piece(k)) : i = 1 /\ from < k /\ k <= to /\ piece(k)[i] = found[k]
  <2> SUFFICES ASSUME NEW k \in 1 .. N, NEW i \in 1 .. Len(piece(k))
               PROVE  i = 1 /\ from < k /\ k <= to /\ piece(k)[i] = found[k]
      OBVIOUS
  <2>1. from < k /\ k <= to /\ i = 1
      BY <1>5
  <2>2. piece(k) = <<found[k]>>
      BY <2>1
  <2> QED
      BY <2>1, <2>2
<1> HIDE DEF piece
<1>7. pieces \in Seq(Seq(S)) /\ Len(pieces) = N /\ \A k \in 1 .. N : pieces[k] = piece(k)
    BY <1>1, <1>4
<1> HIDE DEF pieces
<1>8. cuts \in [0 .. N -> Nat] /\ cuts[0] = 0 /\ cuts[N] = Len(block)
  <2> HIDE DEF N
  <2>1. ASSUME NEW q \in 0 .. N
        PROVE  (IF q <= from THEN 0 ELSE IF q <= to THEN q - from ELSE to - from) \in Nat
      BY <1>1
  <2>2. cuts \in [0 .. N -> Nat]
      BY <2>1
  <2>3. 0 \in 0 .. N /\ N \in 0 .. N
      BY <1>1
  <2>4. cuts[0] = 0
      BY <2>3, <1>1
  <2>5. cuts[N] = IF N <= from THEN 0 ELSE IF N <= to THEN N - from ELSE to - from
      BY <2>3
  <2> HIDE DEF cuts
  <2>6. cuts[N] = to - from
      BY <2>5, <1>1
  <2> QED
      BY <2>2, <2>4, <2>6, <1>1
<1>9. ASSUME NEW k \in 1 .. N
      PROVE  /\ cuts[k] = cuts[k - 1] + Len(pieces[k])
             /\ cuts[k] <= Len(block)
             /\ \A i \in 1 .. Len(pieces[k]) : block[cuts[k - 1] + i] = pieces[k][i]
  <2>1. Len(pieces[k]) = IF from < k /\ k <= to THEN 1 ELSE 0
      BY <1>5, <1>7
  <2>2. /\ cuts[k] = IF k <= from THEN 0 ELSE IF k <= to THEN k - from ELSE to - from
        /\ cuts[k - 1] = IF k - 1 <= from THEN 0 ELSE IF k - 1 <= to THEN k - 1 - from ELSE to - from
      BY <1>1
  <2> HIDE DEF cuts
  <2>3. cuts[k] = cuts[k - 1] + Len(pieces[k])
      BY <2>1, <2>2, <1>1
  <2>4. cuts[k] <= Len(block)
      BY <2>2, <1>1
  <2>5. ASSUME NEW i \in 1 .. Len(pieces[k])
        PROVE  block[cuts[k - 1] + i] = pieces[k][i]
    <3>1. i = 1 /\ from < k /\ k <= to /\ pieces[k][i] = found[k]
        BY <1>6, <1>7
    <3>2. cuts[k - 1] + i = k - from /\ k - from \in 1 .. Len(block) /\ from + (k - from) = k
        BY <2>2, <3>1, <1>1
    <3>3. found[from + (k - from)] = block[k - from]
      <4> DEFINE j == k - from
      <4>1. j \in 1 .. Len(block)
          BY <3>2
      <4> HIDE DEF j
      <4>2. found[from + j] = block[j]
          BY <4>1, <1>1
      <4> QED
          BY <4>2 DEF j
    <3> QED
        BY <3>1, <3>2, <3>3
  <2> QED
      BY <2>3, <2>4, <2>5
<1> HIDE DEF cuts
<1>10. AreEnds(cuts, pieces, block)
    BY <1>7, <1>8, <1>9, Zenon DEF AreEnds
<1> QED
    BY <1>3, <1>7, <1>10, FlattenIs

LEMMA GroupDiffers ==
    ASSUME NEW S, NEW found \in Seq(S), IsInjective(found), NEW type
    PROVE  IsInjective(Group(found, type))
<1> DEFINE N == Len(found)
           piece(k) == IF found[k].type = type THEN <<found[k]>> ELSE <<>>
           pieces == [k \in 1 .. N |-> piece(k)]
<1>1. N \in Nat /\ DOMAIN found = 1 .. N /\ \A k \in 1 .. N : found[k] \in S
    OBVIOUS
<1>2. Group(found, type) = FlattenSeq(pieces)
    BY <1>1 DEF Group
<1>3. ASSUME NEW k \in 1 .. N
      PROVE  /\ piece(k) \in Seq(S)
             /\ \A i \in 1 .. Len(piece(k)) : i = 1 /\ piece(k)[i] = found[k]
  <2>1. <<>> \in Seq(S) /\ <<found[k]>> \in Seq(S)
      BY <1>1
  <2>2. Len(<<found[k]>>) = 1 /\ Len(<<>>) = 0 /\ <<found[k]>>[1] = found[k]
      OBVIOUS
  <2>3. CASE found[k].type = type
      BY <2>1, <2>2, <2>3
  <2>4. CASE found[k].type # type
      BY <2>1, <2>2, <2>4
  <2> QED
      BY <2>3, <2>4
<1> HIDE DEF piece
<1>4. pieces \in Seq(Seq(S)) /\ Len(pieces) = N /\ \A k \in 1 .. N : pieces[k] = piece(k)
    BY <1>1, <1>3
<1> HIDE DEF pieces
<1>5. ASSUME NEW k \in 1 .. N, NEW i \in 1 .. Len(pieces[k]), NEW j \in 1 .. Len(pieces[k])
      PROVE  i = j
  <2>1. i \in 1 .. Len(piece(k)) /\ j \in 1 .. Len(piece(k))
      BY <1>4
  <2> HIDE DEF N
  <2> QED
      BY <2>1, <1>3
<1>6. ASSUME NEW k \in 1 .. N, NEW m \in 1 .. N,
             NEW i \in 1 .. Len(pieces[k]), NEW j \in 1 .. Len(pieces[m]), pieces[k][i] = pieces[m][j]
      PROVE  k = m
  <2>1. found[k] = found[m]
      BY <1>3, <1>4, <1>6
  <2> QED
      BY <2>1, <1>1 DEF IsInjective
<1>7. IsInjective(FlattenSeq(pieces))
    BY <1>4, <1>5, <1>6, FlattenInjective
<1> QED
    BY <1>2, <1>7

(* A sequence that consists of blocks, one for each type: the member at p   *)
(* is of block at[p].                                                       *)
AreBlocks(blocks, ends, at, whole) ==
    /\ AreEnds(ends, blocks, whole)
    /\ \A p \in 1 .. Len(whole) : at[p] \in 1 .. Len(blocks) /\ Belongs(p, at[p], ends, blocks, whole)
    /\ \A p, q \in 1 .. Len(whole) : whole[p].type = whole[q].type <=> at[p] = at[q]

LEMMA GroupedLayout ==
    ASSUME NEW S, NEW found \in Seq(S)
    PROVE  \E blocks, ends, at :
               /\ blocks \in Seq(Seq(S))
               /\ AreBlocks(blocks, ends, at, Grouped(found))
               /\ \A k \in 1 .. Len(blocks) : blocks[k] = <<>> \/ \E type : blocks[k] = Group(found, type)
<1> DEFINE N == Len(found)
           types == [k \in 1 .. N |-> found[k].type]
           block(k) == IF IsFirst(types, k) THEN Group(found, types[k]) ELSE <<>>
           blocks == [k \in 1 .. N |-> block(k)]
           whole == Grouped(found)
<1>1. N \in Nat /\ DOMAIN found = 1 .. N
    OBVIOUS
<1>2. whole = FlattenSeq(blocks)
    BY <1>1 DEF Grouped
<1>3. ASSUME NEW k \in 1 .. N
      PROVE  /\ block(k) \in Seq(S)
             /\ block(k) = <<>> \/ (IsFirst(types, k) /\ block(k) = Group(found, types[k]))
             /\ \A i \in 1 .. Len(block(k)) : IsFirst(types, k) /\ block(k)[i].type = types[k]
  <2>1. <<>> \in Seq(S) /\ Len(<<>>) = 0
      OBVIOUS
  <2>2. Group(found, types[k]) \in Seq(S) /\ \A v \in Range(Group(found, types[k])) : v.type = types[k]
      BY GroupType
  <2>3. \A i \in 1 .. Len(Group(found, types[k])) : Group(found, types[k])[i] \in Range(Group(found, types[k]))
      BY <2>2 DEF Range
  <2> HIDE DEF types
  <2>4. CASE IsFirst(types, k)
      BY <2>2, <2>3, <2>4
  <2>5. CASE ~IsFirst(types, k)
      BY <2>1, <2>5
  <2> QED
      BY <2>4, <2>5
<1> HIDE DEF block
<1>4. blocks \in Seq(Seq(S)) /\ Len(blocks) = N /\ \A k \in 1 .. N : blocks[k] = block(k)
  <2>1. \A k \in 1 .. N : block(k) \in Seq(S)
      BY <1>3
  <2> HIDE DEF N, types, whole
  <2> QED
      BY <2>1, <1>1
<1> HIDE DEF blocks, whole, types
<1>5. whole \in Seq(S) /\ Len(whole) \in Nat
    BY <1>2, <1>4, FlattenPieces
<1>6. PICK ends : AreEnds(ends, blocks, whole)
    BY <1>2, <1>4, FlattenPieces
<1> DEFINE at == [p \in 1 .. Len(whole) |-> CHOOSE k \in 1 .. N : Belongs(p, k, ends, blocks, whole)]
<1>7. ASSUME NEW p \in 1 .. Len(whole)
      PROVE  at[p] \in 1 .. N /\ Belongs(p, at[p], ends, blocks, whole)
  <2>1. \E k \in 1 .. Len(blocks) : Belongs(p, k, ends, blocks, whole)
      BY <1>4, <1>5, <1>6, PieceAt
  <2> QED
      BY <2>1, <1>4
<1> HIDE DEF at
<1>8. ASSUME NEW p \in 1 .. Len(whole)
      PROVE  IsFirst(types, at[p]) /\ whole[p].type = types[at[p]]
  <2> DEFINE k == at[p]
             i == p - ends[k - 1]
  <2>1. k \in 1 .. N /\ i \in 1 .. Len(blocks[k]) /\ whole[p] = blocks[k][i]
      BY <1>7 DEF Belongs
  <2> HIDE DEF k, i
  <2>2. IsFirst(types, k) /\ whole[p].type = types[k]
      BY <2>1, <1>3, <1>4
  <2> QED
      BY <2>2 DEF k
<1>9. ASSUME NEW p \in 1 .. Len(whole), NEW q \in 1 .. Len(whole)
      PROVE  whole[p].type = whole[q].type <=> at[p] = at[q]
  <2> DEFINE k == at[p]
             m == at[q]
  <2>1. /\ k \in 1 .. N /\ m \in 1 .. N /\ IsFirst(types, k) /\ IsFirst(types, m)
        /\ whole[p].type = types[k] /\ whole[q].type = types[m]
      BY <1>7, <1>8
  <2> HIDE DEF k, m
  <2>2. types[k] = types[m] => k = m
      BY <2>1 DEF IsFirst
  <2>3. whole[p].type = whole[q].type <=> k = m
      BY <2>1, <2>2
  <2> QED
      BY <2>3 DEF k, m
<1>10. AreBlocks(blocks, ends, at, whole)
    BY <1>4, <1>6, <1>7, <1>9, Zenon DEF AreBlocks
<1>11. \A k \in 1 .. Len(blocks) : blocks[k] = <<>> \/ \E type : blocks[k] = Group(found, type)
    BY <1>3, <1>4
<1> QED
    BY <1>4, <1>10, <1>11 DEF whole

LEMMA GroupedDiffers ==
    ASSUME NEW S, NEW found \in Seq(S), IsInjective(found)
    PROVE  IsInjective(Grouped(found))
<1> DEFINE whole == Grouped(found)
<1>1. whole \in Seq(S) /\ DOMAIN whole = 1 .. Len(whole) /\ Len(whole) \in Nat
    BY GroupedRange
<1>2. PICK blocks, ends, at :
          /\ blocks \in Seq(Seq(S))
          /\ AreBlocks(blocks, ends, at, whole)
          /\ \A k \in 1 .. Len(blocks) : blocks[k] = <<>> \/ \E type : blocks[k] = Group(found, type)
    BY GroupedLayout
<1> HIDE DEF whole
<1>3. ASSUME NEW k \in 1 .. Len(blocks), NEW i \in 1 .. Len(blocks[k]), NEW j \in 1 .. Len(blocks[k]),
             blocks[k][i] = blocks[k][j]
      PROVE  i = j
  <2>1. blocks[k] # <<>>
      OBVIOUS
  <2>2. PICK type : blocks[k] = Group(found, type)
      BY <2>1, <1>2
  <2>3. IsInjective(blocks[k])
      BY <2>2, GroupDiffers
  <2>4. blocks[k] \in Seq(S)
      BY <1>2
  <2> QED
      BY <2>3, <2>4, <1>3 DEF IsInjective
<1>4. ASSUME NEW p \in 1 .. Len(whole), NEW q \in 1 .. Len(whole), whole[p] = whole[q]
      PROVE  p = q
  <2> DEFINE k == at[p]
             i == p - ends[k - 1]
             j == q - ends[k - 1]
  <2>1. at[p] = at[q] /\ k \in 1 .. Len(blocks)
      BY <1>2, <1>4 DEF AreBlocks
  <2>2. Belongs(p, k, ends, blocks, whole) /\ Belongs(q, k, ends, blocks, whole)
      BY <2>1, <1>2 DEF AreBlocks
  <2>3. ends[k - 1] \in Nat
    <3> HIDE DEF k
    <3>1. AreEnds(ends, blocks, whole) /\ k - 1 \in 0 .. Len(blocks)
        BY <2>1, <1>2 DEF AreBlocks
    <3> QED
        BY <3>1 DEF AreEnds
  <2>4. i \in 1 .. Len(blocks[k]) /\ j \in 1 .. Len(blocks[k]) /\ blocks[k][i] = blocks[k][j]
      BY <2>2, <1>4 DEF Belongs
  <2>5. i = j => p = q
      BY <2>3, <1>1
  <2> HIDE DEF i, j, k
  <2>6. i = j
      BY <2>1, <2>4, <1>3
  <2> QED
      BY <2>5, <2>6
<1> QED
    BY <1>1, <1>4 DEF IsInjective, whole

LEMMA BlocksStay ==
    ASSUME NEW S, NEW whole \in Seq(S), NEW blocks \in Seq(Seq(S)), NEW ends, NEW at,
           AreBlocks(blocks, ends, at, whole)
    PROVE  Grouped(whole) = whole
<1> DEFINE M == Len(whole)
           types == [p \in 1 .. M |-> whole[p].type]
           piece(p) == IF IsFirst(types, p) THEN Group(whole, types[p]) ELSE <<>>
           pieces == [p \in 1 .. M |-> piece(p)]
           from(p) == ends[at[p] - 1]
           to(p) == ends[at[p]]
           cuts == [p \in 0 .. M |-> IF p = 0 THEN 0 ELSE to(p)]
<1>1. M \in Nat /\ DOMAIN whole = 1 .. M
    OBVIOUS
<1>2. Grouped(whole) = FlattenSeq(pieces)
    BY <1>1 DEF Grouped
<1>3. \A p \in 1 .. M : types[p] = whole[p].type
    OBVIOUS
<1>4. AreEnds(ends, blocks, whole)
    BY DEF AreBlocks
<1>5. ASSUME NEW p \in 1 .. M
      PROVE  /\ at[p] \in 1 .. Len(blocks) /\ Belongs(p, at[p], ends, blocks, whole)
             /\ \A q \in 1 .. M : whole[p].type = whole[q].type <=> at[p] = at[q]
    BY DEF AreBlocks
<1>6. \A k \in 1 .. Len(blocks) :
          /\ ends[k - 1] \in Nat /\ ends[k] \in Nat
          /\ ends[k] = ends[k - 1] + Len(blocks[k]) /\ Len(blocks[k]) \in Nat /\ blocks[k] \in Seq(S)
          /\ ends[k] <= M
          /\ \A i \in 1 .. Len(blocks[k]) : whole[ends[k - 1] + i] = blocks[k][i]
  <2> SUFFICES ASSUME NEW k \in 1 .. Len(blocks)
               PROVE  /\ ends[k - 1] \in Nat /\ ends[k] \in Nat
                      /\ ends[k] = ends[k - 1] + Len(blocks[k]) /\ Len(blocks[k]) \in Nat /\ blocks[k] \in Seq(S)
                      /\ ends[k] <= M
                      /\ \A i \in 1 .. Len(blocks[k]) : whole[ends[k - 1] + i] = blocks[k][i]
      OBVIOUS
  <2>1. k - 1 \in 0 .. Len(blocks) /\ k \in 0 .. Len(blocks) /\ blocks[k] \in Seq(S)
      OBVIOUS
  <2>2. Len(blocks[k]) \in Nat
      BY <2>1
  <2> HIDE DEF types, pieces, cuts
  <2>3. /\ ends \in [0 .. Len(blocks) -> Nat]
        /\ ends[k] = ends[k - 1] + Len(blocks[k])
        /\ ends[k] <= M
        /\ \A i \in 1 .. Len(blocks[k]) : whole[ends[k - 1] + i] = blocks[k][i]
      BY <1>4 DEF AreEnds
  <2> QED
      BY <2>1, <2>2, <2>3
<1> HIDE DEF M, types
<1>7. ASSUME NEW p \in 1 .. M
      PROVE  /\ from(p) \in Nat /\ to(p) \in Nat /\ from(p) < p /\ p <= to(p) /\ to(p) <= M
             /\ to(p) = from(p) + Len(blocks[at[p]])
    BY <1>5, <1>6 DEF Belongs
<1>8. ASSUME NEW p \in 1 .. M, NEW q \in 1 .. M
      PROVE  from(p) < q /\ q <= to(p) <=> at[q] = at[p]
  <2>1. at[q] = at[p] => from(p) < q /\ q <= to(p)
      BY <1>7
  <2>2. from(p) < q /\ q <= to(p) => at[q] = at[p]
    <3> DEFINE j == at[q]
               k == at[p]
    <3>1. j \in 1 .. Len(blocks) /\ k \in 1 .. Len(blocks) /\ ends[j - 1] < q /\ q <= ends[j] /\ q \in Nat
        BY <1>1, <1>5, <1>7
    <3> HIDE DEF j, k
    <3>2. ends[k - 1] < q /\ q <= ends[k] => j = k
        BY <3>1, <1>4, OnePieceOnly
    <3> QED
        BY <3>2 DEF j, k
  <2> QED
      BY <2>1, <2>2
<1>9. ASSUME NEW p \in 1 .. M, NEW q \in 1 .. M, q = from(p)
      PROVE  to(q) = from(p)
  <2> DEFINE j == at[q]
             k == at[p]
  <2>1. /\ j \in 1 .. Len(blocks) /\ k \in 1 .. Len(blocks) /\ ends[j - 1] < q /\ q <= ends[j] /\ q \in Nat
        /\ q = ends[k - 1]
      BY <1>1, <1>5, <1>7, <1>9
  <2> HIDE DEF j, k
  <2>2. ends[j] = ends[k - 1]
      BY <2>1, <1>4, OnePieceOnly
  <2> QED
      BY <2>2 DEF j, k
<1>10. ASSUME NEW p \in 1 .. M
       PROVE  Group(whole, types[p]) = blocks[at[p]]
  <2> DEFINE block == blocks[at[p]]
             first == from(p)
             last == to(p)
             type == types[p]
  <2>1. /\ first \in Nat /\ last \in first .. M /\ block \in Seq(S) /\ Len(block) = last - first
        /\ \A i \in 1 .. Len(block) : whole[first + i] = block[i]
    <3>1. /\ block \in Seq(S) /\ Len(block) \in Nat
          /\ \A i \in 1 .. Len(block) : whole[first + i] = block[i]
        BY <1>5, <1>6
    <3>2. /\ first \in Nat /\ last \in Nat /\ first < p /\ p <= last /\ last <= M
          /\ last = first + Len(block)
        BY <1>7
    <3> HIDE DEF block, first, last
    <3>3. last \in first .. M /\ Len(block) = last - first
        BY <3>1, <3>2, <1>1
    <3> QED
        BY <3>1, <3>2, <3>3
  <2>2. ASSUME NEW q \in 1 .. M
        PROVE  whole[q].type = type <=> first < q /\ q <= last
      BY <1>3, <1>5, <1>8
  <2> HIDE DEF block, first, last, type
  <2>3. /\ first \in Nat /\ last \in first .. Len(whole) /\ block \in Seq(S) /\ Len(block) = last - first
        /\ \A i \in 1 .. Len(block) : whole[first + i] = block[i]
        /\ \A q \in 1 .. Len(whole) : whole[q].type = type <=> first < q /\ q <= last
      BY <2>1, <2>2 DEF M
  <2>4. block \in Seq(S) /\ IsBlock(block, type, first, last, whole)
      BY <2>3 DEF IsBlock
  <2>5. Group(whole, type) = block
      BY <2>4, GroupOfBlock
  <2> QED
      BY <2>5 DEF type, block
<1>11. ASSUME NEW p \in 1 .. M
       PROVE  IsFirst(types, p) <=> p = from(p) + 1
  <2>1. ASSUME p = from(p) + 1, NEW j \in 1 .. p - 1
        PROVE  types[j] # types[p]
    <3>1. j \in 1 .. M /\ ~(from(p) < j)
        BY <2>1, <1>1, <1>7
    <3>2. at[j] # at[p]
        BY <3>1, <1>8
    <3> QED
        BY <3>1, <3>2, <1>3, <1>5
  <2>2. ASSUME p # from(p) + 1
        PROVE  ~IsFirst(types, p)
    <3> DEFINE q == p - 1
    <3>1. q \in 1 .. M /\ from(p) < q /\ q <= to(p) /\ q \in 1 .. p - 1
        BY <2>2, <1>1, <1>7
    <3> HIDE DEF q
    <3>2. at[q] = at[p]
        BY <3>1, <1>8
    <3>3. types[q] = types[p]
        BY <3>1, <3>2, <1>3, <1>5
    <3> QED
        BY <3>1, <3>3 DEF IsFirst
  <2> QED
      BY <2>1, <2>2 DEF IsFirst
<1> DEFINE before(p) == IF p = 1 THEN 0 ELSE to(p - 1)
<1>12. ASSUME NEW p \in 1 .. M
       PROVE  /\ piece(p) \in Seq(S)
              /\ to(p) = before(p) + Len(piece(p))
              /\ \A i \in 1 .. Len(piece(p)) : whole[before(p) + i] = piece(p)[i]
  <2>1. at[p] \in 1 .. Len(blocks)
      BY <1>5
  <2>2. CASE IsFirst(types, p)
    <3>1. piece(p) = blocks[at[p]] /\ p = from(p) + 1
        BY <2>2, <1>10, <1>11
    <3>2. before(p) = from(p)
      <4>1. CASE p = 1
          BY <4>1, <3>1, <1>7, SMTT(30)
      <4>2. CASE p # 1
        <5> DEFINE q == p - 1
        <5>1. q \in 1 .. M /\ q = from(p)
            BY <4>2, <3>1, <1>1, <1>7, SMTT(30)
        <5>2. before(p) = to(q)
            BY <4>2
        <5> HIDE DEF q
        <5>3. to(q) = from(p)
            BY <5>1, <1>9
        <5> QED
            BY <5>2, <5>3
      <4> QED
          BY <4>1, <4>2
    <3>3. /\ blocks[at[p]] \in Seq(S) /\ to(p) = from(p) + Len(blocks[at[p]])
          /\ \A i \in 1 .. Len(blocks[at[p]]) : whole[from(p) + i] = blocks[at[p]][i]
        BY <2>1, <1>6
    <3> HIDE DEF piece, before, from, to
    <3> QED
        BY <3>1, <3>2, <3>3
  <2>3. CASE ~IsFirst(types, p)
    <3>1. piece(p) = <<>> /\ Len(piece(p)) = 0 /\ piece(p) \in Seq(S) /\ p # from(p) + 1
        BY <2>3, <1>11
    <3> DEFINE q == p - 1
    <3>2. q \in 1 .. M /\ from(p) < q /\ q <= to(p) /\ p # 1 /\ before(p) = to(q)
      <4>1. from(p) \in Nat /\ to(p) \in Nat /\ from(p) < p /\ p <= to(p)
          BY <1>7
      <4> HIDE DEF from
      <4>2. p # 1
          BY <3>1, <4>1
      <4>3. before(p) = to(q)
          BY <4>2
      <4> HIDE DEF to, before
      <4>4. q \in 1 .. M /\ from(p) < q /\ q <= to(p)
          BY <3>1, <4>1, <4>2, <1>1
      <4> QED
          BY <4>2, <4>3, <4>4
    <3> HIDE DEF q
    <3>3. at[q] = at[p]
        BY <3>2, <1>8
    <3>4. to(p) = before(p) /\ to(p) \in Nat
        BY <3>2, <3>3, <1>7
    <3> HIDE DEF piece, before, to, from
    <3> QED
        BY <3>1, <3>4
  <2> QED
      BY <2>2, <2>3
<1>13. /\ cuts \in [0 .. M -> Nat] /\ cuts[0] = 0 /\ cuts[M] = M
       /\ \A p \in 1 .. M : cuts[p] = to(p) /\ cuts[p - 1] = before(p)
  <2>1. ASSUME NEW p \in 0 .. M
        PROVE  (IF p = 0 THEN 0 ELSE to(p)) \in Nat
    <3>1. CASE p = 0
        BY <3>1
    <3>2. CASE p # 0
      <4>1. p \in 1 .. M
          BY <3>2, <1>1
      <4> QED
          BY <4>1, <3>2, <1>7
    <3> QED
        BY <3>1, <3>2
  <2>2. 0 \in 0 .. M /\ M \in 0 .. M /\ cuts[0] = 0 /\ cuts[M] = IF M = 0 THEN 0 ELSE to(M)
      BY <1>1
  <2>3. M # 0 => to(M) = M
    <3> SUFFICES ASSUME M # 0 PROVE to(M) = M
        OBVIOUS
    <3>1. M \in 1 .. M
        BY <1>1
    <3>2. to(M) \in Nat /\ M <= to(M) /\ to(M) <= M
        BY <3>1, <1>7
    <3> QED
        BY <3>2, <1>1
  <2>4. ASSUME NEW p \in 1 .. M
        PROVE  cuts[p] = to(p) /\ cuts[p - 1] = before(p)
    <3>1. p \in 0 .. M /\ p # 0 /\ p - 1 \in 0 .. M /\ (p - 1 = 0 <=> p = 1)
        BY <1>1
    <3> HIDE DEF to
    <3> QED
        BY <3>1
  <2> HIDE DEF to, before
  <2>5. cuts \in [0 .. M -> Nat]
      BY <2>1
  <2> QED
      BY <2>2, <2>3, <2>4, <2>5
<1> HIDE DEF piece, cuts, before
<1>14. pieces \in Seq(Seq(S)) /\ Len(pieces) = M /\ \A p \in 1 .. M : pieces[p] = piece(p)
    BY <1>1, <1>12
<1> HIDE DEF pieces
<1>15. ASSUME NEW p \in 1 .. M
       PROVE  /\ cuts[p] = cuts[p - 1] + Len(pieces[p])
              /\ cuts[p] <= Len(whole)
              /\ \A i \in 1 .. Len(pieces[p]) : whole[cuts[p - 1] + i] = pieces[p][i]
  <2>1. cuts[p] = to(p) /\ cuts[p - 1] = before(p) /\ pieces[p] = piece(p) /\ to(p) <= Len(whole)
      BY <1>7, <1>13, <1>14 DEF M
  <2> HIDE DEF to
  <2> QED
      BY <2>1, <1>12
<1>16. AreEnds(cuts, pieces, whole)
  <2>1. cuts[M] = Len(whole)
      BY <1>13 DEF M
  <2> QED
      BY <2>1, <1>13, <1>14, <1>15, Zenon DEF AreEnds
<1> QED
    BY <1>2, <1>14, <1>16, FlattenIs

LEMMA GroupedAgain ==
    ASSUME NEW S, NEW found \in Seq(S)
    PROVE  Grouped(Grouped(found)) = Grouped(found)
<1>1. Grouped(found) \in Seq(S)
    BY GroupedRange
<1>2. PICK blocks, ends, at : blocks \in Seq(Seq(S)) /\ AreBlocks(blocks, ends, at, Grouped(found))
    BY GroupedLayout
<1> QED
    BY <1>1, <1>2, BlocksStay

(* What was decoded compresses, by a node that knows its types, and comes   *)
(* back as it is.                                                           *)
THEOREM CodecIsIdempotent ==
    ASSUME NEW types, TypesFit(types), NEW r \in Reports, Compresses(r, types),
           NEW known, TypesFit(known), \A k \in DOMAIN r.found : r.found[k].type \in known
    PROVE  LET read == Decode(Compress(r))
           IN  Compresses(read, known) /\ Decode(Compress(read)) = read
<1> DEFINE bits == Compress(r)
           read == Decode(bits)
           found == r.found
           R == Readings(found)
           G == Grouped(R)
           S == {Read(found[k]) : k \in DOMAIN found}
           HasSize(s) == Len(EncodeVulnerabilities(s)) = SizeOfCodes(Range(Codes(s)))
<1>1. found \in Seq(Instances) /\ \A k \in DOMAIN found : found[k] \in Instances /\ InstanceFits(found[k], types)
    BY DEF Reports, Compresses
<1>2. /\ read.version = r.version /\ read.audit_state = r.audit_state
      /\ read.status = r.status /\ read.hash.digits = r.hash.digits
      /\ read.found = G /\ Range(G) = S /\ Len(bits) % HexBits = 0
    BY CodecIsFaithful
<1>3. R \in Seq(S) /\ G \in Seq(S)
    BY <1>1, ReadingsRange, GroupedRange
<1>4. \A v \in S : /\ v \in Instances /\ Read(v) = v /\ InstanceFits(v, known)
                   /\ \E k \in DOMAIN found : v = Read(found[k]) /\ EncodeInstance(v) = EncodeInstance(found[k])
  <2> SUFFICES ASSUME NEW k \in DOMAIN found, NEW v, v = Read(found[k])
               PROVE  /\ v \in Instances /\ Read(v) = v /\ InstanceFits(v, known)
                      /\ EncodeInstance(v) = EncodeInstance(found[k])
      OBVIOUS
  <2>1. found[k] \in Instances /\ InstanceFits(found[k], types) /\ found[k].type \in known
      BY <1>1
  <2> QED
      BY <2>1, ReadAgain
<1>5. G \in Seq(Instances) /\ \A k \in DOMAIN G : InstanceFits(G[k], known) /\ Read(G[k]) = G[k]
  <2> HIDE DEF G, S
  <2>1. \A k \in DOMAIN G : G[k] \in S
      BY <1>3
  <2>2. S \subseteq Instances
      BY <1>4
  <2>3. G \in Seq(Instances)
      BY <2>2, <1>3, SeqMonotonic
  <2> QED
      BY <2>1, <2>3, <1>4
<1>6. IsInjective(G)
    BY <1>1, <1>3, ReadingsDiffer, GroupedDiffers
<1>7. Readings(G) = G
    BY <1>5, <1>6, ReadingsOfReadings
<1>8. Grouped(G) = G
    BY <1>3, GroupedAgain
<1>9. read \in Reports
  <2>1. read = [version |-> read.version, audit_state |-> read.audit_state, status |-> read.status,
                hash |-> read.hash, found |-> read.found]
      BY DEF Decode
  <2>2. read.hash = [digits |-> read.hash.digits, case |-> "upper"]
      BY DEF Decode
  <2> HIDE DEF read
  <2>3. /\ r.version \in [1 .. 3 -> Nat] /\ r.audit_state \in {StateSuccess, StateError}
        /\ r.status \in {"success", "error"} /\ r.hash.digits \in 0 .. PowerOf2[HashSize] - 1
      BY DEF Reports
  <2>4. read.hash \in [digits : 0 .. PowerOf2[HashSize] - 1, case : {"lower", "upper"}]
      BY <2>2, <2>3, <1>2
  <2> QED
      BY <2>1, <2>3, <2>4, <1>2, <1>5 DEF Reports
<1>10. FitsAll(read, known)
    BY <1>2, <1>5 DEF FitsAll, Compresses
<1> HIDE DEF read, bits, found, R, G, S
<1>11. Range(Codes(G)) = Range(Codes(found))
  <2>1. Range(Codes(G)) = {EncodeInstance(G[k]) : k \in DOMAIN G}
      BY DEF Range, Codes
  <2>2. Range(Codes(found)) = {EncodeInstance(found[k]) : k \in DOMAIN found}
      BY DEF Range, Codes
  <2>3. Range(G) = {G[k] : k \in DOMAIN G}
      BY DEF Range
  <2>4. ASSUME NEW k \in DOMAIN G
        PROVE  \E j \in DOMAIN found : EncodeInstance(G[k]) = EncodeInstance(found[j])
    <3>1. G[k] \in S
        BY <2>3, <1>2
    <3> QED
        BY <3>1, <1>4
  <2>5. ASSUME NEW j \in DOMAIN found
        PROVE  \E k \in DOMAIN G : EncodeInstance(G[k]) = EncodeInstance(found[j])
    <3>1. Read(found[j]) \in Range(G)
        BY <1>2 DEF S
    <3>2. PICK k \in DOMAIN G : G[k] = Read(found[j])
        BY <3>1, <2>3
    <3>3. EncodeInstance(Read(found[j])) = EncodeInstance(found[j])
        BY <1>1, ReadAgain
    <3> QED
        BY <3>2, <3>3
  <2> QED
      BY <2>1, <2>2, <2>4, <2>5
<1>12. Len(EncodeVulnerabilities(G)) = Len(EncodeVulnerabilities(found))
  <2>1. HasSize(found)
      BY <1>1, SizeOfVulnerabilities
  <2>2. HasSize(G)
      BY <1>5, SizeOfVulnerabilities
  <2> QED
      BY <2>1, <2>2, <1>11
<1>13. Len(Compress(read)) = Len(bits)
  <2>1. Len(Compress(read)) = HeaderSize + HashSize + Len(EncodeVulnerabilities(G))
      BY <1>2, <1>9, <1>10, DecodesHeader
  <2>2. Len(bits) = HeaderSize + HashSize + Len(EncodeVulnerabilities(found))
      BY DecodesHeader DEF bits, found, Compresses, FitsAll
  <2> QED
      BY <2>1, <2>2, <1>12
<1>14. Compresses(read, known)
    BY <1>2, <1>10, <1>13 DEF Compresses, FitsAll
<1> DEFINE again == Decode(Compress(read))
<1>15. /\ again.version = read.version /\ again.audit_state = read.audit_state
       /\ again.status = read.status /\ again.hash.digits = read.hash.digits
       /\ again.found = Grouped(Readings(read.found))
    BY <1>9, <1>14, CodecIsFaithful
<1>16. again.found = read.found
    BY <1>2, <1>7, <1>8, <1>15
<1>17. again = read
  <2>1. /\ read = [version |-> read.version, audit_state |-> read.audit_state, status |-> read.status,
                   hash |-> [digits |-> read.hash.digits, case |-> "upper"], found |-> read.found]
      BY DEF Decode, read
  <2>2. /\ again = [version |-> again.version, audit_state |-> again.audit_state, status |-> again.status,
                    hash |-> [digits |-> again.hash.digits, case |-> "upper"], found |-> again.found]
      BY DEF Decode
  <2> HIDE DEF again
  <2> QED
      BY <2>1, <2>2, <1>15, <1>16
<1> QED
    BY <1>14, <1>17 DEF read, bits
=============================================================================
