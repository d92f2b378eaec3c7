-------------------------- MODULE FlatteningProofs --------------------------
(***************************************************************************)
(* FlattenSeq, and induction over the numbers up to a bound.               *)
(*                                                                         *)
(* Induction is over sets: a set of numbers with 0 and, with each number,  *)
(* the next one has them all, since the numbers that it lacks would have a *)
(* least one.                                                              *)
(***************************************************************************)
EXTENDS Integers, SequencesExt, SequenceTheorems, WellFoundedInduction, TLAPS

-----------------------------------------------------------------------------
(* Induction and recursion up to a number.                                  *)

LEMMA Induction ==
    ASSUME NEW N \in Nat, NEW T, 0 \in T, \A k \in 1 .. N : k - 1 \in T => k \in T
    PROVE  0 .. N \subseteq T
<1> DEFINE Lacks == (0 .. N) \ T
           Less  == OpToRel(<, Nat)
<1> SUFFICES ASSUME Lacks # {} PROVE FALSE
    OBVIOUS
<1>1. IsWellFoundedOn(Less, Nat)
    BY NatLessThanWellFounded
<1>2. Lacks \subseteq Nat
    OBVIOUS
<1> HIDE DEF Lacks, Less
<1>3. PICK x \in Lacks : \A y \in Lacks : ~ (<<y, x>> \in Less)
    BY <1>1, <1>2, WFMin
<1>4. x # 0 /\ x \in 1 .. N /\ x - 1 \in 0 .. N
    BY DEF Lacks
<1>5. <<x - 1, x>> \in Less
    BY <1>4 DEF Less, OpToRel
<1> QED
    BY <1>3, <1>4, <1>5 DEF Lacks

Solves(f, m, base, step, S) ==
    f \in [0 .. m -> S] /\ f[0] = base /\ \A k \in 1 .. m : f[k] = step[k][f[k - 1]]

LEMMA Recursion ==
    ASSUME NEW N \in Nat, NEW S, NEW base \in S, NEW step \in [1 .. N -> [S -> S]]
    PROVE  \E f : Solves(f, N, base, step, S)
<1> DEFINE T == {m \in 0 .. N : \E f : Solves(f, m, base, step, S)}
<1>1. 0 \in T
  <2>1. Solves([k \in 0 .. 0 |-> base], 0, base, step, S)
      BY DEF Solves
  <2> QED
      BY <2>1
<1>2. ASSUME NEW m \in 1 .. N, m - 1 \in T
      PROVE  m \in T
  <2>1. PICK f : Solves(f, m - 1, base, step, S)
      BY <1>2
  <2> DEFINE g == [k \in 0 .. m |-> IF k = m THEN step[m][f[m - 1]] ELSE f[k]]
  <2>2. f[m - 1] \in S /\ step[m] \in [S -> S]
      BY <2>1 DEF Solves
  <2>3. g \in [0 .. m -> S] /\ g[0] = base
      BY <2>1, <2>2 DEF Solves
  <2>4. ASSUME NEW k \in 1 .. m
        PROVE  g[k] = step[k][g[k - 1]]
    <3>1. k - 1 \in 0 .. m /\ k - 1 # m /\ g[k - 1] = f[k - 1]
        OBVIOUS
    <3>2. CASE k = m
        BY <3>1, <3>2
    <3>3. CASE k # m
      <4>1. k \in 1 .. m - 1 /\ g[k] = f[k]
          BY <3>3
      <4> QED
          BY <4>1, <3>1, <2>1 DEF Solves
    <3> QED
        BY <3>2, <3>3
  <2> HIDE DEF g
  <2>5. Solves(g, m, base, step, S)
      BY <2>3, <2>4 DEF Solves
  <2> QED
      BY <2>5
<1>3. 0 .. N \subseteq T
  <2> HIDE DEF T
  <2> QED
      BY <1>1, <1>2, Induction
<1> QED
    BY <1>3

LEMMA SolvesFacts ==
    ASSUME NEW m \in Nat, NEW S, NEW base, NEW step, NEW f, Solves(f, m, base, step, S)
    PROVE  /\ \A k \in 0 .. m : f[k] \in S
           /\ \A k \in 1 .. m : f[k - 1] \in S
           /\ \A k \in 0 .. m : f[k] = IF k = 0 THEN base ELSE step[k][f[k - 1]]
    BY DEF Solves

-----------------------------------------------------------------------------
(* Sequences that are put together from pieces.                             *)

LEMMA ConcatParts ==
    ASSUME NEW S, NEW s \in Seq(S), NEW t \in Seq(S), NEW whole, whole = s \o t
    PROVE  /\ whole \in Seq(S) /\ Len(s) \in Nat /\ Len(t) \in Nat
           /\ Len(whole) = Len(s) + Len(t)
           /\ \A i \in 1 .. Len(s) : whole[i] = s[i]
           /\ \A i \in 1 .. Len(t) : whole[Len(s) + i] = t[i]
    OBVIOUS

LEMMA NotEmpty ==
    ASSUME NEW s, Len(s) # 0
    PROVE  s # <<>>
    OBVIOUS

LEMMA LengthsAdd ==
    ASSUME NEW s, NEW t, NEW whole, Len(whole) = Len(s) + Len(t), Len(s) \in Nat, Len(t) \in Nat
    PROVE  /\ Len(s) <= Len(whole)
           /\ \A n \in Nat : n <= Len(s) => n <= Len(whole)
           /\ \A i \in 1 .. Len(t) : Len(s) + i \in 1 .. Len(whole)
    OBVIOUS

(* The equations that the recursion of FlattenSeq stands for.               *)
LEMMA FlattenRecursion ==
    ASSUME NEW S, NEW pieces \in Seq(Seq(S)), pieces # <<>>
    PROVE  \E flat \in [0 .. Len(pieces) -> Seq(S)] :
               /\ flat[0] = <<>>
               /\ \A k \in 1 .. Len(pieces) : flat[k] = flat[k - 1] \o pieces[k]
               /\ FlattenSeq(pieces) = flat[Len(pieces)]
<1> DEFINE N == Len(pieces)
           step == [k \in 1 .. N |-> [v \in Seq(S) |-> v \o pieces[k]]]
           Equation(f) == f = [k \in 1 .. N |-> IF k = 1 THEN pieces[k] ELSE f[k - 1] \o pieces[k]]
           flatten == CHOOSE f : Equation(f)
           flat == [k \in 0 .. N |-> IF k = 0 THEN <<>> ELSE flatten[k]]
<1>1. N \in Nat /\ N # 0 /\ \A k \in 1 .. N : pieces[k] \in Seq(S)
    OBVIOUS
<1>2. /\ step \in [1 .. N -> [Seq(S) -> Seq(S)]]
      /\ \A k \in 1 .. N, v \in Seq(S) : step[k][v] = v \o pieces[k]
    BY <1>1
<1>3. <<>> \in Seq(S) /\ \A v \in Seq(S) : <<>> \o v = v
    BY ConcatEmptySeq
<1>4. FlattenSeq(pieces) = flatten[N]
    BY <1>1 DEF FlattenSeq
<1> HIDE DEF N, step
<1>5. PICK f : Solves(f, N, <<>>, step, Seq(S))
    BY <1>1, <1>2, <1>3, Recursion
<1>6. \A k \in 1 .. N : f[k - 1] \in Seq(S)
    BY <1>1, <1>5, SolvesFacts
<1>7. \A k \in 0 .. N : f[k] = IF k = 0 THEN <<>> ELSE step[k][f[k - 1]]
    BY <1>1, <1>5, SolvesFacts
<1>8. \A k \in 1 .. N : f[k] = f[k - 1] \o pieces[k]
  <2> SUFFICES ASSUME NEW k \in 1 .. N PROVE f[k] = f[k - 1] \o pieces[k]
      OBVIOUS
  <2>1. k \in 0 .. N /\ k # 0
      BY <1>1
  <2>2. f[k] = step[k][f[k - 1]]
      BY <2>1, <1>7
  <2> QED
      BY <2>2, <1>2, <1>6
<1>9. f[0] = <<>> /\ \A k \in 1 .. N : k = 1 => f[k] = pieces[k]
  <2>1. 0 \in 0 .. N
      BY <1>1
  <2>2. f[0] = <<>>
      BY <2>1, <1>7
  <2>3. ASSUME NEW k \in 1 .. N, k = 1
        PROVE  f[k] = pieces[k]
    <3>1. k - 1 = 0 /\ pieces[k] \in Seq(S)
        BY <2>3, <1>1
    <3>2. f[k] = f[k - 1] \o pieces[k]
        BY <1>8
    <3> QED
        BY <3>1, <3>2, <2>2, <1>3
  <2> QED
      BY <2>2, <2>3
<1>10. Equation([k \in 1 .. N |-> f[k]])
  <2> DEFINE g == [k \in 1 .. N |-> f[k]]
  <2>1. ASSUME NEW k \in 1 .. N
        PROVE  g[k] = IF k = 1 THEN pieces[k] ELSE g[k - 1] \o pieces[k]
    <3>1. CASE k = 1
        BY <3>1, <1>9
    <3>2. CASE k # 1
      <4>1. k - 1 \in 1 .. N
          BY <3>2, <1>1
      <4> QED
          BY <4>1, <3>2, <1>8
    <3> QED
        BY <3>1, <3>2
  <2> QED
      BY <2>1
<1>11. Equation(flatten)
  <2> HIDE DEF Equation
  <2> QED
      BY <1>10
<1> HIDE DEF flatten
<1>12. \A k \in 1 .. N : flatten[k] = IF k = 1 THEN pieces[k] ELSE flatten[k - 1] \o pieces[k]
    BY <1>11
<1>13. flat[0] = <<>> /\ \A k \in 1 .. N : flat[k] = flat[k - 1] \o pieces[k]
  <2>1. flat[0] = <<>>
      BY <1>1
  <2>2. ASSUME NEW k \in 1 .. N
        PROVE  flat[k] = flat[k - 1] \o pieces[k]
    <3>1. k - 1 \in 0 .. N /\ flat[k] = flatten[k]
        BY <1>1
    <3>2. CASE k = 1
        BY <3>1, <3>2, <2>1, <1>1, <1>3, <1>12
    <3>3. CASE k # 1
      <4>1. k - 1 # 0 /\ flat[k - 1] = flatten[k - 1]
          BY <1>1, <3>1, <3>3
      <4> QED
          BY <4>1, <3>1, <3>3, <1>12
    <3> QED
        BY <3>2, <3>3
  <2> QED
      BY <2>1, <2>2
<1> DEFINE T == {k \in 0 .. N : flat[k] \in Seq(S)}
<1> HIDE DEF flat
<1>14. 0 \in T
  <2>1. 0 \in 0 .. N
      BY <1>1
  <2> QED
      BY <2>1, <1>3, <1>13
<1>15. ASSUME NEW k \in 1 .. N, k - 1 \in T
       PROVE  k \in T
  <2>1. flat[k - 1] \in Seq(S) /\ pieces[k] \in Seq(S) /\ flat[k] = flat[k - 1] \o pieces[k]
      BY <1>1, <1>13, <1>15
  <2>2. flat[k] \in Seq(S) /\ k \in 0 .. N
      BY <2>1, <1>1, ConcatProperties
  <2> QED
      BY <2>2
<1> HIDE DEF T
<1>16. 0 .. N \subseteq T
    BY <1>1, <1>14, <1>15, Induction
<1>17. flat \in [0 .. N -> Seq(S)]
  <2>1. \A k \in 0 .. N : flat[k] \in Seq(S)
      BY <1>16 DEF T
  <2> QED
      BY <2>1 DEF flat
<1>18. FlattenSeq(pieces) = flat[N]
    BY <1>1, <1>4 DEF flat
<1> QED
    BY <1>13, <1>17, <1>18 DEF N

(* Where the pieces end within the whole that they make up.                 *)
AreEnds(ends, pieces, whole) ==
    /\ ends \in [0 .. Len(pieces) -> Nat]
    /\ ends[0] = 0 /\ ends[Len(pieces)] = Len(whole)
    /\ \A k \in 1 .. Len(pieces) :
          /\ ends[k] = ends[k - 1] + Len(pieces[k])
          /\ ends[k] <= Len(whole)
          /\ \A i \in 1 .. Len(pieces[k]) : whole[ends[k - 1] + i] = pieces[k][i]

(* Each piece is found again, behind the end of the one before.             *)
LEMMA FlattenPieces ==
    ASSUME NEW S, NEW pieces \in Seq(Seq(S))
    PROVE  /\ FlattenSeq(pieces) \in Seq(S)
           /\ \E ends : AreEnds(ends, pieces, FlattenSeq(pieces))
<1>1. CASE pieces = <<>>
  <2>1. Len(pieces) = 0 /\ FlattenSeq(pieces) = <<>>
      BY <1>1 DEF FlattenSeq
  <2> DEFINE ends == [k \in 0 .. 0 |-> 0]
  <2>2. ends \in [0 .. Len(pieces) -> Nat] /\ ends[0] = 0
      BY <2>1
  <2> HIDE DEF ends
  <2>3. ends[Len(pieces)] = Len(FlattenSeq(pieces)) /\ 1 .. Len(pieces) = {}
      BY <2>1, <2>2
  <2> QED
      BY <2>1, <2>2, <2>3 DEF AreEnds
<1>2. CASE pieces # <<>>
  <2>1. PICK flat \in [0 .. Len(pieces) -> Seq(S)] :
            /\ flat[0] = <<>>
            /\ \A k \in 1 .. Len(pieces) : flat[k] = flat[k - 1] \o pieces[k]
            /\ FlattenSeq(pieces) = flat[Len(pieces)]
      BY <1>2, FlattenRecursion
  <2> DEFINE N == Len(pieces)
             ends == [k \in 0 .. N |-> Len(flat[k])]
  <2>2. /\ N \in Nat
        /\ \A k \in 1 .. N : pieces[k] \in Seq(S) /\ k - 1 \in 0 .. N /\ k \in 0 .. N
        /\ \A k \in 0 .. N : flat[k] \in Seq(S) /\ Len(flat[k]) \in Nat
      OBVIOUS
  <2>3. \A k \in 1 .. N : flat[k] = flat[k - 1] \o pieces[k]
      BY <2>1
  <2> HIDE DEF N
  <2>4. ASSUME NEW k \in 1 .. N
        PROVE  /\ Len(flat[k]) = Len(flat[k - 1]) + Len(pieces[k])
               /\ \A i \in 1 .. Len(flat[k - 1]) : flat[k][i] = flat[k - 1][i]
               /\ \A i \in 1 .. Len(pieces[k]) : flat[k][Len(flat[k - 1]) + i] = pieces[k][i]
    <3>1. flat[k - 1] \in Seq(S) /\ pieces[k] \in Seq(S) /\ flat[k] = flat[k - 1] \o pieces[k]
        BY <2>2, <2>3
    <3> QED
      <4> DEFINE s == flat[k - 1]
                 t == pieces[k]
                 whole == flat[k]
      <4>1. s \in Seq(S) /\ t \in Seq(S) /\ whole = s \o t
          BY <3>1
      <4> HIDE DEF s, t, whole
      <4>2. /\ Len(whole) = Len(s) + Len(t)
            /\ \A i \in 1 .. Len(s) : whole[i] = s[i]
            /\ \A i \in 1 .. Len(t) : whole[Len(s) + i] = t[i]
          BY <4>1, ConcatParts
      <4> QED
          BY <4>2, Zenon DEF s, t, whole
  <2> DEFINE IsPrefixOf(k, m) == /\ Len(flat[k]) <= Len(flat[m])
                                 /\ \A i \in 1 .. Len(flat[k]) : flat[m][i] = flat[k][i]
             T == {m \in 0 .. N : \A k \in 0 .. m : IsPrefixOf(k, m)}
  <2>5. 0 \in T
      BY <2>2
  <2>6. ASSUME NEW m \in 1 .. N, m - 1 \in T
        PROVE  m \in T
    <3> SUFFICES ASSUME NEW k \in 0 .. m PROVE IsPrefixOf(k, m)
        BY <2>2
    <3>1. CASE k = m
        BY <3>1, <2>2
    <3>2. CASE k # m
      <4>1. k \in 0 .. m - 1 /\ k \in 0 .. N
          BY <3>2, <2>2
      <4>2. IsPrefixOf(k, m - 1)
          BY <4>1, <2>6
      <4>3. Len(flat[k]) \in Nat /\ Len(flat[m - 1]) \in Nat /\ Len(pieces[m]) \in Nat
          BY <4>1, <2>2
      <4>4. Len(flat[m]) = Len(flat[m - 1]) + Len(pieces[m]) /\ Len(flat[k]) <= Len(flat[m])
        <5>1. Len(flat[m]) = Len(flat[m - 1]) + Len(pieces[m])
            BY <2>4
        <5> QED
            BY <5>1, <4>2, <4>3, LengthsAdd
      <4>5. ASSUME NEW i \in 1 .. Len(flat[k])
            PROVE  flat[m][i] = flat[k][i]
        <5>1. i \in 1 .. Len(flat[m - 1])
            BY <4>2, <4>3
        <5> QED
            BY <5>1, <4>2, <2>4
      <4> QED
          BY <4>4, <4>5
    <3> QED
        BY <3>1, <3>2
  <2> HIDE DEF T
  <2>7. 0 .. N \subseteq T
      BY <2>2, <2>5, <2>6, Induction
  <2>8. \A k \in 0 .. N : IsPrefixOf(k, N)
    <3>1. N \in T
        BY <2>2, <2>7
    <3> QED
        BY <3>1 DEF T
  <2>9. FlattenSeq(pieces) = flat[N] /\ FlattenSeq(pieces) \in Seq(S)
      BY <2>1, <2>2 DEF N
  <2>10. ends \in [0 .. N -> Nat] /\ ends[0] = 0 /\ ends[N] = Len(FlattenSeq(pieces))
      BY <2>1, <2>2, <2>9
  <2>11. ASSUME NEW k \in 1 .. N
         PROVE  /\ ends[k] = ends[k - 1] + Len(pieces[k])
                /\ ends[k] <= Len(FlattenSeq(pieces))
                /\ \A i \in 1 .. Len(pieces[k]) :
                      FlattenSeq(pieces)[ends[k - 1] + i] = pieces[k][i]
    <3>1. ends[k] = Len(flat[k]) /\ ends[k - 1] = Len(flat[k - 1])
        BY <2>2
    <3>2. ends[k] = ends[k - 1] + Len(pieces[k])
        BY <3>1, <2>4
    <3>3. IsPrefixOf(k, N)
        BY <2>2, <2>8
    <3>4. ASSUME NEW i \in 1 .. Len(pieces[k])
          PROVE  FlattenSeq(pieces)[ends[k - 1] + i] = pieces[k][i]
      <4>1. Len(flat[k - 1]) \in Nat /\ Len(pieces[k]) \in Nat
          BY <2>2
      <4>2. Len(flat[k - 1]) + i \in 1 .. Len(flat[k])
        <5>1. Len(flat[k]) = Len(flat[k - 1]) + Len(pieces[k])
            BY <2>4
        <5> QED
            BY <5>1, <4>1, LengthsAdd
      <4>3. flat[N][Len(flat[k - 1]) + i] = flat[k][Len(flat[k - 1]) + i]
          BY <4>2, <3>3
      <4> QED
          BY <4>3, <3>1, <2>4, <2>9
    <3> QED
        BY <3>1, <3>2, <3>3, <3>4, <2>9
  <2> HIDE DEF ends
  <2>12. AreEnds(ends, pieces, FlattenSeq(pieces))
      BY <2>10, <2>11 DEF N, AreEnds
  <2> QED
      BY <2>9, <2>12
<1> QED
    BY <1>1, <1>2

LEMMA FlattenRange ==
    ASSUME NEW S, NEW pieces \in Seq(Seq(S))
    PROVE  Range(FlattenSeq(pieces)) = UNION {Range(pieces[k]) : k \in 1 .. Len(pieces)}
<1>1. CASE pieces = <<>>
  <2>1. Len(pieces) = 0 /\ FlattenSeq(pieces) = <<>> /\ Range(<<>>) = {}
      BY <1>1 DEF FlattenSeq, Range
  <2> QED
      BY <2>1
<1>2. CASE pieces # <<>>
  <2>1. PICK flat \in [0 .. Len(pieces) -> Seq(S)] :
            /\ flat[0] = <<>>
            /\ \A k \in 1 .. Len(pieces) : flat[k] = flat[k - 1] \o pieces[k]
            /\ FlattenSeq(pieces) = flat[Len(pieces)]
      BY <1>2, FlattenRecursion
  <2> DEFINE N == Len(pieces)
             T == {m \in 0 .. N : Range(flat[m]) = UNION {Range(pieces[k]) : k \in 1 .. m}}
  <2>2. /\ N \in Nat
        /\ \A k \in 1 .. N : pieces[k] \in Seq(S) /\ k - 1 \in 0 .. N /\ k \in 0 .. N
        /\ \A k \in 0 .. N : flat[k] \in Seq(S)
      BY SMTT(30)
  <2>7. \A k \in 1 .. N : flat[k] = flat[k - 1] \o pieces[k]
      BY <2>1
  <2> HIDE DEF N
  <2>3. 0 \in T
    <3>1. 0 \in 0 .. N /\ 1 .. 0 = {} /\ Range(<<>>) = {}
        BY <2>2 DEF Range
    <3> QED
        BY <3>1, <2>1
  <2>4. ASSUME NEW m \in 1 .. N, m - 1 \in T
        PROVE  m \in T
    <3>1. Range(flat[m]) = Range(flat[m - 1]) \cup Range(pieces[m])
      <4>1. flat[m - 1] \in Seq(S) /\ pieces[m] \in Seq(S) /\ flat[m] = flat[m - 1] \o pieces[m]
          BY <2>2, <2>7
      <4> QED
          BY <4>1, RangeConcatenation
    <3>2. 1 .. m = (1 .. m - 1) \cup {m} /\ m \in 0 .. N
        BY <2>2
    <3>3. Range(flat[m - 1]) = UNION {Range(pieces[k]) : k \in 1 .. m - 1}
        BY <2>4
    <3>4. Range(flat[m]) = UNION {Range(pieces[k]) : k \in 1 .. m}
        BY <3>1, <3>2, <3>3
    <3> QED
        BY <3>2, <3>4
  <2> HIDE DEF T
  <2>5. 0 .. N \subseteq T
      BY <2>2, <2>3, <2>4, Induction
  <2>6. N \in T
      BY <2>2, <2>5
  <2> QED
      BY <2>1, <2>6 DEF T, N
<1> QED
    BY <1>1, <1>2

-----------------------------------------------------------------------------
(* Positions within the whole.                                              *)

LEMMA EndsFacts ==
    ASSUME NEW S, NEW pieces \in Seq(Seq(S)), NEW whole, NEW ends, AreEnds(ends, pieces, whole),
           NEW N, N = Len(pieces)
    PROVE  /\ N \in Nat /\ ends[0] = 0 /\ ends[N] = Len(whole) /\ \A m \in 0 .. N : ends[m] \in Nat
           /\ \A m \in 1 .. N : m - 1 \in 0 .. N /\ m \in 0 .. N
           /\ \A m \in 1 .. N : ends[m] = ends[m - 1] + Len(pieces[m]) /\ Len(pieces[m]) \in Nat
           /\ \A m \in 1 .. N : \A i \in 1 .. Len(pieces[m]) : whole[ends[m - 1] + i] = pieces[m][i]
<1>1. N \in Nat /\ \A m \in 1 .. N : pieces[m] \in Seq(S)
    OBVIOUS
<1>2. \A m \in 1 .. N : Len(pieces[m]) \in Nat
    BY <1>1
<1>3. \A m \in 1 .. N : m - 1 \in 0 .. N /\ m \in 0 .. N
    BY <1>1
<1>4. /\ ends \in [0 .. N -> Nat]
      /\ ends[0] = 0 /\ ends[N] = Len(whole)
      /\ \A m \in 1 .. N :
            /\ ends[m] = ends[m - 1] + Len(pieces[m])
            /\ \A i \in 1 .. Len(pieces[m]) : whole[ends[m - 1] + i] = pieces[m][i]
    BY Zenon DEF AreEnds
<1> QED
    BY <1>1, <1>2, <1>3, <1>4

LEMMA EndsGrow ==
    ASSUME NEW S, NEW pieces \in Seq(Seq(S)), NEW whole, NEW ends, AreEnds(ends, pieces, whole),
           NEW j \in 0 .. Len(pieces), NEW k \in j .. Len(pieces)
    PROVE  ends[j] <= ends[k]
<1> DEFINE N == Len(pieces)
           T == {m \in 0 .. N : m >= j => ends[j] <= ends[m]}
<1>1. /\ N \in Nat /\ \A m \in 0 .. N : ends[m] \in Nat
      /\ \A m \in 1 .. N : ends[m] = ends[m - 1] + Len(pieces[m]) /\ Len(pieces[m]) \in Nat
    BY EndsFacts
<1>2. j \in 0 .. N /\ k \in j .. N
    OBVIOUS
<1> HIDE DEF N
<1>3. 0 \in T
    BY <1>1, <1>2
<1>4. ASSUME NEW m \in 1 .. N, m - 1 \in T
      PROVE  m \in T
  <2>1. m \in 0 .. N /\ m - 1 \in 0 .. N
      BY <1>1
  <2>2. CASE m = j
      BY <2>1, <2>2, <1>1
  <2>3. CASE m # j
    <3>1. ends[m] = ends[m - 1] + Len(pieces[m]) /\ Len(pieces[m]) \in Nat /\ ends[m - 1] \in Nat /\ ends[j] \in Nat
        BY <2>1, <1>1, <1>2
    <3> DEFINE before == ends[m - 1]
               after == ends[m]
               from == ends[j]
               new == Len(pieces[m])
    <3>2. /\ after = before + new /\ new \in Nat /\ before \in Nat /\ from \in Nat
          /\ m >= j => from <= before
        BY <2>3, <3>1, <1>2, <1>4
    <3> HIDE DEF before, after, from, new
    <3>3. m >= j => from <= after
        BY <3>2
    <3> QED
        BY <2>1, <3>3 DEF from, after
  <2> QED
      BY <2>2, <2>3
<1> HIDE DEF T
<1>5. 0 .. N \subseteq T
    BY <1>1, <1>3, <1>4, Induction
<1>6. k \in T /\ k >= j
    BY <1>1, <1>2, <1>5
<1> QED
    BY <1>6 DEF T

(* Position p belongs to piece k.                                           *)
Belongs(p, k, ends, pieces, whole) ==
    /\ ends[k - 1] < p /\ p <= ends[k]
    /\ p - ends[k - 1] \in 1 .. Len(pieces[k])
    /\ whole[p] = pieces[k][p - ends[k - 1]]

(* Every position belongs to a piece.                                       *)
LEMMA PieceAt ==
    ASSUME NEW S, NEW pieces \in Seq(Seq(S)), NEW whole, NEW ends, AreEnds(ends, pieces, whole),
           NEW p \in 1 .. Len(whole), Len(whole) \in Nat
    PROVE  \E k \in 1 .. Len(pieces) : Belongs(p, k, ends, pieces, whole)
<1> DEFINE N == Len(pieces)
           Holds(k) == ends[k - 1] < p /\ p <= ends[k]
           T == {m \in 0 .. N : p <= ends[m] => \E k \in 1 .. N : Holds(k)}
<1>1. /\ N \in Nat /\ ends[0] = 0 /\ ends[N] = Len(whole) /\ \A m \in 0 .. N : ends[m] \in Nat
      /\ \A m \in 1 .. N : m - 1 \in 0 .. N /\ m \in 0 .. N
      /\ \A m \in 1 .. N : ends[m] = ends[m - 1] + Len(pieces[m]) /\ Len(pieces[m]) \in Nat
      /\ \A m \in 1 .. N : \A i \in 1 .. Len(pieces[m]) : whole[ends[m - 1] + i] = pieces[m][i]
  <2> HIDE DEF T, Holds
  <2>1. N = Len(pieces)
      OBVIOUS
  <2> HIDE DEF N
  <2>2. N \in Nat /\ ends[0] = 0 /\ ends[N] = Len(whole) /\ \A m \in 0 .. N : ends[m] \in Nat
      BY <2>1, EndsFacts
  <2>3. /\ \A m \in 1 .. N : m - 1 \in 0 .. N /\ m \in 0 .. N
        /\ \A m \in 1 .. N : ends[m] = ends[m - 1] + Len(pieces[m]) /\ Len(pieces[m]) \in Nat
      BY <2>1, EndsFacts
  <2>4. \A m \in 1 .. N : \A i \in 1 .. Len(pieces[m]) : whole[ends[m - 1] + i] = pieces[m][i]
      BY <2>1, Zenon DEF AreEnds
  <2> QED
      BY <2>2, <2>3, <2>4
<1>2. p \in Nat /\ p > 0 /\ p <= Len(whole)
    OBVIOUS
<1> HIDE DEF N
<1>3. 0 \in T
    BY <1>1, <1>2
<1>4. ASSUME NEW m \in 1 .. N, m - 1 \in T
      PROVE  m \in T
  <2>1. m \in 0 .. N /\ ends[m] \in Nat /\ ends[m - 1] \in Nat
      BY <1>1
  <2>2. CASE p <= ends[m - 1]
      BY <2>1, <2>2, <1>4
  <2>3. CASE ~(p <= ends[m - 1])
    <3>1. p <= ends[m] => Holds(m)
        BY <2>1, <2>3, <1>2
    <3> QED
        BY <2>1, <3>1
  <2> QED
      BY <2>2, <2>3
<1> HIDE DEF T
<1>5. 0 .. N \subseteq T
    BY <1>1, <1>3, <1>4, Induction
<1>6. N \in T
    BY <1>1, <1>5
<1>7. PICK k \in 1 .. N : Holds(k)
    BY <1>1, <1>2, <1>6 DEF T
<1> DEFINE before == ends[k - 1]
           after == ends[k]
           length == Len(pieces[k])
           i == p - before
<1>8. before \in Nat /\ length \in Nat /\ after = before + length /\ before < p /\ p <= after
    BY <1>1, <1>7
<1>9. i \in 1 .. length /\ before + i = p
  <2> HIDE DEF before, after, length
  <2> QED
      BY <1>2, <1>8
<1>10. whole[p] = pieces[k][i]
  <2>1. whole[before + i] = pieces[k][i]
    <3> HIDE DEF i
    <3> QED
        BY <1>1, <1>9
  <2> QED
      BY <2>1, <1>9
<1> QED
    BY <1>7, <1>9, <1>10 DEF N, Belongs

(* A sequence that falls into the pieces is what they make up.              *)
LEMMA FlattenIs ==
    ASSUME NEW S, NEW pieces \in Seq(Seq(S)), NEW s \in Seq(S), NEW cuts, AreEnds(cuts, pieces, s)
    PROVE  FlattenSeq(pieces) = s
<1> DEFINE N == Len(pieces)
           whole == FlattenSeq(pieces)
<1>1. whole \in Seq(S) /\ Len(whole) \in Nat /\ Len(s) \in Nat
    BY FlattenPieces
<1>2. PICK ends : AreEnds(ends, pieces, whole)
    BY FlattenPieces
<1>3. /\ N \in Nat /\ ends[0] = 0 /\ ends[N] = Len(whole)
      /\ \A m \in 1 .. N : m - 1 \in 0 .. N
      /\ \A m \in 1 .. N : ends[m] = ends[m - 1] + Len(pieces[m])
      /\ \A m \in 1 .. N : \A i \in 1 .. Len(pieces[m]) : whole[ends[m - 1] + i] = pieces[m][i]
    BY <1>2 DEF AreEnds
<1>4. /\ cuts[0] = 0 /\ cuts[N] = Len(s)
      /\ \A m \in 1 .. N : cuts[m] = cuts[m - 1] + Len(pieces[m])
      /\ \A m \in 0 .. N : cuts[m] \in Nat
    BY DEF AreEnds
<1> HIDE DEF N, whole
<1> DEFINE T == {m \in 0 .. N : ends[m] = cuts[m]}
<1>5. 0 \in T
    BY <1>3, <1>4
<1>6. ASSUME NEW m \in 1 .. N, m - 1 \in T
      PROVE  m \in T
    BY <1>3, <1>4, <1>6
<1> HIDE DEF T
<1>7. 0 .. N \subseteq T
    BY <1>3, <1>5, <1>6, Induction
<1>8. \A m \in 0 .. N : ends[m] = cuts[m]
    BY <1>7 DEF T
<1>9. Len(whole) = Len(s)
  <2>1. N \in 0 .. N
      BY <1>3
  <2> QED
      BY <2>1, <1>3, <1>4, <1>8
<1>10. ASSUME NEW p \in 1 .. Len(s)
       PROVE  whole[p] = s[p]
  <2>1. PICK k \in 1 .. Len(pieces) : Belongs(p, k, cuts, pieces, s)
      BY <1>1, PieceAt
  <2> DEFINE i == p - cuts[k - 1]
  <2>2. k \in 1 .. N /\ i \in 1 .. Len(pieces[k]) /\ s[p] = pieces[k][i]
      BY <2>1 DEF N, Belongs
  <2>3. ends[k - 1] = cuts[k - 1] /\ cuts[k - 1] \in Nat
      BY <2>2, <1>3, <1>4, <1>8
  <2>4. cuts[k - 1] + i = p
      BY <2>3
  <2>5. whole[ends[k - 1] + i] = pieces[k][i]
    <3> HIDE DEF i
    <3> QED
        BY <2>2, <1>3
  <2> QED
      BY <2>2, <2>3, <2>4, <2>5
<1>11. whole = s
    BY <1>1, <1>9, <1>10, SeqEqual
<1> QED
    BY <1>11 DEF whole

LEMMA FlattenSingles ==
    ASSUME NEW S, NEW s \in Seq(S)
    PROVE  FlattenSeq([k \in 1 .. Len(s) |-> <<s[k]>>]) = s
<1> DEFINE N == Len(s)
           pieces == [k \in 1 .. N |-> <<s[k]>>]
           cuts == [k \in 0 .. N |-> k]
<1>1. N \in Nat /\ \A k \in 1 .. N : s[k] \in S
    OBVIOUS
<1>2. \A x \in S : <<x>> \in Seq(S)
    OBVIOUS
<1>3. pieces \in Seq(Seq(S)) /\ Len(pieces) = N
    BY <1>1, <1>2
<1>4. \A k \in 1 .. N : Len(pieces[k]) = 1 /\ pieces[k][1] = s[k]
    BY <1>1
<1> HIDE DEF pieces
<1>5. AreEnds(cuts, pieces, s)
  <2>1. cuts \in [0 .. N -> Nat] /\ cuts[0] = 0 /\ cuts[N] = N
      BY <1>1
  <2>2. ASSUME NEW k \in 1 .. N
        PROVE  /\ cuts[k] = cuts[k - 1] + Len(pieces[k])
               /\ cuts[k] <= Len(s)
               /\ \A i \in 1 .. Len(pieces[k]) : s[cuts[k - 1] + i] = pieces[k][i]
    <3>1. cuts[k] = k /\ cuts[k - 1] = k - 1
        BY <1>1
    <3>2. Len(pieces[k]) = 1 /\ pieces[k][1] = s[k]
        BY <1>4
    <3>3. k - 1 + 1 = k /\ k <= N /\ 1 .. 1 = {1}
        BY <1>1
    <3> HIDE DEF cuts
    <3> QED
        BY <3>1, <3>2, <3>3
  <2> QED
      BY <2>1, <2>2, <1>3 DEF AreEnds
<1> HIDE DEF cuts
<1>6. FlattenSeq(pieces) = s
    BY <1>3, <1>5, FlattenIs
<1> QED
    BY <1>6 DEF pieces

(* Pieces without equal members, and none in common, make up a sequence     *)
(* without equal members.                                                   *)
LEMMA FlattenInjective ==
    ASSUME NEW S, NEW pieces \in Seq(Seq(S)),
           \A k \in 1 .. Len(pieces) : \A i, j \in 1 .. Len(pieces[k]) : pieces[k][i] = pieces[k][j] => i = j,
           \A k, m \in 1 .. Len(pieces) : \A i \in 1 .. Len(pieces[k]), j \in 1 .. Len(pieces[m]) :
               pieces[k][i] = pieces[m][j] => k = m
    PROVE  IsInjective(FlattenSeq(pieces))
<1> DEFINE whole == FlattenSeq(pieces)
<1>1. whole \in Seq(S) /\ Len(whole) \in Nat /\ DOMAIN whole = 1 .. Len(whole)
    BY FlattenPieces
<1>2. PICK ends : AreEnds(ends, pieces, whole)
    BY FlattenPieces
<1>3. \A k \in 1 .. Len(pieces) : ends[k - 1] \in Nat
  <2>1. \A k \in 1 .. Len(pieces) : k - 1 \in 0 .. Len(pieces)
      OBVIOUS
  <2> QED
      BY <1>2, <2>1 DEF AreEnds
<1> HIDE DEF whole
<1>4. ASSUME NEW p \in 1 .. Len(whole), NEW q \in 1 .. Len(whole), whole[p] = whole[q]
      PROVE  p = q
  <2>1. PICK k \in 1 .. Len(pieces) : Belongs(p, k, ends, pieces, whole)
      BY <1>1, <1>2, PieceAt
  <2>2. PICK m \in 1 .. Len(pieces) : Belongs(q, m, ends, pieces, whole)
      BY <1>1, <1>2, PieceAt
  <2> DEFINE i == p - ends[k - 1]
             j == q - ends[m - 1]
  <2>3. /\ i \in 1 .. Len(pieces[k]) /\ j \in 1 .. Len(pieces[m]) /\ pieces[k][i] = pieces[m][j]
      BY <2>1, <2>2, <1>4 DEF Belongs
  <2>4. i = j /\ ends[k - 1] = ends[m - 1] => p = q
      BY <1>1, <1>3, SMTT(30)
  <2> HIDE DEF i, j
  <2>5. k = m
      BY <2>3
  <2>6. i = j
      BY <2>3, <2>5
  <2> QED
      BY <2>4, <2>5, <2>6
<1> QED
    BY <1>1, <1>4 DEF IsInjective, whole

(* It belongs to one piece only, and the last one of what comes before a    *)
(* piece is at the end of its own.                                          *)
LEMMA OnePieceOnly ==
    ASSUME NEW S, NEW pieces \in Seq(Seq(S)), NEW whole, NEW ends, AreEnds(ends, pieces, whole),
           NEW p \in Nat, NEW j \in 1 .. Len(pieces), NEW k \in 1 .. Len(pieces),
           ends[j - 1] < p, p <= ends[j]
    PROVE  /\ ends[k - 1] < p /\ p <= ends[k] => j = k
           /\ p = ends[k - 1] => ends[j] = ends[k - 1]
           /\ ends[j] <= ends[Len(pieces)]
<1> DEFINE N == Len(pieces)
<1>1. /\ N \in Nat /\ j - 1 \in 0 .. N /\ k - 1 \in 0 .. N /\ j \in 0 .. N /\ k \in 0 .. N
      /\ ends[j - 1] \in Nat /\ ends[k - 1] \in Nat /\ ends[j] \in Nat /\ ends[k] \in Nat
  <2>1. N \in Nat /\ j - 1 \in 0 .. N /\ k - 1 \in 0 .. N /\ j \in 0 .. N /\ k \in 0 .. N
      OBVIOUS
  <2>2. \A m \in 0 .. N : ends[m] \in Nat
      BY EndsFacts
  <2> HIDE DEF N
  <2> QED
      BY <2>1, <2>2
<1>2. j < k => ends[j] <= ends[k - 1]
  <2> SUFFICES ASSUME j < k PROVE ends[j] <= ends[k - 1]
      OBVIOUS
  <2> DEFINE m == k - 1
  <2>1. j \in 0 .. N /\ m \in j .. N
      BY <1>1
  <2> HIDE DEF m
  <2> QED
      BY <2>1, EndsGrow DEF m
<1>3. k < j => ends[k] <= ends[j - 1] /\ ends[k - 1] <= ends[j - 1]
  <2> SUFFICES ASSUME k < j PROVE ends[k] <= ends[j - 1] /\ ends[k - 1] <= ends[j - 1]
      OBVIOUS
  <2> DEFINE m == j - 1
             l == k - 1
  <2>1. k \in 0 .. N /\ l \in 0 .. N /\ m \in k .. N /\ m \in l .. N
      BY <1>1
  <2> HIDE DEF m, l
  <2> QED
      BY <2>1, EndsGrow DEF m, l
<1>4. ends[j] <= ends[N]
  <2> DEFINE last == N
  <2>1. j \in 0 .. N /\ last \in j .. N
      BY <1>1
  <2> HIDE DEF last
  <2> QED
      BY <2>1, EndsGrow DEF last
<1>5. j = k \/ j < k \/ k < j
    OBVIOUS
<1> DEFINE fromJ == ends[j - 1]
           toJ == ends[j]
           fromK == ends[k - 1]
           toK == ends[k]
<1>6. /\ fromJ \in Nat /\ toJ \in Nat /\ fromK \in Nat /\ toK \in Nat
      /\ j < k => toJ <= fromK
      /\ k < j => toK <= fromJ /\ fromK <= fromJ
      /\ fromJ < p /\ p <= toJ
      /\ j = k => fromJ = fromK
    BY <1>1, <1>2, <1>3
<1> HIDE DEF fromJ, toJ, fromK, toK
<1>7. fromK < p /\ p <= toK => j = k
    BY <1>5, <1>6
<1>8. p = fromK => toJ = fromK
    BY <1>5, <1>6
<1> QED
    BY <1>4, <1>7, <1>8 DEF fromK, toK, toJ
=============================================================================
