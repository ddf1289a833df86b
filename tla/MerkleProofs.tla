------------------------------ MODULE MerkleProofs ------------------------------
(***************************************************************************)
(* Theorems about Merkle: the shape of the tree and the proofs made from    *)
(* it, for any data.                                                        *)
(***************************************************************************)
EXTENDS Merkle, SequenceTheorems, NaturalsInduction, WellFoundedInduction, TLAPS

(* A set of naturals that has 0 and the successor of each of its members    *)
(* has all of them.                                                         *)
LEMMA SetInduction ==
  ASSUME NEW S, 0 \in S, \A n \in Nat : n \in S => n + 1 \in S
  PROVE  Nat \subseteq S
<1> DEFINE T == Nat \ S
<1>1. SUFFICES ASSUME T # {} PROVE FALSE
  OBVIOUS
<1>2. PICK x \in T : \A y \in T : ~(<<y, x>> \in OpToRel(<, Nat))
  BY <1>1, NatLessThanWellFounded, WFMin
<1>3. \A y \in T : ~(y < x)
  BY <1>2 DEF OpToRel
<1>4. x - 1 \in Nat /\ x - 1 \notin T
  BY <1>3
<1>5. QED
  BY <1>4

--------------------------------------------------------------------------------
(* The recursive functions of the module are what their equations say *)

(* Steps(f, a, step, n): f starts with a and takes n steps.                 *)
Steps(f, a, step, n) == f[0] = a /\ \A k \in 1 .. n : f[k] = step[f[k - 1]]

LEMMA StepsExist ==
  ASSUME NEW a, NEW step, NEW n \in Nat
  PROVE  \E f : Steps(f, a, step, n)
<1> DEFINE S == {m \in Nat : \E f : Steps(f, a, step, m)}
<1>1. 0 \in S
  <2>1. Steps([k \in 0 .. 0 |-> a], a, step, 0)
    BY DEF Steps
  <2> QED
    BY <2>1
<1>2. ASSUME NEW m \in Nat, m \in S PROVE m + 1 \in S
  <2>1. PICK f : Steps(f, a, step, m)
    BY <1>2
  <2> DEFINE g == [k \in 0 .. (m + 1) |-> IF k = m + 1 THEN step[f[m]] ELSE f[k]]
  <2>2. g[0] = a
    BY <2>1 DEF Steps
  <2>3. g[m + 1] = step[f[m]] /\ \A k \in 0 .. m : g[k] = f[k]
    OBVIOUS
  <2> HIDE DEF g
  <2>4. ASSUME NEW k \in 1 .. (m + 1) PROVE g[k] = step[g[k - 1]]
    <3>1. CASE k = m + 1
      <4>1. k - 1 = m /\ m \in 0 .. m
        BY <3>1
      <4> QED
        BY <2>3, <3>1, <4>1
    <3>2. CASE k # m + 1
      <4>1. k \in 1 .. m /\ k \in 0 .. m /\ k - 1 \in 0 .. m
        BY <3>2
      <4> QED
        BY <2>1, <2>3, <4>1 DEF Steps
    <3> QED
      BY <3>1, <3>2
  <2>5. Steps(g, a, step, m + 1)
    BY <2>2, <2>4 DEF Steps
  <2> QED
    BY <2>5
<1>3. Nat \subseteq S
  <2> HIDE DEF S
  <2> QED
    BY <1>1, <1>2, SetInduction
<1> QED
  BY <1>3

(* Two such functions agree where both are defined.                         *)
LEMMA StepsAgree ==
  ASSUME NEW a, NEW step, NEW m \in Nat, NEW n \in Nat,
         NEW f, NEW g, Steps(f, a, step, m), Steps(g, a, step, n),
         NEW j \in Nat, j <= m, j <= n
  PROVE  f[j] = g[j]
<1> DEFINE S == {k \in Nat : k <= m /\ k <= n => f[k] = g[k]}
<1>1. 0 \in S
  BY DEF Steps
<1>2. ASSUME NEW k \in Nat, k \in S PROVE k + 1 \in S
  <2>1. ASSUME k + 1 <= m, k + 1 <= n PROVE f[k + 1] = g[k + 1]
    <3>1. f[k] = g[k]
      BY <1>2, <2>1
    <3>2. k + 1 \in 1 .. m /\ k + 1 \in 1 .. n /\ (k + 1) - 1 = k
      BY <2>1
    <3>3. f[k + 1] = step[f[k]] /\ g[k + 1] = step[g[k]]
      BY <3>2 DEF Steps
    <3> QED
      BY <3>1, <3>3
  <2> QED
    BY <2>1
<1>3. Nat \subseteq S
  <2> HIDE DEF S
  <2> QED
    BY <1>1, <1>2, SetInduction
<1> QED
  BY <1>3

(* A function on the naturals is defined by its first value and its step.   *)
Iterates(f, a, step) == f = [n \in Nat |-> IF n = 0 THEN a ELSE step[f[n - 1]]]

LEMMA IteratesExists ==
  ASSUME NEW a, NEW step
  PROVE  \E f : Iterates(f, a, step)
<1> DEFINE upTo == [n \in Nat |-> CHOOSE f : Steps(f, a, step, n)]
           f == [n \in Nat |-> upTo[n][n]]
           g == [n \in Nat |-> IF n = 0 THEN a ELSE step[f[n - 1]]]
<1>1. ASSUME NEW n \in Nat PROVE Steps(upTo[n], a, step, n)
  <2>1. Steps(CHOOSE h : Steps(h, a, step, n), a, step, n)
    BY StepsExist
  <2> QED
    BY <2>1
<1> HIDE DEF upTo
<1>2. \A n \in Nat : f[n] = upTo[n][n]
  OBVIOUS
<1> HIDE DEF f
<1>3. f[0] = a
  BY <1>1, <1>2 DEF Steps
<1>4. ASSUME NEW n \in Nat, n # 0 PROVE f[n] = step[f[n - 1]]
  <2>1. n - 1 \in Nat /\ n - 1 <= n /\ n \in 1 .. n
    BY <1>4
  <2>2. Steps(upTo[n], a, step, n) /\ Steps(upTo[n - 1], a, step, n - 1)
    BY <1>1, <2>1
  <2>3. upTo[n][n - 1] = upTo[n - 1][n - 1]
    <3> DEFINE m == n - 1
               F == upTo[n]
               G == upTo[n - 1]
    <3>1. m \in Nat /\ m <= n /\ m <= m /\ Steps(F, a, step, n) /\ Steps(G, a, step, m)
      BY <2>1, <2>2
    <3> HIDE DEF m, F, G
    <3>2. F[m] = G[m]
      BY <3>1, StepsAgree
    <3> QED
      BY <3>2 DEF m, F, G
  <2>4. upTo[n][n] = step[upTo[n][n - 1]]
    BY <2>1, <2>2 DEF Steps
  <2> QED
    BY <1>2, <2>1, <2>3, <2>4
<1>5. \A n \in Nat : f[n] = g[n]
  BY <1>3, <1>4
<1>6. f = [n \in Nat |-> f[n]]
  BY DEF f
<1>7. g = [n \in Nat |-> g[n]]
  OBVIOUS
<1>8. f = g
  <2> HIDE DEF g
  <2> QED
    BY <1>5, <1>6, <1>7
<1>9. Iterates(f, a, step)
  BY <1>8 DEF Iterates
<1> QED
  BY <1>9

LEMMA IteratesOnNat ==
  ASSUME NEW a \in Nat, NEW step \in [Nat -> Nat], NEW f, Iterates(f, a, step)
  PROVE  \A n \in Nat : f[n] \in Nat
<1> DEFINE S == {n \in Nat : f[n] \in Nat}
<1>1. f[0] = a /\ \A n \in Nat : n # 0 => f[n] = step[f[n - 1]]
  <2> DEFINE value(n) == IF n = 0 THEN a ELSE step[f[n - 1]]
  <2>1. f = [n \in Nat |-> value(n)]
    BY DEF Iterates
  <2>2. \A n \in Nat : f[n] = value(n)
    <3> HIDE DEF value
    <3> QED
      BY <2>1
  <2> QED
    BY <2>2
<1>2. 0 \in S
  BY <1>1
<1>3. ASSUME NEW n \in Nat, n \in S PROVE n + 1 \in S
  <2>1. n + 1 \in Nat /\ n + 1 # 0 /\ (n + 1) - 1 = n
    OBVIOUS
  <2>2. f[n + 1] = step[f[n]]
    BY <1>1, <2>1
  <2> QED
    BY <1>3, <2>1, <2>2
<1>4. Nat \subseteq S
  <2> HIDE DEF S
  <2> QED
    BY <1>2, <1>3, SetInduction
<1> QED
  BY <1>4

(* Powers of two.                                                           *)
LEMMA PowerStep ==
  /\ Power[0] = 1
  /\ \A n \in Nat : Power[n] \in Nat
  /\ \A n \in Nat : n # 0 => Power[n] = 2 * Power[n - 1]
<1> DEFINE step == [x \in Nat |-> 2 * x]
           value(f, n) == IF n = 0 THEN 1 ELSE 2 * f[n - 1]
           Is(f) == f = [n \in Nat |-> value(f, n)]
<1>1. PICK f : Iterates(f, 1, step)
  BY IteratesExists
<1>2. \A n \in Nat : f[n] \in Nat
  BY <1>1, IteratesOnNat
<1>3. \A n \in Nat : n # 0 => step[f[n - 1]] = 2 * f[n - 1]
  BY <1>2
<1>4. Is(f)
  <2> DEFINE g == [n \in Nat |-> IF n = 0 THEN 1 ELSE step[f[n - 1]]]
             h == [n \in Nat |-> value(f, n)]
  <2>1. \A n \in Nat : g[n] = h[n]
    <3> HIDE DEF step
    <3> QED
      BY <1>3
  <2>2. g = h
    <3>1. g = [n \in Nat |-> g[n]] /\ h = [n \in Nat |-> h[n]]
      OBVIOUS
    <3> HIDE DEF g, h
    <3> QED
      BY <2>1, <3>1
  <2> QED
    BY <1>1, <2>2 DEF Iterates
<1>5. Is(Power)
  <2>1. Power = CHOOSE p : Is(p)
    BY DEF Power
  <2> HIDE DEF Is
  <2> QED
    BY <1>4, <2>1
<1>6. \A n \in Nat : Power[n] = value(Power, n)
  <2> HIDE DEF value
  <2> QED
    BY <1>5
<1>7. Power[0] = 1 /\ \A n \in Nat : n # 0 => Power[n] = 2 * Power[n - 1]
  BY <1>6
<1>8. Nat \subseteq {n \in Nat : Power[n] \in Nat}
  <2> DEFINE S == {n \in Nat : Power[n] \in Nat}
  <2>1. 0 \in S
    BY <1>7
  <2>2. ASSUME NEW n \in Nat, n \in S PROVE n + 1 \in S
    <3>1. n + 1 \in Nat /\ n + 1 # 0 /\ (n + 1) - 1 = n
      OBVIOUS
    <3>2. Power[n + 1] = 2 * Power[n]
      BY <1>7, <3>1
    <3> QED
      BY <2>2, <3>1, <3>2
  <2> HIDE DEF S
  <2>3. Nat \subseteq S
    BY <2>1, <2>2, SetInduction
  <2> QED
    BY <2>3 DEF S
<1> QED
  BY <1>7, <1>8

(* The position of the path on each level is half that on the level below.  *)
LEMMA PointerStep ==
  ASSUME NEW i \in Nat
  PROVE  /\ Pointer(i)[0] = i
         /\ \A n \in Nat : Pointer(i)[n] \in Nat
         /\ \A n \in Nat : n # 0 => Pointer(i)[n] = Pointer(i)[n - 1] \div 2
<1> DEFINE step == [x \in Nat |-> x \div 2]
           value(f, n) == IF n = 0 THEN i ELSE f[n - 1] \div 2
           Is(f) == f = [n \in Nat |-> value(f, n)]
           P == Pointer(i)
<1>1. PICK f : Iterates(f, i, step)
  BY IteratesExists
<1>2. \A n \in Nat : f[n] \in Nat
  <2>1. step \in [Nat -> Nat]
    OBVIOUS
  <2> HIDE DEF step
  <2> QED
    BY <1>1, <2>1, IteratesOnNat
<1>3. \A n \in Nat : n # 0 => step[f[n - 1]] = f[n - 1] \div 2
  BY <1>2
<1>4. Is(f)
  <2> DEFINE g == [n \in Nat |-> IF n = 0 THEN i ELSE step[f[n - 1]]]
             h == [n \in Nat |-> value(f, n)]
  <2>1. \A n \in Nat : g[n] = h[n]
    <3> HIDE DEF step
    <3> QED
      BY <1>3
  <2>2. g = h
    <3>1. g = [n \in Nat |-> g[n]] /\ h = [n \in Nat |-> h[n]]
      OBVIOUS
    <3> HIDE DEF g, h
    <3> QED
      BY <2>1, <3>1
  <2> QED
    BY <1>1, <2>2 DEF Iterates
<1>5. Is(P)
  <2>1. P = CHOOSE p : Is(p)
    BY DEF Pointer
  <2> HIDE DEF Is, P
  <2> QED
    BY <1>4, <2>1
<1> HIDE DEF P
<1>6. \A n \in Nat : P[n] = value(P, n)
  <2> HIDE DEF value
  <2> QED
    BY <1>5
<1>7. P[0] = i /\ \A n \in Nat : n # 0 => P[n] = P[n - 1] \div 2
  BY <1>6
<1>8. Nat \subseteq {n \in Nat : P[n] \in Nat}
  <2> DEFINE S == {n \in Nat : P[n] \in Nat}
  <2>1. 0 \in S
    BY <1>7
  <2>2. ASSUME NEW n \in Nat, n \in S PROVE n + 1 \in S
    <3>1. n + 1 \in Nat /\ n + 1 # 0 /\ (n + 1) - 1 = n
      OBVIOUS
    <3>2. P[n + 1] = P[n] \div 2
      BY <1>7, <3>1
    <3> QED
      BY <2>2, <3>1, <3>2
  <2> HIDE DEF S
  <2>3. Nat \subseteq S
    BY <2>1, <2>2, SetInduction
  <2> QED
    BY <2>3 DEF S
<1> QED
  BY <1>7, <1>8 DEF P

(* The hashes that verify() computes from a datum, pair by pair.            *)
Paired(path, i, k, test) ==
  IF Pointer(i)[k - 1] % 2 = 0 THEN HashPair(test, path[k]) ELSE HashPair(path[k], test)

Tests(test, datum, path, i, n) ==
  test[0] = datum /\ \A k \in 1 .. n : test[k] = Paired(path, i, k, test[k - 1])

LEMMA TestsExist ==
  ASSUME NEW datum, NEW path, NEW i, NEW n \in Nat
  PROVE  \E test : Tests(test, datum, path, i, n)
<1> DEFINE S == {m \in Nat : \E f : Tests(f, datum, path, i, m)}
<1>1. 0 \in S
  <2>1. Tests([k \in 0 .. 0 |-> datum], datum, path, i, 0)
    BY DEF Tests
  <2> QED
    BY <2>1
<1>2. ASSUME NEW m \in Nat, m \in S PROVE m + 1 \in S
  <2>1. PICK f : Tests(f, datum, path, i, m)
    BY <1>2
  <2> DEFINE last == Paired(path, i, m + 1, f[m])
             g == [k \in 0 .. (m + 1) |-> IF k = m + 1 THEN last ELSE f[k]]
  <2> HIDE DEF last
  <2>2. g[0] = datum
    BY <2>1 DEF Tests
  <2>3. g[m + 1] = last /\ \A k \in 0 .. m : g[k] = f[k]
    OBVIOUS
  <2> HIDE DEF g
  <2>4. ASSUME NEW k \in 1 .. (m + 1) PROVE g[k] = Paired(path, i, k, g[k - 1])
    <3>1. CASE k = m + 1
      <4>1. k - 1 = m /\ m \in 0 .. m
        BY <3>1
      <4> QED
        BY <2>3, <3>1, <4>1 DEF last
    <3>2. CASE k # m + 1
      <4>1. k \in 1 .. m /\ k \in 0 .. m /\ k - 1 \in 0 .. m
        BY <3>2
      <4> QED
        BY <2>1, <2>3, <4>1 DEF Tests
    <3> QED
      BY <3>1, <3>2
  <2>5. Tests(g, datum, path, i, m + 1)
    BY <2>2, <2>4 DEF Tests
  <2> QED
    BY <2>5
<1>3. Nat \subseteq S
  <2> HIDE DEF S
  <2> QED
    BY <1>1, <1>2, SetInduction
<1> QED
  BY <1>3

LEMMA TestStep ==
  ASSUME NEW datum, NEW path, NEW i, Len(path) \in Nat
  PROVE  Tests(Test(datum, path, i), datum, path, i, Len(path))
<1> DEFINE n == Len(path)
           value(f, k) ==
             IF k = 0 THEN datum
             ELSE IF Pointer(i)[k - 1] % 2 = 0
                    THEN HashPair(f[k - 1], path[k])
                    ELSE HashPair(path[k], f[k - 1])
           Is(f) == f = [k \in 0 .. n |-> value(f, k)]
           T == Test(datum, path, i)
<1>1. PICK f : Tests(f, datum, path, i, n)
  BY TestsExist
<1> DEFINE g == [k \in 0 .. n |-> f[k]]
<1>2. Is(g)
  <2>1. \A k \in 0 .. n : k # 0 => k \in 1 .. n /\ k - 1 \in 0 .. n
    OBVIOUS
  <2>2. \A k \in 0 .. n : g[k] = f[k]
    OBVIOUS
  <2> HIDE DEF g
  <2>3. \A k \in 0 .. n : f[k] = value(g, k)
    BY <1>1, <2>1, <2>2 DEF Tests, Paired
  <2> HIDE DEF value
  <2> QED
    BY <2>3 DEF g
<1>3. Is(T)
  <2>1. T = CHOOSE p : Is(p)
    BY DEF Test
  <2> HIDE DEF Is, T, g
  <2> QED
    BY <1>2, <2>1
<1> HIDE DEF T
<1>4. \A k \in 0 .. n : T[k] = value(T, k)
  <2> HIDE DEF value
  <2> QED
    BY <1>3
<1>5. T[0] = datum /\ \A k \in 1 .. n : T[k] = Paired(path, i, k, T[k - 1])
  BY <1>4 DEF Paired
<1> QED
  BY <1>5 DEF Tests, T

(* Two data that lead to one hash beside one path are one datum.            *)
LEMMA TestsTellApart ==
  ASSUME NEW path, NEW i, NEW n \in Nat, NEW d, NEW e, NEW f, NEW g,
         Tests(f, d, path, i, n), Tests(g, e, path, i, n), f[n] = g[n]
  PROVE  d = e
<1> DEFINE S == {k \in Nat : k <= n /\ f[k] = g[k] => d = e}
<1>1. 0 \in S
  BY DEF Tests
<1>2. ASSUME NEW k \in Nat, k \in S PROVE k + 1 \in S
  <2>1. ASSUME k + 1 <= n, f[k + 1] = g[k + 1] PROVE d = e
    <3>1. k + 1 \in 1 .. n /\ (k + 1) - 1 = k /\ k <= n
      BY <2>1
    <3>2. Paired(path, i, k + 1, f[k]) = Paired(path, i, k + 1, g[k])
      BY <2>1, <3>1 DEF Tests
    <3>3. f[k] = g[k]
      BY <3>2 DEF Paired, HashPair
    <3> QED
      BY <1>2, <3>1, <3>3
  <2> QED
    BY <2>1
<1>3. Nat \subseteq S
  <2> HIDE DEF S
  <2> QED
    BY <1>1, <1>2, SetInduction
<1> QED
  BY <1>3

--------------------------------------------------------------------------------
(* The levels of the tree *)

(* The number of hashes of level k, before it is evened out. *)
Count(d, hs, k) == IF k = 1 THEN Len(d) ELSE Len(hs[k - 1]) \div 2

(* Level k has half as many hashes as the one below, rounded up, so the     *)
(* 2^(k - 1)-fold of their number is the first such that is no less than    *)
(* the number of data.                                                      *)
IsLevel(d, hs, k) ==
  /\ \E S : hs[k] \in Seq(S)
  /\ Count(d, hs, k) \in Nat
  /\ Power[k - 1] * Count(d, hs, k) >= Len(d)
  /\ Power[k - 1] * (Count(d, hs, k) - 1) < Len(d)
  /\ k > 1 => hs[k][1] = HashPair(hs[k - 1][1], hs[k - 1][2])

Inner(d, hs, k) ==
  /\ Count(d, hs, k) >= 2
  /\ Len(hs[k]) = Count(d, hs, k) + (Count(d, hs, k) % 2)

Top(d, hs, k) == Count(d, hs, k) = 1 /\ Len(hs[k]) = 1

(* A tree of at least two data, with its top or without.                    *)
IsTree(d, hs, top) ==
  /\ Len(d) > 1
  /\ \E S : hs \in Seq(S)
  /\ Len(hs) >= 1
  /\ \A k \in 1 .. Len(hs) : IsLevel(d, hs, k)
  /\ \A k \in 1 .. Len(d) : hs[1][k] = d[k]
  /\ \A k \in 1 .. (Len(hs) - 1) : Inner(d, hs, k)
  /\ IF top THEN Len(hs) >= 2 /\ Top(d, hs, Len(hs)) ELSE Inner(d, hs, Len(hs))

TreeInv ==
  /\ data \in Seq(Datum)
  /\ \/ pc = "new"
     \/ pc = "building" /\ IsTree(data, hashes, FALSE)
     \/ pc = "built" /\ data = << >>
     \/ pc \in {"built", "proved"} /\ Len(data) = 1 /\ hashes = <<data>>
     \/ pc \in {"built", "proved"} /\ IsTree(data, hashes, TRUE)
  /\ pc = "proved" => index \in 0 .. (Len(data) - 1) /\ proof = ProofOf(index)

(* Evening out leaves the hashes where they are.                            *)
LEMMA EvenOutProperties ==
  ASSUME NEW S, NEW level \in Seq(S)
  PROVE  /\ EvenOut(level) \in Seq(S)
         /\ Len(EvenOut(level)) = Len(level) + (Len(level) % 2)
         /\ \A k \in 1 .. Len(level) : EvenOut(level)[k] = level[k]
<1>1. Len(level) \in Nat /\ DOMAIN level = 1 .. Len(level)
  BY LenProperties
<1>2. ASSUME NEW next, next = EvenOut(level)
      PROVE  /\ next \in Seq(S)
             /\ Len(next) = Len(level) + (Len(level) % 2)
             /\ \A k \in 1 .. Len(level) : next[k] = level[k]
  <2>1. CASE Len(level) % 2 = 1
    <3>1. Len(level) \in DOMAIN level
      BY <1>1, <2>1
    <3>2. PICK e \in S : e = Last(level)
      BY <1>1, <3>1, ElementOfSeq DEF Last
    <3>3. next = Append(level, e)
      BY <1>2, <2>1, <3>2 DEF EvenOut
    <3>4. /\ next \in Seq(S) /\ Len(next) = Len(level) + 1
          /\ \A k \in 1 .. Len(level) : next[k] = level[k]
      BY <3>3, AppendProperties
    <3> QED
      BY <2>1, <3>4
  <2>2. CASE Len(level) % 2 # 1
    <3>1. next = level
      BY <1>2, <2>2 DEF EvenOut
    <3>2. Len(level) = Len(level) + (Len(level) % 2)
      <4>1. \A n \in Nat : n % 2 # 1 => n % 2 = 0 /\ n = n + 0
        OBVIOUS
      <4> QED
        BY <1>1, <2>2, <4>1
    <3>3. Len(next) = Len(level) + (Len(level) % 2)
      BY <3>1, <3>2
    <3>4. next \in Seq(S) /\ \A k \in 1 .. Len(level) : next[k] = level[k]
      BY <3>1
    <3> QED
      BY <3>3, <3>4
  <2> QED
    BY <2>1, <2>2
<1> QED
  BY <1>2

LEMMA LevelAboveProperties ==
  ASSUME NEW S, NEW level \in Seq(S), Len(level) >= 2
  PROVE  /\ \E T : LevelAbove(level) \in Seq(T)
         /\ Len(LevelAbove(level)) = Len(level) \div 2
         /\ LevelAbove(level)[1] = HashPair(level[1], level[2])
<1> DEFINE n == Len(level) \div 2
           pair(k) == HashPair(level[k], level[k + 1])
           T == {pair(k) : k \in 1 .. n}
<1>1. Len(level) \in Nat /\ n \in Nat /\ n >= 1
  BY LenProperties
<1>2. LevelAbove(level) = [k \in 1 .. n |-> pair(k)]
  BY DEF LevelAbove
<1>3. 1 \in 1 .. n /\ 1 + 1 = 2
  BY <1>1
<1>4. pair(1) = HashPair(level[1], level[2])
  BY <1>3
<1> HIDE DEF pair, n
<1>5. [k \in 1 .. n |-> pair(k)] \in Seq(T) /\ Len([k \in 1 .. n |-> pair(k)]) = n
  BY <1>1
<1>6. [k \in 1 .. n |-> pair(k)][1] = pair(1)
  BY <1>3
<1> QED
  BY <1>2, <1>4, <1>5, <1>6 DEF n

(* Half of the hashes, rounded up, under twice the power.                   *)
LEMMA HalfUnderPower ==
  ASSUME NEW P \in Nat, NEW C \in Nat, NEW n \in Nat, NEW c \in Nat,
         c = (C + (C % 2)) \div 2, P * C >= n, P * (C - 1) < n
  PROVE  (2 * P) * c >= n /\ (2 * P) * (c - 1) < n
<1>1. (2 * P) * c = P * (2 * c) /\ (2 * P) * (c - 1) = P * (2 * c - 2)
  OBVIOUS
<1>2. CASE C % 2 = 0
  <2>1. 2 * c = C
    BY <1>2
  <2>2. P * (C - 2) <= P * (C - 1)
    OBVIOUS
  <2> QED
    BY <1>1, <2>1, <2>2
<1>3. CASE C % 2 = 1
  <2>1. 2 * c = C + 1
    BY <1>3
  <2>2. P * (C + 1) >= P * C /\ 2 * c - 2 = C - 1
    BY <2>1
  <2> QED
    BY <1>1, <2>1, <2>2
<1> QED
  BY <1>2, <1>3

--------------------------------------------------------------------------------
(* The tree is built level by level *)

LEMMA FirstLevel ==
  ASSUME NEW d, d \in Seq(Datum), Len(d) > 1, NEW hs, hs = <<EvenOut(d)>>
  PROVE  IsTree(d, hs, FALSE)
<1> DEFINE level == EvenOut(d)
<1>1. /\ level \in Seq(Datum) /\ Len(level) = Len(d) + (Len(d) % 2)
      /\ \A k \in 1 .. Len(d) : level[k] = d[k]
  BY EvenOutProperties
<1>2. Len(d) \in Nat
  BY LenProperties
<1> HIDE DEF level
<1>3. hs = <<level>>
  BY DEF level
<1>4. Len(hs) = 1 /\ hs[1] = level /\ hs \in Seq({level})
  BY <1>3
<1>5. Count(d, hs, 1) = Len(d) /\ Power[1 - 1] = 1
  BY PowerStep DEF Count
<1>6. IsLevel(d, hs, 1) /\ Inner(d, hs, 1)
  <2>1. 1 * Len(d) >= Len(d) /\ 1 * (Len(d) - 1) < Len(d)
    BY <1>2
  <2>2. /\ Power[1 - 1] * Count(d, hs, 1) >= Len(d)
        /\ Power[1 - 1] * (Count(d, hs, 1) - 1) < Len(d)
    BY <1>5, <2>1
  <2>3. (\E S : hs[1] \in Seq(S)) /\ Count(d, hs, 1) \in Nat
    BY <1>1, <1>2, <1>4, <1>5
  <2>4. IsLevel(d, hs, 1)
    BY <2>2, <2>3 DEF IsLevel
  <2>5. Inner(d, hs, 1)
    BY <1>1, <1>2, <1>4, <1>5 DEF Inner
  <2> QED
    BY <2>4, <2>5
<1>7. \A k \in 1 .. Len(hs) : k = 1
  BY <1>4
<1>8. \A k \in 1 .. (Len(hs) - 1) : FALSE
  BY <1>4
<1>9. (\E S : hs \in Seq(S)) /\ Len(hs) >= 1 /\ \A k \in 1 .. Len(d) : hs[1][k] = d[k]
  BY <1>1, <1>4
<1>10. Inner(d, hs, Len(hs)) /\ \A k \in 1 .. Len(hs) : IsLevel(d, hs, k)
  BY <1>4, <1>6, <1>7
<1> QED
  BY <1>8, <1>9, <1>10 DEF IsTree

(* A level added on top of a tree leaves the others what they were.         *)
LEMMA LevelsStay ==
  ASSUME NEW d, NEW hs, NEW new, NEW n \in Nat,
         \A k \in 1 .. n : new[k] = hs[k],
         NEW k \in 1 .. n
  PROVE  /\ IsLevel(d, hs, k) => IsLevel(d, new, k)
         /\ Inner(d, hs, k) => Inner(d, new, k)
<1>1. new[k] = hs[k] /\ (k # 1 => k - 1 \in 1 .. n /\ new[k - 1] = hs[k - 1])
  OBVIOUS
<1>2. Count(d, new, k) = Count(d, hs, k)
  BY <1>1 DEF Count
<1> QED
  BY <1>1, <1>2 DEF IsLevel, Inner

(* One turn of the loop in new().                                           *)
LEMMA NextLevel ==
  ASSUME NEW d, NEW hs, IsTree(d, hs, FALSE), Len(d) \in Nat,
         NEW above, above = LevelAbove(Last(hs)), NEW top \in BOOLEAN,
         top <=> Len(above) = 1,
         NEW new, new = Append(hs, IF top THEN above ELSE EvenOut(above))
  PROVE  IsTree(d, new, top)
<1> DEFINE n == Len(hs)
           level == IF top THEN above ELSE EvenOut(above)
           C == Count(d, hs, n)
<1>1. PICK S : hs \in Seq(S)
  BY DEF IsTree
<1>2. n \in Nat /\ n >= 1 /\ n \in 1 .. n /\ Last(hs) = hs[n]
  BY <1>1, LenProperties DEF IsTree, Last
<1>3. IsLevel(d, hs, n) /\ Inner(d, hs, n)
  BY <1>2 DEF IsTree
<1>4. PICK T : hs[n] \in Seq(T)
  BY <1>3 DEF IsLevel
<1>5. C \in Nat /\ C >= 2 /\ Len(hs[n]) = C + (C % 2)
  BY <1>3 DEF IsLevel, Inner
<1>6. /\ \E U : above \in Seq(U)
      /\ Len(above) = Len(hs[n]) \div 2
      /\ above[1] = HashPair(hs[n][1], hs[n][2])
  <2>1. Len(hs[n]) >= 2
    BY <1>5
  <2> QED
    BY <1>2, <1>4, <2>1, LevelAboveProperties
<1>7. Len(above) \in Nat /\ Len(above) >= 1 /\ Len(above) = (C + (C % 2)) \div 2
  BY <1>5, <1>6
<1>8. /\ \E U : level \in Seq(U)
      /\ level[1] = above[1]
      /\ Len(level) = IF top THEN 1 ELSE Len(above) + (Len(above) % 2)
  <2>1. PICK U : above \in Seq(U)
    BY <1>6
  <2>2. CASE top
    BY <2>1, <2>2
  <2>3. CASE ~top
    <3>1. 1 \in 1 .. Len(above)
      BY <1>7
    <3>2. EvenOut(above) \in Seq(U) /\ EvenOut(above)[1] = above[1]
            /\ Len(EvenOut(above)) = Len(above) + (Len(above) % 2)
      BY <2>1, <3>1, EvenOutProperties
    <3> QED
      BY <2>3, <3>2
  <2> QED
    BY <2>2, <2>3
<1>9. new = Append(hs, level)
  OBVIOUS
<1> HIDE DEF level
<1>10. /\ new \in Seq(S \union {level}) /\ Len(new) = n + 1
       /\ \A k \in 1 .. n : new[k] = hs[k]
       /\ new[n + 1] = level
  <2>1. hs \in Seq(S \union {level}) /\ level \in S \union {level}
    BY <1>1, SeqMonotonic
  <2> QED
    BY <1>9, <2>1, AppendProperties
<1> HIDE DEF n, C
<1>11. \A k \in 1 .. n : IsLevel(d, new, k) /\ Inner(d, new, k)
  <2>1. \A k \in 1 .. n : IsLevel(d, hs, k)
    BY DEF IsTree, n
  <2>2. \A k \in 1 .. n : Inner(d, hs, k)
    <3>1. \A k \in 1 .. (n - 1) : Inner(d, hs, k)
      BY DEF IsTree, n
    <3>2. \A k \in 1 .. n : k = n \/ k \in 1 .. (n - 1)
      BY <1>2
    <3> QED
      BY <1>3, <3>1, <3>2
  <2> QED
    BY <1>2, <1>10, <2>1, <2>2, LevelsStay
<1>12. Count(d, new, n + 1) = Len(above)
  <2>1. n + 1 # 1 /\ (n + 1) - 1 = n /\ new[n] = hs[n]
    BY <1>2, <1>10
  <2> QED
    BY <1>6, <2>1 DEF Count
<1>13. IsLevel(d, new, n + 1)
  <2>1. /\ Power[n] * Len(above) >= Len(d)
        /\ Power[n] * (Len(above) - 1) < Len(d)
    <3>1. Power[n] = 2 * Power[n - 1] /\ Power[n - 1] \in Nat
      BY <1>2, PowerStep
    <3>2. Power[n - 1] * C >= Len(d) /\ Power[n - 1] * (C - 1) < Len(d)
      BY <1>3 DEF IsLevel, C
    <3>3. /\ (2 * Power[n - 1]) * Len(above) >= Len(d)
          /\ (2 * Power[n - 1]) * (Len(above) - 1) < Len(d)
      BY <1>5, <1>7, <3>1, <3>2, HalfUnderPower
    <3> QED
      BY <3>1, <3>3
  <2>2. (n + 1) - 1 = n /\ new[n + 1] = level /\ new[n] = hs[n]
    BY <1>2, <1>10
  <2> QED
    BY <1>6, <1>7, <1>8, <1>12, <2>1, <2>2 DEF IsLevel
<1>14. IF top THEN Top(d, new, n + 1) ELSE Inner(d, new, n + 1)
  <2>1. CASE top
    BY <1>8, <1>10, <1>12, <2>1 DEF Top
  <2>2. CASE ~top
    <3>1. Len(above) >= 2
      BY <1>7, <2>2
    <3> QED
      BY <1>8, <1>10, <1>12, <2>2, <3>1 DEF Inner
  <2> QED
    BY <2>1, <2>2
<1>15. \A k \in 1 .. (n + 1) : k = n + 1 \/ k \in 1 .. n
  BY <1>2
<1>16. \A k \in 1 .. Len(d) : new[1][k] = d[k]
  <2>1. new[1] = hs[1]
    BY <1>2, <1>10
  <2> QED
    BY <2>1 DEF IsTree
<1>17. /\ Len(new) = n + 1 /\ Len(new) >= 2 /\ Len(new) - 1 = n
       /\ \E U : new \in Seq(U)
  BY <1>2, <1>10
<1>18. \A k \in 1 .. Len(new) : IsLevel(d, new, k)
  BY <1>11, <1>13, <1>15, <1>17
<1>19. IF top THEN Len(new) >= 2 /\ Top(d, new, Len(new)) ELSE Inner(d, new, Len(new))
  BY <1>14, <1>17
<1>20. \A k \in 1 .. (Len(new) - 1) : Inner(d, new, k)
  BY <1>11, <1>17
<1>21. Len(d) > 1 /\ Len(new) >= 1
  BY <1>17 DEF IsTree
<1> QED
  BY <1>16, <1>17, <1>18, <1>19, <1>20, <1>21 DEF IsTree

LEMMA TreeInit == Init => TreeInv
<1> SUFFICES ASSUME Init PROVE TreeInv
  OBVIOUS
<1>1. data \in Seq(Datum)
  <2>1. PICK n \in 0 .. MaxLeaves : data \in [1 .. n -> Datum]
    BY DEF Init
  <2>2. n \in Nat
    BY MerkleAssumption DEF MerkleAssumption
  <2> QED
    BY <2>1, <2>2, SeqDef
<1> QED
  BY <1>1 DEF Init, TreeInv

LEMMA TreeStep == TreeInv /\ [Next]_vars => TreeInv'
<1> SUFFICES ASSUME TreeInv, [Next]_vars PROVE TreeInv'
  OBVIOUS
<1>0. data \in Seq(Datum) /\ Len(data) \in Nat
  BY LenProperties DEF TreeInv
<1>1. CASE HashData
  <2>1. data' = data /\ pc' # "proved" /\ pc = "new"
    BY <1>1 DEF HashData
  <2>2. CASE pc' = "built" /\ data = << >>
    BY <1>0, <2>1, <2>2 DEF TreeInv
  <2>3. CASE pc' = "built" /\ Len(data) = 1 /\ hashes' = <<data>>
    BY <1>0, <2>1, <2>3 DEF TreeInv
  <2>4. CASE pc' = "building" /\ Len(data) > 1 /\ hashes' = <<EvenOut(data)>>
    <3>1. IsTree(data, hashes', FALSE)
      BY <1>0, <2>4, FirstLevel
    <3> QED
      BY <1>0, <2>1, <2>4, <3>1 DEF TreeInv
  <2> QED
    BY <1>1, <2>2, <2>3, <2>4 DEF HashData
<1>2. CASE BuildLevel
  <2> DEFINE above == LevelAbove(Last(hashes))
             top == Len(above) = 1
             level == IF top THEN above ELSE EvenOut(above)
  <2>1. data' = data /\ pc' = (IF top THEN "built" ELSE "building")
    BY <1>2 DEF BuildLevel
  <2>2. hashes' = Append(hashes, level)
    BY <1>2 DEF BuildLevel
  <2>3. IsTree(data, hashes, FALSE)
    BY <1>2 DEF BuildLevel, TreeInv
  <2>4. IsTree(data, hashes', top)
    BY <1>0, <2>2, <2>3, NextLevel
  <2> HIDE DEF top
  <2>5. CASE top
    <3>1. IsTree(data, hashes', TRUE)
      <4>1. top = TRUE
        BY <2>5 DEF top
      <4> QED
        BY <2>4, <4>1
    <3> QED
      BY <1>0, <2>1, <2>5, <3>1 DEF TreeInv
  <2>6. CASE ~top
    <3>1. IsTree(data, hashes', FALSE)
      <4>1. top = FALSE
        BY <2>6 DEF top
      <4> QED
        BY <2>4, <4>1
    <3> QED
      BY <1>0, <2>1, <2>6, <3>1 DEF TreeInv
  <2> QED
    BY <2>5, <2>6
<1>3. ASSUME NEW i \in 0 .. MaxLeaves - 1, Prove(i)
      PROVE  TreeInv'
  <2>1. /\ data' = data /\ hashes' = hashes /\ index' = i
        /\ pc = "built" /\ pc' = "proved"
        /\ i \in 0 .. (Len(data) - 1)
    BY <1>3 DEF Prove
  <2>2. proof' = ProofOf(index)'
    BY <1>3, <2>1 DEF Prove, ProofOf
  <2>3. data # << >>
    BY <2>1
  <2> QED
    BY <1>0, <2>1, <2>2, <2>3 DEF TreeInv
<1>4. CASE UNCHANGED vars
  <2>1. data' = data /\ hashes' = hashes /\ pc' = pc /\ index' = index /\ proof' = proof
    BY <1>4 DEF vars
  <2>2. ProofOf(index)' = ProofOf(index)
    BY <2>1 DEF ProofOf
  <2> QED
    BY <2>1, <2>2 DEF TreeInv
<1> QED
  BY <1>1, <1>2, <1>3, <1>4 DEF Next

(* new() builds, from any data, level upon level of half as many hashes,    *)
(* rounded up and evened out, each beginning with the hash of the first two *)
(* of the one below, until a level of one hash is left; proof() does not    *)
(* change them.                                                             *)
THEOREM MerkleTreeInvariant == Spec => []TreeInv
<1> QED
  BY TreeInit, TreeStep, PTL DEF Spec

(* A turn of the loop of new() ends with a shorter level than it began      *)
(* with, and with one hash only where it leaves the loop.                   *)
LevelShrinks ==
  BuildLevel =>
    /\ Len(Last(hashes)) \in Nat /\ Len(Last(hashes')) \in Nat
    /\ Len(Last(hashes')) < Len(Last(hashes))
    /\ Len(Last(hashes')) = 1 <=> pc' = "built"

LEMMA TurnShrinksLevel ==
  ASSUME TreeInv, BuildLevel, TreeInv'
  PROVE  LevelShrinks
<1> DEFINE n == Len(hashes)
           L == Len(Last(hashes))
           M == Len(Last(hashes'))
           above == LevelAbove(Last(hashes))
           level == IF Len(above) = 1 THEN above ELSE EvenOut(above)
           C == Count(data, hashes, n)
<1>1. IsTree(data, hashes, FALSE)
  BY DEF BuildLevel, TreeInv
<1>2. PICK S : hashes \in Seq(S)
  BY <1>1 DEF IsTree
<1>3. n \in Nat /\ n >= 1 /\ Last(hashes) = hashes[n]
  BY <1>1, <1>2, LenProperties DEF IsTree, Last
<1>4. IsLevel(data, hashes, n) /\ Inner(data, hashes, n)
  BY <1>1, <1>3 DEF IsTree
<1>5. C \in Nat /\ C >= 2 /\ L = C + (C % 2)
  BY <1>3, <1>4 DEF IsLevel, Inner
<1>6. PICK T : Last(hashes) \in Seq(T)
  BY <1>3, <1>4 DEF IsLevel
<1>7. hashes' = Append(hashes, level) /\ (pc' = "built" <=> Len(above) = 1)
  BY DEF BuildLevel
<1> HIDE DEF L, C
<1>8. L \in Nat /\ L >= 2 /\ L % 2 = 0
  BY <1>5
<1>9. (\E U : above \in Seq(U)) /\ Len(above) = L \div 2
  <2>1. Len(Last(hashes)) >= 2
    BY <1>8 DEF L
  <2> QED
    BY <1>6, <2>1, LevelAboveProperties DEF L
<1>10. PICK U : above \in Seq(U)
  BY <1>9
<1> HIDE DEF above
<1>11. Len(level) = IF Len(above) = 1 THEN 1 ELSE Len(above) + (Len(above) % 2)
  BY <1>10, EvenOutProperties
<1> HIDE DEF level
<1>12. Last(hashes') = level
  <2>1. hashes \in Seq(S \union {level}) /\ level \in S \union {level}
    BY <1>2, SeqMonotonic
  <2>2. hashes' \in Seq(S \union {level}) /\ Len(hashes') = n + 1 /\ hashes'[n + 1] = level
    BY <1>7, <2>1, AppendProperties
  <2> QED
    BY <2>2 DEF Last
<1>13. M = Len(level)
  BY <1>12
<1> HIDE DEF M
<1>14. M = IF L \div 2 = 1 THEN 1 ELSE (L \div 2) + ((L \div 2) % 2)
  BY <1>9, <1>11, <1>13
<1>15. M \in Nat /\ M < L /\ (M = 1 <=> L \div 2 = 1)
  BY <1>8, <1>14
<1>16. pc' = "built" <=> L \div 2 = 1
  BY <1>7, <1>9
<1> QED
  BY <1>8, <1>15, <1>16 DEF LevelShrinks, L, M

(* The loop of new() ends for any number of data: every turn of it works on *)
(* a shorter level than the one before, and a level of one hash is left.    *)
THEOREM MerkleLevelsShrink == Spec => [][LevelShrinks]_vars
<1>1. TreeInv /\ TreeInv' /\ [Next]_vars => [LevelShrinks]_vars
  <2> SUFFICES ASSUME TreeInv, TreeInv' PROVE LevelShrinks
    OBVIOUS
  <2>1. CASE BuildLevel
    BY <2>1, TurnShrinksLevel
  <2>2. CASE ~BuildLevel
    BY <2>2 DEF LevelShrinks
  <2> QED
    BY <2>1, <2>2
<1> QED
  BY <1>1, MerkleTreeInvariant, PTL DEF Spec

--------------------------------------------------------------------------------
(* The proofs *)

(* One hash for each level but the top.                                     *)
LEMMA ProofOfProperties ==
  ASSUME NEW i, NEW n \in Nat, n = Len(hashes) - 1
  PROVE  /\ Len(ProofOf(i)) = n
         /\ \A k \in 1 .. n : ProofOf(i)[k] = Neighbour(hashes[k], Pointer(i)[k - 1])
<1> DEFINE beside(k) == Neighbour(hashes[k], Pointer(i)[k - 1])
<1>1. ProofOf(i) = [k \in 1 .. n |-> beside(k)]
  BY DEF ProofOf
<1> HIDE DEF beside
<1>2. /\ Len([k \in 1 .. n |-> beside(k)]) = n
      /\ \A j \in 1 .. n : [k \in 1 .. n |-> beside(k)][j] = beside(j)
  OBVIOUS
<1> QED
  BY <1>1, <1>2 DEF beside

(* What proof() has been called on: a single hash or a tree with its top.   *)
LEMMA ProvedTree ==
  ASSUME TreeInv, pc = "proved"
  PROVE  /\ Len(data) \in Nat /\ index \in 0 .. (Len(data) - 1) /\ proof = ProofOf(index)
         /\ \/ Len(data) = 1 /\ hashes = <<data>>
            \/ IsTree(data, hashes, TRUE)
<1>1. data \in Seq(Datum) /\ Len(data) \in Nat
  BY LenProperties DEF TreeInv
<1> QED
  BY <1>1 DEF TreeInv

(* The number of levels of a tree.                                          *)
LEMMA Height ==
  ASSUME NEW d, NEW hs, IsTree(d, hs, TRUE)
  PROVE  Len(hs) \in Nat /\ Len(hs) >= 2 /\ Last(hs) = hs[Len(hs)]
<1>1. PICK S : hs \in Seq(S)
  BY DEF IsTree
<1> QED
  BY <1>1, LenProperties DEF IsTree, Last

LEMMA TreeIsShort == TreeInv => ProofIsShort
<1> SUFFICES ASSUME TreeInv, pc = "proved", Len(data) > 1
             PROVE  Power[Len(proof)] >= Len(data) /\ Power[Len(proof) - 1] < Len(data)
  BY DEF ProofIsShort
<1> DEFINE m == Len(hashes)
<1>1. /\ Len(data) \in Nat /\ proof = ProofOf(index)
      /\ IsTree(data, hashes, TRUE)
  <2>1. Len(data) \in Nat /\ proof = ProofOf(index)
    BY ProvedTree
  <2>2. Len(data) = 1 \/ IsTree(data, hashes, TRUE)
    BY ProvedTree
  <2>3. Len(data) # 1
    <3>1. \A n \in Nat : n > 1 => n # 1
      OBVIOUS
    <3> QED
      BY <2>1, <3>1
  <2> QED
    BY <2>1, <2>2, <2>3
<1>2. m \in Nat /\ m >= 2
  BY <1>1, Height
<1>3. Len(proof) = m - 1
  <2>1. m - 1 \in Nat
    BY <1>2
  <2> QED
    BY <1>1, <2>1, ProofOfProperties
<1>4. IsLevel(data, hashes, m) /\ Count(data, hashes, m) = 1
  BY <1>1, <1>2 DEF IsTree, Top
<1>5. IsLevel(data, hashes, m - 1) /\ Inner(data, hashes, m - 1)
  BY <1>1, <1>2 DEF IsTree
<1> HIDE DEF m
<1>6. Power[m - 1] \in Nat /\ Power[m - 2] \in Nat
  BY <1>2, PowerStep
<1>7. Power[m - 1] >= Len(data)
  BY <1>4, <1>6 DEF IsLevel
<1>8. Power[m - 2] < Len(data)
  <2> DEFINE C == Count(data, hashes, m - 1)
  <2>1. C \in Nat /\ C >= 2 /\ Power[m - 2] * (C - 1) < Len(data)
    <3>1. (m - 1) - 1 = m - 2
      BY <1>2
    <3> QED
      BY <1>5, <3>1 DEF IsLevel, Inner
  <2> HIDE DEF C
  <2>2. \A p \in Nat, c \in Nat : c >= 2 => p <= p * (c - 1)
    OBVIOUS
  <2>3. Power[m - 2] <= Power[m - 2] * (C - 1) /\ Power[m - 2] * (C - 1) \in Nat
    BY <1>6, <2>1, <2>2
  <2> QED
    BY <1>1, <1>6, <2>1, <2>3
<1>9. Len(proof) - 1 = m - 2
  BY <1>2, <1>3
<1> QED
  BY <1>3, <1>7, <1>8, <1>9

(* A proof has as many hashes as it takes to halve the number of data, odd  *)
(* or even, down to one.                                                    *)
THEOREM MerkleProofIsShort == Spec => []ProofIsShort
<1> QED
  BY MerkleTreeInvariant, TreeIsShort, PTL

(* proof() reads, on every level but the top, a hash that is there: for no  *)
(* index of a datum does it reach past the end of a level, where the code   *)
(* would panic.                                                             *)
ProofStaysInTree ==
  pc \in {"built", "proved"} =>
    \A i \in 0 .. (Len(data) - 1) : \A k \in 1 .. (Len(hashes) - 1) :
      IF Pointer(i)[k - 1] % 2 = 0
        THEN Pointer(i)[k - 1] + 2 \in 1 .. Len(hashes[k])
        ELSE Pointer(i)[k - 1] \in 1 .. Len(hashes[k])

(* The path of a datum goes through the hashes that a level had before it   *)
(* was evened out.                                                          *)
LEMMA PointerInLevel ==
  ASSUME NEW d, NEW hs, IsTree(d, hs, TRUE), Len(d) \in Nat,
         NEW i \in 0 .. (Len(d) - 1)
  PROVE  \A k \in 1 .. (Len(hs) - 1) : Pointer(i)[k - 1] < Count(d, hs, k)
<1> DEFINE m == Len(hs)
           P == Pointer(i)
           S == {j \in Nat : j + 1 <= m - 1 => P[j] < Count(d, hs, j + 1)}
<1>1. m \in Nat /\ m >= 2 /\ i \in Nat
  <2>1. m \in Nat /\ m >= 2
    BY Height
  <2> QED
    BY <2>1
<1>2. P[0] = i /\ \A n \in Nat : P[n] \in Nat /\ (n # 0 => P[n] = P[n - 1] \div 2)
  BY <1>1, PointerStep
<1>3. \A k \in 1 .. (m - 1) :
        /\ Count(d, hs, k) \in Nat
        /\ Len(hs[k]) = Count(d, hs, k) + (Count(d, hs, k) % 2)
  BY <1>1 DEF IsTree, IsLevel, Inner
<1> HIDE DEF m, P
<1>4. 0 \in S
  <2>1. 0 + 1 = 1 /\ i < Len(d)
    OBVIOUS
  <2> QED
    BY <1>2, <2>1 DEF Count
<1>5. ASSUME NEW j \in Nat, j \in S PROVE j + 1 \in S
  <2>1. SUFFICES ASSUME (j + 1) + 1 <= m - 1
                 PROVE  P[j + 1] < Count(d, hs, (j + 1) + 1)
    OBVIOUS
  <2>2. j + 1 \in 1 .. (m - 1) /\ j + 1 <= m - 1
    BY <1>1, <2>1
  <2> DEFINE p == P[j]
             C == Count(d, hs, j + 1)
  <2>3. p \in Nat /\ C \in Nat /\ p < C
    BY <1>2, <1>3, <1>5, <2>2
  <2>4. P[j + 1] = p \div 2
    <3>1. j + 1 \in Nat /\ j + 1 # 0 /\ (j + 1) - 1 = j
      OBVIOUS
    <3> QED
      BY <1>2, <3>1
  <2>5. Count(d, hs, (j + 1) + 1) = (C + (C % 2)) \div 2
    <3>1. (j + 1) + 1 # 1 /\ ((j + 1) + 1) - 1 = j + 1
      OBVIOUS
    <3>2. Count(d, hs, (j + 1) + 1) = Len(hs[j + 1]) \div 2
      BY <3>1 DEF Count
    <3> QED
      BY <1>3, <2>2, <3>2
  <2> HIDE DEF p, C
  <2>6. p \div 2 < (C + (C % 2)) \div 2
    BY <2>3
  <2> QED
    BY <2>4, <2>5, <2>6
<1>6. Nat \subseteq S
  <2> HIDE DEF S
  <2> QED
    BY <1>4, <1>5, SetInduction
<1>7. ASSUME NEW k \in 1 .. (m - 1) PROVE P[k - 1] < Count(d, hs, k)
  <2>1. k - 1 \in Nat /\ (k - 1) + 1 = k /\ k <= m - 1
    BY <1>1
  <2>2. k - 1 \in S
    BY <1>6, <2>1
  <2> QED
    BY <2>1, <2>2
<1> QED
  BY <1>7 DEF m, P

LEMMA TreeHoldsProofs == TreeInv => ProofStaysInTree
<1> SUFFICES ASSUME TreeInv, pc \in {"built", "proved"},
                    NEW i \in 0 .. (Len(data) - 1), NEW k \in 1 .. (Len(hashes) - 1)
             PROVE  IF Pointer(i)[k - 1] % 2 = 0
                      THEN Pointer(i)[k - 1] + 2 \in 1 .. Len(hashes[k])
                      ELSE Pointer(i)[k - 1] \in 1 .. Len(hashes[k])
  BY DEF ProofStaysInTree
<1>1. Len(data) \in Nat
  BY LenProperties DEF TreeInv
<1>2. IsTree(data, hashes, TRUE)
  <2>1. data # << >>
    OBVIOUS
  <2>2. ASSUME hashes = <<data>> PROVE FALSE
    <3>1. Len(hashes) - 1 = 0
      BY <2>2
    <3>2. k \in 1 .. 0
      BY <3>1
    <3> QED
      BY <3>2
  <2> QED
    BY <2>1, <2>2 DEF TreeInv
<1>3. Len(hashes) \in Nat
  BY <1>2, Height
<1> DEFINE p == Pointer(i)[k - 1]
           C == Count(data, hashes, k)
<1>4. p \in Nat
  BY <1>1, <1>3, PointerStep
<1>5. p < C
  BY <1>1, <1>2, PointerInLevel
<1>6. C \in Nat /\ Len(hashes[k]) = C + (C % 2)
  BY <1>2, <1>3 DEF IsTree, IsLevel, Inner
<1> HIDE DEF p, C
<1>7. IF p % 2 = 0 THEN p + 2 \in 1 .. (C + (C % 2)) ELSE p \in 1 .. (C + (C % 2))
  BY <1>4, <1>5, <1>6
<1> QED
  BY <1>6, <1>7 DEF p

(* proof() finds a neighbour on every level, for every datum of every tree. *)
THEOREM MerkleProofStaysInTree == Spec => []ProofStaysInTree
<1> QED
  BY MerkleTreeInvariant, TreeHoldsProofs, PTL

(* Beside one path, at one index, verify() accepts no two data for a root:  *)
(* it recomputes the hashes from the datum up, so two data that are         *)
(* accepted are one.                                                        *)
THEOREM VerifyTellsApart ==
  ASSUME NEW root, NEW i, NEW path, Len(path) \in Nat, NEW d, NEW e,
         Verify(root, d, path, i), Verify(root, e, path, i)
  PROVE  d = e
<1>1. Tests(Test(d, path, i), d, path, i, Len(path))
  BY TestStep
<1>2. Tests(Test(e, path, i), e, path, i, Len(path))
  BY TestStep
<1>3. Test(d, path, i)[Len(path)] = Test(e, path, i)[Len(path)]
  BY DEF Verify
<1> QED
  BY <1>1, <1>2, <1>3, TestsTellApart

(* The path of the first or the second datum runs along the first hash of   *)
(* every level above.                                                       *)
LEMMA FirstPath ==
  ASSUME NEW i \in {0, 1}
  PROVE  Pointer(i)[0] = i /\ \A n \in Nat : Pointer(i)[n + 1] = 0
<1> DEFINE P == Pointer(i)
           S == {n \in Nat : P[n + 1] = 0}
<1>1. P[0] = i /\ \A n \in Nat : n # 0 => P[n] = P[n - 1] \div 2
  <2>1. i \in Nat
    OBVIOUS
  <2> QED
    BY <2>1, PointerStep
<1> HIDE DEF P
<1>2. \A n \in Nat : P[n + 1] = P[n] \div 2
  <2>1. \A n \in Nat : n + 1 \in Nat /\ n + 1 # 0 /\ (n + 1) - 1 = n
    OBVIOUS
  <2> QED
    BY <1>1, <2>1
<1>3. 0 \in S
  <2>1. i \div 2 = 0
    OBVIOUS
  <2>2. P[0 + 1] = P[0] \div 2
    BY <1>2
  <2> QED
    BY <1>1, <2>1, <2>2
<1>4. ASSUME NEW n \in Nat, n \in S PROVE n + 1 \in S
  <2>1. P[(n + 1) + 1] = P[n + 1] \div 2 /\ P[n + 1] = 0 /\ n + 1 \in Nat
    BY <1>2, <1>4
  <2>2. 0 \div 2 = 0
    OBVIOUS
  <2> QED
    BY <2>1, <2>2
<1>5. Nat \subseteq S
  <2> HIDE DEF S
  <2> QED
    BY <1>3, <1>4, SetInduction
<1> QED
  BY <1>1, <1>5 DEF P

(* The hashes beside the path of index i, on n levels.                      *)
IsPath(path, hs, i, n) ==
  \A k \in 1 .. n : path[k] = Neighbour(hs[k], Pointer(i)[k - 1])

(* What verify() computes from the right datum is the tree's own hashes.    *)
LEMMA TestsOnTree ==
  ASSUME IsTree(data, hashes, TRUE), index \in {0, 1}, index < Len(data),
         NEW n \in Nat, n = Len(hashes) - 1, IsPath(proof, hashes, index, n),
         NEW f, Tests(f, data[index + 1], proof, index, n)
  PROVE  f[n] = Last(hashes)[1]
<1> DEFINE m == Len(hashes)
           P == Pointer(index)
           S == {j \in Nat : j + 1 <= m - 1 => f[j + 1] = hashes[j + 2][1]}
<1>1. P[0] = index /\ \A j \in Nat : P[j + 1] = 0
  BY FirstPath
<1>2. m \in Nat /\ m >= 2 /\ m - 1 = n /\ Last(hashes) = hashes[m]
  <2>1. m \in Nat /\ m >= 2 /\ Last(hashes) = hashes[m]
    BY Height
  <2> QED
    BY <2>1
<1>3. /\ f[0] = data[index + 1]
      /\ \A k \in 1 .. (m - 1) : f[k] = Paired(proof, index, k, f[k - 1])
      /\ \A k \in 1 .. (m - 1) : proof[k] = Neighbour(hashes[k], P[k - 1])
  BY <1>2 DEF Tests, IsPath
<1>4. \A k \in 2 .. m : hashes[k][1] = HashPair(hashes[k - 1][1], hashes[k - 1][2])
  <2>1. \A k \in 2 .. m : k \in 1 .. Len(hashes) /\ k > 1
    BY <1>2
  <2> QED
    BY <2>1 DEF IsTree, IsLevel
<1>5. \A k \in 1 .. (m - 1) : hashes[k + 1][1] = HashPair(hashes[k][1], hashes[k][2])
  <2>1. \A k \in 1 .. (m - 1) : k + 1 \in 2 .. m /\ (k + 1) - 1 = k
    BY <1>2
  <2> QED
    BY <1>4, <2>1
<1> HIDE DEF m
<1>6. 0 \in S
  <2>1. 1 \in 1 .. (m - 1) /\ 1 - 1 = 0 /\ 1 + 1 = 2
    BY <1>2
  <2>2. f[1] = Paired(proof, index, 1, f[0]) /\ proof[1] = Neighbour(hashes[1], P[0])
    BY <1>3, <2>1
  <2>3. hashes[2][1] = HashPair(hashes[1][1], hashes[1][2])
    BY <1>5, <2>1
  <2>4. hashes[1][index + 1] = data[index + 1]
    <3>1. Len(data) > 1 /\ \A k \in 1 .. Len(data) : hashes[1][k] = data[k]
      BY DEF IsTree
    <3>2. index + 1 \in 1 .. Len(data)
      BY <3>1
    <3> QED
      BY <3>1, <3>2
  <2>5. CASE index = 0
    <3>1. proof[1] = hashes[1][2] /\ f[1] = HashPair(f[0], proof[1])
      BY <1>1, <2>1, <2>2, <2>5 DEF Neighbour, Paired
    <3> QED
      BY <1>3, <2>3, <2>4, <2>5, <3>1
  <2>6. CASE index = 1
    <3>1. proof[1] = hashes[1][1] /\ f[1] = HashPair(proof[1], f[0])
      BY <1>1, <2>1, <2>2, <2>6 DEF Neighbour, Paired
    <3> QED
      BY <1>3, <2>3, <2>4, <2>6, <3>1
  <2> QED
    BY <2>5, <2>6
<1>7. ASSUME NEW j \in Nat, j \in S PROVE j + 1 \in S
  <2>1. SUFFICES ASSUME (j + 1) + 1 <= m - 1
                 PROVE  f[(j + 1) + 1] = hashes[(j + 1) + 2][1]
    OBVIOUS
  <2> DEFINE k == (j + 1) + 1
  <2>2. /\ k \in 1 .. (m - 1) /\ k - 1 = j + 1 /\ j + 1 <= m - 1
        /\ k = j + 2 /\ k + 1 = (j + 1) + 2
    BY <1>2, <2>1
  <2>3. f[k - 1] = hashes[k][1]
    BY <1>7, <2>2
  <2>4. P[k - 1] = 0
    BY <1>1, <2>2
  <2> HIDE DEF k
  <2>5. hashes[(j + 1) + 2][1] = HashPair(hashes[k][1], hashes[k][2])
    BY <1>5, <2>2
  <2>6. f[k] = Paired(proof, index, k, f[k - 1]) /\ proof[k] = Neighbour(hashes[k], P[k - 1])
    BY <1>3, <2>2
  <2>7. proof[k] = hashes[k][2] /\ f[k] = HashPair(f[k - 1], proof[k])
    BY <2>4, <2>6 DEF Neighbour, Paired
  <2>8. f[k] = hashes[(j + 1) + 2][1]
    BY <2>3, <2>5, <2>7
  <2> QED
    BY <2>8 DEF k
<1>8. Nat \subseteq S
  <2> HIDE DEF S
  <2> QED
    BY <1>6, <1>7, SetInduction
<1>9. m - 2 \in Nat /\ (m - 2) + 1 = m - 1 /\ (m - 2) + 2 = m
  BY <1>2
<1>10. m - 2 \in S
  BY <1>8, <1>9
<1>11. f[m - 1] = hashes[m][1]
  BY <1>9, <1>10
<1> QED
  BY <1>2, <1>11

LEMMA TreeProvesFirstPair == TreeInv => FirstPairIsProved
<1> SUFFICES ASSUME TreeInv, pc = "proved", index \in {0, 1}
             PROVE  \A d : Verify(Root, d, proof, index) <=> d = data[index + 1]
  BY DEF FirstPairIsProved
<1> DEFINE m == Len(hashes)
           right == data[index + 1]
<1>1. /\ Len(data) \in Nat /\ index \in 0 .. (Len(data) - 1) /\ proof = ProofOf(index)
      /\ \/ Len(data) = 1 /\ hashes = <<data>>
         \/ IsTree(data, hashes, TRUE)
  BY ProvedTree
<1>2. CASE Len(data) = 1 /\ hashes = <<data>>
  <2>1. Len(hashes) = 1 /\ Last(hashes) = data /\ hashes # << >>
    BY <1>2 DEF Last
  <2>2. index = 0
    BY <1>1, <1>2
  <2>3. Root = data[1] /\ right = data[1]
    BY <2>1, <2>2 DEF Root
  <2>4. right # ZeroHash
    <3>1. data \in Seq(Datum) /\ 1 \in 1 .. Len(data)
      BY <1>2 DEF TreeInv
    <3>2. data[1] \in Datum
      BY <3>1, ElementOfSeq
    <3> QED
      BY <2>3, <3>2, MerkleAssumption DEF MerkleAssumption
  <2>5. Len(proof) = 0
    <3>1. 0 = Len(hashes) - 1
      BY <2>1
    <3> QED
      BY <1>1, <3>1, ProofOfProperties
  <2> HIDE DEF right
  <2>6. Test(right, proof, index)[Len(proof)] = Root
    <3>1. Tests(Test(right, proof, index), right, proof, index, Len(proof))
      BY <2>5, TestStep
    <3> QED
      BY <2>3, <2>5, <3>1 DEF Tests, right
  <2>7. Root # ZeroHash
    BY <2>3, <2>4 DEF right
  <2>8. Verify(Root, right, proof, index) /\ Len(proof) \in Nat
    BY <2>5, <2>6, <2>7 DEF Verify
  <2> QED
    BY <2>8, VerifyTellsApart DEF right
<1>3. CASE IsTree(data, hashes, TRUE)
  <2>1. m \in Nat /\ m >= 2 /\ Last(hashes) = hashes[m]
    BY <1>3, Height
  <2>2. /\ m - 1 \in Nat
        /\ Len(proof) = m - 1
        /\ \A k \in 1 .. (m - 1) :
             proof[k] = Neighbour(hashes[k], Pointer(index)[k - 1])
    <3>1. m - 1 \in Nat
      BY <2>1
    <3> QED
      BY <1>1, <3>1, ProofOfProperties
  <2>3. Root = hashes[m][1]
    <3>1. hashes # << >>
      <4>1. Len(<< >>) = 0
        OBVIOUS
      <4> QED
        BY <2>1, <4>1
    <3> QED
      BY <2>1, <3>1 DEF Root
  <2>4. Root # ZeroHash
    <3>1. m \in 1 .. Len(hashes) /\ m > 1
      BY <2>1
    <3>2. hashes[m][1] = HashPair(hashes[m - 1][1], hashes[m - 1][2])
      BY <1>3, <3>1 DEF IsTree, IsLevel
    <3>3. \A x, y : <<x, y>> # << >>
      OBVIOUS
    <3> QED
      BY <2>3, <3>2, <3>3 DEF HashPair, ZeroHash
  <2>5. index < Len(data)
    BY <1>1
  <2>6. Test(right, proof, index)[m - 1] = Root
    <3> DEFINE f == Test(right, proof, index)
    <3>1. PICK n \in Nat : n = m - 1
      BY <2>2
    <3> HIDE DEF f, m
    <3>2. n = Len(hashes) - 1 /\ IsPath(proof, hashes, index, n)
      BY <2>2, <3>1 DEF IsPath, m
    <3>3. Tests(f, right, proof, index, n)
      BY <2>2, <3>1, TestStep DEF f
    <3>4. f[n] = Last(hashes)[1]
      BY <1>3, <2>5, <3>2, <3>3, TestsOnTree
    <3> QED
      BY <2>1, <2>3, <3>1, <3>4 DEF f
  <2> HIDE DEF right, m
  <2>7. Verify(Root, right, proof, index) /\ Len(proof) \in Nat
    BY <2>2, <2>4, <2>6 DEF Verify
  <2> QED
    BY <2>7, VerifyTellsApart DEF right
<1> QED
  BY <1>1, <1>2, <1>3

(* However many data there are, the proof of the first or the second of     *)
(* them verifies for that datum and for no other.                           *)
THEOREM MerkleFirstPairIsProved == Spec => []FirstPairIsProved
<1> QED
  BY MerkleTreeInvariant, TreeProvesFirstPair, PTL

================================================================================
