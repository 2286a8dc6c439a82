----------------------------- MODULE Srp6Proofs -----------------------------
(***************************************************************************)
(* Proofs about Srp6: its types, that the key an accepted client holds is  *)
(* the one stored for it, and that the right password is never called      *)
(* wrong. The last is the identity on which SRP6 rests, so the module      *)
(* begins with what it needs: minima of sets of numbers (in place of       *)
(* induction), functions defined by recursion, and arithmetic modulo N.    *)
(***************************************************************************)
EXTENDS Srp6, SequenceTheorems, WellFoundedInduction, TLAPS

-----------------------------------------------------------------------------
(* Induction and recursion over the natural numbers.                       *)

\* A non-empty set of natural numbers has a least element. An induction is the
\* remark that the set of the counterexamples has none.
LEMMA LeastElement ==
    ASSUME NEW T, T \subseteq Nat, T # {}
    PROVE  \E x \in T : \A y \in T : x <= y
<1>1. PICK x \in T : \A y \in T : ~ (<<y, x>> \in OpToRel(<, Nat))
  BY NatLessThanWellFounded, WFMin, Zenon
<1>2. \A y \in T : ~ (y < x)
  BY <1>1, Zenon DEF OpToRel
<1> QED BY <1>2

\* A recursion over V: a value at zero, and a step from an earlier value.
IsRecursion(V, c, step, earlier) ==
    /\ c \in V
    /\ step \in [Nat \X V -> V]
    /\ earlier \in [Nat -> Nat]
    /\ \A i \in Nat : i > 0 => earlier[i] < i

\* F follows the recursion (c at zero, step of an earlier value elsewhere) on D.
Follows(F, D, c, step, earlier) ==
    \A i \in D : F[i] = IF i = 0 THEN c ELSE step[<<i, F[earlier[i]]>>]

\* Two functions that follow the same recursion up to n agree there.
LEMMA RecursionUnique ==
    ASSUME NEW V, NEW c, NEW step, NEW earlier,
           IsRecursion(V, c, step, earlier),
           NEW n \in Nat
    PROVE  \A F, G : Follows(F, 0..n, c, step, earlier) /\ Follows(G, 0..n, c, step, earlier)
              => \A i \in 0..n : F[i] = G[i]
<1>0. SUFFICES ASSUME NEW F, NEW G, Follows(F, 0..n, c, step, earlier),
                      Follows(G, 0..n, c, step, earlier)
               PROVE  \A i \in 0..n : F[i] = G[i]
  OBVIOUS
<1> USE DEF IsRecursion
<1> DEFINE T == {i \in 0..n : F[i] # G[i]}
<1>1. SUFFICES ASSUME T # {} PROVE FALSE
  OBVIOUS
<1>2. PICK m \in T : \A y \in T : m <= y
  <2>1. T \subseteq Nat OBVIOUS
  <2> QED BY <1>1, <2>1, LeastElement
<1>3. CASE m = 0
  BY <1>0, <1>3 DEF Follows
<1>4. CASE m # 0
  <2>1. earlier[m] \in 0..n /\ earlier[m] < m
    BY <1>4
  <2>2. earlier[m] \notin T
    BY <1>2, <2>1
  <2>3. F[earlier[m]] = G[earlier[m]]
    BY <2>1, <2>2
  <2>4. F[m] = step[<<m, F[earlier[m]]>>] /\ G[m] = step[<<m, G[earlier[m]]>>]
    BY <1>0, <1>4 DEF Follows
  <2> QED BY <2>3, <2>4
<1> QED BY <1>3, <1>4

\* Up to every n there is one.
LEMMA RecursionUpTo ==
    ASSUME NEW V, NEW c, NEW step, NEW earlier,
           IsRecursion(V, c, step, earlier),
           NEW n \in Nat
    PROVE  \E F \in [0..n -> V] : Follows(F, 0..n, c, step, earlier)
<1> USE DEF IsRecursion
<1> DEFINE Has(k) == \E F \in [0..k -> V] : Follows(F, 0..k, c, step, earlier)
           T == {k \in Nat : ~ Has(k)}
<1>1. SUFFICES ASSUME T # {} PROVE FALSE
  <2>1. n \notin T
    BY <1>1
  <2> QED BY <2>1
<1>2. PICK m \in T : \A y \in T : m <= y
  <2>1. T \subseteq Nat OBVIOUS
  <2> HIDE DEF T
  <2> QED BY <1>1, <2>1, LeastElement
<1>3. CASE m = 0
  <2> DEFINE F == [i \in 0..0 |-> c]
  <2>1. F \in [0..0 -> V] /\ Follows(F, 0..0, c, step, earlier)
    BY DEF Follows
  <2> QED BY <1>3, <2>1
<1>4. CASE m # 0
  <2>1. m - 1 \in Nat /\ m - 1 \notin T
    <3>1. m \in Nat OBVIOUS
    <3> HIDE DEF T
    <3> QED BY <1>2, <1>4, <3>1
  <2>2. PICK F \in [0..(m - 1) -> V] : Follows(F, 0..(m - 1), c, step, earlier)
    BY <2>1
  <2> DEFINE G == [i \in 0..m |-> IF i < m THEN F[i] ELSE step[<<m, F[earlier[m]]>>]]
  <2>3. earlier[m] \in 0..(m - 1)
    BY <1>4
  <2>4. G \in [0..m -> V]
    BY <2>3, SMTT(30)
  <2>5. ASSUME NEW i \in 0..m
        PROVE  G[i] = IF i = 0 THEN c ELSE step[<<i, G[earlier[i]]>>]
    <3>1. CASE i = m
      <4>1. G[i] = step[<<i, F[earlier[i]]>>] /\ G[earlier[i]] = F[earlier[i]]
        BY <3>1, <2>3
      <4> HIDE DEF G
      <4> QED BY <4>1, <3>1, <1>4
    <3>2. CASE i < m /\ i # 0
      <4>1. earlier[i] \in 0..(m - 1) /\ i \in 0..(m - 1)
        BY <3>2
      <4>2. F[i] = step[<<i, F[earlier[i]]>>]
        BY <2>2, <3>2, <4>1 DEF Follows
      <4>3. G[i] = F[i] /\ i # 0
        BY <3>2, <4>1
      <4>4. G[earlier[i]] = F[earlier[i]]
        BY <4>1
      <4> HIDE DEF G
      <4> QED BY <4>2, <4>3, <4>4
    <3>3. CASE i < m /\ i = 0
      <4>1. F[0] = c
        <5>1. 0 \in 0..(m - 1)
          BY <3>3
        <5> QED BY <2>2, <5>1 DEF Follows
      <4> QED BY <3>3, <4>1
    <3> QED BY <3>1, <3>2, <3>3
  <2>6. Follows(G, 0..m, c, step, earlier)
    BY <2>5 DEF Follows
  <2> HIDE DEF G
  <2> QED BY <2>4, <2>6
<1> QED BY <1>3, <1>4

\* So there is one on all natural numbers.
LEMMA RecursionExists ==
    ASSUME NEW V, NEW c, NEW step, NEW earlier,
           IsRecursion(V, c, step, earlier)
    PROVE  \E F \in [Nat -> V] : Follows(F, Nat, c, step, earlier)
<1>0. \A m \in Nat : \A G, H :
         Follows(G, 0..m, c, step, earlier) /\ Follows(H, 0..m, c, step, earlier)
           => \A i \in 0..m : G[i] = H[i]
  BY RecursionUnique
<1> DEFINE Part(n) == CHOOSE F : F \in [0..n -> V] /\ Follows(F, 0..n, c, step, earlier)
           F == [n \in Nat |-> Part(n)[n]]
<1>1. \A n \in Nat : Part(n) \in [0..n -> V] /\ Follows(Part(n), 0..n, c, step, earlier)
  BY RecursionUpTo
<1> HIDE DEF Part
<1>2. ASSUME NEW n \in Nat, NEW m \in Nat, m <= n
      PROVE  Part(n)[m] = Part(m)[m]
  <2>1. Follows(Part(n), 0..m, c, step, earlier)
    <3>1. \A i \in 0..m : i \in 0..n
      BY <1>2
    <3> QED BY <1>1, <3>1 DEF Follows
  <2>2. Follows(Part(m), 0..m, c, step, earlier)
    BY <1>1
  <2>3. \A G, H : Follows(G, 0..m, c, step, earlier) /\ Follows(H, 0..m, c, step, earlier)
              => \A i \in 0..m : G[i] = H[i]
    BY <1>0
  <2>4. \A i \in 0..m : Part(n)[i] = Part(m)[i]
    BY <2>1, <2>2, <2>3, Zenon
  <2> QED BY <2>4
<1> USE DEF IsRecursion
<1>3. F \in [Nat -> V]
  BY <1>1
<1>4. ASSUME NEW i \in Nat
      PROVE  F[i] = IF i = 0 THEN c ELSE step[<<i, F[earlier[i]]>>]
  <2>1. Part(i)[i] = IF i = 0 THEN c ELSE step[<<i, Part(i)[earlier[i]]>>]
    BY <1>1, SMTT(30) DEF Follows
  <2>2. CASE i = 0
    BY <2>1, <2>2
  <2>3. CASE i # 0
    <3>1. earlier[i] \in Nat /\ earlier[i] <= i
      BY <2>3
    <3>2. Part(i)[earlier[i]] = Part(earlier[i])[earlier[i]]
      BY <3>1, <1>2
    <3> QED BY <2>1, <2>3, <3>1, <3>2
  <2> QED BY <2>2, <2>3
<1>5. Follows(F, Nat, c, step, earlier)
  BY <1>4 DEF Follows
<1> QED BY <1>3, <1>5

-----------------------------------------------------------------------------
(* The recursive functions of Srp6.                                        *)

LEMMA PlaceRecursion ==
    Place = [i \in Nat |-> IF i = 0 THEN 1 ELSE Base * Place[i - 1]]
<1> DEFINE V == Nat \ {0}
           step == [p \in Nat \X V |-> Base * p[2]]
           earlier == [i \in Nat |-> IF i = 0 THEN 0 ELSE i - 1]
<1>1. IsRecursion(V, 1, step, earlier)
  <2>1. ASSUME NEW v \in V PROVE Base * v \in V
    BY SrpAssumption
  <2>2. step \in [Nat \X V -> V]
    BY <2>1
  <2> QED BY <2>2 DEF IsRecursion
<1>2. PICK F \in [Nat -> V] : Follows(F, Nat, 1, step, earlier)
  <2> HIDE DEF V, step, earlier
  <2> QED BY <1>1, RecursionExists
<1>3. ASSUME NEW i \in Nat PROVE F[i] = IF i = 0 THEN 1 ELSE Base * F[i - 1]
  <2>1. F[i] = IF i = 0 THEN 1 ELSE step[<<i, F[earlier[i]]>>]
    BY <1>2 DEF Follows
  <2>2. i # 0 => earlier[i] = i - 1 /\ F[i - 1] \in V
    OBVIOUS
  <2> QED BY <2>1, <2>2
<1>4. F = [i \in Nat |-> IF i = 0 THEN 1 ELSE Base * F[i - 1]]
  BY <1>3
<1> QED BY <1>4 DEF Place

LEMMA PlacePositive == \A i \in Nat : Place[i] \in Nat \ {0}
<1> DEFINE T == {i \in Nat : Place[i] \notin Nat \ {0}}
<1>1. SUFFICES ASSUME T # {} PROVE FALSE
  OBVIOUS
<1>2. PICK m \in T : \A y \in T : m <= y
  <2>1. T \subseteq Nat OBVIOUS
  <2> QED BY <1>1, <2>1, LeastElement
<1>3. Place[m] = IF m = 0 THEN 1 ELSE Base * Place[m - 1]
  BY PlaceRecursion
<1>4. m # 0 => Place[m - 1] \in Nat \ {0}
  BY <1>2
<1> QED BY <1>3, <1>4, SrpAssumption

LEMMA ModPowRecursion ==
    ASSUME NEW x \in Nat
    PROVE  \A e \in Nat :
              ModPow(x, e) = IF e = 0 THEN 1
                             ELSE (ModPow(x, e \div 2) * ModPow(x, e \div 2)
                                     * (IF e % 2 = 1 THEN x % N ELSE 1)) % N
<1> DEFINE V == 0..(N - 1)
           step == [p \in Nat \X V |-> (p[2] * p[2] * (IF p[1] % 2 = 1 THEN x % N ELSE 1)) % N]
           earlier == [i \in Nat |-> i \div 2]
           Body(f) == [i \in Nat |-> IF i = 0 THEN 1
                                      ELSE (f[i \div 2] * f[i \div 2]
                                              * (IF i % 2 = 1 THEN x % N ELSE 1)) % N]
           P == CHOOSE f : f = Body(f)
<1>1. IsRecursion(V, 1, step, earlier)
  <2>0. N \in Nat /\ N > 1
    BY SrpAssumption
  <2>1. ASSUME NEW v \in V, NEW i \in Nat
        PROVE  (v * v * (IF i % 2 = 1 THEN x % N ELSE 1)) % N \in V
    <3>1. v * v * (IF i % 2 = 1 THEN x % N ELSE 1) \in Int
      BY <2>0
    <3> QED BY <2>0, <3>1
  <2>2. step \in [Nat \X V -> V]
    BY <2>1
  <2>3. earlier \in [Nat -> Nat] /\ \A i \in Nat : i > 0 => earlier[i] < i
    OBVIOUS
  <2>4. 1 \in V
    BY <2>0
  <2> HIDE DEF V, step, earlier
  <2> QED BY <2>2, <2>3, <2>4 DEF IsRecursion
<1>2. PICK F \in [Nat -> V] : Follows(F, Nat, 1, step, earlier)
  <2> HIDE DEF V, step, earlier
  <2> QED BY <1>1, RecursionExists
<1>3. ASSUME NEW i \in Nat PROVE F[i] = Body(F)[i]
  <2>1. F[i] = IF i = 0 THEN 1 ELSE step[<<i, F[earlier[i]]>>]
    BY <1>2 DEF Follows
  <2>2. earlier[i] = i \div 2 /\ i \div 2 \in Nat /\ F[i \div 2] \in V
    OBVIOUS
  <2> QED BY <2>1, <2>2
<1>4. F = Body(F)
  BY <1>3
<1>5. P = Body(P)
  BY <1>4
<1>6. \A e \in Nat : ModPow(x, e) = P[e]
  BY DEF ModPow
<1> HIDE DEF P
<1>7. \A e \in Nat : e \div 2 \in Nat
  OBVIOUS
<1> QED BY <1>5, <1>6, <1>7

-----------------------------------------------------------------------------
(* Arithmetic modulo N.                                                    *)

LEMMA Modulus == N \in Nat /\ N > 1
BY SrpAssumption

LEMMA ModSplit ==
    ASSUME NEW a \in Int
    PROVE  a \div N \in Int /\ a % N \in Number /\ a = N * (a \div N) + (a % N)
BY Modulus DEF Number

LEMMA ModUnique ==
    ASSUME NEW q \in Int, NEW k \in Int, NEW r \in Number, NEW s \in Number,
           N * q + r = N * k + s
    PROVE  r = s
<1> USE Modulus DEF Number
<1>1. CASE q = k BY <1>1
<1>2. CASE q > k
  <2>1. N * (q - k) >= N BY <1>2
  <2> QED BY <2>1
<1>3. CASE q < k
  <2>1. N * (k - q) >= N BY <1>3
  <2> QED BY <2>1
<1> QED BY <1>1, <1>2, <1>3

LEMMA ModShift ==
    ASSUME NEW a \in Int, NEW k \in Int
    PROVE  (a + N * k) % N = a % N
<1> DEFINE q == a \div N  r == a % N  b == a + N * k  p == b \div N  s == b % N
<1>0. b \in Int
  BY Modulus
<1>1. q \in Int /\ r \in Number /\ a = N * q + r
  BY ModSplit
<1> HIDE DEF b
<1>2. p \in Int /\ s \in Number /\ b = N * p + s
  BY <1>0, ModSplit
<1> HIDE DEF q, r, p, s
<1>3. b = N * (q + k) + r
  <2>1. b = N * q + r + N * k
    BY <1>1 DEF b
  <2> QED BY <2>1, <1>1, Modulus DEF Number
<1>4. s = r
  <2>1. q + k \in Int
    BY <1>1
  <2>2. N * p + s = N * (q + k) + r
    BY <1>2, <1>3
  <2> QED BY <2>1, <2>2, <1>1, <1>2, ModUnique
<1> QED BY <1>4 DEF s, r, b

LEMMA ModSmall ==
    ASSUME NEW a \in Number
    PROVE  a % N = a
<1>1. a \in Int
  BY Modulus DEF Number
<1>2. a \div N \in Int /\ a % N \in Number /\ N * (a \div N) + (a % N) = N * 0 + a
  BY <1>1, ModSplit, Modulus
<1> QED BY <1>2, ModUnique

LEMMA ModMul ==
    ASSUME NEW a \in Int, NEW b \in Int
    PROVE  ((a % N) * b) % N = (a * b) % N
<1> DEFINE q == a \div N  r == a % N
<1>1. q \in Int /\ r \in Int /\ a = N * q + r
  BY ModSplit, Modulus DEF Number
<1> HIDE DEF q, r
<1>2. a * b = r * b + N * (q * b)
  BY <1>1, Modulus
<1>3. r * b \in Int /\ q * b \in Int
  BY <1>1
<1>4. (a * b) % N = (r * b) % N
  BY <1>2, <1>3, ModShift
<1> QED BY <1>4 DEF r

LEMMA ModMulRight ==
    ASSUME NEW a \in Int, NEW b \in Int
    PROVE  (a * (b % N)) % N = (a * b) % N
<1>1. b % N \in Int
  BY ModSplit, Modulus DEF Number
<1>2. a * (b % N) = (b % N) * a /\ a * b = b * a
  BY <1>1
<1> QED BY <1>2, ModMul

-----------------------------------------------------------------------------
(* The laws of powers.                                                     *)

LEMMA PowType ==
    ASSUME NEW x \in Nat
    PROVE  \A e \in Nat : ModPow(x, e) \in Number
<1> DEFINE T == {e \in Nat : ModPow(x, e) \notin Number}
<1>1. SUFFICES ASSUME T # {} PROVE FALSE
  OBVIOUS
<1>2. PICK m \in T : \A y \in T : m <= y
  <2>1. T \subseteq Nat OBVIOUS
  <2> QED BY <1>1, <2>1, LeastElement
<1>3. CASE m = 0
  <2>1. ModPow(x, 0) = 1
    BY ModPowRecursion
  <2>2. 1 \in Number
    BY Modulus DEF Number
  <2> QED BY <1>3, <2>1, <2>2
<1>4. CASE m # 0
  <2> DEFINE h == ModPow(x, m \div 2)
  <2>1. m \div 2 \in Nat /\ m \div 2 < m
    BY <1>4
  <2>2. h \in Int
    BY <2>1, <1>2, Modulus DEF Number
  <2>3. ModPow(x, m) = (h * h * (IF m % 2 = 1 THEN x % N ELSE 1)) % N
    BY <1>4, ModPowRecursion
  <2>4. x % N \in Int
    BY Modulus
  <2> HIDE DEF h
  <2>5. h * h * (IF m % 2 = 1 THEN x % N ELSE 1) \in Int
    BY <2>2, <2>4
  <2>6. ModPow(x, m) \in Number
    BY <2>3, <2>5, ModSplit
  <2> QED BY <2>6
<1> QED BY <1>3, <1>4

LEMMA PowInt ==
    ASSUME NEW x \in Nat, NEW e \in Nat
    PROVE  ModPow(x, e) \in Int /\ ModPow(x, e) \in Nat
BY PowType, Modulus DEF Number

LEMMA PowZero ==
    ASSUME NEW x \in Nat
    PROVE  ModPow(x, 0) = 1
BY ModPowRecursion

\* Squaring and multiplying amounts to multiplying.
LEMMA PowSucc ==
    ASSUME NEW x \in Nat
    PROVE  \A e \in Nat : ModPow(x, e + 1) = (ModPow(x, e) * x) % N
<1> DEFINE T == {e \in Nat : ModPow(x, e + 1) # (ModPow(x, e) * x) % N}
<1>1. SUFFICES ASSUME T # {} PROVE FALSE
  OBVIOUS
<1>2. PICK m \in T : \A y \in T : m <= y
  <2>1. T \subseteq Nat OBVIOUS
  <2> QED BY <1>1, <2>1, LeastElement
<1> DEFINE k == m \div 2
           h == ModPow(x, k)
<1>3. m \in Nat /\ k \in Nat /\ h \in Int /\ x \in Int /\ h * h \in Int
  <2>1. m \in Nat /\ k \in Nat
    OBVIOUS
  <2>2. h \in Int
    BY <2>1, PowInt
  <2> QED BY <2>1, <2>2
<1>4. CASE m % 2 = 0
  <2>1. (m + 1) \div 2 = k /\ (m + 1) % 2 = 1 /\ m + 1 # 0
    BY <1>3, <1>4
  <2>2. ModPow(x, m + 1) = (h * h * (x % N)) % N
    BY <2>1, <1>3, ModPowRecursion
  <2>3. ModPow(x, m) = (h * h) % N
    <3>1. CASE m = 0
      <4>1. h = 1 /\ ModPow(x, m) = 1
        BY <3>1, PowZero
      <4>2. 1 \in Number
        BY Modulus DEF Number
      <4>3. 1 % N = 1
        BY <4>2, ModSmall
      <4> QED BY <4>1, <4>3
    <3>2. CASE m # 0
      <4>1. ModPow(x, m) = (h * h * 1) % N
        BY <1>3, <1>4, <3>2, ModPowRecursion
      <4> QED BY <4>1, <1>3
    <3> QED BY <3>1, <3>2
  <2>4. (h * h * (x % N)) % N = (h * h * x) % N
    BY <1>3, ModMulRight
  <2>5. (((h * h) % N) * x) % N = (h * h * x) % N
    BY <1>3, ModMul
  <2> QED BY <2>2, <2>3, <2>4, <2>5
<1>5. CASE m % 2 = 1
  <2>1. (m + 1) \div 2 = k + 1 /\ (m + 1) % 2 = 0 /\ m + 1 # 0 /\ m # 0 /\ k < m
    BY <1>3, <1>5
  <2> DEFINE y == (h * x) % N
  <2>2. ModPow(x, k + 1) = y
    BY <1>2, <1>3, <2>1
  <2>3. y \in Int /\ h * x \in Int
    BY <1>3, ModSplit, Modulus DEF Number
  <2>4. ModPow(x, m + 1) = (y * y) % N
    <3>1. ModPow(x, m + 1) = (y * y * 1) % N
      BY <1>3, <2>1, <2>2, ModPowRecursion
    <3> QED BY <3>1, <2>3
  <2>5. (y * y) % N = ((h * x) * (h * x)) % N
    <3>1. (y * y) % N = ((h * x) * y) % N
      BY <2>3, ModMul
    <3>2. ((h * x) * y) % N = ((h * x) * (h * x)) % N
      BY <2>3, ModMulRight
    <3> QED BY <3>1, <3>2
  <2>6. ModPow(x, m) = (h * h * x) % N
    <3>1. ModPow(x, m) = (h * h * (x % N)) % N
      BY <1>3, <1>5, <2>1, ModPowRecursion
    <3> QED BY <3>1, <1>3, ModMulRight
  <2>7. (((h * h * x) % N) * x) % N = ((h * h * x) * x) % N
    <3>1. h * h * x \in Int
      BY <1>3
    <3> QED BY <3>1, <1>3, ModMul
  <2>8. (h * x) * (h * x) = (h * h * x) * x
    BY <1>3
  <2> QED BY <2>4, <2>5, <2>6, <2>7, <2>8
<1> QED BY <1>3, <1>4, <1>5

LEMMA PowAdd ==
    ASSUME NEW x \in Nat, NEW e \in Nat
    PROVE  \A f \in Nat : ModPow(x, e + f) = (ModPow(x, e) * ModPow(x, f)) % N
<1> DEFINE T == {f \in Nat : ModPow(x, e + f) # (ModPow(x, e) * ModPow(x, f)) % N}
<1>1. SUFFICES ASSUME T # {} PROVE FALSE
  OBVIOUS
<1>2. PICK m \in T : \A y \in T : m <= y
  <2>1. T \subseteq Nat OBVIOUS
  <2> QED BY <1>1, <2>1, LeastElement
<1>3. CASE m = 0
  <2>1. ModPow(x, e) \in Number /\ ModPow(x, e) \in Int
    BY PowType, PowInt
  <2>2. ModPow(x, e) % N = ModPow(x, e)
    BY <2>1, ModSmall
  <2>3. e + m = e /\ ModPow(x, m) = 1 /\ ModPow(x, e) * 1 = ModPow(x, e)
    BY <1>3, <2>1, PowZero
  <2> QED BY <2>2, <2>3
<1>4. CASE m # 0
  <2> DEFINE n == m - 1
             a == ModPow(x, e)
             b == ModPow(x, n)
  <2>1. m \in Nat /\ n \in Nat /\ m = n + 1 /\ e + n \in Nat /\ e + m = (e + n) + 1
    BY <1>4
  <2>2. n \notin T
    BY <1>2, <2>1
  <2>3. ModPow(x, e + n) = (a * b) % N
    BY <2>1, <2>2
  <2>4. ModPow(x, (e + n) + 1) = (ModPow(x, e + n) * x) % N
    BY <2>1, PowSucc
  <2>5. ModPow(x, n + 1) = (b * x) % N
    BY <2>1, PowSucc
  <2>6. a \in Int /\ b \in Int /\ x \in Int
    BY <2>1, PowInt
  <2> HIDE DEF n, a, b
  <2>7. a * b \in Int /\ b * x \in Int /\ (a * b) * x = a * (b * x)
    BY <2>6
  <2>8. (((a * b) % N) * x) % N = ((a * b) * x) % N
    BY <2>6, <2>7, ModMul
  <2>9. (a * ((b * x) % N)) % N = (a * (b * x)) % N
    BY <2>6, <2>7, ModMulRight
  <2>10. ModPow(x, e + m) = (a * ModPow(x, m)) % N
    BY <2>1, <2>3, <2>4, <2>5, <2>7, <2>8, <2>9
  <2> QED BY <2>10 DEF a
<1> QED BY <1>3, <1>4

LEMMA PowMul ==
    ASSUME NEW x \in Nat, NEW e \in Nat
    PROVE  \A f \in Nat : ModPow(ModPow(x, e), f) = ModPow(x, e * f)
<1> DEFINE a == ModPow(x, e)
           T == {f \in Nat : ModPow(a, f) # ModPow(x, e * f)}
<1>1. SUFFICES ASSUME T # {} PROVE FALSE
  OBVIOUS
<1>2. PICK m \in T : \A y \in T : m <= y
  <2>1. T \subseteq Nat OBVIOUS
  <2> QED BY <1>1, <2>1, LeastElement
<1>3. a \in Nat
  BY PowInt
<1>4. CASE m = 0
  <2>1. e * m = 0
    BY <1>4
  <2>2. ModPow(a, 0) = 1 /\ ModPow(x, 0) = 1
    BY <1>3, PowZero
  <2> QED BY <1>4, <2>1, <2>2
<1>5. CASE m # 0
  <2> DEFINE n == m - 1
  <2>1. m \in Nat /\ n \in Nat /\ m = n + 1
    BY <1>5
  <2>2. n \notin T
    BY <1>2, <2>1
  <2>3. ModPow(a, n) = ModPow(x, e * n)
    BY <2>1, <2>2
  <2> HIDE DEF n, a
  <2>4. e * m = e * n + e /\ e * n \in Nat
    BY <2>1
  <2>5. ModPow(x, e * n + e) = (ModPow(x, e * n) * ModPow(x, e)) % N
    BY <2>4, PowAdd
  <2>6. ModPow(a, n + 1) = (ModPow(a, n) * a) % N
    BY <1>3, <2>1, PowSucc
  <2>7. ModPow(a, m) = ModPow(x, e * m)
    BY <2>1, <2>3, <2>4, <2>5, <2>6 DEF a
  <2> QED BY <2>7
<1> QED BY <1>4, <1>5

LEMMA PowOfProduct ==
    ASSUME NEW x \in Nat, NEW y \in Nat
    PROVE  \A e \in Nat : ModPow(x * y, e) = (ModPow(x, e) * ModPow(y, e)) % N
<1> DEFINE T == {e \in Nat : ModPow(x * y, e) # (ModPow(x, e) * ModPow(y, e)) % N}
<1>1. SUFFICES ASSUME T # {} PROVE FALSE
  OBVIOUS
<1>2. PICK m \in T : \A z \in T : m <= z
  <2>1. T \subseteq Nat OBVIOUS
  <2> QED BY <1>1, <2>1, LeastElement
<1>3. x * y \in Nat /\ x \in Int /\ y \in Int
  OBVIOUS
<1>4. CASE m = 0
  <2>1. 1 \in Number
    BY Modulus DEF Number
  <2>2. (1 * 1) % N = 1
    BY <2>1, ModSmall
  <2>3. ModPow(x, 0) = 1 /\ ModPow(y, 0) = 1 /\ ModPow(x * y, 0) = 1
    BY <1>3, PowZero
  <2> QED BY <1>4, <2>2, <2>3
<1>5. CASE m # 0
  <2> DEFINE n == m - 1
             a == ModPow(x, n)
             b == ModPow(y, n)
  <2>1. m \in Nat /\ n \in Nat /\ m = n + 1
    BY <1>5
  <2>2. n \notin T
    BY <1>2, <2>1
  <2>3. ModPow(x * y, n) = (a * b) % N
    BY <2>1, <2>2
  <2>4. ModPow(x * y, n + 1) = (ModPow(x * y, n) * (x * y)) % N
    BY <1>3, <2>1, PowSucc
  <2>5. ModPow(x, n + 1) = (a * x) % N /\ ModPow(y, n + 1) = (b * y) % N
    BY <2>1, PowSucc
  <2>6. a \in Int /\ b \in Int
    BY <2>1, PowInt
  <2> HIDE DEF n, a, b
  <2>7. /\ a * b \in Int /\ x * y \in Int /\ a * x \in Int /\ b * y \in Int
        /\ (a * b) * (x * y) = (a * x) * (b * y)
    BY <1>3, <2>6
  <2>8. (((a * b) % N) * (x * y)) % N = ((a * b) * (x * y)) % N
    BY <2>7, ModMul
  <2>9. (((a * x) % N) * ((b * y) % N)) % N = ((a * x) * (b * y)) % N
    <3>1. (b * y) % N \in Int
      BY <2>7, ModSplit, Modulus DEF Number
    <3>2. (((a * x) % N) * ((b * y) % N)) % N = ((a * x) * ((b * y) % N)) % N
      BY <2>7, <3>1, ModMul
    <3>3. ((a * x) * ((b * y) % N)) % N = ((a * x) * (b * y)) % N
      BY <2>7, ModMulRight
    <3> QED BY <3>2, <3>3
  <2>10. ModPow(x * y, m) = (ModPow(x, m) * ModPow(y, m)) % N
    BY <2>1, <2>3, <2>4, <2>5, <2>7, <2>8, <2>9
  <2> QED BY <2>10
<1> QED BY <1>4, <1>5

\* Only the residue of what is raised to a power matters.
LEMMA PowMod ==
    ASSUME NEW x \in Nat, NEW y \in Nat, x % N = y % N
    PROVE  \A e \in Nat : ModPow(x, e) = ModPow(y, e)
<1> DEFINE T == {e \in Nat : ModPow(x, e) # ModPow(y, e)}
<1>1. SUFFICES ASSUME T # {} PROVE FALSE
  OBVIOUS
<1>2. PICK m \in T : \A z \in T : m <= z
  <2>1. T \subseteq Nat OBVIOUS
  <2> QED BY <1>1, <2>1, LeastElement
<1>3. CASE m = 0
  <2>1. ModPow(x, 0) = 1 /\ ModPow(y, 0) = 1
    BY PowZero
  <2> QED BY <1>3, <2>1
<1>4. CASE m # 0
  <2> DEFINE n == m - 1
             a == ModPow(x, n)
  <2>1. m \in Nat /\ n \in Nat /\ m = n + 1
    BY <1>4
  <2>2. n \notin T
    BY <1>2, <2>1
  <2>3. ModPow(y, n) = a
    BY <2>1, <2>2
  <2>4. ModPow(x, n + 1) = (a * x) % N /\ ModPow(y, n + 1) = (a * y) % N
    BY <2>1, <2>3, PowSucc
  <2>5. a \in Int /\ x \in Int /\ y \in Int
    BY <2>1, PowInt
  <2> HIDE DEF n, a
  <2>6. (a * x) % N = (a * y) % N
    <3>1. (a * (x % N)) % N = (a * x) % N /\ (a * (y % N)) % N = (a * y) % N
      BY <2>5, ModMulRight
    <3> QED BY <3>1
  <2>7. ModPow(x, m) = ModPow(y, m)
    BY <2>1, <2>4, <2>6
  <2> QED BY <2>7
<1> QED BY <1>3, <1>4

\* g has an inverse, so none of its powers is zero.
LEMMA GeneratorPower ==
    ASSUME NEW e \in Nat
    PROVE  ModPow(g, e) # 0
<1>1. g \in Nat
  BY SrpAssumption
<1>2. PICK h \in 1..(N - 1) : (g * h) % N = 1
  BY SrpAssumption
<1>3. h \in Nat /\ g * h \in Nat /\ 1 \in Nat
  BY <1>1
<1>4. 1 % N = 1
  <2>1. 1 \in Number
    BY Modulus DEF Number
  <2> QED BY <2>1, ModSmall
<1>5. ModPow(g * h, e) = ModPow(1, e)
  BY <1>2, <1>3, <1>4, PowMod
<1>6. \A f \in Nat : ModPow(1, f) = 1
  <2> DEFINE T == {f \in Nat : ModPow(1, f) # 1}
  <2>1. SUFFICES ASSUME T # {} PROVE FALSE
    OBVIOUS
  <2>2. PICK m \in T : \A z \in T : m <= z
    <3>1. T \subseteq Nat OBVIOUS
    <3> QED BY <2>1, <3>1, LeastElement
  <2>3. m # 0
    BY PowZero
  <2>4. m - 1 \in Nat /\ m - 1 \notin T
    BY <2>2, <2>3
  <2>5. ModPow(1, (m - 1) + 1) = (ModPow(1, m - 1) * 1) % N
    BY <2>4, PowSucc
  <2>6. ModPow(1, m - 1) = 1 /\ (m - 1) + 1 = m
    BY <2>4
  <2>7. ModPow(1, m) = 1
    BY <2>5, <2>6, <1>4
  <2> QED BY <2>7
<1>7. (ModPow(g, e) * ModPow(h, e)) % N = 1
  BY <1>1, <1>3, <1>5, <1>6, PowOfProduct
<1>8. ModPow(h, e) \in Int
  BY <1>3, PowInt
<1>9. ASSUME ModPow(g, e) = 0 PROVE FALSE
  <2>1. ModPow(g, e) * ModPow(h, e) = 0
    BY <1>8, <1>9
  <2>2. 0 \in Number
    BY Modulus DEF Number
  <2>3. 0 % N = 0
    BY <2>2, ModSmall
  <2> QED BY <1>7, <2>1, <2>3
<1> QED BY <1>9

-----------------------------------------------------------------------------
(* The two sides of SRP6.                                                  *)

\* Taking 3v from the server's public number leaves g to the power of b.
LEMMA BPubWithoutVerifier ==
    ASSUME NEW b \in Nat, NEW v \in Number
    PROVE  (CalculateBPub(b, v) + 3 * (N - v)) % N = ModPow(g, b) % N
<1> DEFINE p == ModPow(g, b)
           q == (p + v * 3) \div N
           B == (p + v * 3) % N
<1>1. p \in Int /\ v \in Int
  BY PowInt, SrpAssumption DEF Number
<1>2. p + v * 3 \in Int
  BY <1>1
<1>3. q \in Int /\ B \in Number /\ p + v * 3 = N * q + B
  BY <1>2, ModSplit
<1>4. B \in Int /\ N \in Int
  BY <1>3, Modulus DEF Number
<1> HIDE DEF p, q, B
<1>5. B + 3 * (N - v) = p + N * (3 - q)
  <2>1. B = p + v * 3 - N * q
    BY <1>1, <1>3, <1>4
  <2> QED BY <2>1, <1>1, <1>3, <1>4
<1>6. (p + N * (3 - q)) % N = p % N
  BY <1>1, <1>3, ModShift
<1> QED BY <1>5, <1>6 DEF CalculateBPub, p, B

\* The premaster secret of the client is the server's.
LEMMA PremastersMeet ==
    ASSUME NEW a \in Nat, NEW b \in Nat, NEW x \in Nat, NEW u \in Nat
    PROVE  LET v == ModPow(g, x) IN
           ModPow(CalculateBPub(b, v) + 3 * (N - v), a + u * x)
             = ModPow(ModPow(g, a) * ModPow(v, u), b)
<1> DEFINE v == ModPow(g, x)
           C == CalculateBPub(b, v) + 3 * (N - v)
           P == ModPow(g, b)
           G == ModPow(g, a + u * x)
           R == ModPow(g, a) * ModPow(v, u)
<1>1. g \in Nat /\ v \in Number /\ v \in Nat /\ P \in Nat
  <2>1. g \in Nat
    BY SrpAssumption
  <2> QED BY <2>1, PowInt, PowType
<1>2. u * x \in Nat /\ x * u = u * x /\ a + u * x \in Nat /\ b * (a + u * x) \in Nat
      /\ (a + u * x) * b = b * (a + u * x)
  OBVIOUS
<1>3. C \in Nat
  <2>1. CalculateBPub(b, v) \in Nat
    <3>1. P + v * 3 \in Int
      BY <1>1
    <3> QED BY <3>1, ModSplit, Modulus DEF CalculateBPub, Number
  <2>2. 3 * (N - v) \in Nat
    BY <1>1, Modulus DEF Number
  <2> QED BY <2>1, <2>2
<1>4. ModPow(C, a + u * x) = ModPow(g, b * (a + u * x))
  <2>1. C % N = P % N
    BY <1>1, BPubWithoutVerifier
  <2>2. ModPow(C, a + u * x) = ModPow(P, a + u * x)
    BY <1>1, <1>2, <1>3, <2>1, PowMod
  <2> QED BY <2>2, <1>1, <1>2, PowMul
<1>5. G \in Number /\ G \in Nat
  BY <1>1, <1>2, PowType, PowInt
<1>6. R \in Nat /\ R % N = G % N
  <2>1. ModPow(v, u) = ModPow(g, u * x)
    BY <1>1, <1>2, PowMul
  <2>2. G = (ModPow(g, a) * ModPow(g, u * x)) % N
    BY <1>1, <1>2, PowAdd
  <2>3. G % N = G
    BY <1>5, ModSmall
  <2>4. ModPow(g, a) \in Nat /\ ModPow(v, u) \in Nat
    BY <1>1, PowInt
  <2>5. R \in Nat
    BY <2>4
  <2> QED BY <2>1, <2>2, <2>3, <2>5
<1>7. ModPow(R, b) = ModPow(g, b * (a + u * x))
  <2>1. ModPow(R, b) = ModPow(G, b)
    BY <1>5, <1>6, PowMod
  <2>2. ModPow(G, b) = ModPow(g, (a + u * x) * b)
    BY <1>1, <1>2, PowMul
  <2> QED BY <2>1, <2>2, <1>2
<1> QED BY <1>4, <1>7

LEMMA SizeAssumption == Width \in Nat /\ Width > 0 /\ Width % 2 = 0 /\ Base \in Nat /\ Base > 1
BY SrpAssumption

LEMMA DigitsType ==
    ASSUME NEW n \in Nat
    PROVE  Digits(n) \in [1..Width -> 0..(Base - 1)]
<1>1. ASSUME NEW i \in 1..Width
      PROVE  (n \div Place[i - 1]) % Base \in 0..(Base - 1)
  <2>1. i - 1 \in Nat
    BY SizeAssumption
  <2>2. Place[i - 1] \in Nat /\ Place[i - 1] > 0
    BY <2>1, PlacePositive
  <2>3. n \div Place[i - 1] \in Int
    BY <2>2
  <2> QED BY <2>3, SizeAssumption
<1> QED BY <1>1 DEF Digits

\* Where the search for the first digit ends.
LEMMA FirstSetIs ==
    ASSUME NEW s \in [1..Width -> 0..(Base - 1)], \E i \in 1..Width : s[i] # 0
    PROVE  /\ FirstSet(s) \in 1..Width
           /\ s[FirstSet(s)] # 0
           /\ \A j \in 1..(FirstSet(s) - 1) : s[j] = 0
<1> DEFINE T == {i \in 1..Width : s[i] # 0}
<1>1. PICK m \in T : \A y \in T : m <= y
  <2>1. T \subseteq Nat /\ T # {}
    BY SizeAssumption
  <2> QED BY <2>1, LeastElement
<1>2. ASSUME NEW j \in 1..(m - 1) PROVE s[j] = 0
  <2>1. j \in 1..Width /\ j < m
    BY SizeAssumption
  <2>2. j \notin T
    BY <1>1, <2>1
  <2> QED BY <2>1, <2>2
<1>3. \E i \in 1..Width : s[i] # 0 /\ \A j \in 1..(i - 1) : s[j] = 0
  BY <1>2
<1> QED BY <1>3 DEF FirstSet

\* The number of zero digits before it.
LEMMA ZerosIs ==
    ASSUME NEW s \in [1..Width -> 0..(Base - 1)], NEW z \in 0..Width,
           \A i \in 1..z : s[i] = 0, z < Width => s[z + 1] # 0,
           NEW y \in 0..Width,
           \A i \in 1..y : s[i] = 0, y < Width => s[y + 1] # 0
    PROVE  y = z
<1>1. ASSUME y < z PROVE FALSE
  BY <1>1, SizeAssumption
<1>2. ASSUME z < y PROVE FALSE
  BY <1>2, SizeAssumption
<1> QED BY <1>1, <1>2, SizeAssumption

LEMMA FirstSetBound ==
    ASSUME NEW s \in [1..Width -> 0..(Base - 1)]
    PROVE  FirstSet(s) \in 1..Width
<1>1. CASE \A i \in 1..Width : s[i] = 0
  BY <1>1, SizeAssumption DEF FirstSet
<1>2. CASE \E i \in 1..Width : s[i] # 0
  BY <1>2, FirstSetIs
<1> QED BY <1>1, <1>2

\* The code's `start` is the one of the protocol, for any number of leading
\* zeros: the two interleaved keys are equal.
LEMMA KeysMeet ==
    ASSUME NEW n \in Nat
    PROVE  DeriveSessionKey(n) = ReferenceKey(n)
<1> DEFINE s == Digits(n)
           IsZeros(z) == (\A i \in 1..z : s[i] = 0) /\ (z < Width => s[z + 1] # 0)
           zeros == CHOOSE z \in 0..Width : IsZeros(z)
           first == FirstSet(s)
           start == (IF zeros % 2 = 1 THEN zeros + 1 ELSE zeros) \div 2
<1>1. s \in [1..Width -> 0..(Base - 1)]
  BY DigitsType
<1>2. ASSUME NEW z \in 0..Width, IsZeros(z)
      PROVE  zeros = z
  <2>1. zeros \in 0..Width /\ IsZeros(zeros)
    BY <1>2
  <2> HIDE DEF zeros, s
  <2> QED BY <1>1, <1>2, <2>1, ZerosIs
<1>3. first \div 2 = start
  <2>1. CASE \A i \in 1..Width : s[i] = 0
    <3>1. first = Width
      BY <2>1 DEF FirstSet
    <3>2. Width \in 0..Width /\ IsZeros(Width)
      BY <2>1, SizeAssumption
    <3>3. zeros = Width
      BY <1>2, <3>2
    <3> HIDE DEF zeros, first
    <3> QED BY <3>1, <3>3, SizeAssumption
  <2>2. CASE \E i \in 1..Width : s[i] # 0
    <3>1. first \in 1..Width /\ s[first] # 0 /\ \A j \in 1..(first - 1) : s[j] = 0
      BY <1>1, <2>2, FirstSetIs
    <3> HIDE DEF first, s
    <3>2. first - 1 \in 0..Width /\ IsZeros(first - 1)
      <4>1. (first - 1) + 1 = first /\ first - 1 \in 0..Width
        BY <3>1, SizeAssumption
      <4> QED BY <3>1, <4>1
    <3>3. zeros = first - 1
      BY <1>2, <3>2
    <3> HIDE DEF zeros
    <3> QED BY <3>1, <3>3, SizeAssumption
  <2> QED BY <2>1, <2>2
<1>4. DeriveSessionKey(n) = KeyFrom(s, first \div 2)
  BY DEF DeriveSessionKey
<1>5. ReferenceKey(n) = KeyFrom(s, start)
  BY DEF ReferenceKey
<1> HIDE DEF s, zeros, first, start
<1> QED BY <1>3, <1>4, <1>5

LEMMA KeyType ==
    ASSUME NEW n \in Nat
    PROVE  DeriveSessionKey(n) \in Keys
<1> DEFINE s == Digits(n)
           first == FirstSet(s)
           half == Width \div 2
<1>1. s \in [1..Width -> 0..(Base - 1)]
  BY DigitsType
<1>2. first \in 1..Width
  BY <1>1, FirstSetBound
<1>3. half \in Nat /\ 2 * half = Width /\ first \div 2 \in 0..half
  BY <1>2, SizeAssumption
<1> HIDE DEF s, first, half
<1>4. ASSUME NEW odd \in BOOLEAN
      PROVE  SubSeq(Half(s, odd), first \div 2 + 1, half) \in Seq(0..(Base - 1))
  <2>1. ASSUME NEW i \in (first \div 2 + 1)..half
        PROVE  Half(s, odd)[i] \in 0..(Base - 1)
    <3>1. i \in 1..half
      BY <1>3
    <3>2. 2 * i - (IF odd THEN 0 ELSE 1) \in 1..Width
      BY <1>3, <3>1
    <3>3. Half(s, odd)[i] = s[2 * i - (IF odd THEN 0 ELSE 1)]
      BY <3>1 DEF Half, half
    <3> QED BY <1>1, <3>2, <3>3
  <2>2. first \div 2 + 1 \in Int /\ half \in Int
    BY <1>3
  <2> QED BY <2>1, <2>2, SubSeqProperties
<1> QED BY <1>4 DEF DeriveSessionKey, KeyFrom, Keys, s, first, half

-----------------------------------------------------------------------------
(* The specification.                                                      *)

LEMMA SecretsNat == \A a \in Secrets : a \in Nat /\ a \in Int
BY SrpAssumption

LEMMA HashNat ==
    /\ \A s \in Salts, p \in Passwords : HashX(s, p) \in Nat
    /\ \A A, B \in Number : HashU(A, B) \in Nat
BY SrpAssumption DEF Number

LEMMA GPower == \A e \in Nat : ModPow(g, e) \in Number /\ ModPow(g, e) \in Nat
<1>1. g \in Nat
  BY SrpAssumption
<1> QED BY <1>1, PowType, PowInt

\* What the client computes is a key.
LEMMA ClientKeyType ==
    ASSUME TypeOK, RowIsVerifier, ChallengeIsOfRow, pc \in {"challenged", "answered"},
           NEW a \in Secrets, NEW A \in Number, NEW typed \in Passwords
    PROVE  ClientSecret(a, A, typed) \in Nat /\ ReferenceKey(ClientSecret(a, A, typed)) \in Keys
<1> DEFINE x == HashX(account.salt, typed)
           u == HashU(A, server.b_pub)
           v == ModPow(g, x)
<1>1. account.salt \in Salts /\ server.b_pub \in Number
  BY DEF RowIsVerifier, ChallengeIsOfRow
<1>2. x \in Nat /\ u \in Nat /\ a \in Nat
  BY <1>1, HashNat, SecretsNat
<1>3. v \in Number
  BY <1>2, GPower
<1> HIDE DEF x, u, v
<1>4. server.b_pub + 3 * (N - v) \in Nat
  BY <1>1, <1>3, Modulus DEF Number
<1>5. a + u * x \in Nat
  BY <1>2
<1>6. ModPow(server.b_pub + 3 * (N - v), a + u * x) \in Nat
  BY <1>4, <1>5, PowInt
<1>7. ClientSecret(a, A, typed) = ModPow(server.b_pub + 3 * (N - v), a + u * x)
  BY DEF ClientSecret, x, u, v
<1> QED BY <1>6, <1>7, KeysMeet, KeyType

LEMMA SrpInit == Init => SrpInv
BY DEF Init, SrpInv, TypeOK, RowIsVerifier, ChallengeIsOfRow, AnswerIsToChallenge, BothSidesAgree

LEMMA RegisterStep ==
    ASSUME SrpInv, NEW s \in Salts, Register(s)
    PROVE  SrpInv'
<1> DEFINE v == ModPow(g, HashX(s, password))
<1>1. password \in Passwords
  BY DEF SrpInv, TypeOK
<1>2. v \in Number
  BY <1>1, HashNat, GPower
<1>3. CASE CorrectSize(v)
  <2>1. account' = [salt |-> s, verifier |-> v] /\ pc' = "registered"
        /\ UNCHANGED <<password, server, client, answer>>
    BY <1>3 DEF Register
  <2>2. account' \in [salt : Salts, verifier : Number]
        /\ account'.verifier = ModPow(g, HashX(account'.salt, password'))
    BY <1>2, <2>1
  <2>3. TypeOK'
    <3> HIDE DEF v
    <3> QED BY <2>1, <2>2 DEF SrpInv, TypeOK
  <2> HIDE DEF v
  <2> QED BY <2>1, <2>2, <2>3
          DEF SrpInv, RowIsVerifier, ChallengeIsOfRow, AnswerIsToChallenge, BothSidesAgree
<1>4. CASE ~ CorrectSize(v)
  <2>1. pc' = "noVerifier" /\ UNCHANGED <<account, password, server, client, answer>>
    BY <1>4 DEF Register
  <2> QED BY <2>1 DEF SrpInv, TypeOK, RowIsVerifier, ChallengeIsOfRow, AnswerIsToChallenge,
                      BothSidesAgree
<1> QED BY <1>3, <1>4

LEMMA NewServerStep ==
    ASSUME SrpInv, NEW b \in Secrets, NewServer(b)
    PROVE  SrpInv'
<1> DEFINE B == CalculateBPub(b, account.verifier)
<1>0. pc \notin {"new", "noVerifier"}
  BY DEF NewServer
<1>1. account \in [salt : Salts, verifier : Number]
      /\ account.verifier = ModPow(g, HashX(account.salt, password))
  BY <1>0 DEF SrpInv, RowIsVerifier
<1>2. B \in Number
  <2>1. ModPow(g, b) \in Nat /\ account.verifier \in Int
    BY <1>1, GPower, SecretsNat, Modulus DEF Number
  <2>2. ModPow(g, b) + account.verifier * 3 \in Int
    BY <2>1
  <2> QED BY <2>2, ModSplit DEF CalculateBPub
<1>3. client' = <<>> /\ answer' = <<>> /\ UNCHANGED <<account, password>>
  BY DEF NewServer
<1>4. RowIsVerifier'
  BY <1>1, <1>3 DEF RowIsVerifier
<1>5. CASE CorrectSize(B)
  <2>1. server' = [b |-> b, b_pub |-> B] /\ pc' = "challenged"
    BY <1>5 DEF NewServer
  <2>2. server' \in [b : Secrets, b_pub : Number] /\ CorrectSize(server'.b_pub)
        /\ server'.b_pub = B /\ server'.b = b
    BY <1>2, <1>5, <2>1
  <2>3. TypeOK'
    <3> HIDE DEF B
    <3>1. account' = <<>> \/ account' \in [salt : Salts, verifier : Number]
      BY <1>1, <1>3
    <3>2. password' \in Passwords
      BY <1>3 DEF SrpInv, TypeOK
    <3>3. CorrectSize(server.b_pub)'
      BY <2>2 DEF CorrectSize
    <3> QED BY <1>3, <2>1, <2>2, <3>1, <3>2, <3>3 DEF TypeOK
  <2>4. ChallengeIsOfRow'
    BY <2>2, <1>3 DEF ChallengeIsOfRow, CalculateBPub
  <2>5. AnswerIsToChallenge' /\ BothSidesAgree'
    BY <2>1 DEF AnswerIsToChallenge, BothSidesAgree
  <2> QED BY <1>4, <2>3, <2>4, <2>5 DEF SrpInv
<1>6. CASE ~ CorrectSize(B)
  <2>1. server' = <<>> /\ pc' = "noChallenge"
    BY <1>6 DEF NewServer
  <2>2. TypeOK'
    BY <1>1, <1>3, <2>1 DEF SrpInv, TypeOK
  <2>3. ChallengeIsOfRow' /\ AnswerIsToChallenge' /\ BothSidesAgree'
    BY <2>1 DEF ChallengeIsOfRow, AnswerIsToChallenge, BothSidesAgree
  <2> QED BY <1>4, <2>2, <2>3 DEF SrpInv
<1> QED BY <1>5, <1>6

LEMMA ClientStep ==
    ASSUME SrpInv, NEW a \in Secrets, NEW typed \in Passwords, ClientAnswers(a, typed)
    PROVE  SrpInv'
<1> DEFINE A == ModPow(g, a)
           key == ReferenceKey(ClientSecret(a, A, typed))
           proof == ProofOf(account.salt, A, server.b_pub, key)
<1>1. pc = "challenged" /\ pc' = "answered" /\ UNCHANGED <<account, password, server, answer>>
      /\ client' = [typed |-> typed, a_pub |-> A, key |-> key, proof |-> proof]
  BY DEF ClientAnswers
<1>2. A \in Number
  BY GPower, SecretsNat
<1>3. key \in Keys
  BY <1>1, <1>2, ClientKeyType DEF SrpInv
<1>4. AnswerIsToChallenge'
  <2>1. client'.proof = proof /\ client'.a_pub = A /\ client'.key = key /\ client'.typed = typed
        /\ DOMAIN client' = {"typed", "a_pub", "key", "proof"}
    <3> HIDE DEF A, key, proof
    <3> QED BY <1>1
  <2>2. ClientSecret(a, A, typed)' = ClientSecret(a, A, typed)
    BY <1>1 DEF ClientSecret
  <2> QED BY <1>1, <2>1, <2>2 DEF AnswerIsToChallenge, ProofOf, ClientSecret
<1> HIDE DEF A, key, proof
<1>5. TypeOK'
  <2>1. CorrectSize(server.b_pub)'
    BY <1>1 DEF SrpInv, TypeOK, CorrectSize
  <2> QED BY <1>1, <1>2, <1>3, <2>1 DEF SrpInv, TypeOK
<1>6. RowIsVerifier' /\ ChallengeIsOfRow'
  BY <1>1 DEF SrpInv, RowIsVerifier, ChallengeIsOfRow, CalculateBPub
<1>7. BothSidesAgree'
  BY <1>1 DEF BothSidesAgree
<1> QED BY <1>4, <1>5, <1>6, <1>7 DEF SrpInv

LEMMA AcceptStep ==
    ASSUME SrpInv, NEW A \in Number, Accept(A)
    PROVE  SrpInv'
<1> DEFINE S == PremasterSecret(A)
           key == DeriveSessionKey(S)
<1>1. pc = "answered" /\ UNCHANGED <<account, password, server, client>>
  BY DEF Accept
<1>2. key \in Keys
  <2>1. account.verifier \in Nat /\ server.b_pub \in Number /\ server.b \in Nat /\ A \in Nat
    BY <1>1, SecretsNat, Modulus DEF SrpInv, RowIsVerifier, ChallengeIsOfRow, Number
  <2>2. HashU(A, server.b_pub) \in Nat
    BY <2>1, HashNat
  <2>3. ModPow(account.verifier, HashU(A, server.b_pub)) \in Nat
    BY <2>1, <2>2, PowInt
  <2>4. A * ModPow(account.verifier, HashU(A, server.b_pub)) \in Nat
    BY <2>1, <2>3
  <2>5. S \in Nat
    BY <2>1, <2>4, PowInt DEF PremasterSecret
  <2> QED BY <2>5, KeyType
<1>3. CASE pc' \in {"refused", "noKey"} /\ UNCHANGED answer
  BY <1>1, <1>3 DEF SrpInv, TypeOK, RowIsVerifier, ChallengeIsOfRow, AnswerIsToChallenge,
                    BothSidesAgree
<1>4. CASE /\ client.proof = ProofOf(account.salt, A, server.b_pub, key)
           /\ answer' = [proof |-> GetServerProof(A, client.proof, key), key |-> key]
           /\ pc' = "accepted"
  <2>1. client.proof = ProofOf(account.salt, client.a_pub, server.b_pub, client.key)
    BY <1>1 DEF SrpInv, AnswerIsToChallenge
  <2> HIDE DEF key
  <2>2. A = client.a_pub /\ key = client.key
    BY <1>4, <2>1 DEF ProofOf
  <2>3. answer'.key = key /\ answer'.proof = <<"M2", A, client.proof, key>>
        /\ DOMAIN answer' = {"proof", "key"}
    BY <1>4 DEF GetServerProof
  <2>4. BothSidesAgree'
    BY <1>1, <2>2, <2>3 DEF BothSidesAgree
  <2>5. TypeOK'
    BY <1>1, <1>2, <1>4, <2>3 DEF SrpInv, TypeOK
  <2>6. RowIsVerifier' /\ ChallengeIsOfRow' /\ AnswerIsToChallenge'
    BY <1>1, <1>4 DEF SrpInv, RowIsVerifier, ChallengeIsOfRow, AnswerIsToChallenge
  <2> QED BY <2>4, <2>5, <2>6 DEF SrpInv
<1> HIDE DEF key, S
<1> QED BY <1>3, <1>4 DEF Accept, key, S

LEMMA SrpStep == SrpInv /\ [Next]_vars => SrpInv'
<1> SUFFICES ASSUME SrpInv, [Next]_vars PROVE SrpInv'
  OBVIOUS
<1>1. ASSUME NEW s \in Salts, Register(s) PROVE SrpInv'
  BY <1>1, RegisterStep
<1>2. ASSUME NEW b \in Secrets, NewServer(b) PROVE SrpInv'
  BY <1>2, NewServerStep
<1>3. ASSUME NEW a \in Secrets, NEW p \in Passwords, ClientAnswers(a, p) PROVE SrpInv'
  BY <1>3, ClientStep
<1>4. ASSUME pc = "answered", Accept(client.a_pub) PROVE SrpInv'
  <2>1. client.a_pub \in Number
    <3>1. PICK a \in Secrets : client.a_pub = ModPow(g, a)
      BY <1>4 DEF SrpInv, AnswerIsToChallenge
    <3> QED BY <3>1, GPower, SecretsNat
  <2> QED BY <1>4, <2>1, AcceptStep
<1>5. ASSUME Accept(0) PROVE SrpInv'
  <2>1. 0 \in Number
    BY Modulus DEF Number
  <2> QED BY <1>5, <2>1, AcceptStep
<1>6. CASE UNCHANGED vars
  BY <1>6 DEF vars, SrpInv, TypeOK, RowIsVerifier, ChallengeIsOfRow, AnswerIsToChallenge,
              BothSidesAgree, CorrectSize, CalculateBPub, ClientSecret, ProofOf
<1> QED BY <1>1, <1>2, <1>3, <1>4, <1>5, <1>6 DEF Next

\* The inductive invariant of Srp6: the row is the password's verifier, the
\* challenge is made from the row, and the client's proof and key from both.
THEOREM SrpInvariance == Spec => []SrpInv
BY SrpInit, SrpStep, PTL DEF Spec

\* Every number, key and message of the SRP6 exchange keeps its type, and a
\* challenge that was sent fits into its array.
THEOREM SrpTypeCorrect == Spec => []TypeOK
<1>1. SrpInv => TypeOK
  BY DEF SrpInv
<1> QED BY <1>1, SrpInvariance, PTL

\* After ConnectToken::accept has let a client in, the key that is stored is
\* the key the client derived, and get_server_proof is what it expects.
THEOREM SrpSidesAgree == Spec => []BothSidesAgree
<1>1. SrpInv => BothSidesAgree
  BY DEF SrpInv
<1> QED BY <1>1, SrpInvariance, PTL

\* With the right password, the two secrets are one.
LEMMA SecretsMeet ==
    ASSUME SrpInv, pc = "answered", client.typed = password,
           NEW a \in Secrets, client.a_pub = ModPow(g, a)
    PROVE  /\ ClientSecret(a, client.a_pub, client.typed) = PremasterSecret(client.a_pub)
           /\ PremasterSecret(client.a_pub) \in Nat
<1> DEFINE A == client.a_pub
           b == server.b
           x == HashX(account.salt, password)
           u == HashU(A, server.b_pub)
           v == account.verifier
<1>1. /\ account.salt \in Salts /\ password \in Passwords /\ v = ModPow(g, x)
      /\ server.b_pub \in Number /\ b \in Secrets /\ server.b_pub = CalculateBPub(b, v)
  BY DEF SrpInv, TypeOK, RowIsVerifier, ChallengeIsOfRow
<1>2. a \in Nat /\ b \in Nat /\ x \in Nat /\ A \in Number
  BY <1>1, SecretsNat, HashNat, GPower
<1>3. u \in Nat
  BY <1>1, <1>2, HashNat
<1>4. ClientSecret(a, A, password) = ModPow(CalculateBPub(b, v) + 3 * (N - v), a + u * x)
  BY <1>1 DEF ClientSecret
<1>5. PremasterSecret(A) = ModPow(ModPow(g, a) * ModPow(v, u), b)
  BY DEF PremasterSecret
<1> HIDE DEF A, b, x, u, v
<1>6. ModPow(CalculateBPub(b, v) + 3 * (N - v), a + u * x) = ModPow(ModPow(g, a) * ModPow(v, u), b)
  BY <1>1, <1>2, <1>3, PremastersMeet
<1>7. ModPow(ModPow(g, a) * ModPow(v, u), b) \in Nat
  <2>1. ModPow(g, a) \in Nat /\ v \in Nat
    BY <1>1, <1>2, GPower
  <2>2. ModPow(v, u) \in Nat
    BY <2>1, <1>3, PowInt
  <2>3. ModPow(g, a) * ModPow(v, u) \in Nat
    BY <2>1, <2>2
  <2> QED BY <2>3, <1>2, PowInt
<1> QED BY <1>4, <1>5, <1>6, <1>7 DEF A

LEMMA RightPasswordStep ==
    ASSUME SrpInv, pc = "answered", Accept(client.a_pub), client.typed = password
    PROVE  pc' \in {"accepted", "noKey"}
<1> DEFINE A == client.a_pub
           S == PremasterSecret(A)
<1>1. PICK a \in Secrets : /\ A = ModPow(g, a)
                            /\ client.key = ReferenceKey(ClientSecret(a, A, client.typed))
  BY DEF SrpInv, AnswerIsToChallenge
<1>2. client.key = DeriveSessionKey(S)
  <2>1. ClientSecret(a, A, client.typed) = S /\ S \in Nat
    BY <1>1, SecretsMeet
  <2> QED BY <1>1, <2>1, KeysMeet
<1>3. client.proof = ProofOf(account.salt, A, server.b_pub, DeriveSessionKey(S))
  BY <1>2 DEF SrpInv, AnswerIsToChallenge
<1>4. A % N # 0
  <2>1. A \in Number /\ A # 0
    BY <1>1, GPower, GeneratorPower, SecretsNat
  <2> QED BY <2>1, ModSmall
<1> HIDE DEF A
<1>5. Accept(A)
  BY DEF A
<1> QED BY <1>3, <1>4, <1>5 DEF Accept

\* The password the account was created with is never called incorrect: for
\* every group, salt and pair of private numbers, the client's way to the
\* secret and verify_challenge_response's meet, and so do the two interleaved
\* keys, unless the secret is too short for its array and the server panics.
THEOREM RightPasswordIsAccepted == Spec => RightPasswordAccepted
<1>1. SrpInv /\ [Next]_vars
        => [pc = "answered" /\ Accept(client.a_pub) /\ client.typed = password
              => pc' \in {"accepted", "noKey"}]_vars
  BY RightPasswordStep
<1> QED BY <1>1, SrpInvariance, PTL DEF Spec, RightPasswordAccepted

=============================================================================
