--------------------------- MODULE ReferenceProofs ---------------------------
(***************************************************************************)
(* Proofs about the Python reference, for every parameter set: the         *)
(* rounding lemmas of FIPS 204, and that the scheme keeps its promises.    *)
(***************************************************************************)
EXTENDS Reference, SequenceTheorems, FiniteSetTheorems, WellFoundedInduction, TLAPS

(* Induction over the numbers, from the library's minima of well-founded   *)
(* relations.                                                              *)
LEMMA Induction ==
  ASSUME NEW T, 0 \in T, \A n \in Nat : n \in T => n + 1 \in T
  PROVE  Nat \subseteq T
<1> SUFFICES ASSUME Nat \ T # {} PROVE FALSE
  OBVIOUS
<1>1. PICK x \in Nat \ T : \A n \in Nat \ T : ~ <<n, x>> \in OpToRel(<, Nat)
  BY NatLessThanWellFounded, WFMin, Zenon
<1>2. \A n \in Nat \ T : <<n, x>> \in OpToRel(<, Nat) <=> n < x
  BY DEF OpToRel
<1>3. \A n \in Nat \ T : ~ n < x
  BY <1>1, <1>2, Zenon
<1>4. x - 1 \in Nat /\ (x - 1) + 1 = x
  OBVIOUS
<1>5. x - 1 \in T
  BY <1>3, <1>4
<1> QED BY <1>4, <1>5

-----------------------------------------------------------------------------
(* The coefficient arithmetic. *)

(* Euclidean division, the only fact about % and \div used below. *)
LEMMA Euclid ==
  ASSUME NEW x \in Int, NEW n \in Nat, n >= 1
  PROVE  /\ x = n * (x \div n) + (x % n)
         /\ x % n \in 0 .. (n - 1)
         /\ x \div n \in Int
OBVIOUS

LEMMA AlphaFacts ==
  /\ Alpha \in Nat /\ Alpha >= 2
  /\ Alpha \div 2 = Gamma2
  /\ Q = M * Alpha + 1
  /\ Q \in Nat /\ Q >= 5
  /\ (Q - 1) \div Alpha = M
  /\ (Q - 1) \div 2 = M * Gamma2
<1>1. Alpha \in Nat /\ Alpha >= 2 /\ Alpha \div 2 = Gamma2
  BY RoundingAssumption DEF Alpha
<1>2. Q = M * Alpha + 1
  BY RoundingAssumption DEF Alpha
<1>3. M * Alpha \in Nat /\ M * Alpha >= 4
  <2>1. M * Alpha >= 2 * Alpha
    BY <1>1, RoundingAssumption
  <2> QED BY <1>1, <2>1, RoundingAssumption
<1>4. (M * Alpha) \div Alpha = M
  BY <1>1, RoundingAssumption
<1>5. M * Alpha = 2 * (M * Gamma2) /\ M * Gamma2 \in Nat
  BY RoundingAssumption DEF Alpha
<1> QED BY <1>1, <1>2, <1>3, <1>4, <1>5

(* The quotient and the remainder are determined by the range of the       *)
(* remainder.                                                              *)
LEMMA EuclidUnique ==
  ASSUME NEW x \in Int, NEW n \in Nat, n >= 1,
         NEW k \in Int, NEW s \in 0 .. (n - 1), x = n * k + s
  PROVE  x % n = s /\ x \div n = k
<1> DEFINE k2 == x \div n
           s2 == x % n
<1>1. x = n * k2 + s2 /\ s2 \in 0 .. (n - 1) /\ k2 \in Int
  BY Euclid
<1> HIDE DEF k2, s2
<1>2. n * (k - k2) = s2 - s
  BY <1>1
<1>3. s2 - s < n /\ s2 - s > -n
  BY <1>1
<1>4. k - k2 <= 0
  <2>1. CASE k - k2 >= 1
    <3>1. n * (k - k2) >= n
      BY <1>1, <2>1
    <3> QED BY <3>1, <1>1, <1>2, <1>3
  <2> QED BY <2>1, <1>1
<1>5. k - k2 >= 0
  <2>1. CASE k2 - k >= 1
    <3>1. n * (k2 - k) >= n
      BY <1>1, <2>1
    <3>2. n * (k2 - k) = -(n * (k - k2))
      BY <1>1
    <3> QED BY <3>1, <3>2, <1>1, <1>2, <1>3
  <2> QED BY <2>1, <1>1
<1>6. k = k2
  BY <1>1, <1>4, <1>5
<1> QED BY <1>1, <1>6 DEF k2, s2

(* reduce_mod_pm returns the representative around zero. *)
LEMMA ReduceModPmIs ==
  ASSUME NEW x \in Int, NEW k \in Int, NEW e \in Int,
         e > -Gamma2, e <= Gamma2, x = Alpha * k + e
  PROVE  ReduceModPm(x, Alpha) = e
<1>a. Alpha \in Nat /\ Alpha >= 1 /\ Gamma2 < Alpha /\ Alpha = 2 * Gamma2 /\ Gamma2 \in Nat
  BY RoundingAssumption DEF Alpha
<1>1. CASE e >= 0
  <2>1. x % Alpha = e
    <3>1. e \in 0 .. (Alpha - 1)
      BY <1>1, <1>a
    <3> QED BY <3>1, <1>a, EuclidUnique
  <2> QED BY <1>1, <2>1, AlphaFacts, RoundingAssumption DEF ReduceModPm
<1>2. CASE e < 0
  <2>1. x = Alpha * (k - 1) + (Alpha + e)
    BY AlphaFacts
  <2>2. Alpha + e \in 0 .. (Alpha - 1) /\ Alpha + e > Gamma2
    BY <1>2, AlphaFacts, RoundingAssumption DEF Alpha
  <2>3. x % Alpha = Alpha + e
    <3> DEFINE k1 == k - 1
               e1 == Alpha + e
    <3>1. k1 \in Int /\ e1 \in 0 .. (Alpha - 1) /\ x = Alpha * k1 + e1
      BY <2>1, <2>2
    <3> HIDE DEF k1, e1
    <3>2. x % Alpha = e1
      BY ONLY <3>1, <1>a, x \in Int, EuclidUnique
    <3> QED BY <3>2 DEF e1
  <2> QED BY <2>2, <2>3, AlphaFacts DEF ReduceModPm
<1> QED BY <1>1, <1>2

(* decompose on each of the two kinds of residue. *)
LEMMA DecomposeIs ==
  ASSUME NEW x \in Int, NEW k \in 0 .. (M - 1), NEW e \in Int,
         e > -Gamma2, e <= Gamma2, x % Q = k * Alpha + e
  PROVE  Decompose(x, Alpha) = <<k, e>>
<1>1. ReduceModPm(x % Q, Alpha) = e
  <2>1. k \in Int /\ x % Q \in Int /\ x % Q = Alpha * k + e
    BY AlphaFacts, RoundingAssumption
  <2> QED BY <2>1, ReduceModPmIs
<1>2. k * Alpha <= (M - 1) * Alpha
  BY AlphaFacts, RoundingAssumption
<1>3. (M - 1) * Alpha = M * Alpha - Alpha /\ M * Alpha \in Int /\ k * Alpha \in Int
  BY AlphaFacts, RoundingAssumption
<1>4. k * Alpha # Q - 1
  BY <1>2, <1>3, AlphaFacts
<1>5. (k * Alpha) \div Alpha = k
  <2>1. k * Alpha = Alpha * k + 0
    BY AlphaFacts
  <2>2. 0 \in 0 .. (Alpha - 1)
    BY AlphaFacts
  <2> QED BY <1>3, <2>1, <2>2, EuclidUnique, AlphaFacts
<1>6. (x % Q) - e = k * Alpha
  BY <1>3
<1> QED BY <1>1, <1>4, <1>5, <1>6 DEF Decompose

LEMMA DecomposeTop ==
  ASSUME NEW x \in Int, NEW e \in Int,
         e >= -Gamma2, e <= -1, x % Q = Q + e
  PROVE  Decompose(x, Alpha) = <<0, e>>
<1>1. ReduceModPm(x % Q, Alpha) = e + 1
  <2>1. Q + e = Alpha * M + (e + 1)
    BY AlphaFacts, RoundingAssumption
  <2>2. x % Q \in Int /\ M \in Int /\ e + 1 \in Int /\ e + 1 > -Gamma2 /\ e + 1 <= Gamma2
    BY AlphaFacts, RoundingAssumption
  <2> QED BY <2>1, <2>2, ReduceModPmIs
<1>2. (x % Q) - (e + 1) = Q - 1
  BY AlphaFacts
<1> QED BY <1>1, <1>2, AlphaFacts DEF Decompose

(* Every residue is of one of the two kinds. *)
LEMMA ResidueKinds ==
  ASSUME NEW x \in Int
  PROVE  \/ \E k \in 0 .. (M - 1), e \in Int :
              e > -Gamma2 /\ e <= Gamma2 /\ x % Q = k * Alpha + e
         \/ \E e \in Int : e >= -Gamma2 /\ e <= -1 /\ x % Q = Q + e
<1> DEFINE res == x % Q
           k == res \div Alpha
           s == res % Alpha
<1>a. Q \in Nat /\ Q >= 1 /\ Alpha \in Nat /\ Alpha >= 1
  BY AlphaFacts
<1>1. res \in 0 .. (Q - 1)
  BY <1>a, Euclid
<1>2. res = Alpha * k + s /\ s \in 0 .. (Alpha - 1) /\ k \in Int
  <2>1. res \in Int
    BY <1>1, <1>a
  <2> HIDE DEF res
  <2> QED BY <2>1, <1>a, Euclid
<1> HIDE DEF res, k, s
<1>3. k >= 0
  <2>1. CASE k <= -1
    <3>1. Alpha * k <= -Alpha
      BY <1>2, <2>1, AlphaFacts
    <3> QED BY <3>1, <1>1, <1>2, AlphaFacts
  <2> QED BY <2>1, <1>2
<1>4. k <= M
  <2>1. CASE k >= M + 1
    <3>1. Alpha * k >= Alpha * (M + 1)
      BY <1>2, <2>1, AlphaFacts, RoundingAssumption
    <3>2. Alpha * (M + 1) = M * Alpha + Alpha
      BY AlphaFacts, RoundingAssumption
    <3> QED BY <3>1, <3>2, <1>1, <1>2, AlphaFacts, RoundingAssumption
  <2> QED BY <2>1, <1>2, RoundingAssumption
<1>5. CASE s <= Gamma2 /\ k <= M - 1
  <2>1. k \in 0 .. (M - 1) /\ s \in Int /\ s > -Gamma2 /\ res = k * Alpha + s
    BY <1>2, <1>3, <1>5, AlphaFacts, RoundingAssumption
  <2> QED BY <2>1, <1>5 DEF res
<1>6. CASE s > Gamma2 /\ k <= M - 2
  <2>1. k + 1 \in 0 .. (M - 1) /\ s - Alpha \in Int
    BY <1>2, <1>3, <1>6, AlphaFacts, RoundingAssumption
  <2>2. res = (k + 1) * Alpha + (s - Alpha)
    BY <1>2, AlphaFacts
  <2>3. s - Alpha > -Gamma2 /\ s - Alpha <= Gamma2
    BY <1>2, <1>6, AlphaFacts, RoundingAssumption DEF Alpha
  <2> QED BY <2>1, <2>2, <2>3 DEF res
<1>7. CASE s > Gamma2 /\ k = M - 1
  <2>1. Alpha * (M - 1) = M * Alpha - Alpha
    BY AlphaFacts, RoundingAssumption
  <2>2. res = Q + (s - Alpha - 1)
    BY <1>2, <1>7, <2>1, AlphaFacts, RoundingAssumption
  <2>3. s - Alpha - 1 >= -Gamma2 /\ s - Alpha - 1 <= -1 /\ s - Alpha - 1 \in Int
    BY <1>2, <1>7, AlphaFacts, RoundingAssumption DEF Alpha
  <2> QED BY <2>2, <2>3 DEF res
<1>8. CASE k = M
  <2>1. res = Q + (-1)
    <3>1. Alpha * k = Q - 1
      BY <1>8, AlphaFacts, RoundingAssumption
    <3> QED BY <3>1, <1>1, <1>2, AlphaFacts
  <2>2. -1 \in Int /\ -1 >= -Gamma2 /\ -1 <= -1
    BY RoundingAssumption
  <2> QED BY <2>1, <2>2 DEF res
<1> QED BY <1>2, <1>3, <1>4, <1>5, <1>6, <1>7, <1>8, AlphaFacts, RoundingAssumption

(* Adding to a number, then reducing modulo Q; j is the wrap.              *)
LEMMA ModShift ==
  ASSUME NEW x \in Int, NEW z \in Int, NEW v \in 0 .. (Q - 1), NEW turn \in {-1, 0, 1},
         (x % Q) + z = v + Q * turn
  PROVE  (x + z) % Q = v
<1>a. Q \in Nat /\ Q >= 1
  BY AlphaFacts
<1> DEFINE a == x \div Q
           rest == x % Q
<1>1. x = Q * a + rest /\ a \in Int /\ rest \in Int
  BY <1>a, Euclid
<1>2. rest + z = v + Q * turn
  OBVIOUS
<1> HIDE DEF a, rest
<1> DEFINE aj == a + turn
<1>3. x + z = Q * aj + v /\ aj \in Int
  <2>1. Q * (a + turn) = Q * a + Q * turn
    BY <1>1, <1>a
  <2> QED BY <2>1, <1>1, <1>2, <1>a
<1> HIDE DEF aj
<1>4. x + z \in Int
  OBVIOUS
<1> DEFINE xz == x + z
<1>5. xz \in Int /\ xz = Q * aj + v
  BY <1>3, <1>4
<1> HIDE DEF xz
<1>6. xz % Q = v
  BY <1>3, <1>5, <1>a, EuclidUnique
<1> QED BY <1>6 DEF xz

(* A multiple k of the step, for k below M.                                *)
LEMMA StepBounds ==
  ASSUME NEW k \in 0 .. (M - 1)
  PROVE  /\ k * Alpha \in 0 .. (Q - 1 - Alpha)
         /\ k >= 1 => k * Alpha >= Alpha
         /\ (k + 1) * Alpha = k * Alpha + Alpha
         /\ (k - 1) * Alpha = k * Alpha - Alpha
         /\ k = M - 1 => k * Alpha = Q - 1 - Alpha
<1>1. k * Alpha <= (M - 1) * Alpha /\ k * Alpha >= 0 /\ k * Alpha \in Int
  BY AlphaFacts, RoundingAssumption
<1>2. (M - 1) * Alpha = M * Alpha - Alpha /\ M * Alpha \in Int
  BY AlphaFacts, RoundingAssumption
<1>3. k >= 1 => k * Alpha >= Alpha
  BY AlphaFacts, RoundingAssumption
<1>4. (k + 1) * Alpha = k * Alpha + Alpha /\ (k - 1) * Alpha = k * Alpha - Alpha
  BY AlphaFacts, RoundingAssumption
<1>5. k = M - 1 => k * Alpha = (M - 1) * Alpha
  OBVIOUS
<1>6. Q - 1 = M * Alpha /\ Q \in Nat /\ Alpha \in Nat
  BY ONLY AlphaFacts
<1> DEFINE ka == k * Alpha
           ma == M * Alpha
           pa == (M - 1) * Alpha
<1>7. ka \in 0 .. (Q - 1 - Alpha) /\ pa = Q - 1 - Alpha
  <2>1. ka <= pa /\ ka >= 0 /\ ka \in Int /\ pa = ma - Alpha /\ ma \in Int /\ Q - 1 = ma
    BY ONLY <1>1, <1>2, <1>6
  <2> HIDE DEF ka, ma, pa
  <2> QED BY ONLY <1>6, <2>1
<1> QED BY ONLY <1>3, <1>4, <1>5, <1>7

(* decompose(r) = (r1, r0) with r congruent to r1 * alpha + r0, r1 one of  *)
(* the M values and |r0| at most gamma2: what the comment of decompose in  *)
(* utils.py and its commented-out assertions say.                          *)
THEOREM DecomposeRecomposes ==
  ASSUME NEW r \in Int
  PROVE  \E r1 \in 0 .. (M - 1), r0 \in -Gamma2 .. Gamma2 :
           /\ Decompose(r, Alpha) = <<r1, r0>>
           /\ r % Q \in {r1 * Alpha + r0, Q + r1 * Alpha + r0}
<1>1. CASE \E k \in 0 .. (M - 1), e \in Int :
             e > -Gamma2 /\ e <= Gamma2 /\ r % Q = k * Alpha + e
  <2>1. PICK k \in 0 .. (M - 1), e \in Int :
             e > -Gamma2 /\ e <= Gamma2 /\ r % Q = k * Alpha + e
    BY <1>1
  <2>2. Decompose(r, Alpha) = <<k, e>>
    BY <2>1, DecomposeIs
  <2>3. e \in -Gamma2 .. Gamma2
    BY <2>1, RoundingAssumption
  <2> QED BY <2>1, <2>2, <2>3
<1>2. CASE \E e \in Int : e >= -Gamma2 /\ e <= -1 /\ r % Q = Q + e
  <2>1. PICK e \in Int : e >= -Gamma2 /\ e <= -1 /\ r % Q = Q + e
    BY <1>2
  <2>2. Decompose(r, Alpha) = <<0, e>>
    BY <2>1, DecomposeTop
  <2>3. e \in -Gamma2 .. Gamma2 /\ 0 \in 0 .. (M - 1)
    BY <2>1, RoundingAssumption
  <2>4. 0 * Alpha = 0
    BY AlphaFacts
  <2>5. r % Q = Q + 0 * Alpha + e
    BY <2>1, <2>4, AlphaFacts
  <2> QED BY <2>2, <2>3, <2>5
<1> QED BY <1>1, <1>2, ResidueKinds

(* check_norm_bound, whose four steps are XOR and shifts, tests the        *)
(* magnitude of the centred representative, for every residue.             *)
THEOREM NormIsCentredMagnitude ==
  ASSUME NEW n \in Int, NEW z \in Int, NEW bound \in Int,
         z <= (Q - 1) \div 2, -z <= (Q - 1) \div 2,
         n % Q = IF z >= 0 THEN z ELSE Q + z
  PROVE  NormFails(n, bound) <=> (z >= bound \/ -z >= bound)
<1> DEFINE half == (Q - 1) \div 2
<1>1. half \in Int /\ Q = 2 * half + 1 /\ half >= 0
  <2>1. half = M * Gamma2 /\ M * Gamma2 \in Int /\ Alpha = 2 * Gamma2
    BY AlphaFacts, RoundingAssumption DEF Alpha
  <2>2. M * Alpha = 2 * (M * Gamma2)
    BY RoundingAssumption DEF Alpha
  <2> QED BY <2>1, <2>2, AlphaFacts
<1> HIDE DEF half
<1>2. NormFails(n, bound) <=> half - FlipNegative(half - (n % Q)) >= bound
  BY DEF NormFails, half
<1>3. z <= half /\ -z <= half
  BY DEF half
<1>4. CASE z >= 0
  <2>1. half - (n % Q) = half - z /\ half - z >= 0
    BY <1>1, <1>3, <1>4
  <2>2. FlipNegative(half - (n % Q)) = half - z
    BY <1>1, <2>1 DEF FlipNegative
  <2> QED BY <1>1, <1>2, <1>4, <2>2
<1>5. CASE z < 0
  <2>1. half - (n % Q) = half - (Q + z) /\ half - (Q + z) < 0
    BY <1>1, <1>3, <1>5
  <2>2. FlipNegative(half - (n % Q)) = (Q + z) - half - 1
    BY <1>1, <2>1 DEF FlipNegative
  <2>3. half - ((Q + z) - half - 1) = -z
    BY <1>1
  <2> QED BY <1>1, <1>2, <1>5, <2>2, <2>3
<1> QED BY <1>4, <1>5

(* How the high bits move when a small number is added: the two kinds of   *)
(* residue, and whether the sum leaves its segment.                        *)
LEMMA AddWithinSegment ==
  ASSUME NEW r \in Int, NEW z \in Int, NEW k \in 0 .. (M - 1), NEW e \in Int,
         e > -Gamma2, e <= Gamma2, r % Q = k * Alpha + e,
         e + z > -Gamma2, e + z <= Gamma2
  PROVE  HighBits(r + z, Alpha) = k
<1>1. k * Alpha \in Int /\ r + z \in Int /\ e + z \in Int
  BY StepBounds, AlphaFacts
<1>2. CASE k * Alpha + e + z >= 0
  <2>1. k * Alpha + e + z \in 0 .. (Q - 1)
    BY <1>1, <1>2, StepBounds, AlphaFacts, RoundingAssumption DEF Alpha
  <2>2. (r % Q) + z = (k * Alpha + e + z) + Q * 0
    BY <1>1, AlphaFacts
  <2>3. (r + z) % Q = k * Alpha + e + z
    <3> DEFINE v == k * Alpha + e + z
    <3>1. v \in 0 .. (Q - 1) /\ (r % Q) + z = v + Q * 0
      BY <2>1, <2>2
    <3> HIDE DEF v
    <3>2. (r + z) % Q = v
      BY <3>1, ModShift
    <3> QED BY <3>2 DEF v
  <2>4. (r + z) % Q = k * Alpha + (e + z)
    BY <1>1, <2>3
  <2>5. Decompose(r + z, Alpha) = <<k, e + z>>
    BY <1>1, <2>4, DecomposeIs
  <2> QED BY <2>5 DEF HighBits
<1>3. CASE k * Alpha + e + z < 0
  <2>1. k = 0 /\ k * Alpha = 0
    <3>1. k >= 1 => k * Alpha >= Alpha
      BY StepBounds
    <3>2. ~(k >= 1)
      BY <1>1, <1>3, <3>1, AlphaFacts, RoundingAssumption DEF Alpha
    <3>3. k = 0
      BY <3>2
    <3> QED BY <3>3, AlphaFacts
  <2>2. e + z \in -Gamma2 .. -1
    BY <1>1, <1>3, <2>1, RoundingAssumption
  <2> DEFINE v == Q + (e + z)
  <2>3. v \in 0 .. (Q - 1) /\ (r % Q) + z = v + Q * (-1)
    BY <1>1, <2>1, <2>2, AlphaFacts, RoundingAssumption DEF Alpha
  <2> HIDE DEF v
  <2>4. (r + z) % Q = v
    BY <2>3, ModShift
  <2>5. (r + z) % Q = Q + (e + z)
    BY <2>4 DEF v
  <2>6. Decompose(r + z, Alpha) = <<0, e + z>>
    BY <1>1, <2>2, <2>5, DecomposeTop
  <2> QED BY <2>1, <2>6 DEF HighBits
<1> QED BY <1>1, <1>2, <1>3

LEMMA AddToTop ==
  ASSUME NEW r \in Int, NEW z \in Int, NEW e \in Int,
         e >= -Gamma2, e <= -1, r % Q = Q + e,
         e + z >= -Gamma2, e + z <= Gamma2
  PROVE  HighBits(r + z, Alpha) = 0
<1>1. CASE e + z < 0
  <2> DEFINE v == Q + (e + z)
  <2>1. v \in 0 .. (Q - 1) /\ (r % Q) + z = v + Q * 0
    BY <1>1, AlphaFacts, RoundingAssumption DEF Alpha
  <2> HIDE DEF v
  <2>2. (r + z) % Q = v
    BY <2>1, ModShift
  <2>3. Decompose(r + z, Alpha) = <<0, e + z>>
    BY <1>1, <2>2, DecomposeTop DEF v
  <2> QED BY <2>3 DEF HighBits
<1>2. CASE e + z >= 0
  <2> DEFINE v == e + z
  <2>1. v \in 0 .. (Q - 1) /\ (r % Q) + z = v + Q * 1
    <3>1. Gamma2 <= Q - 1
      BY AlphaFacts, RoundingAssumption DEF Alpha
    <3> QED BY <1>2, <3>1, AlphaFacts, RoundingAssumption
  <2> HIDE DEF v
  <2>2. (r + z) % Q = v
    BY <2>1, ModShift
  <2>3. 0 \in 0 .. (M - 1) /\ (r + z) % Q = 0 * Alpha + v
    BY <2>1, <2>2, AlphaFacts, RoundingAssumption
  <2>4. v \in Int /\ v > -Gamma2 /\ v <= Gamma2 /\ r + z \in Int
    BY <1>2, RoundingAssumption DEF v
  <2>5. Decompose(r + z, Alpha) = <<0, v>>
    BY <2>3, <2>4, DecomposeIs
  <2> QED BY <2>5 DEF HighBits
<1> QED BY <1>1, <1>2

(* make_hint followed by use_hint returns the high bits of the sum, for    *)
(* every |z| <= gamma2: what _verify_internal relies on.                   *)
LEMMA HintAbove ==
  ASSUME NEW r \in Int, NEW z \in Int, z <= Gamma2,
         NEW k \in 0 .. (M - 1), NEW e \in Int,
         e > 0, e <= Gamma2, r % Q = k * Alpha + e, e + z > Gamma2
  PROVE  HighBits(r + z, Alpha) = (k + 1) % M
<1> DEFINE e1 == e + z - Alpha
<1>1. e1 \in Int /\ e1 > -Gamma2 /\ e1 <= 0 /\ r + z \in Int
  BY AlphaFacts, RoundingAssumption DEF Alpha
<1>2. k * Alpha \in 0 .. (Q - 1 - Alpha) /\ (k + 1) * Alpha = k * Alpha + Alpha
  BY StepBounds
<1>3. e1 = e + z - Alpha
  OBVIOUS
<1> HIDE DEF e1
<1>4. CASE k < M - 1
  <2> DEFINE k1 == k + 1
             v == k1 * Alpha + e1
  <2>1. k1 \in 0 .. (M - 1)
    BY <1>4, RoundingAssumption
  <2>2. v \in 0 .. (Q - 1) /\ (r % Q) + z = v + Q * 0
    BY <1>1, <1>2, <1>3, AlphaFacts, RoundingAssumption DEF Alpha
  <2>3. k1 = k + 1 /\ v = k1 * Alpha + e1
    OBVIOUS
  <2> HIDE DEF k1, v
  <2>4. (r + z) % Q = v
    BY <2>2, ModShift
  <2>5. Decompose(r + z, Alpha) = <<k1, e1>>
    BY <1>1, <2>1, <2>3, <2>4, DecomposeIs, RoundingAssumption
  <2>6. (k + 1) % M = k + 1
    BY <1>4, RoundingAssumption
  <2> QED BY <2>3, <2>5, <2>6 DEF HighBits
<1>5. CASE k = M - 1
  <2> DEFINE e2 == e1 - 1
             v == Q + e2
  <2>1. v \in 0 .. (Q - 1) /\ (r % Q) + z = v + Q * 0
    <3>1. k * Alpha = Q - 1 - Alpha
      BY <1>5, StepBounds
    <3> QED BY <1>1, <1>3, <3>1, AlphaFacts, RoundingAssumption DEF Alpha
  <2>2. e2 \in Int /\ e2 >= -Gamma2 /\ e2 <= -1
    BY <1>1, RoundingAssumption
  <2>3. v = Q + e2
    OBVIOUS
  <2> HIDE DEF v, e2
  <2>4. (r + z) % Q = v
    BY <2>1, ModShift
  <2>5. Decompose(r + z, Alpha) = <<0, e2>>
    BY <1>1, <2>2, <2>3, <2>4, DecomposeTop
  <2>6. (k + 1) % M = 0
    BY <1>5, RoundingAssumption
  <2> QED BY <2>5, <2>6 DEF HighBits
<1> QED BY <1>4, <1>5, RoundingAssumption

LEMMA HintBelow ==
  ASSUME NEW r \in Int, NEW z \in Int, z >= -Gamma2,
         NEW k \in 0 .. (M - 1), NEW e \in Int,
         e > -Gamma2, e <= 0, r % Q = k * Alpha + e, e + z <= -Gamma2,
         HighBits(r + z, Alpha) # k
  PROVE  HighBits(r + z, Alpha) = (k - 1) % M
<1> DEFINE e1 == e + z + Alpha
<1>1. e1 \in Int /\ e1 > 0 /\ e1 <= Gamma2 /\ r + z \in Int
  BY AlphaFacts, RoundingAssumption DEF Alpha
<1>2. k * Alpha \in 0 .. (Q - 1 - Alpha) /\ (k - 1) * Alpha = k * Alpha - Alpha
  BY StepBounds
<1>3. e1 = e + z + Alpha
  OBVIOUS
<1> HIDE DEF e1
<1>4. CASE k >= 1
  <2> DEFINE k1 == k - 1
             v == k1 * Alpha + e1
  <2>1. k1 \in 0 .. (M - 1)
    BY <1>4, RoundingAssumption
  <2>2. v \in 0 .. (Q - 1) /\ (r % Q) + z = v + Q * 0
    <3>1. k * Alpha >= Alpha
      BY <1>4, StepBounds
    <3> QED BY <1>1, <1>2, <1>3, <3>1, AlphaFacts, RoundingAssumption DEF Alpha
  <2>3. k1 = k - 1 /\ v = k1 * Alpha + e1
    OBVIOUS
  <2> HIDE DEF k1, v
  <2>4. (r + z) % Q = v
    BY <2>2, ModShift
  <2>5. Decompose(r + z, Alpha) = <<k1, e1>>
    BY <1>1, <2>1, <2>3, <2>4, DecomposeIs, RoundingAssumption
  <2>6. (k - 1) % M = k - 1
    BY <1>4, RoundingAssumption
  <2> QED BY <2>3, <2>5, <2>6 DEF HighBits
<1>5. CASE k = 0
  <2>1. k * Alpha = 0
    BY <1>5, AlphaFacts
  <2>2. e + z # -Gamma2
    <3>1. CASE e + z = -Gamma2
      <4> DEFINE v == Q - Gamma2
      <4>1. v \in 0 .. (Q - 1) /\ (r % Q) + z = v + Q * (-1)
        BY <2>1, <3>1, AlphaFacts, RoundingAssumption DEF Alpha
      <4>2. v = Q + (-Gamma2)
        BY AlphaFacts, RoundingAssumption
      <4> HIDE DEF v
      <4>3. (r + z) % Q = v
        BY <4>1, ModShift
      <4>4. -Gamma2 \in Int /\ -Gamma2 <= -1 /\ -Gamma2 >= -Gamma2
        BY RoundingAssumption
      <4>5. Decompose(r + z, Alpha) = <<0, -Gamma2>>
        BY <1>1, <4>2, <4>3, <4>4, DecomposeTop
      <4> QED BY <1>5, <4>5 DEF HighBits
    <3> QED BY <3>1
  <2> DEFINE k1 == M - 1
             e2 == e1 + 1
             v == k1 * Alpha + e2
  <2>3. k1 \in 0 .. (M - 1) /\ e2 \in Int /\ e2 > -Gamma2 /\ e2 <= Gamma2
    BY <1>1, <1>3, <2>2, RoundingAssumption DEF Alpha
  <2>4. k1 * Alpha = Q - 1 - Alpha
    BY <2>3, StepBounds
  <2>5. v \in 0 .. (Q - 1) /\ (r % Q) + z = v + Q * (-1)
    BY <1>1, <1>3, <2>1, <2>3, <2>4, AlphaFacts, RoundingAssumption DEF Alpha
  <2>6. v = k1 * Alpha + e2 /\ k1 = M - 1
    OBVIOUS
  <2> HIDE DEF k1, e2, v
  <2>7. (r + z) % Q = v
    BY <2>5, ModShift
  <2>8. Decompose(r + z, Alpha) = <<k1, e2>>
    BY <1>1, <2>3, <2>6, <2>7, DecomposeIs
  <2>9. (k - 1) % M = M - 1
    BY <1>5, RoundingAssumption
  <2> QED BY <2>6, <2>8, <2>9 DEF HighBits
<1> QED BY <1>4, <1>5

LEMMA TopBelow ==
  ASSUME NEW r \in Int, NEW z \in Int, z >= -Gamma2, NEW e \in Int,
         e >= -Gamma2, e <= -1, r % Q = Q + e, e + z < -Gamma2
  PROVE  HighBits(r + z, Alpha) = M - 1
<1> DEFINE k1 == M - 1
           e1 == e + z + Alpha + 1
           v == k1 * Alpha + e1
<1>1. k1 \in 0 .. (M - 1) /\ e1 \in Int /\ e1 > -Gamma2 /\ e1 <= Gamma2 /\ r + z \in Int
  BY AlphaFacts, RoundingAssumption DEF Alpha
<1>2. k1 * Alpha = Q - 1 - Alpha
  BY <1>1, StepBounds
<1>3. v \in 0 .. (Q - 1) /\ (r % Q) + z = v + Q * 0
  BY <1>1, <1>2, AlphaFacts, RoundingAssumption DEF Alpha
<1>4. v = k1 * Alpha + e1 /\ k1 = M - 1
  OBVIOUS
<1> HIDE DEF k1, e1, v
<1>5. (r + z) % Q = v
  BY <1>3, ModShift
<1>6. Decompose(r + z, Alpha) = <<k1, e1>>
  BY <1>1, <1>4, <1>5, DecomposeIs
<1> QED BY <1>4, <1>6 DEF HighBits

(* make_hint followed by use_hint returns the high bits of the sum, for    *)
(* every |z| <= gamma2 (make_hint and use_hint of utils.py).               *)
THEOREM UseHintUndoesMakeHint ==
  ASSUME NEW r \in Int, NEW z \in -Gamma2 .. Gamma2
  PROVE  UseHint(MakeHint(z, r, Alpha), r, Alpha) = HighBits(r + z, Alpha)
<1>a. z \in Int /\ z >= -Gamma2 /\ z <= Gamma2
  BY RoundingAssumption
<1>b. (Q - 1) \div Alpha = M
  BY AlphaFacts
<1>1. CASE HighBits(r, Alpha) = HighBits(r + z, Alpha)
  <2>1. MakeHint(z, r, Alpha) = 0
    BY <1>1 DEF MakeHint
  <2> QED BY <1>1, <2>1 DEF UseHint, HighBits
<1>2. CASE HighBits(r, Alpha) # HighBits(r + z, Alpha)
  <2>1. MakeHint(z, r, Alpha) = 1
    BY <1>2 DEF MakeHint
  <2>2. CASE \E k \in 0 .. (M - 1), e \in Int :
             e > -Gamma2 /\ e <= Gamma2 /\ r % Q = k * Alpha + e
    <3>1. PICK k \in 0 .. (M - 1), e \in Int :
               e > -Gamma2 /\ e <= Gamma2 /\ r % Q = k * Alpha + e
      BY <2>2
    <3>2. Decompose(r, Alpha) = <<k, e>>
      BY <3>1, DecomposeIs
    <3>3. HighBits(r + z, Alpha) # k
      BY <1>2, <3>2 DEF HighBits
    <3>4. UseHint(1, r, Alpha) = IF e > 0 THEN (k + 1) % M ELSE (k - 1) % M
      BY <1>b, <3>2 DEF UseHint
    <3>5. ~(e + z > -Gamma2 /\ e + z <= Gamma2)
      BY <1>a, <3>1, <3>3, AddWithinSegment
    <3>6. CASE e > 0
      <4>1. e + z > Gamma2
        BY <1>a, <3>1, <3>5, <3>6, RoundingAssumption
      <4>2. HighBits(r + z, Alpha) = (k + 1) % M
        BY <1>a, <3>1, <3>6, <4>1, HintAbove
      <4> QED BY <2>1, <3>4, <3>6, <4>2
    <3>7. CASE e <= 0
      <4>1. e + z <= -Gamma2
        BY <1>a, <3>1, <3>5, <3>7, RoundingAssumption
      <4>2. HighBits(r + z, Alpha) = (k - 1) % M
        BY <1>a, <3>1, <3>3, <3>7, <4>1, HintBelow
      <4>3. ~(e > 0)
        BY <3>1, <3>7
      <4> QED BY <2>1, <3>4, <4>2, <4>3
    <3> QED BY <3>1, <3>6, <3>7
  <2>3. CASE \E e \in Int : e >= -Gamma2 /\ e <= -1 /\ r % Q = Q + e
    <3>1. PICK e \in Int : e >= -Gamma2 /\ e <= -1 /\ r % Q = Q + e
      BY <2>3
    <3>2. Decompose(r, Alpha) = <<0, e>>
      BY <3>1, DecomposeTop
    <3>3. HighBits(r + z, Alpha) # 0
      BY <1>2, <3>2 DEF HighBits
    <3>4. e + z < -Gamma2
      BY <1>a, <3>1, <3>3, AddToTop, RoundingAssumption
    <3>5. HighBits(r + z, Alpha) = M - 1
      BY <1>a, <3>1, <3>4, TopBelow
    <3>6. UseHint(1, r, Alpha) = (0 - 1) % M
      BY <1>b, <3>1, <3>2 DEF UseHint
    <3>7. (0 - 1) % M = M - 1
      BY RoundingAssumption
    <3> QED BY <2>1, <3>5, <3>6, <3>7
  <2> QED BY <2>2, <2>3, ResidueKinds
<1> QED BY <1>1, <1>2

(* A low part that stays below gamma2 - beta keeps the high bits when a    *)
(* number of magnitude up to beta is added: why the sign loop may test r0  *)
(* of w - c s2 and still commit to the high bits of w.                     *)
THEOREM SmallChangeKeepsHighBits ==
  ASSUME NEW r \in Int, NEW B \in Nat, NEW s \in Int, s <= B, -s <= B,
         ~NormFails(LowBits(r, Alpha), Gamma2 - B)
  PROVE  HighBits(r + s, Alpha) = HighBits(r, Alpha)
<1> DEFINE low == LowBits(r, Alpha)
<1>a. Gamma2 \in Nat /\ Gamma2 >= 1 /\ Gamma2 <= (Q - 1) \div 2 /\ Q \in Nat /\ Gamma2 < Q
  <2>1. M * Gamma2 >= Gamma2 /\ M * Gamma2 \in Int
    BY RoundingAssumption
  <2>2. Gamma2 < Q
    BY AlphaFacts, RoundingAssumption DEF Alpha
  <2> QED BY <2>1, <2>2, AlphaFacts, RoundingAssumption
<1>b. ASSUME NEW e \in -Gamma2 .. Gamma2, low = e
      PROVE  e < Gamma2 - B /\ -e < Gamma2 - B
  <2>1. e \in Int /\ e <= Gamma2 /\ -e <= Gamma2
    BY <1>a
  <2>2. e % Q = IF e >= 0 THEN e ELSE Q + e
    BY <1>a, <2>1
  <2>3. e <= (Q - 1) \div 2 /\ -e <= (Q - 1) \div 2 /\ Gamma2 - B \in Int
    <3>1. (Q - 1) \div 2 \in Int
      BY <1>a
    <3> QED BY <1>a, <2>1, <3>1
  <2>4. NormFails(e, Gamma2 - B) <=> (e >= Gamma2 - B \/ -e >= Gamma2 - B)
    BY <2>1, <2>2, <2>3, NormIsCentredMagnitude
  <2>5. ~NormFails(e, Gamma2 - B)
    BY <1>b
  <2> QED BY <1>a, <2>1, <2>4, <2>5
<1>1. CASE \E k \in 0 .. (M - 1), e \in Int :
             e > -Gamma2 /\ e <= Gamma2 /\ r % Q = k * Alpha + e
  <2>1. PICK k \in 0 .. (M - 1), e \in Int :
             e > -Gamma2 /\ e <= Gamma2 /\ r % Q = k * Alpha + e
    BY <1>1
  <2>2. Decompose(r, Alpha) = <<k, e>>
    BY <2>1, DecomposeIs
  <2>3. e \in -Gamma2 .. Gamma2 /\ low = e
    BY <1>a, <2>1, <2>2 DEF LowBits
  <2>4. e < Gamma2 - B /\ -e < Gamma2 - B
    BY <2>3, <1>b
  <2>5. e + s > -Gamma2 /\ e + s <= Gamma2
    BY <1>a, <2>1, <2>4
  <2>6. HighBits(r + s, Alpha) = k
    BY <2>1, <2>5, AddWithinSegment
  <2> QED BY <2>2, <2>6 DEF HighBits
<1>2. CASE \E e \in Int : e >= -Gamma2 /\ e <= -1 /\ r % Q = Q + e
  <2>1. PICK e \in Int : e >= -Gamma2 /\ e <= -1 /\ r % Q = Q + e
    BY <1>2
  <2>2. Decompose(r, Alpha) = <<0, e>>
    BY <2>1, DecomposeTop
  <2>3. e \in -Gamma2 .. Gamma2 /\ low = e
    BY <1>a, <2>1, <2>2 DEF LowBits
  <2>4. e < Gamma2 - B /\ -e < Gamma2 - B
    BY <2>3, <1>b
  <2>5. e + s >= -Gamma2 /\ e + s <= Gamma2
    BY <1>a, <2>1, <2>4
  <2>6. HighBits(r + s, Alpha) = 0
    BY <2>1, <2>5, AddToTop
  <2> QED BY <2>2, <2>6 DEF HighBits
<1> QED BY <1>1, <1>2, ResidueKinds

(* One coefficient of a signature that the sign loop lets out: with r =    *)
(* w - c s2, s = c s2 and t = c t0 after the loop's two norm tests, the    *)
(* hint made from (-t, r + t) makes the verifier recompute from r + t the  *)
(* high bits of w the signer hashed (_sign_internal, _verify_internal).    *)
THEOREM VerifierRecoversW1 ==
  ASSUME NEW w \in Int, NEW B \in Nat, NEW s \in Int, s <= B, -s <= B,
         NEW t \in Int, t <= Gamma2, -t <= Gamma2,
         ~NormFails(LowBits(w - s, Alpha), Gamma2 - B)
  PROVE  UseHint(MakeHint(-t, w - s + t, Alpha), w - s + t, Alpha) = HighBits(w, Alpha)
<1> DEFINE r  == w - s
           rt == r + t
           nt == -t
<1>1. r \in Int /\ rt \in Int /\ nt \in -Gamma2 .. Gamma2 /\ rt + nt = r /\ r + s = w
  BY RoundingAssumption
<1>2. rt = w - s + t /\ nt = -t
  OBVIOUS
<1>3. ~NormFails(LowBits(r, Alpha), Gamma2 - B)
  OBVIOUS
<1> HIDE DEF r, rt, nt
<1>4. UseHint(MakeHint(nt, rt, Alpha), rt, Alpha) = HighBits(rt + nt, Alpha)
  BY <1>1, UseHintUndoesMakeHint
<1>5. HighBits(r + s, Alpha) = HighBits(r, Alpha)
  BY <1>1, <1>3, SmallChangeKeepsHighBits
<1> QED BY <1>1, <1>2, <1>4, <1>5

(* power_2_round: t1 * 2^d + t0 is the residue and t0 is small.  For q     *)
(* below 2^23 and d = 13, t1 is what bit_pack_t1 has room for: ten bits.   *)
THEOREM Power2RoundFits ==
  ASSUME NEW x \in Int, Q <= 8388608
  PROVE  LET halves == Power2Round(x, 8192)
         IN  /\ x % Q = halves[1] * 8192 + halves[2]
             /\ halves[2] > -4096 /\ halves[2] <= 4096
             /\ halves[1] \in 0 .. 1024
             /\ Q <= 8384512 => halves[1] \in 0 .. 1023
<1>1. x % Q \in 0 .. (Q - 1) /\ Q \in Nat
  <2>1. Q \in Nat /\ Q >= 1
    BY AlphaFacts
  <2> QED BY <2>1, Euclid
<1> DEFINE r == x % Q
<1>2. r \in 0 .. (Q - 1)
  BY <1>1
<1>3. Power2Round(x, 8192) = <<(r - ReduceModPm(r, 8192)) \div 8192, ReduceModPm(r, 8192)>>
  BY DEF Power2Round
<1> HIDE DEF r
<1>4. /\ r = ((r - ReduceModPm(r, 8192)) \div 8192) * 8192 + ReduceModPm(r, 8192)
      /\ ReduceModPm(r, 8192) > -4096 /\ ReduceModPm(r, 8192) <= 4096
      /\ (r - ReduceModPm(r, 8192)) \div 8192 \in 0 .. 1024
      /\ Q <= 8384512 => (r - ReduceModPm(r, 8192)) \div 8192 \in 0 .. 1023
  BY <1>1, <1>2 DEF ReduceModPm
<1> QED BY <1>3, <1>4 DEF r
-----------------------------------------------------------------------------
(* Functions by recursion over the numbers: one exists, and what follows   *)
(* the same equations agrees with it.                                      *)
Steps(G, n, V)        == \A k \in 1 .. n : \A v \in V : G[k][v] \in V
Solves(s, V, b, n, G) == /\ s \in [0 .. n -> V] /\ s[0] = b
                         /\ \A k \in 1 .. n : s[k] = G[k][s[k - 1]]
Follows(f, V, b, n, G) == /\ f[0] = b
                          /\ \A k \in 1 .. n : f[k - 1] \in V => f[k] = G[k][f[k - 1]]
Agree(f, s, n) == \A k \in 0 .. n : f[k] = s[k]

LEMMA Recursion ==
  ASSUME NEW V, NEW b \in V, NEW n \in Nat, NEW G, Steps(G, n, V)
  PROVE  \E s : Solves(s, V, b, n, G)
<1> DEFINE T == {m \in Nat : m <= n => \E s : Solves(s, V, b, m, G)}
<1>1. 0 \in T
  <2>1. Solves([k \in 0 .. 0 |-> b], V, b, 0, G)
    BY DEF Solves
  <2> QED BY <2>1
<1>2. ASSUME NEW m \in Nat, m \in T PROVE m + 1 \in T
  <2> SUFFICES ASSUME m + 1 <= n PROVE \E s : Solves(s, V, b, m + 1, G)
    OBVIOUS
  <2>1. PICK s : Solves(s, V, b, m, G)
    BY <1>2
  <2> DEFINE new == G[m + 1][s[m]]
             r == [k \in 0 .. m + 1 |-> IF k = m + 1 THEN new ELSE s[k]]
  <2>2. new \in V
    BY <2>1 DEF Solves, Steps
  <2>3. r \in [0 .. m + 1 -> V]
    BY <2>1, <2>2 DEF Solves
  <2>4. r[0] = b
    BY <2>1 DEF Solves
  <2>5. ASSUME NEW k \in 1 .. m + 1 PROVE r[k] = G[k][r[k - 1]]
    <3>1. CASE k = m + 1
      <4>1. r[k] = new /\ r[k - 1] = s[m]
        BY <3>1
      <4> QED BY <3>1, <4>1
    <3>2. CASE k # m + 1
      <4>1. k \in 1 .. m /\ r[k] = s[k] /\ r[k - 1] = s[k - 1]
        BY <3>2
      <4> QED BY <2>1, <4>1 DEF Solves
    <3> QED BY <3>1, <3>2
  <2> HIDE DEF r
  <2> QED BY <2>3, <2>4, <2>5 DEF Solves
<1> HIDE DEF T
<1>3. n \in T
  BY <1>1, <1>2, Induction
<1> QED BY <1>3 DEF T

LEMMA RecursionUnique ==
  ASSUME NEW V, NEW b \in V, NEW n \in Nat, NEW G, NEW s, Solves(s, V, b, n, G),
         NEW m \in 0 .. n, NEW f, Follows(f, V, b, m, G)
  PROVE  Agree(f, s, m)
<1> DEFINE T == {k \in Nat : k <= m => f[k] = s[k]}
<1>1. 0 \in T
  BY DEF Solves, Follows
<1>2. ASSUME NEW k \in Nat, k \in T PROVE k + 1 \in T
  <2> SUFFICES ASSUME k + 1 <= m PROVE f[k + 1] = s[k + 1]
    OBVIOUS
  <2>1. f[k] = s[k] /\ k + 1 \in 1 .. m /\ k + 1 \in 1 .. n /\ (k + 1) - 1 = k
    BY <1>2
  <2>2. s[k] \in V
    BY <2>1 DEF Solves
  <2> QED BY <2>1, <2>2 DEF Solves, Follows
<1> HIDE DEF T
<1>3. Nat \subseteq T
  BY <1>1, <1>2, Induction
<1>4. \A k \in 0 .. m : k \in T
  BY <1>3
<1> QED BY <1>4 DEF T, Agree

-----------------------------------------------------------------------------
(* Sums. *)
Ints(t, n) == \A k \in 0 .. n - 1 : t[k] \in Int

LEMMA SumSolved ==
  ASSUME NEW n \in Nat, NEW t, Ints(t, n)
  PROVE  \E s \in [0 .. n -> Int] :
           /\ s[0] = 0 /\ \A k \in 1 .. n : s[k] = s[k - 1] + t[k - 1]
           /\ \A m \in 0 .. n : Sum(t, m) = s[m]
<1> DEFINE G == [k \in 1 .. n |-> [v \in Int |-> v + t[k - 1]]]
<1>0. \A k \in 1 .. n : t[k - 1] \in Int
  BY DEF Ints
<1>2. \A k \in 1 .. n : \A v \in Int : G[k][v] = v + t[k - 1]
  OBVIOUS
<1> HIDE DEF G
<1>1. Steps(G, n, Int)
  BY <1>0, <1>2 DEF Steps
<1>a. 0 \in Int
  OBVIOUS
<1>3. PICK s : Solves(s, Int, 0, n, G)
  BY <1>1, <1>a, Recursion, Zenon
<1>4. s \in [0 .. n -> Int] /\ s[0] = 0
  BY <1>3 DEF Solves
<1>5. \A k \in 1 .. n : s[k] = s[k - 1] + t[k - 1]
  <2> TAKE k \in 1 .. n
  <2>1. s[k - 1] \in Int
    BY <1>4
  <2> QED BY <1>2, <1>3, <2>1 DEF Solves
<1>6. ASSUME NEW m \in 0 .. n PROVE Sum(t, m) = s[m]
  <2> DEFINE Is(f) == f = [k \in 0 .. m |-> IF k = 0 THEN 0 ELSE f[k - 1] + t[k - 1]]
             f == CHOOSE g : Is(g)
             r == [k \in 0 .. m |-> s[k]]
  <2>1. Is(r)
    <3>1. \A k \in 0 .. m : r[k] = IF k = 0 THEN 0 ELSE r[k - 1] + t[k - 1]
      BY <1>4, <1>5
    <3> QED BY <3>1
  <2>2. Is(f)
    BY <2>1
  <2>3. Sum(t, m) = f[m]
    BY DEF Sum
  <2>4. f[0] = 0 /\ \A k \in 1 .. m : f[k] = f[k - 1] + t[k - 1]
    <3> HIDE DEF f
    <3> QED BY <2>2
  <2> HIDE DEF f
  <2>5. Follows(f, Int, 0, m, G)
    <3> SUFFICES ASSUME NEW k \in 1 .. m, f[k - 1] \in Int PROVE f[k] = G[k][f[k - 1]]
      BY <2>4 DEF Follows
    <3>1. k \in 1 .. n
      OBVIOUS
    <3>2. G[k][f[k - 1]] = f[k - 1] + t[k - 1]
      BY <1>2, <3>1
    <3> QED BY <2>4, <3>2
  <2>7. Agree(f, s, m)
    BY <1>a, <1>3, <2>5, RecursionUnique
  <2> QED BY <2>3, <2>7 DEF Agree
<1> QED BY <1>4, <1>5, <1>6

LEMMA SumZero == ASSUME NEW t PROVE Sum(t, 0) = 0
<1>1. Ints(t, 0)
  BY DEF Ints
<1> QED BY <1>1, SumSolved

LEMMA SumNext ==
  ASSUME NEW n \in Nat, NEW t, Ints(t, n + 1)
  PROVE  Sum(t, n) \in Int /\ Sum(t, n + 1) = Sum(t, n) + t[n]
<1>1. PICK s \in [0 .. n + 1 -> Int] :
           /\ s[0] = 0 /\ \A k \in 1 .. n + 1 : s[k] = s[k - 1] + t[k - 1]
           /\ \A m \in 0 .. n + 1 : Sum(t, m) = s[m]
  BY SumSolved
<1>2. n \in 0 .. n + 1 /\ n + 1 \in 1 .. n + 1 /\ (n + 1) - 1 = n
  OBVIOUS
<1> QED BY <1>1, <1>2

LEMMA SumInt == ASSUME NEW n \in Nat, NEW t, Ints(t, n) PROVE Sum(t, n) \in Int
  BY SumSolved
LEMMA SumEqual ==
  ASSUME NEW n \in Nat, NEW t, NEW u, Ints(t, n), \A k \in 0 .. n - 1 : t[k] = u[k]
  PROVE  Sum(t, n) = Sum(u, n)
<1> DEFINE T == {m \in Nat : m <= n => Sum(t, m) = Sum(u, m)}
<1>1. 0 \in T
  BY SumZero
<1>2. ASSUME NEW m \in Nat, m \in T PROVE m + 1 \in T
  <2> SUFFICES ASSUME m + 1 <= n PROVE Sum(t, m + 1) = Sum(u, m + 1)
    OBVIOUS
  <2>1. Ints(t, m + 1) /\ Ints(u, m + 1) /\ t[m] = u[m]
    BY DEF Ints
  <2> QED BY <1>2, <2>1, SumNext
<1> HIDE DEF T
<1>3. n \in T
  BY <1>1, <1>2, Induction
<1> QED BY <1>3 DEF T

LEMMA SumAdds ==
  ASSUME NEW n \in Nat, NEW t, NEW u, NEW v, Ints(t, n), Ints(u, n),
         \A k \in 0 .. n - 1 : v[k] = t[k] + u[k]
  PROVE  Sum(v, n) = Sum(t, n) + Sum(u, n)
<1> DEFINE T == {m \in Nat : m <= n => Sum(v, m) = Sum(t, m) + Sum(u, m)}
<1>1. 0 \in T
  BY SumZero
<1>2. ASSUME NEW m \in Nat, m \in T PROVE m + 1 \in T
  <2> SUFFICES ASSUME m + 1 <= n PROVE Sum(v, m + 1) = Sum(t, m + 1) + Sum(u, m + 1)
    OBVIOUS
  <2>1. Ints(t, m + 1) /\ Ints(u, m + 1) /\ Ints(v, m + 1) /\ v[m] = t[m] + u[m]
    BY DEF Ints
  <2>2. t[m] \in Int /\ u[m] \in Int
    BY <2>1 DEF Ints
  <2>3. /\ Sum(t, m) \in Int /\ Sum(t, m + 1) = Sum(t, m) + t[m]
        /\ Sum(u, m) \in Int /\ Sum(u, m + 1) = Sum(u, m) + u[m]
        /\ Sum(v, m + 1) = Sum(v, m) + v[m]
    BY <2>1, SumNext
  <2>4. Sum(v, m) = Sum(t, m) + Sum(u, m)
    BY <1>2
  <2> QED BY <2>1, <2>2, <2>3, <2>4
<1> HIDE DEF T
<1>3. n \in T
  BY <1>1, <1>2, Induction
<1> QED BY <1>3 DEF T

LEMMA SumScales ==
  ASSUME NEW n \in Nat, NEW e \in Int, NEW t, NEW v, Ints(t, n),
         \A k \in 0 .. n - 1 : v[k] = e * t[k]
  PROVE  Sum(v, n) = e * Sum(t, n)
<1> DEFINE T == {m \in Nat : m <= n => Sum(v, m) = e * Sum(t, m)}
<1>1. 0 \in T
  BY SumZero
<1>2. ASSUME NEW m \in Nat, m \in T PROVE m + 1 \in T
  <2> SUFFICES ASSUME m + 1 <= n PROVE Sum(v, m + 1) = e * Sum(t, m + 1)
    OBVIOUS
  <2>1. Ints(t, m + 1) /\ Ints(v, m + 1) /\ v[m] = e * t[m]
    BY DEF Ints
  <2>2. t[m] \in Int
    BY <2>1 DEF Ints
  <2>3. /\ Sum(t, m) \in Int /\ Sum(t, m + 1) = Sum(t, m) + t[m]
        /\ Sum(v, m + 1) = Sum(v, m) + v[m]
    BY <2>1, SumNext
  <2>4. Sum(v, m) = e * Sum(t, m)
    BY <1>2
  <2>5. e * (Sum(t, m) + t[m]) = e * Sum(t, m) + e * t[m]
    BY <2>2, <2>3
  <2> QED BY <2>1, <2>3, <2>4, <2>5
<1> HIDE DEF T
<1>3. n \in T
  BY <1>1, <1>2, Induction
<1> QED BY <1>3 DEF T

(* The sums of a table's rows and of its columns have the same sum.        *)
TableInts(m, n, l)     == \A a \in 0 .. n - 1 : \A b \in 0 .. l - 1 : m[a][b] \in Int
RowSums(u, m, n, l)    == \A a \in 0 .. n - 1 : u[a] = Sum(m[a], l)
ColumnSums(v, m, n, l) ==
  \A b \in 0 .. l - 1 : v[b] = Sum([a \in 0 .. n - 1 |-> m[a][b]], n)

LEMMA SumSwaps ==
  ASSUME NEW n \in Nat, NEW l \in Nat, NEW m, TableInts(m, n, l),
         NEW u, RowSums(u, m, n, l), NEW v, ColumnSums(v, m, n, l)
  PROVE  Sum(u, n) = Sum(v, l)
<1>0. /\ \A a \in 0 .. n - 1 : \A b \in 0 .. l - 1 : m[a][b] \in Int
      /\ \A a \in 0 .. n - 1 : u[a] = Sum(m[a], l)
      /\ \A b \in 0 .. l - 1 : v[b] = Sum([a \in 0 .. n - 1 |-> m[a][b]], n)
  BY DEF TableInts, RowSums, ColumnSums
<1> DEFINE Col(b)  == [a \in 0 .. n - 1 |-> m[a][b]]
           Part(k) == [b \in 0 .. l - 1 |-> Sum(Col(b), k)]
           T == {k \in Nat : k <= n => Sum(u, k) = Sum(Part(k), l)}
<1>1. \A b \in 0 .. l - 1 : Ints(Col(b), n)
  BY <1>0 DEF Ints
<1>2. \A k \in 0 .. n : \A b \in 0 .. l - 1 : Ints(Col(b), k)
  BY <1>0 DEF Ints
<1>3. Ints(u, n)
  <2> SUFFICES ASSUME NEW a \in 0 .. n - 1 PROVE u[a] \in Int
    BY DEF Ints
  <2>1. Ints(m[a], l)
    BY <1>0 DEF Ints
  <2> QED BY <1>0, <2>1, SumInt
<1>4. \A k \in 0 .. n : Ints(Part(k), l)
  <2> SUFFICES ASSUME NEW k \in 0 .. n, NEW b \in 0 .. l - 1 PROVE Sum(Col(b), k) \in Int
    BY DEF Ints
  <2>1. Ints(Col(b), k) /\ k \in Nat
    BY <1>2
  <2> HIDE DEF Col
  <2> QED BY <2>1, SumInt
<1>5. 0 \in T
  <2>1. Sum(Part(0), l) = Sum(Part(0), l) + Sum(Part(0), l)
    <3> DEFINE p == Part(0)
    <3>1. Ints(p, l)
      BY <1>4
    <3>2. \A b \in 0 .. l - 1 : p[b] = 0
      BY SumZero
    <3> HIDE DEF p
    <3>3. \A b \in 0 .. l - 1 : p[b] = p[b] + p[b]
      BY <3>2
    <3>4. Sum(p, l) = Sum(p, l) + Sum(p, l)
      BY <3>1, <3>3, SumAdds
    <3> QED BY <3>4 DEF p
  <2>2. Sum(Part(0), l) \in Int
    <3>1. Ints(Part(0), l)
      BY <1>4
    <3> HIDE DEF Part
    <3> QED BY <3>1, SumInt
  <2> HIDE DEF Part
  <2>3. Sum(Part(0), l) = 0
    <3> DEFINE v0 == Sum(Part(0), l)
    <3>1. v0 \in Int /\ v0 = v0 + v0
      BY ONLY <2>1, <2>2
    <3> HIDE DEF v0
    <3>2. v0 = 0
      BY ONLY <3>1
    <3> QED BY ONLY <3>2 DEF v0
  <2> QED BY <2>3, SumZero
<1>6. ASSUME NEW k \in Nat, k \in T PROVE k + 1 \in T
  <2> SUFFICES ASSUME k + 1 <= n PROVE Sum(u, k + 1) = Sum(Part(k + 1), l)
    OBVIOUS
  <2>1. k \in 0 .. n - 1 /\ k \in 0 .. n /\ k + 1 \in 0 .. n
    OBVIOUS
  <2>2. Sum(u, k + 1) = Sum(u, k) + u[k]
    <3>1. Ints(u, k + 1)
      BY <1>3, <2>1 DEF Ints
    <3> QED BY <3>1, SumNext
  <2>3. \A b \in 0 .. l - 1 : Sum(Col(b), k + 1) = Sum(Col(b), k) + m[k][b]
    <3> TAKE b \in 0 .. l - 1
    <3>1. Ints(Col(b), k + 1) /\ Col(b)[k] = m[k][b]
      BY <1>2, <2>1
    <3> HIDE DEF Col
    <3> QED BY <3>1, SumNext
  <2>4. Ints(m[k], l) /\ Ints(Part(k), l)
    BY <1>0, <1>4, <2>1 DEF Ints
  <2>5. \A b \in 0 .. l - 1 : Part(k + 1)[b] = Part(k)[b] + m[k][b]
    <3> HIDE DEF Col
    <3> QED BY <2>3
  <2> HIDE DEF Part
  <2>6. Sum(Part(k + 1), l) = Sum(Part(k), l) + Sum(m[k], l)
    BY <2>4, <2>5, SumAdds
  <2>7. Sum(u, k) = Sum(Part(k), l) /\ u[k] = Sum(m[k], l)
    BY <1>0, <1>6, <2>1
  <2> QED BY <2>2, <2>6, <2>7
<1>7. Sum(u, n) = Sum(Part(n), l)
  <2> HIDE DEF T
  <2>1. n \in T
    BY <1>5, <1>6, Induction
  <2> QED BY <2>1 DEF T
<1>8. \A b \in 0 .. l - 1 : Part(n)[b] = v[b]
  BY <1>0
<1>9. Ints(Part(n), l)
  <2>1. n \in 0 .. n
    OBVIOUS
  <2> HIDE DEF Part
  <2> QED BY <1>4, <2>1
<1> HIDE DEF Part
<1>10. Sum(Part(n), l) = Sum(v, l)
  BY <1>8, <1>9, SumEqual
<1> QED BY <1>7, <1>10

-----------------------------------------------------------------------------
(* Congruence modulo q. *)
Cong(x, z) == \E e \in Int : x = z + Q * e

LEMMA QPositive == Q \in Nat /\ Q >= 1
  BY AlphaFacts

LEMMA CongMod ==
  ASSUME NEW x \in Int
  PROVE  Cong(x % Q, x) /\ Cong(x, x % Q) /\ x % Q \in 0 .. Q - 1
<1>1. x = Q * (x \div Q) + (x % Q) /\ x \div Q \in Int /\ x % Q \in 0 .. (Q - 1)
  BY QPositive, Euclid
<1>2. x % Q = x + Q * (-(x \div Q)) /\ -(x \div Q) \in Int
  BY <1>1, QPositive
<1>3. x = (x % Q) + Q * (x \div Q)
  BY <1>1, QPositive
<1> QED BY <1>1, <1>2, <1>3 DEF Cong

LEMMA CongEqual ==
  ASSUME NEW x \in Int, NEW z \in Int, Cong(x, z)
  PROVE  x % Q = z % Q
<1>1. PICK e \in Int : x = z + Q * e
  BY DEF Cong
<1> DEFINE k == z \div Q
           r == z % Q
<1>2. z = Q * k + r /\ k \in Int /\ r \in 0 .. Q - 1
  BY QPositive, Euclid
<1> HIDE DEF k, r
<1>3. x = Q * (k + e) + r
  BY <1>1, <1>2, QPositive
<1>4. x % Q = r
  BY <1>2, <1>3, QPositive, EuclidUnique
<1> QED BY <1>4 DEF r

LEMMA CongSym == ASSUME NEW x \in Int, NEW z \in Int, Cong(x, z) PROVE Cong(z, x)
<1>1. PICK e \in Int : x = z + Q * e
  BY DEF Cong
<1>2. z = x + Q * (-e) /\ -e \in Int
  BY <1>1, QPositive
<1> QED BY <1>2 DEF Cong

LEMMA CongTrans ==
  ASSUME NEW x \in Int, NEW z \in Int, NEW w \in Int, Cong(x, z), Cong(z, w)
  PROVE  Cong(x, w)
<1>1. PICK e \in Int : x = z + Q * e
  BY DEF Cong
<1>2. PICK f \in Int : z = w + Q * f
  BY DEF Cong
<1>3. x = w + Q * (e + f) /\ e + f \in Int
  BY <1>1, <1>2, QPositive
<1> QED BY <1>3 DEF Cong

LEMMA CongRefl == ASSUME NEW x \in Int PROVE Cong(x, x)
<1>1. x = x + Q * 0
  BY QPositive
<1> QED BY <1>1 DEF Cong

LEMMA CongAdd ==
  ASSUME NEW x \in Int, NEW z \in Int, NEW v \in Int, NEW w \in Int, Cong(x, z), Cong(v, w)
  PROVE  Cong(x + v, z + w) /\ Cong(x - v, z - w)
<1>1. PICK e \in Int : x = z + Q * e
  BY DEF Cong
<1>2. PICK f \in Int : v = w + Q * f
  BY DEF Cong
<1>3. x + v = (z + w) + Q * (e + f) /\ x - v = (z - w) + Q * (e - f)
  BY <1>1, <1>2, QPositive
<1> QED BY <1>3 DEF Cong

LEMMA CongTimes ==
  ASSUME NEW x \in Int, NEW z \in Int, NEW v \in Int, Cong(x, z)
  PROVE  Cong(v * x, v * z)
<1>1. PICK e \in Int : x = z + Q * e
  BY DEF Cong
<1>2. v * x = v * z + Q * (v * e) /\ v * e \in Int
  BY <1>1, QPositive
<1> QED BY <1>2 DEF Cong

LEMMA SumCong ==
  ASSUME NEW n \in Nat, NEW t, NEW u, Ints(t, n), Ints(u, n),
         \A k \in 0 .. n - 1 : Cong(t[k], u[k])
  PROVE  Cong(Sum(t, n), Sum(u, n))
<1> DEFINE T == {m \in Nat : m <= n => Cong(Sum(t, m), Sum(u, m))}
<1>1. 0 \in T
  BY SumZero, CongRefl
<1>2. ASSUME NEW m \in Nat, m \in T PROVE m + 1 \in T
  <2> SUFFICES ASSUME m + 1 <= n PROVE Cong(Sum(t, m + 1), Sum(u, m + 1))
    OBVIOUS
  <2>1. Ints(t, m + 1) /\ Ints(u, m + 1) /\ Cong(t[m], u[m])
    BY DEF Ints
  <2>2. t[m] \in Int /\ u[m] \in Int
    BY <2>1 DEF Ints
  <2>3. /\ Sum(t, m) \in Int /\ Sum(t, m + 1) = Sum(t, m) + t[m]
        /\ Sum(u, m) \in Int /\ Sum(u, m + 1) = Sum(u, m) + u[m]
    BY <2>1, SumNext
  <2>4. Cong(Sum(t, m), Sum(u, m))
    BY <1>2
  <2> QED BY <2>1, <2>2, <2>3, <2>4, CongAdd
<1> HIDE DEF T
<1>3. n \in T
  BY <1>1, <1>2, Induction
<1> QED BY <1>3 DEF T

-----------------------------------------------------------------------------
(* Products in the ring.  Ext continues a polynomial beyond its degree,    *)
(* X^N being -1, so that a coefficient of a product is one sum.            *)
IsPoly(f)   == \A i \in Idx : f[i] \in Int
Alike(f, g) == \A i \in Idx : Cong(f[i], g[i])
Ext(g, k)   == IF k >= 0 THEN g[k] ELSE IF k >= -N THEN -g[k + N] ELSE g[k + 2 * N]
Terms(f, g, k) == [a \in Idx |-> f[a] * Ext(g, k - a)]
Raw(f, g, k)   == Sum(Terms(f, g, k), N)

(* The numbers at which Ext is looked up. *)
Near == -(N - 1) .. N - 1
Far  == -(2 * N - 2) .. N - 1

LEMMA Degree == N \in Nat /\ N >= 1 /\ K \in Nat /\ K >= 1 /\ L \in Nat /\ L >= 1
<1>1. {N, K, L, D} \subseteq Nat \ {0}
  BY ONLY DilithiumAssumption, Zenon
<1> QED BY ONLY <1>1

LEMMA ExtInt ==
  ASSUME NEW g, IsPoly(g), NEW k \in Far
  PROVE  Ext(g, k) \in Int
<1>1. CASE k >= 0
  <2>1. k \in Idx
    BY <1>1, Degree DEF Far, Idx
  <2> QED BY <1>1, <2>1 DEF Ext, IsPoly
<1>2. CASE ~ (k >= 0) /\ k >= -N
  <2>1. k + N \in Idx
    BY <1>2, Degree DEF Far, Idx
  <2>2. g[k + N] \in Int
    BY <2>1 DEF IsPoly
  <2> QED BY <1>2, <2>2 DEF Ext
<1>3. CASE ~ (k >= 0) /\ ~ (k >= -N)
  <2>1. k + 2 * N \in Idx
    BY <1>3, Degree DEF Far, Idx
  <2> QED BY <1>3, <2>1 DEF Ext, IsPoly
<1> QED BY <1>1, <1>2, <1>3

LEMMA ExtTurns ==
  ASSUME NEW g, IsPoly(g), NEW k \in Far, k < 0
  PROVE  Ext(g, k) = -Ext(g, k + N)
<1>1. CASE k >= -N
  <2>1. k + N \in Idx /\ k + N >= 0 /\ ~ (k >= 0)
    BY <1>1, Degree DEF Far, Idx
  <2> QED BY <1>1, <2>1 DEF Ext
<1>2. CASE ~ (k >= -N)
  <2>1. k + 2 * N \in Idx /\ k + N >= -N /\ ~ (k + N >= 0) /\ (k + N) + N = k + 2 * N /\ ~ (k >= 0)
    BY <1>2, Degree DEF Far, Idx
  <2>2. g[k + 2 * N] \in Int
    BY <2>1 DEF IsPoly
  <2>3. Ext(g, k) = g[k + 2 * N] /\ Ext(g, k + N) = -g[k + 2 * N]
    BY <1>2, <2>1 DEF Ext
  <2> QED BY <2>2, <2>3
<1> QED BY <1>1, <1>2

LEMMA TermsInt ==
  ASSUME NEW f, NEW g, IsPoly(f), IsPoly(g), NEW k \in Near
  PROVE  Ints(Terms(f, g, k), N) /\ Raw(f, g, k) \in Int
<1>1. ASSUME NEW a \in 0 .. N - 1 PROVE Terms(f, g, k)[a] \in Int
  <2>1. a \in Idx /\ k - a \in Far
    BY Degree DEF Idx, Near, Far
  <2>2. f[a] \in Int /\ Ext(g, k - a) \in Int
    BY <2>1, ExtInt DEF IsPoly
  <2>3. Terms(f, g, k)[a] = f[a] * Ext(g, k - a)
    BY <2>1 DEF Terms
  <2> QED BY <2>2, <2>3
<1>2. Ints(Terms(f, g, k), N)
  BY <1>1 DEF Ints
<1> QED BY <1>2, Degree, SumInt DEF Raw

LEMMA MulIs ==
  ASSUME NEW f, NEW g, IsPoly(f), IsPoly(g), NEW i \in Idx
  PROVE  /\ Mul(f, g)[i] = Raw(f, g, i) % Q
         /\ Mul(f, g)[i] \in 0 .. Q - 1
         /\ Mul(f, g)[i] \in Int
         /\ Cong(Mul(f, g)[i], Raw(f, g, i)) /\ Cong(Raw(f, g, i), Mul(f, g)[i])
<1> DEFINE t == [a \in Idx |-> IF a <= i THEN f[a] * g[i - a] ELSE -(f[a] * g[i + N - a])]
<1>1. ASSUME NEW a \in 0 .. N - 1 PROVE Terms(f, g, i)[a] = t[a]
  <2>1. a \in Idx
    BY DEF Idx
  <2>2. Terms(f, g, i)[a] = f[a] * Ext(g, i - a)
    BY <2>1 DEF Terms
  <2>3. CASE a <= i
    <3>1. i - a >= 0
      BY <2>3, Degree DEF Idx
    <3> QED BY <2>1, <2>2, <2>3, <3>1 DEF Ext
  <2>4. CASE ~ (a <= i)
    <3>1. ~ (i - a >= 0) /\ i - a >= -N /\ (i - a) + N = i + N - a /\ i + N - a \in Idx
      BY <2>4, Degree DEF Idx
    <3>2. Terms(f, g, i)[a] = f[a] * (-g[i + N - a])
      BY <2>2, <3>1 DEF Ext
    <3>3. f[a] \in Int /\ g[i + N - a] \in Int
      BY <2>1, <3>1 DEF IsPoly
    <3>4. f[a] * (-g[i + N - a]) = -(f[a] * g[i + N - a])
      BY <3>3
    <3> QED BY <2>1, <2>4, <3>2, <3>4
  <2> QED BY <2>3, <2>4
<1>2. i \in Near
  BY Degree DEF Idx, Near
<1>3. Raw(f, g, i) = Sum(t, N)
  <2> HIDE DEF t
  <2> QED BY <1>1, <1>2, TermsInt, SumEqual, Degree DEF Raw
<1>4. Mul(f, g)[i] = Raw(f, g, i) % Q
  BY <1>3 DEF Mul
<1>5. Raw(f, g, i) \in Int
  BY <1>2, TermsInt
<1>6. Raw(f, g, i) % Q \in 0 .. Q - 1 /\ Cong(Raw(f, g, i) % Q, Raw(f, g, i)) /\ Cong(Raw(f, g, i), Raw(f, g, i) % Q)
  BY <1>5, CongMod
<1>7. Raw(f, g, i) % Q \in Int
  BY <1>6, QPositive
<1> QED BY <1>4, <1>6, <1>7

LEMMA MulPoly ==
  ASSUME NEW f, NEW g, IsPoly(f), IsPoly(g)
  PROVE  IsPoly(Mul(f, g)) /\ DOMAIN Mul(f, g) = Idx /\ Mul(f, g) \in [Idx -> 0 .. Q - 1]
<1>1. \A i \in Idx : Mul(f, g)[i] \in Int /\ Mul(f, g)[i] \in 0 .. Q - 1
  BY MulIs
<1>2. Mul(f, g) = [i \in Idx |-> Mul(f, g)[i]]
  BY DEF Mul
<1> QED BY <1>1, <1>2 DEF IsPoly

LEMMA ExtCong ==
  ASSUME NEW g, NEW h, IsPoly(g), IsPoly(h), Alike(g, h), NEW k \in Near
  PROVE  Cong(Ext(g, k), Ext(h, k))
<1>1. CASE k >= 0
  <2>1. k \in Idx
    BY <1>1, Degree DEF Near, Idx
  <2> QED BY <1>1, <2>1 DEF Ext, Alike
<1>2. CASE ~ (k >= 0)
  <2>1. k + N \in Idx /\ k >= -N
    BY <1>2, Degree DEF Near, Idx
  <2>2. Cong(g[k + N], h[k + N]) /\ g[k + N] \in Int /\ h[k + N] \in Int
    BY <2>1 DEF IsPoly, Alike
  <2> DEFINE o == 0
  <2>a. o \in Int /\ Cong(o, o)
    BY CongRefl
  <2> HIDE DEF o
  <2>b. Cong(o - g[k + N], o - h[k + N])
    BY <2>a, <2>2, CongAdd
  <2>3. Cong(0 - g[k + N], 0 - h[k + N])
    BY <2>b DEF o
  <2>4. 0 - g[k + N] = Ext(g, k) /\ 0 - h[k + N] = Ext(h, k)
    BY <1>2, <2>1, <2>2 DEF Ext
  <2> QED BY <2>3, <2>4
<1> QED BY <1>1, <1>2

(* A product depends on the residues of its second factor only. *)
LEMMA MulCong ==
  ASSUME NEW f, NEW g, NEW h, IsPoly(f), IsPoly(g), IsPoly(h), Alike(g, h)
  PROVE  Mul(f, g) = Mul(f, h)
<1>1. ASSUME NEW i \in Idx PROVE Mul(f, g)[i] = Mul(f, h)[i]
  <2>1. i \in Near
    BY Degree DEF Idx, Near
  <2>2. ASSUME NEW a \in 0 .. N - 1 PROVE Cong(Terms(f, g, i)[a], Terms(f, h, i)[a])
    <3>1. a \in Idx /\ i - a \in Near /\ i - a \in Far
      BY Degree DEF Idx, Near, Far
    <3>2. f[a] \in Int /\ Ext(g, i - a) \in Int /\ Ext(h, i - a) \in Int
      BY <3>1, ExtInt DEF IsPoly
    <3>3. Cong(f[a] * Ext(g, i - a), f[a] * Ext(h, i - a))
      BY <3>1, <3>2, ExtCong, CongTimes
    <3> QED BY <3>1, <3>3 DEF Terms
  <2>3. Cong(Raw(f, g, i), Raw(f, h, i))
    BY <2>1, <2>2, TermsInt, SumCong, Degree DEF Raw
  <2>4. Raw(f, g, i) \in Int /\ Raw(f, h, i) \in Int
    BY <2>1, TermsInt
  <2> QED BY <2>3, <2>4, MulIs, CongEqual
<1>2. Mul(f, g) = [i \in Idx |-> Mul(f, g)[i]] /\ Mul(f, h) = [i \in Idx |-> Mul(f, h)[i]]
  BY DEF Mul
<1> QED BY <1>1, <1>2

(* A product distributes over a sum of residues. *)
LEMMA MulAdds ==
  ASSUME NEW f, NEW g, NEW h, NEW s, IsPoly(f), IsPoly(g), IsPoly(h), IsPoly(s),
         \A i \in Idx : Cong(s[i], g[i] + h[i]), NEW i \in Idx
  PROVE  Cong(Mul(f, s)[i], Mul(f, g)[i] + Mul(f, h)[i])
<1> DEFINE u == [x \in Idx |-> g[x] + h[x]]
<1>1. IsPoly(u)
  BY DEF IsPoly
<1>2. Mul(f, s) = Mul(f, u)
  <2>1. Alike(s, u)
    BY DEF Alike
  <2> HIDE DEF u
  <2> QED BY <1>1, <2>1, MulCong
<1>3. i \in Near
  BY Degree DEF Idx, Near
<1>4. ASSUME NEW a \in 0 .. N - 1
      PROVE  Terms(f, u, i)[a] = Terms(f, g, i)[a] + Terms(f, h, i)[a]
  <2>1. a \in Idx /\ i - a \in Near /\ i - a \in Far
    BY Degree DEF Idx, Near, Far
  <2>2. f[a] \in Int /\ Ext(g, i - a) \in Int /\ Ext(h, i - a) \in Int
    BY <2>1, ExtInt DEF IsPoly
  <2>3. Ext(u, i - a) = Ext(g, i - a) + Ext(h, i - a)
    <3>1. CASE i - a >= 0
      <4>1. i - a \in Idx
        BY <3>1, <2>1 DEF Idx, Near
      <4> QED BY <3>1, <4>1 DEF Ext
    <3>2. CASE ~ (i - a >= 0)
      <4>1. (i - a) + N \in Idx /\ i - a >= -N
        BY <3>2, <2>1, Degree DEF Idx, Near
      <4>2. g[(i - a) + N] \in Int /\ h[(i - a) + N] \in Int
        BY <4>1 DEF IsPoly
      <4>3. u[(i - a) + N] = g[(i - a) + N] + h[(i - a) + N]
        BY <4>1
      <4> HIDE DEF u
      <4> QED BY <3>2, <4>1, <4>2, <4>3 DEF Ext
    <3> QED BY <3>1, <3>2
  <2> HIDE DEF u
  <2>4. f[a] * (Ext(g, i - a) + Ext(h, i - a)) = f[a] * Ext(g, i - a) + f[a] * Ext(h, i - a)
    BY <2>2
  <2> QED BY <2>1, <2>3, <2>4 DEF Terms
<1> HIDE DEF u
<1>5. Raw(f, u, i) = Raw(f, g, i) + Raw(f, h, i)
  BY <1>1, <1>3, <1>4, TermsInt, SumAdds, Degree DEF Raw
<1>6. Raw(f, g, i) \in Int /\ Raw(f, h, i) \in Int /\ Raw(f, u, i) \in Int
  BY <1>1, <1>3, TermsInt
<1>7. Cong(Mul(f, u)[i], Raw(f, u, i)) /\ Cong(Raw(f, g, i), Mul(f, g)[i]) /\ Cong(Raw(f, h, i), Mul(f, h)[i])
  BY <1>1, MulIs
<1>8. Mul(f, u)[i] \in Int /\ Mul(f, g)[i] \in Int /\ Mul(f, h)[i] \in Int
  BY <1>1, MulIs
<1>9. Cong(Raw(f, g, i) + Raw(f, h, i), Mul(f, g)[i] + Mul(f, h)[i])
  BY <1>6, <1>7, <1>8, CongAdd
<1>10. Mul(f, g)[i] + Mul(f, h)[i] \in Int
  BY <1>8
<1> QED BY <1>2, <1>5, <1>6, <1>7, <1>8, <1>9, <1>10, CongTrans

(* Beyond the degree a product is still the sum. *)
LEMMA ExtMul ==
  ASSUME NEW f, NEW g, IsPoly(f), IsPoly(g), NEW k \in Near
  PROVE  Cong(Ext(Mul(f, g), k), Raw(f, g, k))
<1>1. CASE k >= 0
  <2>1. k \in Idx
    BY <1>1, Degree DEF Near, Idx
  <2> QED BY <1>1, <2>1, MulIs DEF Ext
<1>2. CASE ~ (k >= 0)
  <2> DEFINE p == k + N
  <2>1. p \in Idx /\ p \in Near /\ k >= -N
    BY <1>2, Degree DEF Near, Idx
  <2>2. ASSUME NEW a \in 0 .. N - 1 PROVE Terms(f, g, k)[a] = (-1) * Terms(f, g, p)[a]
    <3>1. a \in Idx /\ k - a \in Far /\ k - a < 0 /\ (k - a) + N = p - a /\ p - a \in Far
      BY <1>2, Degree DEF Near, Idx, Far
    <3>2. f[a] \in Int /\ Ext(g, p - a) \in Int
      BY <3>1, ExtInt DEF IsPoly
    <3>3. Ext(g, k - a) = -Ext(g, p - a)
      BY <3>1, ExtTurns
    <3>4. f[a] * (-Ext(g, p - a)) = (-1) * (f[a] * Ext(g, p - a))
      BY <3>2
    <3> QED BY <3>1, <3>3, <3>4 DEF Terms
  <2> HIDE DEF p
  <2>3. Raw(f, g, k) = (-1) * Raw(f, g, p)
    <3> DEFINE e == -1
    <3>1. Ints(Terms(f, g, p), N) /\ e \in Int /\ N \in Nat
      BY <2>1, TermsInt, Degree
    <3>2. \A a \in 0 .. N - 1 : Terms(f, g, k)[a] = e * Terms(f, g, p)[a]
      BY <2>2
    <3> HIDE DEF e
    <3>3. Sum(Terms(f, g, k), N) = e * Sum(Terms(f, g, p), N)
      BY <3>1, <3>2, SumScales
    <3> QED BY <3>3 DEF Raw, e
  <2>4. Mul(f, g)[p] \in Int /\ Raw(f, g, p) \in Int /\ Cong(Mul(f, g)[p], Raw(f, g, p))
    BY <2>1, MulIs, TermsInt
  <2>5. Cong((-1) * Mul(f, g)[p], (-1) * Raw(f, g, p))
    BY <2>4, CongTimes
  <2>6. Ext(Mul(f, g), k) = -Mul(f, g)[p]
    BY <1>2, <2>1 DEF Ext, p
  <2>7. -Mul(f, g)[p] = (-1) * Mul(f, g)[p]
    BY <2>4
  <2> QED BY <2>3, <2>5, <2>6, <2>7
<1> QED BY <1>1, <1>2

(* A product with a product is a double sum. *)
Table(f, e, g, i) == [a \in Idx |-> [b \in Idx |-> f[a] * (e[b] * Ext(g, (i - a) - b))]]

LEMMA MulOfMul ==
  ASSUME NEW f, NEW e, NEW g, IsPoly(f), IsPoly(e), IsPoly(g), NEW i \in Idx
  PROVE  /\ \A a \in 0 .. N - 1 : \A b \in 0 .. N - 1 : Table(f, e, g, i)[a][b] \in Int
         /\ LET u == [a \in Idx |-> Sum(Table(f, e, g, i)[a], N)]
            IN  Ints(u, N) /\ Sum(u, N) \in Int /\ Cong(Mul(f, Mul(e, g))[i], Sum(u, N))
<1> DEFINE m == Table(f, e, g, i)
           u == [a \in Idx |-> Sum(m[a], N)]
           p == Mul(e, g)
<1>0. IsPoly(p)
  BY MulPoly
<1>1. \A a \in 0 .. N - 1 : \A b \in 0 .. N - 1 :
        /\ m[a][b] \in Int
        /\ m[a][b] = f[a] * Terms(e, g, i - a)[b]
        /\ Terms(e, g, i - a)[b] \in Int
  <2> TAKE a \in 0 .. N - 1
  <2> TAKE b \in 0 .. N - 1
  <2>1. a \in Idx /\ b \in Idx /\ (i - a) - b \in Far
    BY Degree DEF Idx, Far
  <2>2. f[a] \in Int /\ e[b] \in Int /\ Ext(g, (i - a) - b) \in Int
    BY <2>1, ExtInt DEF IsPoly
  <2>3. m[a][b] = f[a] * (e[b] * Ext(g, (i - a) - b))
    BY <2>1 DEF Table
  <2>4. Terms(e, g, i - a)[b] = e[b] * Ext(g, (i - a) - b)
    BY <2>1 DEF Terms
  <2> QED BY <2>2, <2>3, <2>4
<1>2. ASSUME NEW a \in 0 .. N - 1
      PROVE  u[a] = f[a] * Raw(e, g, i - a) /\ f[a] \in Int /\ Raw(e, g, i - a) \in Int
  <2>1. a \in Idx /\ i - a \in Near
    BY Degree DEF Idx, Near
  <2>2. f[a] \in Int /\ Ints(Terms(e, g, i - a), N) /\ Raw(e, g, i - a) \in Int
    BY <2>1, TermsInt DEF IsPoly
  <2>3. u[a] = Sum(m[a], N)
    BY <2>1
  <2>4. \A b \in 0 .. N - 1 : m[a][b] = f[a] * Terms(e, g, i - a)[b]
    BY <1>1
  <2> HIDE DEF m, u
  <2>5. Sum(m[a], N) = f[a] * Raw(e, g, i - a)
    BY <2>2, <2>4, Degree, SumScales DEF Raw
  <2> QED BY <2>2, <2>3, <2>5
<1> HIDE DEF u, p
<1>3. Ints(u, N)
  BY <1>2 DEF Ints
<1>4. ASSUME NEW a \in 0 .. N - 1 PROVE Cong(Terms(f, p, i)[a], u[a])
  <2>1. a \in Idx /\ i - a \in Near /\ i - a \in Far
    BY Degree DEF Idx, Near, Far
  <2>2. Cong(Ext(p, i - a), Raw(e, g, i - a)) /\ Ext(p, i - a) \in Int
    BY <1>0, <2>1, ExtMul, ExtInt DEF p
  <2>3. Cong(f[a] * Ext(p, i - a), f[a] * Raw(e, g, i - a))
    BY <1>2, <2>2, CongTimes
  <2> QED BY <1>2, <2>1, <2>3 DEF Terms
<1>5. i \in Near
  BY Degree DEF Idx, Near
<1>6. Ints(Terms(f, p, i), N) /\ Raw(f, p, i) \in Int
  BY <1>0, <1>5, TermsInt
<1>7. Cong(Raw(f, p, i), Sum(u, N)) /\ Sum(u, N) \in Int
  BY <1>3, <1>4, <1>6, SumCong, SumInt, Degree DEF Raw
<1>8. Cong(Mul(f, p)[i], Raw(f, p, i)) /\ Mul(f, p)[i] \in Int
  BY <1>0, MulIs
<1>9. Cong(Mul(f, p)[i], Sum(u, N))
  BY <1>6, <1>7, <1>8, CongTrans
<1> QED BY <1>1, <1>3, <1>7, <1>9 DEF u, p

(* Two factors of a product may change places. *)
LEMMA MulExchanges ==
  ASSUME NEW f, NEW e, NEW g, IsPoly(f), IsPoly(e), IsPoly(g)
  PROVE  Mul(f, Mul(e, g)) = Mul(e, Mul(f, g))
<1>1. ASSUME NEW i \in Idx PROVE Mul(f, Mul(e, g))[i] = Mul(e, Mul(f, g))[i]
  <2> DEFINE m == Table(f, e, g, i)
             u == [a \in Idx |-> Sum(Table(f, e, g, i)[a], N)]
             v == [b \in Idx |-> Sum(Table(e, f, g, i)[b], N)]
  <2>1. /\ \A a \in 0 .. N - 1 : \A b \in 0 .. N - 1 : m[a][b] \in Int
        /\ Ints(u, N) /\ Sum(u, N) \in Int /\ Cong(Mul(f, Mul(e, g))[i], Sum(u, N))
    BY MulOfMul
  <2>2. /\ \A b \in 0 .. N - 1 : \A a \in 0 .. N - 1 : Table(e, f, g, i)[b][a] \in Int
        /\ Ints(v, N) /\ Sum(v, N) \in Int /\ Cong(Mul(e, Mul(f, g))[i], Sum(v, N))
    BY MulOfMul
  <2>3. \A a \in 0 .. N - 1 : u[a] = Sum(m[a], N)
    BY DEF Idx
  <2>4. ASSUME NEW b \in 0 .. N - 1 PROVE v[b] = Sum([a \in 0 .. N - 1 |-> m[a][b]], N)
    <3> DEFINE row == Table(e, f, g, i)[b]
               col == [a \in 0 .. N - 1 |-> m[a][b]]
    <3>1. ASSUME NEW a \in 0 .. N - 1 PROVE row[a] = col[a]
      <4>1. a \in Idx /\ b \in Idx /\ (i - a) - b \in Far /\ (i - b) - a = (i - a) - b
        BY Degree DEF Idx, Far
      <4>2. f[a] \in Int /\ e[b] \in Int /\ Ext(g, (i - a) - b) \in Int
        BY <4>1, ExtInt DEF IsPoly
      <4>3. row[a] = e[b] * (f[a] * Ext(g, (i - a) - b))
        BY <4>1 DEF Table
      <4>4. col[a] = f[a] * (e[b] * Ext(g, (i - a) - b))
        BY <4>1 DEF Table
      <4>5. e[b] * (f[a] * Ext(g, (i - a) - b)) = f[a] * (e[b] * Ext(g, (i - a) - b))
        BY <4>2
      <4> QED BY <4>3, <4>4, <4>5
    <3>2. Ints(row, N)
      BY <2>2 DEF Ints
    <3>3. v[b] = Sum(row, N)
      BY DEF Idx
    <3> HIDE DEF row, col
    <3>4. Sum(row, N) = Sum(col, N)
      BY <3>1, <3>2, Degree, SumEqual
    <3> QED BY <3>3, <3>4 DEF col
  <2> HIDE DEF m, u, v
  <2>5. Sum(u, N) = Sum(v, N)
    <3>1. TableInts(m, N, N) /\ RowSums(u, m, N, N) /\ ColumnSums(v, m, N, N)
      BY <2>1, <2>3, <2>4 DEF TableInts, RowSums, ColumnSums
    <3> QED BY <3>1, Degree, SumSwaps
  <2>6. /\ Mul(f, Mul(e, g))[i] \in 0 .. Q - 1 /\ Mul(e, Mul(f, g))[i] \in 0 .. Q - 1
        /\ IsPoly(Mul(e, g)) /\ IsPoly(Mul(f, g))
    BY MulPoly, MulIs
  <2>7. Mul(f, Mul(e, g))[i] % Q = Sum(u, N) % Q /\ Mul(e, Mul(f, g))[i] % Q = Sum(u, N) % Q
    BY <2>1, <2>2, <2>5, <2>6, CongEqual, QPositive
  <2>8. \A x \in 0 .. Q - 1 : x % Q = x
    BY QPositive
  <2> QED BY <2>6, <2>7, <2>8
<1>2. \A p, q : Mul(p, q) = [i \in Idx |-> Mul(p, q)[i]]
  BY DEF Mul
<1> QED BY <1>1, <1>2

-----------------------------------------------------------------------------
(* What holds between the calls of the scheme. *)
Signing   == {"mask", "challenge", "checks", "signed", "verified"}
Attempted == {"challenge", "checks", "signed", "verified"}
Tried     == {"checks", "signed", "verified"}
Left      == {"signed", "verified"}

Texts == Messages \cup Contexts

(* The keys are those _keygen_internal packs for some secrets. *)
KeyPair(a, s1, s2, pub, priv) ==
  LET t == VAdd(MatVec(a, s1), s2)
  IN  /\ pub = [rho |-> "rho", t1 |-> VPack(PackT1, VPower2High(t))]
      /\ priv = [tr |-> HashPk(pub),
                 s1 |-> VPack(PackS, s1), s2 |-> VPack(PackS, s2),
                 t0 |-> VPack(PackT0, VPower2Low(t))]
KeysMade ==
  pc # "new" =>
    /\ mat \in Matrices
    /\ \E s1 \in Secrets1, s2 \in Secrets2 : KeyPair(mat, s1, s2, pk, sk)

CallMade    == pc \in Signing => call.m \in Texts /\ call.ctx \in Texts
MaskChosen  == pc \in Attempted => y \in [Cols -> MaskPolys]
BallChosen  == pc \in Tried => c \in Ball
NoncesBelow ==
  /\ kappa \in Nat /\ used \in Seq(Nat)
  /\ \A k \in 1 .. Len(used) : used[k] < kappa
  /\ \A k, l \in 1 .. Len(used) : used[k] = used[l] => k = l

(* The attempt that was let out passed the four tests, and verify answers  *)
(* for what it was asked.                                                  *)
LetOut ==
  pc \in Left =>
    /\ ~ZBad /\ ~R0Bad /\ ~CT0Bad /\ ~HintBad
    /\ sig = [c_tilde |-> CTilde(MuOfCall, W1), z |-> VPack(PackZ, Z), h |-> PackH(Hint)]
Answered ==
  pc = "verified" =>
    /\ asked.m \in Texts /\ asked.ctx \in Texts
    /\ verdict <=> Accepts(asked.m, asked.ctx)

SchemeInv ==
  KeysMade /\ CallMade /\ MaskChosen /\ BallChosen /\ NoncesBelow /\ LetOut /\ Answered

LEMMA SchemeInit == Init => SchemeInv
<1> SUFFICES ASSUME Init PROVE SchemeInv
  OBVIOUS
<1>1. NoncesBelow
  BY DEF Init, NoncesBelow
<1> QED BY <1>1 DEF Init, SchemeInv, KeysMade, CallMade, MaskChosen, BallChosen, LetOut, Answered,
     Signing, Attempted, Tried, Left

(* What the later parts of the invariant speak of changes with the keys,   *)
(* the call, the mask and the challenge only.                              *)
LEMMA AttemptStays ==
  ASSUME UNCHANGED <<mat, pk, sk, call, y, c>>
  PROVE  /\ (ZBad <=> ZBad') /\ (R0Bad <=> R0Bad') /\ (CT0Bad <=> CT0Bad') /\ (HintBad <=> HintBad')
         /\ MuOfCall' = MuOfCall /\ W1' = W1 /\ Z' = Z /\ Hint' = Hint
<1>1. S1' = S1 /\ S2' = S2 /\ T0' = T0
  BY DEF S1, S2, T0, VPack
<1>2. W' = W
  BY DEF W
<1>3. W1' = W1 /\ CS2' = CS2 /\ CT0' = CT0 /\ Z' = Z
  BY <1>1, <1>2 DEF W1, CS2, CT0, Z
<1>4. R' = R
  BY <1>2, <1>3 DEF R
<1>5. Hint' = Hint
  BY <1>3, <1>4 DEF Hint
<1>6. MuOfCall' = MuOfCall
  BY DEF MuOfCall
<1> QED BY <1>3, <1>4, <1>5, <1>6 DEF ZBad, R0Bad, CT0Bad, HintBad

LEMMA AnswerStays ==
  ASSUME UNCHANGED <<mat, pk, c, sig>>, NEW m, NEW ctx
  PROVE  Accepts(m, ctx) <=> Accepts(m, ctx)'
BY DEF Accepts, VPack, Each

LEMMA KeysStay ==
  ASSUME KeysMade, UNCHANGED keys, pc # "new"
  PROVE  KeysMade'
<1>1. PICK s1 \in Secrets1, s2 \in Secrets2 : KeyPair(mat, s1, s2, pk, sk)
  BY DEF KeysMade
<1>2. mat' = mat /\ pk' = pk /\ sk' = sk /\ mat \in Matrices
  BY DEF keys, KeysMade
<1>3. KeyPair(mat', s1, s2, pk', sk')
  BY <1>1, <1>2
<1> QED BY <1>2, <1>3 DEF KeysMade

LEMMA LetOutStays ==
  ASSUME LetOut, UNCHANGED <<mat, pk, sk, call, y, c, sig>>, pc \in Left
  PROVE  LetOut'
<1>1. /\ (ZBad <=> ZBad') /\ (R0Bad <=> R0Bad') /\ (CT0Bad <=> CT0Bad') /\ (HintBad <=> HintBad')
      /\ MuOfCall' = MuOfCall /\ W1' = W1 /\ Z' = Z /\ Hint' = Hint
  BY AttemptStays
<1>2. sig' = sig /\ CTilde(MuOfCall, W1)' = CTilde(MuOfCall, W1) /\ VPack(PackZ, Z)' = VPack(PackZ, Z)
  BY <1>1 DEF CTilde, VPack
<1> QED BY <1>1, <1>2 DEF LetOut

(* The nonces of an attempt follow all those before. *)
LEMMA NoncesFollow ==
  ASSUME NoncesBelow, kappa' = kappa + L, used' = used \o [j \in 1 .. L |-> kappa + j - 1]
  PROVE  NoncesBelow'
<1> DEFINE new == [j \in 1 .. L |-> kappa + j - 1]
           n == Len(used)
           all == used'
<1>1. kappa \in Nat /\ used \in Seq(Nat) /\ n \in Nat
  BY DEF NoncesBelow
<1>2. L \in Nat /\ L >= 1
  BY Degree
<1>3. new \in Seq(Nat) /\ Len(new) = L /\ \A j \in 1 .. L : new[j] = kappa + j - 1
  <2>1. new \in [1 .. L -> Nat]
    BY <1>1, <1>2
  <2> QED BY <1>2, <2>1
<1>4. all = used \o new
  OBVIOUS
<1> HIDE DEF new, all
<1>5. all \in Seq(Nat) /\ Len(all) = n + L
  BY <1>1, <1>3, <1>4, ConcatProperties
<1>6. \A k \in 1 .. n + L : all[k] = IF k <= n THEN used[k] ELSE new[k - n]
  BY <1>1, <1>3, <1>4, ConcatProperties
<1>7. \A k \in 1 .. n : used[k] < kappa /\ used[k] \in Nat
  BY <1>1 DEF NoncesBelow
<1>8. \A k, l \in 1 .. n : used[k] = used[l] => k = l
  BY DEF NoncesBelow
<1> HIDE DEF n
<1>9. ASSUME NEW k \in 1 .. n + L
      PROVE  /\ k <= n => k \in 1 .. n /\ all[k] = used[k] /\ all[k] \in Nat /\ all[k] < kappa
             /\ ~ (k <= n) => all[k] = kappa + (k - n) - 1 /\ all[k] \in Nat /\ all[k] >= kappa
             /\ all[k] < kappa + L
  <2>1. CASE k <= n
    <3>1. k \in 1 .. n
      BY <2>1, <1>1
    <3>2. all[k] = used[k] /\ used[k] < kappa /\ used[k] \in Nat
      BY <1>6, <1>7, <2>1, <3>1
    <3> QED BY <1>1, <1>2, <2>1, <3>1, <3>2
  <2>2. CASE ~ (k <= n)
    <3>1. k - n \in 1 .. L
      BY <1>1, <1>2, <2>2
    <3>2. all[k] = kappa + (k - n) - 1
      BY <1>3, <1>6, <2>2, <3>1
    <3> QED BY <1>1, <1>2, <2>2, <3>1, <3>2
  <2> QED BY <2>1, <2>2
<1>10. ASSUME NEW k \in 1 .. n + L, NEW l \in 1 .. n + L, all[k] = all[l] PROVE k = l
  <2>1. CASE k <= n /\ l <= n
    BY <1>8, <1>9, <1>10, <2>1
  <2>2. CASE ~ (k <= n /\ l <= n)
    BY <1>1, <1>2, <1>9, <1>10, <2>2
  <2> QED BY <2>1, <2>2
<1>11. kappa' \in Nat /\ \A k \in 1 .. n + L : all[k] < kappa'
  BY <1>1, <1>2, <1>9
<1> QED BY <1>5, <1>10, <1>11 DEF NoncesBelow, all

LEMMA NoncesStay == NoncesBelow /\ UNCHANGED <<kappa, used>> => NoncesBelow'
  BY DEF NoncesBelow

LEMMA SchemeNext == SchemeInv /\ [Next]_vars => SchemeInv'
<1> SUFFICES ASSUME SchemeInv, [Next]_vars PROVE SchemeInv'
  OBVIOUS
<1> USE DEF Signing, Attempted, Tried, Left
<1>0. KeysMade /\ CallMade /\ MaskChosen /\ BallChosen /\ NoncesBelow /\ LetOut /\ Answered
  BY DEF SchemeInv
<1>1. ASSUME NEW a \in Matrices, NEW s1 \in Secrets1, NEW s2 \in Secrets2, Keygen(a, s1, s2)
      PROVE  SchemeInv'
  <2>1. pc = "new" /\ pc' = "keyed" /\ mat' = a /\ UNCHANGED <<kappa, used>>
    BY <1>1 DEF Keygen
  <2>2. KeyPair(a, s1, s2, pk', sk')
    BY <1>1 DEF Keygen, KeyPair
  <2>3. KeysMade'
    BY <2>1, <2>2 DEF KeysMade
  <2> QED BY <1>0, <2>1, <2>3, NoncesStay
       DEF SchemeInv, CallMade, MaskChosen, BallChosen, LetOut, Answered
<1>2. ASSUME NEW m \in Messages, NEW ctx \in Contexts, NEW e \in BOOLEAN, Sign(m, ctx, e)
      PROVE  SchemeInv'
  <2>1. /\ pc = "keyed" /\ pc' \in {"raised", "mask"} /\ UNCHANGED <<kappa, used, keys>>
        /\ call' = [m |-> m, ctx |-> ctx, external |-> e]
    BY <1>2 DEF Sign
  <2>2. KeysMade'
    BY <1>0, <2>1, KeysStay
  <2>3. CallMade'
    BY <2>1 DEF CallMade, Texts
  <2> QED BY <1>0, <2>1, <2>2, <2>3, NoncesStay
       DEF SchemeInv, MaskChosen, BallChosen, LetOut, Answered
<1>3. ASSUME NEW polys \in [Cols -> MaskPolys], SampleMask(polys)
      PROVE  SchemeInv'
  <2>1. /\ pc = "mask" /\ pc' = "challenge" /\ UNCHANGED <<keys, call>> /\ y' = polys
        /\ kappa' = kappa + L /\ used' = used \o [j \in 1 .. L |-> kappa + j - 1]
    BY <1>3 DEF SampleMask
  <2>2. KeysMade'
    BY <1>0, <2>1, KeysStay
  <2>3. NoncesBelow'
    BY <1>0, <2>1, NoncesFollow
  <2> QED BY <1>0, <2>1, <2>2, <2>3
       DEF SchemeInv, CallMade, MaskChosen, BallChosen, LetOut, Answered
<1>4. ASSUME pc' = "raised", pc \in {"mask", "keyed"}, UNCHANGED <<keys, kappa, used>>
      PROVE  SchemeInv'
  <2>1. KeysMade'
    BY <1>0, <1>4, KeysStay
  <2> QED BY <1>0, <1>4, <2>1, NoncesStay
       DEF SchemeInv, CallMade, MaskChosen, BallChosen, LetOut, Answered
<1>5. ASSUME NEW f \in Ball, Challenge(f)
      PROVE  SchemeInv'
  <2>1. /\ pc = "challenge" /\ pc' = "checks" /\ UNCHANGED <<keys, call, kappa, used, y>> /\ c' = f
    BY <1>5 DEF Challenge
  <2>2. KeysMade'
    BY <1>0, <2>1, KeysStay
  <2> QED BY <1>0, <2>1, <2>2, NoncesStay
       DEF SchemeInv, CallMade, MaskChosen, BallChosen, LetOut, Answered
<1>6. ASSUME pc = "checks", Again
      PROVE  SchemeInv'
  <2>1. pc' = "mask" /\ UNCHANGED <<keys, call, kappa, used>>
    BY <1>6 DEF Again
  <2>2. KeysMade'
    BY <1>0, <1>6, <2>1, KeysStay
  <2> QED BY <1>0, <1>6, <2>1, <2>2, NoncesStay
       DEF SchemeInv, CallMade, MaskChosen, BallChosen, LetOut, Answered
<1>7. CASE Emit
  <2>1. /\ pc = "checks" /\ pc' = "signed" /\ UNCHANGED <<keys, call, kappa, used, y, c>>
        /\ ~ZBad /\ ~R0Bad /\ ~CT0Bad /\ ~HintBad
        /\ sig' = [c_tilde |-> CTilde(MuOfCall, W1), z |-> VPack(PackZ, Z), h |-> PackH(Hint)]
    BY <1>7 DEF Emit
  <2>2. KeysMade'
    BY <1>0, <2>1, KeysStay
  <2>3. /\ (ZBad <=> ZBad') /\ (R0Bad <=> R0Bad') /\ (CT0Bad <=> CT0Bad') /\ (HintBad <=> HintBad')
        /\ MuOfCall' = MuOfCall /\ W1' = W1 /\ Z' = Z /\ Hint' = Hint
    BY <2>1, AttemptStays DEF keys
  <2>4. CTilde(MuOfCall, W1)' = CTilde(MuOfCall, W1) /\ VPack(PackZ, Z)' = VPack(PackZ, Z)
    BY <2>3 DEF CTilde, VPack
  <2>5. LetOut'
    BY <2>1, <2>3, <2>4 DEF LetOut
  <2> QED BY <1>0, <2>1, <2>2, <2>5, NoncesStay
       DEF SchemeInv, CallMade, MaskChosen, BallChosen, Answered
<1>8. ASSUME NEW m \in Messages, NEW ctx \in Contexts, Verify(m, ctx)
      PROVE  SchemeInv'
  <2>1. /\ pc = "signed" /\ UNCHANGED <<keys, call, kappa, used, y, c, sig>>
        /\ asked' = [m |-> m, ctx |-> ctx]
        /\ \/ pc' = "raised"
           \/ pc' = "verified" /\ verdict' = Accepts(m, ctx)
    BY <1>8 DEF Verify
  <2>2. KeysMade'
    BY <1>0, <2>1, KeysStay
  <2>3. LetOut'
    BY <1>0, <2>1, LetOutStays DEF keys
  <2>4. Answered'
    <3> SUFFICES ASSUME pc' = "verified" PROVE Answered'
      BY DEF Answered
    <3>1. asked'.m = m /\ asked'.ctx = ctx /\ asked'.m \in Texts /\ asked'.ctx \in Texts
      BY <2>1 DEF Texts
    <3>2. verdict' = Accepts(m, ctx)
      BY <2>1
    <3>3. Accepts(m, ctx) <=> Accepts(m, ctx)'
      BY <2>1, AnswerStays DEF keys
    <3>4. (Accepts(asked.m, asked.ctx))' <=> Accepts(m, ctx)'
      BY <3>1
    <3> QED BY <3>1, <3>2, <3>3, <3>4 DEF Answered
  <2> QED BY <1>0, <2>1, <2>2, <2>3, <2>4, NoncesStay
       DEF SchemeInv, CallMade, MaskChosen, BallChosen
<1>9. CASE UNCHANGED vars
  <2>1. UNCHANGED <<pc, mat, pk, sk, call, kappa, used, y, c, sig, asked, verdict, keys>>
    BY <1>9 DEF vars, keys
  <2>2. KeysMade'
    BY <1>0, <2>1, KeysStay DEF KeysMade
  <2>3. LetOut'
    BY <1>0, <2>1, LetOutStays DEF LetOut
  <2>4. Answered'
    <3> SUFFICES ASSUME pc' = "verified" PROVE Answered'
      BY DEF Answered
    <3>1. Accepts(asked.m, asked.ctx) <=> (Accepts(asked.m, asked.ctx))'
      BY <2>1, AnswerStays
    <3> QED BY <1>0, <2>1, <3>1 DEF Answered
  <2> QED BY <1>0, <2>1, <2>2, <2>3, <2>4, NoncesStay
       DEF SchemeInv, CallMade, MaskChosen, BallChosen
<1>10. NoncesExhausted \/ PkFromSk => pc' = "raised" /\ pc \in {"mask", "keyed"} /\ UNCHANGED <<keys, kappa, used>>
  BY DEF NoncesExhausted, PkFromSk
<1>11. RejectZ \/ RejectR0 \/ RejectCT0 \/ RejectHint => pc = "checks" /\ Again
  BY DEF RejectZ, RejectR0, RejectCT0, RejectHint
<1>12. Ended => UNCHANGED vars
  BY DEF Ended
<1> QED BY <1>1, <1>2, <1>3, <1>4, <1>5, <1>6, <1>7, <1>8, <1>9, <1>10, <1>11, <1>12 DEF Next

(* The reference never leaves what the scheme maintains, whatever the      *)
(* samplers do before.                                                     *)
THEOREM SchemeIsKept == ReferenceSpec => []SchemeInv
<1>1. Init => SchemeInv
  BY SchemeInit
<1>2. SchemeInv /\ [ReferenceNext]_<<sampler, vars>> => SchemeInv'
  <2>1. [ReferenceNext]_<<sampler, vars>> => [Next]_vars
    BY DEF ReferenceNext, Returned
  <2> QED BY <2>1, SchemeNext
<1> QED BY <1>1, <1>2, PTL DEF ReferenceSpec

(* No two mask polynomials of a signing call share a nonce, however many   *)
(* attempts are rejected: _sign_internal moves kappa by the length of the  *)
(* vector every time.                                                      *)
THEOREM MaskNoncesFresh == ReferenceSpec => []NoncesFresh
<1>1. SchemeInv => NoncesFresh
  <2> SUFFICES ASSUME SchemeInv PROVE NoncesFresh
    OBVIOUS
  <2>1. used \in Seq(Nat) /\ \A k, l \in 1 .. Len(used) : used[k] = used[l] => k = l
    BY DEF SchemeInv, NoncesBelow
  <2>2. DOMAIN used = 1 .. Len(used)
    BY <2>1
  <2> QED BY <2>1, <2>2 DEF NoncesFresh, IsInjective
<1> QED BY <1>1, SchemeIsKept, PTL

(* Message and context can be read back from the formatted message. *)
LEMMA FormattedOnce ==
  ASSUME NEW m \in Seq(Nat), NEW ctx \in Seq(Nat), NEW m2 \in Seq(Nat), NEW ctx2 \in Seq(Nat),
         Formatted(m, ctx) = Formatted(m2, ctx2)
  PROVE  m = m2 /\ ctx = ctx2
<1> DEFINE e  == <<0, Len(ctx)>>
           e2 == <<0, Len(ctx2)>>
           h  == e \o ctx
           h2 == e2 \o ctx2
<1>1. /\ e \in Seq(Nat) /\ e2 \in Seq(Nat) /\ Len(e) = 2 /\ Len(e2) = 2
      /\ e[2] = Len(ctx) /\ e2[2] = Len(ctx2) /\ e[1] = 0 /\ e2[1] = 0
  OBVIOUS
<1>2. h \o m = h2 \o m2
  BY DEF Formatted
<1> HIDE DEF e, e2
<1>3. /\ h \in Seq(Nat) /\ Len(h) = 2 + Len(ctx) /\ h2 \in Seq(Nat) /\ Len(h2) = 2 + Len(ctx2)
      /\ h[2] = e[2] /\ h2[2] = e2[2]
  <2>1. Len(ctx) \in Nat /\ Len(ctx2) \in Nat
    OBVIOUS
  <2>2. h \in Seq(Nat) /\ Len(h) = 2 + Len(ctx) /\ h2 \in Seq(Nat) /\ Len(h2) = 2 + Len(ctx2)
    <3>1. h \in Seq(Nat) /\ Len(h) = Len(e) + Len(ctx)
      BY <1>1, ConcatProperties
    <3>2. h2 \in Seq(Nat) /\ Len(h2) = Len(e2) + Len(ctx2)
      BY <1>1, ConcatProperties
    <3> HIDE DEF h, h2
    <3> QED BY <1>1, <2>1, <3>1, <3>2
  <2>3. 2 \in 1 .. Len(e) + Len(ctx) /\ 2 \in 1 .. Len(e2) + Len(ctx2) /\ 2 <= Len(e) /\ 2 <= Len(e2)
    BY <1>1, <2>1
  <2>4. h[2] = e[2]
    BY <1>1, <2>3, ConcatProperties
  <2>5. h2[2] = e2[2]
    BY <1>1, <2>3, ConcatProperties
  <2> QED BY <2>2, <2>4, <2>5
<1>4. (h \o m)[2] = h[2] /\ (h2 \o m2)[2] = h2[2]
  <2> HIDE DEF h, h2
  <2> QED BY <1>3, ConcatProperties
<1>5. Len(ctx) = Len(ctx2)
  BY <1>1, <1>2, <1>3, <1>4
<1>6. e = e2
  BY <1>5 DEF e, e2
<1>7. \A k \in 1 .. Len(h) : h[k] = h2[k]
  <2>1. TAKE k \in 1 .. Len(h)
  <2> HIDE DEF h, h2
  <2>2. (h \o m)[k] = h[k] /\ (h2 \o m2)[k] = h2[k]
    BY <1>3, <1>5, ConcatProperties
  <2> QED BY <1>2, <2>2
<1>8. h = h2
  <2> HIDE DEF h, h2
  <2> QED BY <1>3, <1>5, <1>7
<1>9. m = m2
  <2> HIDE DEF h, h2
  <2> QED BY <1>2, <1>3, <1>8, ConcatSimplifications
<1>10. ctx = ctx2
  BY <1>1, <1>6, <1>8, ConcatSimplifications
<1> QED BY <1>9, <1>10

LEMMA TextsAre == Texts \subseteq Seq(Nat)
  BY DilithiumAssumption DEF Texts

(* A signature is refused for every other message and context: the length  *)
(* of the context is in what is hashed (sign, verify, _verify_internal).   *)
THEOREM OtherMessagesRefused == ReferenceSpec => []OtherMessageRejected
<1>1. SchemeInv => OtherMessageRejected
  <2> SUFFICES ASSUME SchemeInv, pc = "verified", verdict
               PROVE  asked.m = call.m /\ asked.ctx = call.ctx
    BY DEF OtherMessageRejected
  <2>1. /\ {asked.m, asked.ctx, call.m, call.ctx} \subseteq Seq(Nat)
        /\ Accepts(asked.m, asked.ctx) /\ sig.c_tilde = CTilde(MuOfCall, W1)
    BY TextsAre
       DEF SchemeInv, CallMade, Answered, LetOut, Signing, Left
  <2>2. PICK w, tr : sig.c_tilde = CTilde(Mu(tr, asked.m, asked.ctx), w)
    BY <2>1 DEF Accepts
  <2>3. PICK tr2 : MuOfCall = Mu(tr2, call.m, call.ctx)
    BY DEF MuOfCall
  <2>4. Mu(tr, asked.m, asked.ctx) = Mu(tr2, call.m, call.ctx)
    BY <2>1, <2>2, <2>3 DEF CTilde
  <2>5. Formatted(asked.m, asked.ctx) = Formatted(call.m, call.ctx)
    BY <2>4 DEF Mu
  <2> QED BY <2>1, <2>5, FormattedOnce
<1> QED BY <1>1, SchemeIsKept, PTL

-----------------------------------------------------------------------------
(* Matrices and vectors of polynomials. *)
IsVec(v, n) == \A j \in 0 .. n - 1 : IsPoly(v[j])
IsMat(a)    == \A r \in Rows : IsVec(a[r], L)
RowTerms(a, v, r, i) == [j \in Cols |-> Mul(a[r][j], v[j])[i]]

LEMMA RowTermsInt ==
  ASSUME NEW a, NEW v, IsMat(a), IsVec(v, L), NEW r \in Rows, NEW i \in Idx
  PROVE  Ints(RowTerms(a, v, r, i), L) /\ Sum(RowTerms(a, v, r, i), L) \in Int
<1>1. ASSUME NEW j \in 0 .. L - 1 PROVE RowTerms(a, v, r, i)[j] \in Int
  <2>1. j \in Cols /\ IsPoly(a[r][j]) /\ IsPoly(v[j])
    BY DEF Cols, IsMat, IsVec
  <2> QED BY <2>1, MulIs DEF RowTerms
<1>2. Ints(RowTerms(a, v, r, i), L)
  BY <1>1 DEF Ints
<1> QED BY <1>2, Degree, SumInt

LEMMA MatVecIs ==
  ASSUME NEW a, NEW v, IsMat(a), IsVec(v, L), NEW r \in Rows, NEW i \in Idx
  PROVE  /\ MatVec(a, v)[r][i] \in 0 .. Q - 1 /\ MatVec(a, v)[r][i] \in Int
         /\ MatVec(a, v)[r][i] = Sum(RowTerms(a, v, r, i), L) % Q
         /\ Cong(MatVec(a, v)[r][i], Sum(RowTerms(a, v, r, i), L))
         /\ Cong(Sum(RowTerms(a, v, r, i), L), MatVec(a, v)[r][i])
<1>1. MatVec(a, v)[r][i] = Sum(RowTerms(a, v, r, i), L) % Q
  BY DEF MatVec, RowTerms
<1>2. Sum(RowTerms(a, v, r, i), L) \in Int
  BY RowTermsInt
<1> HIDE DEF MatVec
<1>3. /\ Sum(RowTerms(a, v, r, i), L) % Q \in 0 .. Q - 1
      /\ Cong(Sum(RowTerms(a, v, r, i), L) % Q, Sum(RowTerms(a, v, r, i), L))
      /\ Cong(Sum(RowTerms(a, v, r, i), L), Sum(RowTerms(a, v, r, i), L) % Q)
  BY <1>2, CongMod
<1>4. Sum(RowTerms(a, v, r, i), L) % Q \in Int
  BY <1>3, QPositive
<1> QED BY <1>1, <1>3, <1>4

LEMMA MatVecPoly ==
  ASSUME NEW a, NEW v, IsMat(a), IsVec(v, L)
  PROVE  IsVec(MatVec(a, v), K)
<1>1. \A r \in Rows : \A i \in Idx : MatVec(a, v)[r][i] \in Int
  BY MatVecIs
<1> QED BY <1>1 DEF IsVec, IsPoly, Rows

(* A matrix times a sum of vectors. *)
LEMMA MatVecAdds ==
  ASSUME NEW a, NEW u, NEW v, NEW w, IsMat(a), IsVec(u, L), IsVec(v, L), IsVec(w, L),
         \A j \in Cols : \A x \in Idx : Cong(w[j][x], u[j][x] + v[j][x]),
         NEW r \in Rows, NEW i \in Idx
  PROVE  Cong(MatVec(a, w)[r][i], MatVec(a, u)[r][i] + MatVec(a, v)[r][i])
<1> DEFINE tu == RowTerms(a, u, r, i)
           tv == RowTerms(a, v, r, i)
           tw == RowTerms(a, w, r, i)
           both == [j \in Cols |-> tu[j] + tv[j]]
<1>1. /\ Ints(tu, L) /\ Sum(tu, L) \in Int /\ Ints(tv, L) /\ Sum(tv, L) \in Int
      /\ Ints(tw, L) /\ Sum(tw, L) \in Int
  BY RowTermsInt
<1>2. ASSUME NEW j \in 0 .. L - 1
      PROVE  both[j] = tu[j] + tv[j] /\ both[j] \in Int /\ Cong(tw[j], both[j])
  <2>1. j \in Cols /\ IsPoly(a[r][j]) /\ IsPoly(u[j]) /\ IsPoly(v[j]) /\ IsPoly(w[j])
    BY DEF Cols, IsMat, IsVec
  <2>2. Cong(Mul(a[r][j], w[j])[i], Mul(a[r][j], u[j])[i] + Mul(a[r][j], v[j])[i])
    <3>1. \A x \in Idx : Cong(w[j][x], u[j][x] + v[j][x])
      BY <2>1
    <3> QED BY <2>1, <3>1, MulAdds
  <2>3. /\ tu[j] = Mul(a[r][j], u[j])[i] /\ tv[j] = Mul(a[r][j], v[j])[i]
        /\ tw[j] = Mul(a[r][j], w[j])[i]
    BY <2>1 DEF RowTerms
  <2>4. both[j] = tu[j] + tv[j]
    BY <2>1
  <2>5. tu[j] \in Int /\ tv[j] \in Int
    BY <1>1 DEF Ints
  <2> QED BY <2>2, <2>3, <2>4, <2>5
<1> HIDE DEF tu, tv, tw, both
<1>3. Ints(both, L)
  BY <1>2 DEF Ints
<1>4. Cong(Sum(tw, L), Sum(both, L))
  BY <1>1, <1>2, <1>3, Degree, SumCong
<1>5. Sum(both, L) = Sum(tu, L) + Sum(tv, L)
  BY <1>1, <1>2, Degree, SumAdds
<1>6. /\ Cong(MatVec(a, w)[r][i], Sum(tw, L)) /\ MatVec(a, w)[r][i] \in Int
      /\ Cong(Sum(tu, L), MatVec(a, u)[r][i]) /\ MatVec(a, u)[r][i] \in Int
      /\ Cong(Sum(tv, L), MatVec(a, v)[r][i]) /\ MatVec(a, v)[r][i] \in Int
  BY MatVecIs DEF tu, tv, tw
<1>7. Cong(Sum(tu, L) + Sum(tv, L), MatVec(a, u)[r][i] + MatVec(a, v)[r][i])
  BY <1>1, <1>6, CongAdd
<1>8. Cong(MatVec(a, w)[r][i], Sum(tu, L) + Sum(tv, L))
  BY <1>1, <1>4, <1>5, <1>6, CongTrans
<1>9. Sum(tu, L) + Sum(tv, L) \in Int /\ MatVec(a, u)[r][i] + MatVec(a, v)[r][i] \in Int
  BY <1>1, <1>6
<1> QED BY <1>6, <1>7, <1>8, <1>9, CongTrans

(* A product with a sum of polynomials. *)
Column(p, x)  == [j \in Cols |-> p[j][x]]
Total(p, n)   == [x \in Idx |-> Sum(Column(p, x), n)]
Times(f, p)   == [j \in Cols |-> Mul(f, p[j])]

LEMMA MulZero ==
  ASSUME NEW f, NEW o, IsPoly(f), \A i \in Idx : o[i] = 0, NEW i \in Idx
  PROVE  Mul(f, o)[i] = 0
<1>1. IsPoly(o) /\ \A x \in Idx : Cong(o[x], o[x] + o[x])
  <2>1. \A x \in Idx : o[x] \in Int /\ o[x] + o[x] = o[x]
    OBVIOUS
  <2> QED BY <2>1, CongRefl DEF IsPoly
<1>2. Cong(Mul(f, o)[i], Mul(f, o)[i] + Mul(f, o)[i]) /\ Mul(f, o)[i] \in 0 .. Q - 1
  BY <1>1, MulAdds, MulIs
<1> DEFINE m == Mul(f, o)[i]
<1>3. PICK e \in Int : m = (m + m) + Q * e
  BY <1>2 DEF Cong
<1>4. m \in 0 .. Q - 1
  BY <1>2
<1> HIDE DEF m
<1> DEFINE k == -e
<1>5. m \in Int /\ m >= 0 /\ m < Q /\ m = Q * k /\ k \in Int
  BY <1>3, <1>4, QPositive
<1> HIDE DEF k
<1>6. ASSUME k >= 1 PROVE FALSE
  <2>1. Q * k >= Q
    BY <1>5, <1>6, QPositive
  <2> QED BY <1>5, <2>1, QPositive
<1>7. ASSUME k <= -1 PROVE FALSE
  <2>1. Q * k <= -Q
    BY <1>5, <1>7, QPositive
  <2> QED BY <1>5, <2>1, QPositive
<1>8. k = 0 /\ Q * 0 = 0
  BY <1>5, <1>6, <1>7, QPositive
<1>9. m = 0
  BY <1>5, <1>8
<1> QED BY <1>9 DEF m

LEMMA MulTotals ==
  ASSUME NEW f, NEW p, IsPoly(f), IsVec(p, L), NEW i \in Idx
  PROVE  Cong(Mul(f, Total(p, L))[i], Sum(Column(Times(f, p), i), L))
<1> DEFINE q == Column(Times(f, p), i)
           T == {n \in Nat : n <= L => Cong(Mul(f, Total(p, n))[i], Sum(q, n))}
<1>1. \A j \in 0 .. L - 1 : q[j] = Mul(f, p[j])[i] /\ q[j] \in Int
  <2> TAKE j \in 0 .. L - 1
  <2>1. j \in Cols /\ IsPoly(p[j])
    BY DEF Cols, IsVec
  <2> QED BY <2>1, MulIs DEF Column, Times
<1>2. \A x \in Idx : \A n \in 0 .. L : Ints(Column(p, x), n)
  <2> SUFFICES ASSUME NEW x \in Idx, NEW n \in 0 .. L, NEW j \in 0 .. n - 1
               PROVE  Column(p, x)[j] \in Int
    BY DEF Ints
  <2>1. j \in 0 .. L - 1 /\ j \in Cols
    BY Degree DEF Cols
  <2> QED BY <2>1 DEF Column, IsVec, IsPoly
<1>3. \A n \in 0 .. L : Ints(q, n)
  BY <1>1, Degree DEF Ints
<1> HIDE DEF q
<1>4. ASSUME NEW n \in 0 .. L PROVE IsPoly(Total(p, n))
  <2>1. \A x \in Idx : Sum(Column(p, x), n) \in Int
    <3> TAKE x \in Idx
    <3>1. Ints(Column(p, x), n) /\ n \in Nat
      BY <1>2
    <3> QED BY <3>1, SumInt
  <2> QED BY <2>1 DEF IsPoly, Total
<1>5. 0 \in T
  <2>1. \A x \in Idx : Total(p, 0)[x] = 0
    BY SumZero DEF Total
  <2>2. Mul(f, Total(p, 0))[i] = 0
    BY <2>1, MulZero
  <2>3. Sum(q, 0) = 0
    BY SumZero
  <2> DEFINE o == 0
  <2>4. o \in Int
    OBVIOUS
  <2> HIDE DEF o
  <2>5. Cong(o, o)
    BY <2>4, CongRefl
  <2> QED BY <2>2, <2>3, <2>5 DEF o
<1>6. ASSUME NEW n \in Nat, n \in T PROVE n + 1 \in T
  <2> SUFFICES ASSUME n + 1 <= L PROVE Cong(Mul(f, Total(p, n + 1))[i], Sum(q, n + 1))
    OBVIOUS
  <2>1. n \in 0 .. L - 1 /\ n \in 0 .. L /\ n + 1 \in 0 .. L /\ n \in Cols
    BY Degree DEF Cols
  <2>2. IsPoly(p[n]) /\ IsPoly(Total(p, n)) /\ IsPoly(Total(p, n + 1))
    BY <1>4, <2>1 DEF IsVec
  <2>3. \A x \in Idx : Cong(Total(p, n + 1)[x], Total(p, n)[x] + p[n][x])
    <3> TAKE x \in Idx
    <3>1. Ints(Column(p, x), n + 1) /\ Column(p, x)[n] = p[n][x]
      BY <1>2, <2>1 DEF Column
    <3>2. Sum(Column(p, x), n + 1) = Sum(Column(p, x), n) + p[n][x]
      BY <3>1, SumNext
    <3>3. Total(p, n)[x] + p[n][x] \in Int
      BY <2>2 DEF IsPoly
    <3>4. Total(p, n + 1)[x] = Total(p, n)[x] + p[n][x]
      BY <3>2 DEF Total
    <3> QED BY <3>3, <3>4, CongRefl
  <2>4. Cong(Mul(f, Total(p, n + 1))[i], Mul(f, Total(p, n))[i] + Mul(f, p[n])[i])
    BY <2>2, <2>3, MulAdds
  <2>5. Sum(q, n) \in Int /\ Sum(q, n + 1) = Sum(q, n) + Mul(f, p[n])[i]
    <3>1. Ints(q, n + 1) /\ q[n] = Mul(f, p[n])[i]
      BY <1>1, <1>3, <2>1
    <3> QED BY <3>1, SumNext
  <2>6. Cong(Mul(f, Total(p, n))[i], Sum(q, n))
    BY <1>6, <2>1
  <2>7. /\ Mul(f, Total(p, n + 1))[i] \in Int /\ Mul(f, Total(p, n))[i] \in Int
        /\ Mul(f, p[n])[i] \in Int
    BY <2>2, MulIs
  <2>8. Cong(Mul(f, Total(p, n))[i] + Mul(f, p[n])[i], Sum(q, n) + Mul(f, p[n])[i])
    BY <2>5, <2>6, <2>7, CongRefl, CongAdd
  <2>9. Mul(f, Total(p, n))[i] + Mul(f, p[n])[i] \in Int /\ Sum(q, n) + Mul(f, p[n])[i] \in Int
    BY <2>5, <2>7
  <2> QED BY <2>4, <2>5, <2>7, <2>8, <2>9, CongTrans
<1> HIDE DEF T
<1>7. L \in T
  BY <1>5, <1>6, Degree, Induction
<1> QED BY <1>7, Degree DEF T, q

(* A polynomial may be multiplied before or after the matrix. *)
LEMMA MatVecScales ==
  ASSUME NEW a, NEW f, NEW v, IsMat(a), IsPoly(f), IsVec(v, L), DOMAIN v = Cols,
         NEW r \in Rows, NEW i \in Idx
  PROVE  MatVec(a, VScale(f, v))[r][i] = Mul(f, MatVec(a, v)[r])[i]
<1> DEFINE fv == VScale(f, v)
           p == [j \in Cols |-> Mul(a[r][j], v[j])]
           q == Column(Times(f, p), i)
           t == RowTerms(a, fv, r, i)
           g == MatVec(a, v)[r]
<1>1. ASSUME NEW j \in 0 .. L - 1
      PROVE  /\ j \in Cols /\ IsPoly(a[r][j]) /\ IsPoly(v[j])
             /\ p[j] = Mul(a[r][j], v[j]) /\ IsPoly(p[j])
             /\ fv[j] = Mul(f, v[j]) /\ IsPoly(fv[j])
  <2>1. j \in Cols /\ IsPoly(a[r][j]) /\ IsPoly(v[j])
    BY DEF Cols, IsMat, IsVec
  <2> QED BY <2>1, MulPoly DEF VScale
<1>2. IsVec(p, L) /\ IsVec(fv, L)
  BY <1>1 DEF IsVec
<1>3. Ints(t, L) /\ Sum(t, L) \in Int
  BY <1>2, RowTermsInt
<1>4. ASSUME NEW j \in 0 .. L - 1 PROVE t[j] = q[j]
  <2>1. t[j] = Mul(a[r][j], Mul(f, v[j]))[i]
    BY <1>1 DEF RowTerms
  <2>2. q[j] = Mul(f, Mul(a[r][j], v[j]))[i]
    BY <1>1 DEF Column, Times
  <2>3. Mul(a[r][j], Mul(f, v[j])) = Mul(f, Mul(a[r][j], v[j]))
    <3>1. IsPoly(a[r][j]) /\ IsPoly(v[j])
      BY <1>1
    <3> QED BY <3>1, MulExchanges
  <2> QED BY <2>1, <2>2, <2>3
<1>5. Sum(t, L) = Sum(q, L)
  <2> HIDE DEF t, q
  <2> QED BY <1>3, <1>4, Degree, SumEqual
<1>6. Cong(Mul(f, Total(p, L))[i], Sum(q, L))
  <2> HIDE DEF p
  <2> QED BY <1>2, MulTotals
<1>7. IsPoly(g) /\ IsPoly(Total(p, L)) /\ Alike(g, Total(p, L))
  <2>1. ASSUME NEW x \in Idx
        PROVE  g[x] \in Int /\ Total(p, L)[x] \in Int /\ Cong(g[x], Total(p, L)[x])
    <3>1. \A j \in 0 .. L - 1 : RowTerms(a, v, r, x)[j] = Column(p, x)[j]
      BY <1>1 DEF RowTerms, Column
    <3>2. Ints(RowTerms(a, v, r, x), L) /\ Sum(RowTerms(a, v, r, x), L) \in Int
      BY RowTermsInt
    <3>3. Sum(RowTerms(a, v, r, x), L) = Sum(Column(p, x), L)
      <4> HIDE DEF p
      <4> QED BY <3>1, <3>2, Degree, SumEqual
    <3>4. Total(p, L)[x] = Sum(Column(p, x), L)
      BY DEF Total
    <3>5. MatVec(a, v)[r][x] \in Int /\ Cong(MatVec(a, v)[r][x], Sum(RowTerms(a, v, r, x), L))
      BY MatVecIs
    <3> QED BY <3>2, <3>3, <3>4, <3>5
  <2> HIDE DEF g, p
  <2> QED BY <2>1 DEF IsPoly, Alike
<1>8. Mul(f, g)[i] = Mul(f, Total(p, L))[i] /\ Mul(f, Total(p, L))[i] \in 0 .. Q - 1
  <2> HIDE DEF g, p
  <2>1. Mul(f, g) = Mul(f, Total(p, L))
    BY <1>7, MulCong
  <2> QED BY <1>7, <2>1, MulIs
<1>9. MatVec(a, fv)[r][i] = Sum(t, L) % Q
  BY <1>2, MatVecIs
<1> HIDE DEF fv, p, q, t, g
<1>10. Mul(f, Total(p, L))[i] % Q = Sum(q, L) % Q
  <2>1. Mul(f, Total(p, L))[i] \in Int
    BY <1>8, QPositive
  <2> QED BY <1>3, <1>5, <1>6, <2>1, CongEqual
<1>11. \A x \in 0 .. Q - 1 : x % Q = x
  BY QPositive
<1>12. MatVec(a, fv)[r][i] = Mul(f, g)[i]
  BY <1>5, <1>8, <1>9, <1>10, <1>11
<1> QED BY <1>12 DEF fv, g

-----------------------------------------------------------------------------
(* The size of a product with a challenge. *)
IsSmall(g, e) == \A i \in Idx : g[i] \in -e .. e
NonZero(f, n) == {a \in 0 .. n - 1 : f[a] # 0}

LEMMA NonZeroNext ==
  ASSUME NEW f, NEW n \in Nat
  PROVE  /\ IsFiniteSet(NonZero(f, n)) /\ Cardinality(NonZero(f, n)) \in Nat
         /\ f[n] = 0 => NonZero(f, n + 1) = NonZero(f, n)
         /\ f[n] # 0 => Cardinality(NonZero(f, n + 1)) = Cardinality(NonZero(f, n)) + 1
<1>1. IsFiniteSet(NonZero(f, n))
  <2>1. IsFiniteSet(0 .. n - 1) /\ NonZero(f, n) \subseteq 0 .. n - 1
    BY FS_Interval DEF NonZero
  <2> QED BY <2>1, FS_Subset
<1>2. f[n] = 0 => NonZero(f, n + 1) = NonZero(f, n)
  <2> SUFFICES ASSUME f[n] = 0 PROVE NonZero(f, n + 1) = NonZero(f, n)
    OBVIOUS
  <2>1. \A a \in 0 .. n : a \in 0 .. n - 1 \/ a = n
    OBVIOUS
  <2>2. \A a \in 0 .. n - 1 : a \in 0 .. n
    OBVIOUS
  <2>3. 0 .. (n + 1) - 1 = 0 .. n
    OBVIOUS
  <2> QED BY <2>1, <2>2, <2>3, Zenon DEF NonZero
<1>3. f[n] # 0 => NonZero(f, n + 1) = NonZero(f, n) \cup {n} /\ n \notin NonZero(f, n)
  <2> SUFFICES ASSUME f[n] # 0
               PROVE  NonZero(f, n + 1) = NonZero(f, n) \cup {n} /\ n \notin NonZero(f, n)
    OBVIOUS
  <2>1. \A a \in 0 .. n : a \in 0 .. n - 1 \/ a = n
    OBVIOUS
  <2>2. \A a \in 0 .. n - 1 : a \in 0 .. n
    OBVIOUS
  <2>3. 0 .. (n + 1) - 1 = 0 .. n /\ n \in 0 .. n /\ n \notin 0 .. n - 1
    OBVIOUS
  <2> QED BY <2>1, <2>2, <2>3, Zenon DEF NonZero
<1>4. f[n] # 0 => Cardinality(NonZero(f, n + 1)) = Cardinality(NonZero(f, n)) + 1
  BY <1>1, <1>3, FS_AddElement
<1> QED BY <1>1, <1>2, <1>4, FS_CardinalityType

(* A coefficient of a product with a challenge adds up Tau coefficients. *)
LEMMA BallTimes ==
  ASSUME NEW f \in Ball, NEW g, IsSmall(g, Eta), NEW i \in Idx
  PROVE  /\ IsPoly(f) /\ IsPoly(g) /\ Raw(f, g, i) \in Int
         /\ Raw(f, g, i) <= Beta /\ -Raw(f, g, i) <= Beta
<1> DEFINE t == Terms(f, g, i)
           B(n) == Cardinality(NonZero(f, n)) * Eta
           T == {n \in Nat : n <= N => Sum(t, n) <= B(n) /\ -Sum(t, n) <= B(n)}
<1>0. Eta \in Nat
  BY DilithiumAssumption
<1>1. IsPoly(f) /\ IsPoly(g) /\ i \in Near
  BY <1>0, Degree DEF Ball, IsPoly, IsSmall, Near, Idx
<1>2. Ints(t, N) /\ Raw(f, g, i) \in Int
  BY <1>1, TermsInt
<1>3. ASSUME NEW a \in 0 .. N - 1
      PROVE  /\ t[a] \in Int
             /\ f[a] = 0 => t[a] = 0
             /\ t[a] <= Eta /\ -t[a] <= Eta
  <2>1. a \in Idx /\ i - a \in Near
    BY Degree DEF Idx, Near
  <2>2. Ext(g, i - a) \in Int /\ Ext(g, i - a) <= Eta /\ -Ext(g, i - a) <= Eta
    <3>1. CASE i - a >= 0
      <4>1. i - a \in Idx
        BY <3>1, <2>1 DEF Near, Idx
      <4>2. g[i - a] \in -Eta .. Eta
        BY <4>1 DEF IsSmall
      <4> QED BY <1>0, <3>1, <4>2 DEF Ext
    <3>2. CASE ~ (i - a >= 0)
      <4>1. (i - a) + N \in Idx /\ i - a >= -N
        BY <3>2, <2>1, Degree DEF Near, Idx
      <4>2. g[(i - a) + N] \in -Eta .. Eta
        BY <4>1 DEF IsSmall
      <4> QED BY <1>0, <3>2, <4>1, <4>2 DEF Ext
    <3> QED BY <3>1, <3>2
  <2>3. f[a] \in {-1, 0, 1}
    BY <2>1 DEF Ball
  <2>4. t[a] = f[a] * Ext(g, i - a)
    BY <2>1 DEF Terms
  <2> HIDE DEF t
  <2>5. CASE f[a] = 0
    BY <1>0, <2>2, <2>4, <2>5
  <2>6. CASE f[a] = 1
    BY <1>0, <2>2, <2>4, <2>6
  <2>7. CASE f[a] = -1
    BY <1>0, <2>2, <2>4, <2>7
  <2> QED BY <2>3, <2>5, <2>6, <2>7
<1> HIDE DEF t
<1>4. 0 \in T
  <2>1. Cardinality(NonZero(f, 0)) \in Nat
    BY NonZeroNext
  <2> DEFINE k == Cardinality(NonZero(f, 0))
  <2>2. k * Eta >= 0
    <3> HIDE DEF k
    <3>1. k \in Nat
      BY <2>1 DEF k
    <3> QED BY <3>1, <1>0
  <2> QED BY <2>2, SumZero
<1>5. ASSUME NEW n \in Nat, n \in T PROVE n + 1 \in T
  <2> SUFFICES ASSUME n + 1 <= N PROVE Sum(t, n + 1) <= B(n + 1) /\ -Sum(t, n + 1) <= B(n + 1)
    OBVIOUS
  <2> DEFINE k == Cardinality(NonZero(f, n))
             k1 == Cardinality(NonZero(f, n + 1))
  <2>1. n \in 0 .. N - 1
    BY Degree
  <2>2. Sum(t, n) \in Int /\ Sum(t, n + 1) = Sum(t, n) + t[n]
    <3>1. Ints(t, n + 1)
      BY <1>2, Degree DEF Ints
    <3> QED BY <3>1, SumNext
  <2>3. Sum(t, n) <= k * Eta /\ -Sum(t, n) <= k * Eta
    BY <1>5, Degree
  <2>4. /\ k \in Nat
        /\ f[n] = 0 => k1 = k
    BY NonZeroNext
  <2>5. f[n] # 0 => k1 = k + 1
    BY NonZeroNext
  <2>6. /\ t[n] \in Int /\ t[n] <= Eta /\ -t[n] <= Eta
        /\ f[n] = 0 => t[n] = 0
    BY <1>3, <2>1
  <2> HIDE DEF k, k1
  <2>7. (k + 1) * Eta = k * Eta + Eta /\ k * Eta \in Int
    BY <1>0, <2>4
  <2>8. Sum(t, n + 1) <= k1 * Eta /\ -Sum(t, n + 1) <= k1 * Eta
    <3>1. CASE f[n] = 0
      BY <2>2, <2>3, <2>4, <2>6, <3>1
    <3>2. CASE f[n] # 0
      <4>1. k1 * Eta = k * Eta + Eta
        BY <2>5, <2>7, <3>2
      <4> QED BY <1>0, <2>2, <2>3, <2>6, <2>7, <4>1
    <3> QED BY <3>1, <3>2
  <2> QED BY <2>8 DEF k1
<1>6. Sum(t, N) <= B(N) /\ -Sum(t, N) <= B(N)
  <2> HIDE DEF T
  <2>1. N \in T
    BY <1>4, <1>5, Degree, Induction
  <2> QED BY <2>1, Degree DEF T
<1>7. Cardinality(NonZero(f, N)) = Tau
  BY DEF Ball, NonZero, Idx
<1> QED BY <1>1, <1>2, <1>6, <1>7 DEF Beta, Raw, t

-----------------------------------------------------------------------------
(* One coefficient of an attempt that is let out. *)

(* Rounding and the norm test see the residue only. *)
LEMMA ResidueOnly ==
  ASSUME NEW x \in Int, NEW z \in Int, Cong(x, z)
  PROVE  Decompose(x, Alpha) = Decompose(z, Alpha) /\ HighBits(x, Alpha) = HighBits(z, Alpha)
         /\ LowBits(x, Alpha) = LowBits(z, Alpha)
         /\ \A b : NormFails(x, b) <=> NormFails(z, b)
<1>1. x % Q = z % Q
  BY CongEqual
<1> QED BY <1>1 DEF Decompose, HighBits, LowBits, NormFails

(* A coefficient that passes the norm test has a small representative. *)
LEMMA Centred ==
  ASSUME NEW x \in Int, NEW b \in Int, ~NormFails(x, b)
  PROVE  \E z \in Int : Cong(x, z) /\ Cong(z, x) /\ z < b /\ -z < b
<1> DEFINE half == (Q - 1) \div 2
           r == x % Q
           z == IF r <= half THEN r ELSE r - Q
<1>1. r \in 0 .. Q - 1 /\ Cong(r, x) /\ Cong(x, r)
  BY CongMod
<1>2. half \in Nat /\ Q = 2 * half + 1
  <2>1. half = M * Gamma2 /\ M * Gamma2 \in Nat
    BY AlphaFacts, RoundingAssumption
  <2>2. Q = 2 * (M * Gamma2) + 1
    BY <2>1, AlphaFacts, RoundingAssumption DEF Alpha
  <2> HIDE DEF half
  <2> QED BY <2>1, <2>2
<1> HIDE DEF half
<1>3. r \in Int
  BY <1>1, QPositive
<1>4. z \in Int /\ z <= half /\ -z <= half /\ r = IF z >= 0 THEN z ELSE Q + z
  <2> HIDE DEF r
  <2> QED BY <1>1, <1>2, <1>3
<1>5. Cong(r, z)
  <2>1. CASE r <= half
    <3>1. r = z + Q * 0
      BY <1>3, <2>1, QPositive
    <3> QED BY <3>1 DEF Cong
  <2>2. CASE ~ (r <= half)
    <3> HIDE DEF r
    <3>1. r = z + Q * 1
      BY <1>3, <2>2, QPositive
    <3> QED BY <3>1 DEF Cong
  <2> QED BY <2>1, <2>2
<1>6. NormFails(x, b) <=> (z >= b \/ -z >= b)
  <2> HIDE DEF z
  <2> QED BY <1>4, NormIsCentredMagnitude DEF half, r
<1> HIDE DEF r, z
<1>7. z < b /\ -z < b
  BY <1>4, <1>6
<1>8. Cong(x, z)
  BY <1>1, <1>3, <1>4, <1>5, CongTrans
<1> QED BY <1>4, <1>7, <1>8, CongSym

LEMMA BetaNat == Beta \in Nat /\ Eta \in Nat /\ Tau \in Nat
<1>1. Tau \in Nat /\ Eta \in Nat
  BY DilithiumAssumption
<1> QED BY <1>1 DEF Beta

(* cs is a coefficient of c s2 and ct of c t0, both as residues, s the     *)
(* number cs stands for: the verifier's use of the hint gives the high     *)
(* bits of w.                                                              *)
LEMMA CoefficientRecovered ==
  ASSUME NEW w \in Int, NEW s \in Int, s <= Beta, -s <= Beta,
         NEW cs \in Int, Cong(cs, s), NEW ct \in Int, ~NormFails(ct, Gamma2),
         NEW r, r = (w - cs) % Q, ~NormFails(LowBits(r, Alpha), Gamma2 - Beta),
         NEW v, v = (r + ct) % Q
  PROVE  UseHint(MakeHint((-ct) % Q, v, Alpha), v, Alpha) = HighBits(w, Alpha)
<1>1. PICK t \in Int : Cong(ct, t) /\ Cong(t, ct) /\ t < Gamma2 /\ -t < Gamma2
  BY Centred, RoundingAssumption
<1>2. r \in Int /\ Cong(r, w - cs) /\ Cong(w - cs, r)
  <2>1. w - cs \in Int
    OBVIOUS
  <2> QED BY <2>1, CongMod, QPositive
<1>3. v \in Int /\ Cong(v, r + ct)
  <2>1. r + ct \in Int
    BY <1>2
  <2> QED BY <2>1, CongMod, QPositive
<1> DEFINE low == w - s
           up  == w - s + t
           neg == -t
<1>4. low \in Int /\ up \in Int /\ neg \in Int /\ up = low + t /\ up + neg = low
  BY <1>1
<1>5. Cong(r, low)
  <2>1. Cong(w - cs, low)
    BY CongRefl, CongAdd
  <2>2. w - cs \in Int
    OBVIOUS
  <2> HIDE DEF low
  <2> QED BY <1>2, <1>4, <2>1, <2>2, CongTrans
<1>6. Cong(v, up)
  <2> HIDE DEF low, up
  <2>1. Cong(r + ct, low + t)
    BY <1>1, <1>2, <1>4, <1>5, CongAdd
  <2>2. r + ct \in Int /\ low + t \in Int
    BY <1>1, <1>2, <1>4
  <2> QED BY <1>3, <1>4, <2>1, <2>2, CongTrans
<1> DEFINE n == (-ct) % Q
<1>7. n \in Int /\ Cong(n, neg)
  <2> DEFINE mc == -ct
             o == 0
  <2>1. mc \in Int /\ o \in Int /\ Cong(o, o)
    BY CongRefl
  <2>2. mc % Q \in Int /\ Cong(mc % Q, mc)
    <3> HIDE DEF mc
    <3> QED BY <2>1, CongMod, QPositive
  <2>3. Cong(o - ct, o - t)
    <3> HIDE DEF o
    <3> QED BY <1>1, <2>1, CongAdd
  <2>4. o - ct = mc /\ o - t = neg
    BY <1>1
  <2> HIDE DEF mc, o, neg
  <2>5. Cong(mc, neg)
    BY <2>3, <2>4
  <2>6. Cong(mc % Q, neg)
    BY <1>4, <2>1, <2>2, <2>5, CongTrans
  <2> QED BY <2>2, <2>6 DEF mc
<1> HIDE DEF n, low, up, neg
<1>8. v + n \in Int /\ up + neg \in Int /\ Cong(v + n, up + neg)
  <2>1. Cong(v + n, up + neg)
    BY <1>3, <1>4, <1>6, <1>7, CongAdd
  <2> QED BY <1>3, <1>4, <1>7, <2>1
<1>9. /\ HighBits(v, Alpha) = HighBits(up, Alpha) /\ Decompose(v, Alpha) = Decompose(up, Alpha)
      /\ HighBits(v + n, Alpha) = HighBits(up + neg, Alpha)
      /\ LowBits(r, Alpha) = LowBits(low, Alpha)
  BY <1>2, <1>3, <1>4, <1>5, <1>6, <1>8, ResidueOnly
<1>10. MakeHint(n, v, Alpha) = MakeHint(neg, up, Alpha)
  BY <1>9 DEF MakeHint
<1>11. UseHint(MakeHint(n, v, Alpha), v, Alpha) = UseHint(MakeHint(neg, up, Alpha), up, Alpha)
  BY <1>9, <1>10 DEF UseHint
<1>12. ~NormFails(LowBits(low, Alpha), Gamma2 - Beta)
  BY <1>9
<1>13. UseHint(MakeHint(-t, w - s + t, Alpha), w - s + t, Alpha) = HighBits(w, Alpha)
  <2>1. t <= Gamma2 /\ -t <= Gamma2
    BY <1>1, RoundingAssumption
  <2> QED BY <1>12, <2>1, BetaNat, VerifierRecoversW1 DEF low
<1> QED BY <1>11, <1>13 DEF n, up, neg

-----------------------------------------------------------------------------
(* Powers of two, shifts and the bits of a number. *)
LEMMA Pow2Is ==
  /\ Pow2(0) = 1
  /\ \A n \in Nat : Pow2(n) \in Nat /\ Pow2(n) >= 1 /\ Pow2(n + 1) = 2 * Pow2(n)
<1>1. ASSUME NEW n \in Nat
      PROVE  \E s \in [0 .. n -> Nat] :
               /\ s[0] = 1 /\ \A k \in 1 .. n : s[k] = 2 * s[k - 1]
               /\ \A m \in 0 .. n : Pow2(m) = s[m]
  <2> DEFINE G == [k \in 1 .. n |-> [v \in Nat |-> 2 * v]]
             one == 1
  <2>1. \A k \in 1 .. n : \A v \in Nat : G[k][v] = 2 * v
    OBVIOUS
  <2>2. Steps(G, n, Nat) /\ one \in Nat
    BY DEF Steps
  <2> HIDE DEF G, one
  <2>3. PICK s : Solves(s, Nat, one, n, G)
    BY <2>2, Recursion, Zenon
  <2>4. s \in [0 .. n -> Nat] /\ s[0] = 1 /\ \A k \in 1 .. n : s[k] = 2 * s[k - 1]
    <3>1. s \in [0 .. n -> Nat] /\ s[0] = one /\ \A k \in 1 .. n : s[k] = G[k][s[k - 1]]
      BY <2>3 DEF Solves
    <3>2. \A k \in 1 .. n : s[k - 1] \in Nat
      BY <3>1
    <3> QED BY <2>1, <3>1, <3>2 DEF one
  <2>5. ASSUME NEW m \in 0 .. n PROVE Pow2(m) = s[m]
    <3> DEFINE Is(f) == f = [k \in 0 .. m |-> IF k = 0 THEN 1 ELSE 2 * f[k - 1]]
               f == CHOOSE g : Is(g)
               r == [k \in 0 .. m |-> s[k]]
    <3>1. Is(r)
      <4>1. \A k \in 0 .. m : r[k] = IF k = 0 THEN 1 ELSE 2 * r[k - 1]
        BY <2>4
      <4> QED BY <4>1
    <3>2. Is(f)
      BY <3>1
    <3>3. Pow2(m) = f[m]
      BY DEF Pow2
    <3>4. f[0] = one /\ \A k \in 1 .. m : f[k] = 2 * f[k - 1]
      <4> HIDE DEF f
      <4> QED BY <3>2 DEF one
    <3> HIDE DEF f
    <3>5. Follows(f, Nat, one, m, G)
      <4> SUFFICES ASSUME NEW k \in 1 .. m, f[k - 1] \in Nat PROVE f[k] = G[k][f[k - 1]]
        BY <3>4 DEF Follows
      <4>1. G[k][f[k - 1]] = 2 * f[k - 1]
        BY <2>1
      <4> QED BY <3>4, <4>1
    <3>6. Agree(f, s, m)
      BY <2>2, <2>3, <3>5, RecursionUnique
    <3> QED BY <3>3, <3>6 DEF Agree
  <2> QED BY <2>4, <2>5
<1>2. ASSUME NEW n \in Nat PROVE Pow2(n) \in Nat /\ Pow2(n + 1) = 2 * Pow2(n) /\ Pow2(0) = 1
  <2>1. PICK s \in [0 .. n + 1 -> Nat] :
             /\ s[0] = 1 /\ \A k \in 1 .. n + 1 : s[k] = 2 * s[k - 1]
             /\ \A m \in 0 .. n + 1 : Pow2(m) = s[m]
    <3>1. n + 1 \in Nat
      OBVIOUS
    <3> QED BY <1>1, <3>1
  <2>2. n \in 0 .. n + 1 /\ n + 1 \in 1 .. n + 1 /\ (n + 1) - 1 = n /\ n + 1 \in 0 .. n + 1 /\ 0 \in 0 .. n + 1
    OBVIOUS
  <2> QED BY <2>1, <2>2
<1> DEFINE T == {n \in Nat : Pow2(n) >= 1}
<1>3. 0 \in T
  BY <1>2
<1>4. \A n \in Nat : n \in T => n + 1 \in T
  <2> TAKE n \in Nat
  <2>1. Pow2(n) \in Nat /\ Pow2(n + 1) = 2 * Pow2(n)
    BY <1>2
  <2> QED BY <2>1
<1> HIDE DEF T
<1>5. Nat \subseteq T
  BY <1>3, <1>4, Induction
<1> QED BY <1>2, <1>5 DEF T

LEMMA ShiftIs ==
  ASSUME NEW x \in Nat
  PROVE  /\ Shift(x, 0) = x
         /\ \A n \in Nat : Shift(x, n) \in Nat /\ Shift(x, n + 1) = Shift(x, n) \div 2
<1>1. ASSUME NEW n \in Nat
      PROVE  \E s \in [0 .. n -> Nat] :
               /\ s[0] = x /\ \A k \in 1 .. n : s[k] = s[k - 1] \div 2
               /\ \A m \in 0 .. n : Shift(x, m) = s[m]
  <2> DEFINE G == [k \in 1 .. n |-> [v \in Nat |-> v \div 2]]
  <2>1. \A k \in 1 .. n : \A v \in Nat : G[k][v] = v \div 2
    OBVIOUS
  <2>2. Steps(G, n, Nat)
    BY DEF Steps
  <2> HIDE DEF G
  <2>3. PICK s : Solves(s, Nat, x, n, G)
    BY <2>2, Recursion, Zenon
  <2>4. s \in [0 .. n -> Nat] /\ s[0] = x /\ \A k \in 1 .. n : s[k] = s[k - 1] \div 2
    <3>1. s \in [0 .. n -> Nat] /\ s[0] = x /\ \A k \in 1 .. n : s[k] = G[k][s[k - 1]]
      BY <2>3 DEF Solves
    <3>2. \A k \in 1 .. n : s[k - 1] \in Nat
      BY <3>1
    <3> QED BY <2>1, <3>1, <3>2
  <2>5. ASSUME NEW m \in 0 .. n PROVE Shift(x, m) = s[m]
    <3> DEFINE Is(f) == f = [k \in 0 .. m |-> IF k = 0 THEN x ELSE f[k - 1] \div 2]
               f == CHOOSE g : Is(g)
               r == [k \in 0 .. m |-> s[k]]
    <3>1. Is(r)
      <4>1. \A k \in 0 .. m : r[k] = IF k = 0 THEN x ELSE r[k - 1] \div 2
        BY <2>4
      <4> QED BY <4>1
    <3>2. Is(f)
      BY <3>1
    <3>3. Shift(x, m) = f[m]
      BY DEF Shift
    <3>4. f[0] = x /\ \A k \in 1 .. m : f[k] = f[k - 1] \div 2
      <4> HIDE DEF f
      <4> QED BY <3>2
    <3> HIDE DEF f
    <3>5. Follows(f, Nat, x, m, G)
      <4> SUFFICES ASSUME NEW k \in 1 .. m, f[k - 1] \in Nat PROVE f[k] = G[k][f[k - 1]]
        BY <3>4 DEF Follows
      <4>1. G[k][f[k - 1]] = f[k - 1] \div 2
        BY <2>1
      <4> QED BY <3>4, <4>1
    <3>6. Agree(f, s, m)
      BY <2>2, <2>3, <3>5, RecursionUnique
    <3> QED BY <3>3, <3>6 DEF Agree
  <2> QED BY <2>4, <2>5
<1>2. ASSUME NEW n \in Nat
      PROVE  Shift(x, n) \in Nat /\ Shift(x, n + 1) = Shift(x, n) \div 2 /\ Shift(x, 0) = x
  <2>1. PICK s \in [0 .. n + 1 -> Nat] :
             /\ s[0] = x /\ \A k \in 1 .. n + 1 : s[k] = s[k - 1] \div 2
             /\ \A m \in 0 .. n + 1 : Shift(x, m) = s[m]
    <3>1. n + 1 \in Nat
      OBVIOUS
    <3> QED BY <1>1, <3>1
  <2>2. n \in 0 .. n + 1 /\ n + 1 \in 1 .. n + 1 /\ (n + 1) - 1 = n /\ n + 1 \in 0 .. n + 1 /\ 0 \in 0 .. n + 1
    OBVIOUS
  <2> QED BY <2>1, <2>2
<1> QED BY <1>2

LEMMA Halves ==
  ASSUME NEW x \in Nat
  PROVE  /\ x \div 2 \in Nat /\ x % 2 \in {0, 1} /\ x = 2 * (x \div 2) + (x % 2)
         /\ \A n \in Nat : x < 2 * n => x \div 2 < n
<1>1. x \div 2 \in Nat /\ x % 2 \in {0, 1} /\ x = 2 * (x \div 2) + (x % 2)
  OBVIOUS
<1> DEFINE h == x \div 2
<1>2. h \in Nat /\ x >= 2 * h
  BY <1>1
<1> HIDE DEF h
<1>3. \A n \in Nat : x < 2 * n => h < n
  BY <1>2
<1> QED BY <1>1, <1>3 DEF h

(* Shifting once more is shifting the half. *)
LEMMA ShiftHalf ==
  ASSUME NEW x \in Nat, NEW n \in Nat
  PROVE  Shift(x, n + 1) = Shift(x \div 2, n)
<1> DEFINE h == x \div 2
           T == {k \in Nat : Shift(x, k + 1) = Shift(h, k)}
<1>1. h \in Nat
  BY Halves
<1>2. Shift(x, 0) = x /\ Shift(x, 0 + 1) = x \div 2 /\ Shift(h, 0) = h
  BY <1>1, ShiftIs
<1> HIDE DEF h
<1>3. 0 \in T
  BY <1>2 DEF h
<1>4. \A k \in Nat : k \in T => k + 1 \in T
  <2> TAKE k \in Nat
  <2>1. k + 1 \in Nat
    OBVIOUS
  <2>2. Shift(x, (k + 1) + 1) = Shift(x, k + 1) \div 2 /\ Shift(h, k + 1) = Shift(h, k) \div 2
    BY <1>1, <2>1, ShiftIs
  <2> QED BY <2>1, <2>2
<1> HIDE DEF T
<1>5. n \in T
  BY <1>3, <1>4, Induction
<1> QED BY <1>5 DEF T, h

(* A number below 2^n has nothing left after n shifts, and its bits are    *)
(* below n.                                                                *)
LEMMA ShiftSmall ==
  ASSUME NEW n \in Nat, NEW x \in Nat, x < Pow2(n)
  PROVE  Shift(x, n) = 0
<1> DEFINE T == {k \in Nat : \A z \in Nat : z < Pow2(k) => Shift(z, k) = 0}
<1>1. 0 \in T
  BY Pow2Is, ShiftIs
<1>2. ASSUME NEW k \in Nat, k \in T PROVE k + 1 \in T
  <2> SUFFICES ASSUME NEW z \in Nat, z < Pow2(k + 1) PROVE Shift(z, k + 1) = 0
    OBVIOUS
  <2>1. Pow2(k) \in Nat /\ z < 2 * Pow2(k)
    BY Pow2Is
  <2>2. z \div 2 \in Nat /\ z \div 2 < Pow2(k)
    BY <2>1, Halves
  <2>3. Shift(z \div 2, k) = 0
    BY <1>2, <2>2
  <2> QED BY <2>3, ShiftHalf
<1> HIDE DEF T
<1>3. n \in T
  BY <1>1, <1>2, Induction
<1> QED BY <1>3 DEF T

LEMMA Pow2Grows ==
  ASSUME NEW n \in Nat
  PROVE  Pow2(n) > n /\ \A k \in Nat : k >= n => Pow2(k) >= Pow2(n)
<1> DEFINE T == {k \in Nat : Pow2(k) > k}
           V == {k \in Nat : k >= n => Pow2(k) >= Pow2(n)}
<1>1. 0 \in T /\ 0 \in V
  <2>1. 0 >= n => n = 0
    OBVIOUS
  <2> QED BY <2>1, Pow2Is
<1>2. \A k \in Nat : k \in T => k + 1 \in T
  <2> TAKE k \in Nat
  <2>1. Pow2(k) \in Nat /\ Pow2(k + 1) = 2 * Pow2(k)
    BY Pow2Is
  <2> QED BY <2>1
<1>3. \A k \in Nat : k \in V => k + 1 \in V
  <2> TAKE k \in Nat
  <2>1. Pow2(k) \in Nat /\ Pow2(k + 1) = 2 * Pow2(k) /\ Pow2(n) \in Nat
    BY Pow2Is
  <2>2. k + 1 >= n => k >= n \/ k + 1 = n
    OBVIOUS
  <2> QED BY <2>1, <2>2
<1> HIDE DEF T, V
<1>4. Nat \subseteq T /\ Nat \subseteq V
  <2>1. Nat \subseteq T
    BY <1>1, <1>2, Induction
  <2>2. Nat \subseteq V
    BY <1>1, <1>3, Induction
  <2> QED BY <2>1, <2>2
<1> QED BY <1>4 DEF T, V

LEMMA BitsAre ==
  ASSUME NEW x \in Nat
  PROVE  /\ Bits(x) \subseteq Nat
         /\ \A k \in Nat : k \in Bits(x) <=> Shift(x, k) % 2 = 1
         /\ \A n \in Nat : x < Pow2(n) => Bits(x) \subseteq 0 .. n - 1
<1>1. ASSUME NEW n \in Nat, NEW k \in Nat, x < Pow2(n), k >= n PROVE Shift(x, k) = 0
  <2>1. x < Pow2(k)
    BY <1>1, Pow2Grows, Pow2Is
  <2> QED BY <2>1, ShiftSmall
<1>2. Bits(x) \subseteq Nat
  BY DEF Bits
<1>3. ASSUME NEW k \in Nat, Shift(x, k) % 2 = 1 PROVE k \in 0 .. x
  <2>1. x < Pow2(x)
    BY Pow2Grows, Pow2Is
  <2>2. k >= x => Shift(x, k) = 0
    BY <1>1, <2>1
  <2>3. ~ (k >= x)
    BY <1>3, <2>2
  <2> QED BY <2>3
<1>4. ASSUME NEW n \in Nat, x < Pow2(n), NEW k \in Bits(x) PROVE k \in 0 .. n - 1
  <2>1. k \in Nat /\ Shift(x, k) % 2 = 1
    BY DEF Bits
  <2>2. ~ (k >= n)
    BY <1>1, <1>4, <2>1
  <2> QED BY <2>1, <2>2
<1> QED BY <1>2, <1>3, <1>4 DEF Bits

(* A number is known by its bits. *)
LEMMA BitsOnce ==
  ASSUME NEW x \in Nat, NEW z \in Nat, Bits(x) = Bits(z)
  PROVE  x = z
<1> DEFINE Same(u, v) == \A k \in Nat : Shift(u, k) % 2 = Shift(v, k) % 2
           T == {n \in Nat : \A u, v \in Nat : u < Pow2(n) /\ v < Pow2(n) /\ Same(u, v) => u = v}
<1>1. 0 \in T
  BY Pow2Is
<1>2. ASSUME NEW n \in Nat, n \in T PROVE n + 1 \in T
  <2> SUFFICES ASSUME NEW u \in Nat, NEW v \in Nat, u < Pow2(n + 1), v < Pow2(n + 1), Same(u, v)
               PROVE  u = v
    OBVIOUS
  <2>1. Pow2(n) \in Nat /\ u < 2 * Pow2(n) /\ v < 2 * Pow2(n)
    BY Pow2Is
  <2>2. /\ u \div 2 \in Nat /\ u \div 2 < Pow2(n) /\ u = 2 * (u \div 2) + (u % 2)
        /\ v \div 2 \in Nat /\ v \div 2 < Pow2(n) /\ v = 2 * (v \div 2) + (v % 2)
    BY <2>1, Halves
  <2>3. Same(u \div 2, v \div 2)
    <3> TAKE k \in Nat
    <3>1. k + 1 \in Nat
      OBVIOUS
    <3> QED BY <3>1, ShiftHalf
  <2>4. u % 2 = v % 2
    <3>1. Shift(u, 0) % 2 = Shift(v, 0) % 2
      OBVIOUS
    <3> QED BY <3>1, ShiftIs
  <2> HIDE DEF Same
  <2>5. u \div 2 = v \div 2
    BY <1>2, <2>2, <2>3
  <2> QED BY <2>2, <2>4, <2>5
<1> DEFINE n == x + z
<1>3. n \in Nat /\ x < Pow2(n) /\ z < Pow2(n)
  <2>0. n \in Nat /\ n >= x /\ n >= z
    OBVIOUS
  <2> HIDE DEF n
  <2>1. Pow2(n) \in Nat /\ Pow2(n) > n
    BY <2>0, Pow2Grows, Pow2Is
  <2> QED BY <2>0, <2>1
<1>4. Same(x, z)
  <2> TAKE k \in Nat
  <2>1. Shift(x, k) \in Nat /\ Shift(z, k) \in Nat
    BY ShiftIs
  <2>2. Shift(x, k) % 2 \in {0, 1} /\ Shift(z, k) % 2 \in {0, 1}
    BY <2>1, Halves
  <2> QED BY <2>2, BitsAre
<1> HIDE DEF T, n, Same
<1>5. n \in T
  BY <1>1, <1>2, <1>3, Induction
<1> QED BY <1>3, <1>4, <1>5 DEF T

(* Packing polynomials whose coefficients fit their fields loses nothing.  *)
LEMMA PackingIsUndone ==
  ASSUME NEW f, NEW w \in Nat, \A i \in Idx : f[i] \in 0 .. Pow2(w) - 1, NEW i \in Idx
  PROVE  BitUnpack(BitPack(f, w), w)[i] = f[i]
<1> DEFINE x == BitPack(f, w)
           field == {k \in 0 .. w - 1 : w * i + k \in x}
<1>1. \A j \in Idx : f[j] \in Nat /\ f[j] < Pow2(w) /\ Bits(f[j]) \subseteq 0 .. w - 1
  <2> TAKE j \in Idx
  <2>1. f[j] \in Nat /\ f[j] < Pow2(w)
    BY Pow2Is
  <2> QED BY <2>1, BitsAre
<1>2. ASSUME NEW k \in Bits(f[i]) PROVE k \in field
  <2>1. w * i + k \in x
    BY DEF BitPack
  <2> QED BY <1>1, <2>1
<1>3. ASSUME NEW k \in field PROVE k \in Bits(f[i])
  <2>0. PICK j \in Idx : \E m \in Bits(f[j]) : w * i + k = w * j + m
    BY DEF BitPack
  <2>1. PICK m \in Bits(f[j]) : w * i + k = w * j + m
    BY <2>0
  <2>2. m \in 0 .. w - 1 /\ k \in 0 .. w - 1 /\ i \in Int /\ j \in Int /\ w >= 1
    BY <1>1 DEF Idx
  <2> DEFINE b == w * i + k
  <2>3. b \in Int /\ b = w * i + k /\ b = w * j + m
    BY <2>1, <2>2
  <2> HIDE DEF b
  <2>4. b \div w = i /\ b % w = k
    BY <2>2, <2>3, EuclidUnique
  <2>5. b \div w = j /\ b % w = m
    BY <2>2, <2>3, EuclidUnique
  <2> QED BY <2>1, <2>4, <2>5
<1>4. field = Bits(f[i])
  BY <1>2, <1>3
<1>5. BitUnpack(x, w)[i] = CHOOSE v \in 0 .. Pow2(w) - 1 : Bits(v) = field
  BY DEF BitUnpack
<1> HIDE DEF x, field
<1>6. f[i] \in 0 .. Pow2(w) - 1 /\ Bits(f[i]) = field
  BY <1>4
<1>7. PICK v : v = BitUnpack(x, w)[i]
  OBVIOUS
<1>8. v \in 0 .. Pow2(w) - 1 /\ Bits(v) = field
  BY <1>5, <1>6, <1>7
<1>9. v = f[i]
  <2>1. v \in Nat /\ f[i] \in Nat
    BY <1>6, <1>8, Pow2Is
  <2> QED BY <1>6, <1>8, <2>1, BitsOnce
<1> QED BY <1>7, <1>9 DEF x

-----------------------------------------------------------------------------
(* The packings of keys and signatures. *)
LEMMA DFacts ==
  /\ D \in Nat /\ D - 1 \in Nat /\ Pow2(D - 1) \in Nat /\ Pow2(D - 1) >= 1
  /\ Pow2(D) = 2 * Pow2(D - 1) /\ Pow2(D) \in Nat /\ Pow2(D) \div 2 = Pow2(D - 1)
<1>1. D \in Nat /\ D - 1 \in Nat /\ (D - 1) + 1 = D
  <2>1. D \in Nat \ {0}
    BY DilithiumAssumption
  <2> QED BY <2>1
<1> DEFINE d == D - 1
<1>2. d \in Nat /\ d + 1 = D
  BY <1>1
<1> HIDE DEF d
<1>3. Pow2(d) \in Nat /\ Pow2(d) >= 1 /\ Pow2(d + 1) = 2 * Pow2(d)
  BY <1>2, Pow2Is
<1>4. Pow2(D) = 2 * Pow2(d)
  BY <1>2, <1>3
<1>5. \A p \in Nat : (2 * p) \div 2 = p /\ 2 * p \in Nat
  OBVIOUS
<1>6. Pow2(D) \in Nat /\ Pow2(D) \div 2 = Pow2(d)
  BY <1>3, <1>4, <1>5
<1> QED BY <1>1, <1>3, <1>4, <1>6 DEF d

(* power_2_round for any d: the halves make up the residue, the low one    *)
(* fits d bits around zero and the high one fits its field.                *)
LEMMA Power2RoundIs ==
  ASSUME NEW x \in Int
  PROVE  LET high == Power2Round(x, Pow2(D))[1]
             low  == Power2Round(x, Pow2(D))[2]
         IN  /\ high \in 0 .. Pow2(T1Bits) - 1 /\ high \in Nat
             /\ low \in Int /\ low > -Pow2(D - 1) /\ low <= Pow2(D - 1)
             /\ x % Q = high * Pow2(D) + low
<1> DEFINE p == Pow2(D)
           half == Pow2(D - 1)
           cap == Pow2(T1Bits)
           r == x % Q
           k == r \div p
           e == r % p
           low == ReduceModPm(r, p)
           high == (r - low) \div p
<1>1. /\ p \in Nat /\ half \in Nat /\ half >= 1 /\ p = 2 * half /\ p \div 2 = half
      /\ r \in 0 .. Q - 1 /\ cap \in Nat /\ cap * p >= Q + half
  <2>1. T1Bits \in Nat /\ cap * p >= Q + half
    BY DilithiumAssumption
  <2> QED BY <2>1, DFacts, Pow2Is, CongMod
<1>2. Power2Round(x, Pow2(D)) = <<high, low>>
  BY DEF Power2Round
<1> HIDE DEF p, half, cap, r
<1>3. r = p * k + e /\ e \in 0 .. p - 1 /\ k \in Int /\ r \in Nat
  <2>1. r \in Nat /\ r \in Int /\ p >= 1
    BY <1>1, QPositive
  <2> QED BY <1>1, <2>1, Euclid
<1>4. low = IF e > half THEN e - p ELSE e
  BY <1>1 DEF ReduceModPm
<1> HIDE DEF low, k, e
<1>5. k >= 0
  <2>1. ASSUME k <= -1 PROVE FALSE
    <3>1. p * k <= -p
      BY <1>1, <1>3, <2>1
    <3> QED BY <1>1, <1>3, <3>1
  <2> QED BY <1>3, <2>1
<1> DEFINE q == IF e > half THEN k + 1 ELSE k
<1>6. q \in Nat /\ r - low = p * q + 0 /\ low \in Int /\ low > -half /\ low <= half
  <2>1. p * (k + 1) = p * k + p /\ p * k \in Int
    BY <1>1, <1>3
  <2>2. CASE e > half
    BY <1>1, <1>3, <1>4, <1>5, <2>1, <2>2
  <2>3. CASE ~ (e > half)
    BY <1>1, <1>3, <1>4, <1>5, <2>1, <2>3
  <2> QED BY <2>2, <2>3
<1> HIDE DEF q
<1>7. high = q
  <2> DEFINE d == r - low
             o == 0
  <2>1. d \in Int /\ d = p * q + o /\ o \in 0 .. p - 1 /\ p >= 1
    BY <1>1, <1>3, <1>6
  <2> HIDE DEF d, o
  <2>2. d \div p = q
    BY <1>1, <1>6, <2>1, EuclidUnique
  <2> QED BY <2>2 DEF d
<1>8. q < cap
  <2>1. ASSUME q >= cap PROVE FALSE
    <3>1. p * q >= p * cap
      BY <1>1, <1>6, <2>1
    <3>2. p * cap = cap * p /\ p * q \in Int /\ p * cap \in Int
      BY <1>1, <1>6
    <3>3. p * q >= Q + half /\ Q + half \in Int
      BY <1>1, <3>1, <3>2, QPositive
    <3>4. r - low >= Q + half
      BY <1>6, <3>2, <3>3
    <3> QED BY <1>1, <1>3, <1>6, <3>4, QPositive
  <2> QED BY <1>1, <1>6, <2>1
<1>9. r = q * p + low
  <2>1. p * q = q * p /\ p * q \in Int
    BY <1>1, <1>6
  <2> QED BY <1>1, <1>3, <1>6, <2>1
<1>10. q \in 0 .. cap - 1
  BY <1>1, <1>6, <1>8
<1> HIDE DEF high
<1> QED BY <1>2, <1>6, <1>7, <1>9, <1>10 DEF p, half, cap, r

LEMMA T1Undone ==
  ASSUME NEW f, \A i \in Idx : f[i] \in 0 .. Pow2(T1Bits) - 1, NEW i \in Idx
  PROVE  UnpackT1(PackT1(f))[i] = f[i]
<1>1. T1Bits \in Nat
  BY DilithiumAssumption
<1> QED BY <1>1, PackingIsUndone DEF UnpackT1, PackT1

LEMMA T0Undone ==
  ASSUME NEW f, \A i \in Idx : f[i] \in Int /\ f[i] > -Pow2(D - 1) /\ f[i] <= Pow2(D - 1),
         NEW i \in Idx
  PROVE  UnpackT0(PackT0(f))[i] = f[i]
<1> DEFINE g == [j \in Idx |-> Pow2(D - 1) - f[j]]
<1>1. \A j \in Idx : g[j] \in 0 .. Pow2(D) - 1
  BY DFacts
<1>2. UnpackT0(PackT0(f))[i] = Pow2(D - 1) - BitUnpack(BitPack(g, D), D)[i]
  BY DEF UnpackT0, PackT0
<1>3. BitUnpack(BitPack(g, D), D)[i] = g[i]
  <2> HIDE DEF g
  <2> QED BY <1>1, DFacts, PackingIsUndone
<1>4. f[i] \in Int /\ g[i] = Pow2(D - 1) - f[i]
  OBVIOUS
<1> QED BY <1>2, <1>3, <1>4, DFacts

LEMMA SUndone ==
  ASSUME NEW f, IsSmall(f, Eta), NEW i \in Idx
  PROVE  UnpackS(PackS(f))[i] = f[i]
<1> DEFINE g == [j \in Idx |-> (Eta - f[j]) % Q]
<1>0. Eta \in Nat /\ SBits \in Nat /\ Pow2(SBits) > 2 * Eta /\ 2 * Eta < Q /\ Pow2(SBits) \in Nat
  <2>1. Eta \in Nat /\ SBits \in Nat /\ Pow2(SBits) > 2 * Eta /\ 2 * Eta < Q
    BY DilithiumAssumption
  <2> QED BY <2>1, Pow2Is
<1>1. ASSUME NEW j \in Idx PROVE g[j] = Eta - f[j] /\ f[j] \in Int /\ g[j] \in 0 .. Pow2(SBits) - 1
  <2>1. f[j] \in Int /\ f[j] >= -Eta /\ f[j] <= Eta
    BY <1>0 DEF IsSmall
  <2> DEFINE v == Eta - f[j]
  <2>2. v \in 0 .. Q - 1 /\ v <= 2 * Eta
    BY <1>0, <2>1, QPositive
  <2>3. v % Q = v
    <3> HIDE DEF v
    <3> QED BY <2>2, QPositive
  <2> QED BY <1>0, <2>1, <2>2, <2>3
<1>2. UnpackS(PackS(f))[i] = Eta - BitUnpack(BitPack(g, SBits), SBits)[i]
  BY DEF UnpackS, PackS
<1> HIDE DEF g
<1>3. BitUnpack(BitPack(g, SBits), SBits)[i] = g[i]
  BY <1>0, <1>1, PackingIsUndone
<1> QED BY <1>0, <1>1, <1>2, <1>3

(* A response that passes the norm test is unpacked as its centred         *)
(* representative.                                                         *)
LEMMA ZUndone ==
  ASSUME NEW f, \A i \in Idx : f[i] \in Int /\ ~NormFails(f[i], Gamma1 - Beta), NEW i \in Idx
  PROVE  UnpackZ(PackZ(f))[i] \in Int /\ Cong(UnpackZ(PackZ(f))[i], f[i])
<1> DEFINE g == [j \in Idx |-> (Gamma1 - f[j]) % Q]
<1>0. /\ Gamma1 \in Nat /\ ZBits \in Nat /\ Pow2(ZBits) >= 2 * Gamma1 /\ 2 * Gamma1 < Q
      /\ Pow2(ZBits) \in Nat /\ Beta \in Nat
  <2>1. Gamma1 \in Nat /\ ZBits \in Nat /\ Pow2(ZBits) >= 2 * Gamma1 /\ 2 * Gamma1 < Q
    BY DilithiumAssumption
  <2> QED BY <2>1, Pow2Is, BetaNat
<1>1. ASSUME NEW j \in Idx
      PROVE  \E t \in Int : Cong(t, f[j]) /\ g[j] = Gamma1 - t /\ g[j] \in 0 .. Pow2(ZBits) - 1
  <2>1. PICK t \in Int : Cong(f[j], t) /\ Cong(t, f[j]) /\ t < Gamma1 - Beta /\ -t < Gamma1 - Beta
    BY <1>0, Centred
  <2> DEFINE v == Gamma1 - t
             u == Gamma1 - f[j]
  <2>2. v \in 0 .. Q - 1 /\ v \in 0 .. Pow2(ZBits) - 1
    BY <1>0, <2>1, QPositive
  <2>3. u \in Int /\ v \in Int /\ Cong(u, v)
    <3>1. Cong(Gamma1, Gamma1) /\ Gamma1 \in Int /\ f[j] \in Int /\ Cong(f[j], t)
      BY <1>0, <2>1, CongRefl
    <3>2. Cong(Gamma1 - f[j], Gamma1 - t)
      BY <3>1, <2>1, CongAdd
    <3> QED BY <3>1, <3>2
  <2>4. u % Q = v % Q /\ v % Q = v
    <3> HIDE DEF u, v
    <3> QED BY <2>2, <2>3, CongEqual, QPositive
  <2>5. g[j] = u % Q
    OBVIOUS
  <2> HIDE DEF g, u
  <2> QED BY <2>1, <2>2, <2>4, <2>5
<1>2. UnpackZ(PackZ(f))[i] = Gamma1 - BitUnpack(BitPack(g, ZBits), ZBits)[i]
  BY DEF UnpackZ, PackZ
<1> HIDE DEF g
<1>3. BitUnpack(BitPack(g, ZBits), ZBits)[i] = g[i]
  BY <1>0, <1>1, PackingIsUndone
<1>4. PICK t \in Int : Cong(t, f[i]) /\ g[i] = Gamma1 - t
  BY <1>1
<1>5. UnpackZ(PackZ(f))[i] = t
  BY <1>0, <1>2, <1>3, <1>4
<1> QED BY <1>4, <1>5

-----------------------------------------------------------------------------
(* The packing of hints. *)

(* l lists, in order, the positions below n at which f is one. *)
Lists(l, f, n) ==
  /\ l \in Seq(Nat) /\ Len(l) = Sum(f, n)
  /\ \A p \in 1 .. Len(l) : l[p] \in 0 .. n - 1 /\ f[l[p]] = 1
  /\ \A x \in 0 .. n - 1 : f[x] = 1 => \E p \in 1 .. Len(l) : l[p] = x
  /\ \A p \in 2 .. Len(l) : l[p - 1] < l[p]

IsBits(f) == \A i \in Idx : f[i] \in {0, 1}

LEMMA BitsSummed ==
  ASSUME NEW f, IsBits(f), NEW n \in 0 .. N - 1
  PROVE  Sum(f, n) \in Int /\ Sum(f, n + 1) = Sum(f, n) + f[n] /\ f[n] \in {0, 1}
<1>1. Ints(f, n + 1)
  BY Degree DEF Ints, IsBits, Idx
<1>2. f[n] \in {0, 1} /\ n \in Nat
  BY Degree DEF IsBits, Idx
<1> QED BY <1>1, <1>2, SumNext

LEMMA ListsNext ==
  ASSUME NEW f, IsBits(f), NEW n \in 0 .. N - 1, NEW l, Lists(l, f, n)
  PROVE  Lists(IF f[n] = 1 THEN Append(l, n) ELSE l, f, n + 1)
<1>0. Sum(f, n) \in Int /\ Sum(f, n + 1) = Sum(f, n) + f[n] /\ f[n] \in {0, 1} /\ n \in Nat
  BY BitsSummed, Degree
<1>1. /\ l \in Seq(Nat) /\ Len(l) = Sum(f, n) /\ Len(l) \in Nat
      /\ \A p \in 1 .. Len(l) : l[p] \in 0 .. n - 1 /\ f[l[p]] = 1
      /\ \A x \in 0 .. n - 1 : f[x] = 1 => \E p \in 1 .. Len(l) : l[p] = x
      /\ \A p \in 2 .. Len(l) : l[p - 1] < l[p]
  BY DEF Lists
<1>2. CASE f[n] = 1
  <2> DEFINE a == Append(l, n)
  <2>1. /\ a \in Seq(Nat) /\ Len(a) = Len(l) + 1 /\ a[Len(l) + 1] = n
        /\ \A p \in 1 .. Len(l) : a[p] = l[p]
    BY <1>0, <1>1
  <2> HIDE DEF a
  <2>2. Len(a) = Sum(f, n + 1)
    BY <1>0, <1>1, <1>2, <2>1
  <2>3. ASSUME NEW p \in 1 .. Len(a) PROVE a[p] \in 0 .. n /\ f[a[p]] = 1
    <3>1. CASE p = Len(l) + 1
      BY <1>0, <1>2, <2>1, <3>1
    <3>2. CASE p # Len(l) + 1
      <4>1. p \in 1 .. Len(l)
        BY <1>1, <2>1, <3>2
      <4>2. a[p] = l[p] /\ l[p] \in 0 .. n - 1 /\ f[l[p]] = 1
        BY ONLY <1>1, <2>1, <4>1
      <4> QED BY ONLY <4>2, <1>0
    <3> QED BY <3>1, <3>2
  <2>4. ASSUME NEW x \in 0 .. n, f[x] = 1 PROVE \E p \in 1 .. Len(a) : a[p] = x
    <3>1. CASE x = n
      <4>1. Len(l) + 1 \in 1 .. Len(a)
        BY <1>1, <2>1
      <4> QED BY <2>1, <3>1, <4>1
    <3>2. CASE x # n
      <4>1. PICK p \in 1 .. Len(l) : l[p] = x
        BY <1>0, <1>1, <2>4, <3>2
      <4>2. p \in 1 .. Len(a) /\ a[p] = x
        BY <1>1, <2>1, <4>1
      <4> QED BY <4>2
    <3> QED BY <3>1, <3>2
  <2>5. ASSUME NEW p \in 2 .. Len(a) PROVE a[p - 1] < a[p]
    <3>1. CASE p = Len(l) + 1
      <4>1. p - 1 \in 1 .. Len(l)
        BY <1>1, <3>1
      <4>2. a[p - 1] = l[p - 1] /\ l[p - 1] \in 0 .. n - 1
        BY <1>1, <2>1, <4>1
      <4> QED BY <1>0, <2>1, <3>1, <4>2
    <3>2. CASE p # Len(l) + 1
      <4>1. p \in 2 .. Len(l) /\ p \in 1 .. Len(l) /\ p - 1 \in 1 .. Len(l)
        BY <1>1, <2>1, <3>2
      <4> QED BY <1>1, <2>1, <4>1
    <3> QED BY <3>1, <3>2
  <2>6. 0 .. (n + 1) - 1 = 0 .. n
    BY <1>0
  <2>7. Lists(a, f, n + 1)
    BY <2>1, <2>2, <2>3, <2>4, <2>5, <2>6 DEF Lists
  <2> QED BY <1>2, <2>7 DEF a
<1>3. CASE f[n] # 1
  <2>1. f[n] = 0
    BY <1>0, <1>3
  <2>2. Len(l) = Sum(f, n + 1)
    BY <1>0, <1>1, <2>1
  <2>3. \A x \in 0 .. (n + 1) - 1 : x \in 0 .. n - 1 \/ x = n
    BY <1>0
  <2>4. \A x \in 0 .. n - 1 : x \in 0 .. (n + 1) - 1
    BY <1>0
  <2>5. \A p \in 1 .. Len(l) : l[p] \in 0 .. (n + 1) - 1 /\ f[l[p]] = 1
    BY <1>1, <2>4
  <2>6. \A x \in 0 .. (n + 1) - 1 : f[x] = 1 => \E p \in 1 .. Len(l) : l[p] = x
    BY <1>1, <1>3, <2>3
  <2>7. Lists(l, f, n + 1)
    BY <1>1, <2>2, <2>5, <2>6 DEF Lists
  <2> QED BY <1>3, <2>7
<1> QED BY <1>2, <1>3

LEMMA OnesAre ==
  ASSUME NEW f, IsBits(f)
  PROVE  Lists(Ones(f), f, N)
<1> DEFINE V == Seq(Nat)
           G == [k \in 1 .. N |-> [v \in V |-> IF f[k - 1] = 1 THEN Append(v, k - 1) ELSE v]]
           b == <<>>
<1>1. \A k \in 1 .. N : \A v \in V : G[k][v] = IF f[k - 1] = 1 THEN Append(v, k - 1) ELSE v
  OBVIOUS
<1>2. b \in V /\ \A k \in 1 .. N : \A v \in V : Append(v, k - 1) \in V
  BY Degree
<1> HIDE DEF G, V
<1>3. Steps(G, N, V)
  BY <1>1, <1>2 DEF Steps
<1>4. PICK s : Solves(s, V, b, N, G)
  <2> HIDE DEF b
  <2> QED BY <1>2, <1>3, Degree, Recursion, Zenon
<1>5. /\ s \in [0 .. N -> V] /\ s[0] = <<>>
      /\ \A k \in 1 .. N : s[k] = G[k][s[k - 1]]
  BY <1>4 DEF Solves
<1>6. ASSUME NEW n \in 0 .. N - 1
      PROVE  s[n + 1] = IF f[n] = 1 THEN Append(s[n], n) ELSE s[n]
  <2>1. n + 1 \in 1 .. N /\ (n + 1) - 1 = n /\ n \in 0 .. N
    BY Degree
  <2>2. s[n] \in V
    BY <1>5, <2>1
  <2>3. s[n + 1] = G[n + 1][s[n]]
    BY <1>5, <2>1
  <2> QED BY <1>1, <2>1, <2>2, <2>3
<1>7. Ones(f) = s[N]
  <2> DEFINE Is(g) == g = [i \in 0 .. N |-> IF i = 0 THEN <<>>
                                            ELSE IF f[i - 1] = 1 THEN Append(g[i - 1], i - 1)
                                                                 ELSE g[i - 1]]
             g == CHOOSE r : Is(r)
  <2>1. Is(s)
    <3>1. \A k \in 0 .. N : s[k] = IF k = 0 THEN <<>>
                                   ELSE IF f[k - 1] = 1 THEN Append(s[k - 1], k - 1) ELSE s[k - 1]
      <4> TAKE k \in 0 .. N
      <4>1. CASE k = 0
        BY <1>5, <4>1
      <4>2. CASE k # 0
        <5>1. k - 1 \in 0 .. N - 1 /\ (k - 1) + 1 = k
          BY <4>2, Degree
        <5> QED BY <1>6, <4>2, <5>1
      <4> QED BY <4>1, <4>2
    <3>2. s = [k \in 0 .. N |-> s[k]]
      BY <1>5
    <3> QED BY <3>1, <3>2
  <2>2. Is(g)
    BY <2>1
  <2>3. Ones(f) = g[N]
    BY DEF Ones
  <2>4. g[0] = b /\ \A k \in 1 .. N : g[k] = IF f[k - 1] = 1 THEN Append(g[k - 1], k - 1) ELSE g[k - 1]
    <3> HIDE DEF g
    <3>1. 0 \in 0 .. N /\ \A k \in 1 .. N : k \in 0 .. N /\ k # 0
      BY Degree
    <3> QED BY <2>2, <3>1
  <2> HIDE DEF g
  <2>5. Follows(g, V, b, N, G)
    <3> SUFFICES ASSUME NEW k \in 1 .. N, g[k - 1] \in V PROVE g[k] = G[k][g[k - 1]]
      BY <2>4 DEF Follows
    <3>1. G[k][g[k - 1]] = IF f[k - 1] = 1 THEN Append(g[k - 1], k - 1) ELSE g[k - 1]
      BY <1>1
    <3> QED BY <2>4, <3>1
  <2>6. N \in 0 .. N
    BY Degree
  <2> HIDE DEF b
  <2>7. Agree(g, s, N)
    BY <1>2, <1>4, <2>5, <2>6, Degree, RecursionUnique
  <2> QED BY <2>3, <2>6, <2>7 DEF Agree
<1> DEFINE T == {n \in Nat : n <= N => Lists(s[n], f, n)}
<1>8. 0 \in T
  <2> SUFFICES Lists(s[0], f, 0)
    OBVIOUS
  <2>1. s[0] = <<>>
    BY <1>5
  <2>2. Sum(f, 0) = 0
    BY SumZero
  <2> QED BY <2>1, <2>2 DEF Lists
<1>9. ASSUME NEW n \in Nat, n \in T PROVE n + 1 \in T
  <2> SUFFICES ASSUME n + 1 <= N PROVE Lists(s[n + 1], f, n + 1)
    OBVIOUS
  <2>1. n \in 0 .. N - 1
    BY Degree
  <2>2. Lists(s[n], f, n)
    <3>1. n <= N
      BY <2>1, Degree
    <3> QED BY <1>9, <3>1
  <2> QED BY <1>6, <2>1, <2>2, ListsNext
<1> HIDE DEF T
<1>10. N \in T
  BY <1>8, <1>9, Degree, Induction
<1> QED BY <1>7, <1>10, Degree DEF T

(* The positions of one row after the other. *)
IsHint(h) == \A r \in Rows : IsBits(h[r])
Counts(h) == [r \in Rows |-> Sum(h[r], N)]

LEMMA PackedIs ==
  ASSUME NEW h, IsHint(h)
  PROVE  /\ Packed(h, 0) = <<>>
         /\ \A n \in 0 .. K : Packed(h, n) \in Seq(Nat)
         /\ \A r \in Rows : Packed(h, r + 1) = Packed(h, r) \o Ones(h[r])
<1> DEFINE V == Seq(Nat)
           G == [k \in 1 .. K |-> [v \in V |-> v \o Ones(h[k - 1])]]
           b == <<>>
<1>1. \A k \in 1 .. K : \A v \in V : G[k][v] = v \o Ones(h[k - 1])
  OBVIOUS
<1>2. b \in V /\ \A k \in 1 .. K : \A v \in V : v \o Ones(h[k - 1]) \in V
  <2>1. ASSUME NEW k \in 1 .. K, NEW v \in V PROVE v \o Ones(h[k - 1]) \in V
    <3>1. k - 1 \in Rows
      BY Degree DEF Rows
    <3>2. Ones(h[k - 1]) \in Seq(Nat)
      BY <3>1, OnesAre DEF IsHint, Lists
    <3> QED BY <3>2, ConcatProperties
  <2> QED BY <2>1
<1> HIDE DEF G, V
<1>3. Steps(G, K, V)
  BY <1>1, <1>2 DEF Steps
<1>4. PICK s : Solves(s, V, b, K, G)
  <2> HIDE DEF b
  <2> QED BY <1>2, <1>3, Degree, Recursion, Zenon
<1>5. /\ s \in [0 .. K -> V] /\ s[0] = <<>>
      /\ \A k \in 1 .. K : s[k] = G[k][s[k - 1]]
  BY <1>4 DEF Solves
<1>6. ASSUME NEW r \in Rows PROVE s[r + 1] = s[r] \o Ones(h[r])
  <2>1. r + 1 \in 1 .. K /\ (r + 1) - 1 = r /\ r \in 0 .. K
    BY Degree DEF Rows
  <2>2. s[r] \in V
    BY <1>5, <2>1
  <2>3. s[r + 1] = G[r + 1][s[r]]
    BY <1>5, <2>1
  <2> QED BY <1>1, <2>1, <2>2, <2>3
<1>7. ASSUME NEW n \in 0 .. K PROVE Packed(h, n) = s[n]
  <2> DEFINE Is(g) == g = [r \in 0 .. n |-> IF r = 0 THEN <<>> ELSE g[r - 1] \o Ones(h[r - 1])]
             g == CHOOSE x : Is(x)
             low == [k \in 0 .. n |-> s[k]]
  <2>1. Is(low)
    <3>1. \A k \in 0 .. n : low[k] = IF k = 0 THEN <<>> ELSE low[k - 1] \o Ones(h[k - 1])
      <4> TAKE k \in 0 .. n
      <4>1. CASE k = 0
        BY <1>5, <4>1
      <4>2. CASE k # 0
        <5>1. k - 1 \in Rows /\ (k - 1) + 1 = k /\ k - 1 \in 0 .. n
          BY <4>2, Degree DEF Rows
        <5>2. s[(k - 1) + 1] = s[k - 1] \o Ones(h[k - 1])
          BY <1>6, <5>1
        <5> QED BY <4>2, <5>1, <5>2
      <4> QED BY <4>1, <4>2
    <3> QED BY <3>1
  <2>2. Is(g)
    BY <2>1
  <2>3. Packed(h, n) = g[n]
    BY DEF Packed
  <2>4. g[0] = b /\ \A k \in 1 .. n : g[k] = g[k - 1] \o Ones(h[k - 1])
    <3> HIDE DEF g
    <3>1. 0 \in 0 .. n /\ \A k \in 1 .. n : k \in 0 .. n /\ k # 0
      BY Degree
    <3> QED BY <2>2, <3>1
  <2> HIDE DEF g
  <2>5. Follows(g, V, b, n, G)
    <3> SUFFICES ASSUME NEW k \in 1 .. n, g[k - 1] \in V PROVE g[k] = G[k][g[k - 1]]
      BY <2>4 DEF Follows
    <3>1. k \in 1 .. K
      BY Degree
    <3>2. G[k][g[k - 1]] = g[k - 1] \o Ones(h[k - 1])
      BY <1>1, <3>1
    <3> QED BY <2>4, <3>2
  <2> HIDE DEF b
  <2>6. Agree(g, s, n)
    BY <1>2, <1>4, <2>5, Degree, RecursionUnique
  <2>7. n \in 0 .. n
    BY Degree
  <2> QED BY <2>3, <2>6, <2>7 DEF Agree
<1>8. 0 \in 0 .. K /\ \A r \in Rows : r \in 0 .. K /\ r + 1 \in 0 .. K
  BY Degree DEF Rows
<1> QED BY <1>5, <1>6, <1>7, <1>8 DEF V

LEMMA PackedCounts ==
  ASSUME NEW h, IsHint(h)
  PROVE  /\ \A n \in 0 .. K : Len(Packed(h, n)) = Sum(Counts(h), n)
         /\ \A r \in Rows : /\ Lists(Ones(h[r]), h[r], N)
                            /\ Len(Packed(h, r + 1)) = Len(Packed(h, r)) + Len(Ones(h[r]))
                            /\ Len(Packed(h, r)) \in Nat
<1>1. ASSUME NEW r \in Rows
      PROVE  /\ Lists(Ones(h[r]), h[r], N) /\ Ones(h[r]) \in Seq(Nat)
             /\ Counts(h)[r] = Len(Ones(h[r])) /\ Len(Ones(h[r])) \in Nat
             /\ Packed(h, r) \in Seq(Nat) /\ Len(Packed(h, r)) \in Nat
             /\ Len(Packed(h, r + 1)) = Len(Packed(h, r)) + Len(Ones(h[r]))
  <2>1. Lists(Ones(h[r]), h[r], N) /\ r \in 0 .. K
    BY OnesAre, Degree DEF IsHint, Rows
  <2>2. Ones(h[r]) \in Seq(Nat) /\ Len(Ones(h[r])) = Sum(h[r], N)
    BY <2>1 DEF Lists
  <2>3. Packed(h, r) \in Seq(Nat) /\ Packed(h, r + 1) = Packed(h, r) \o Ones(h[r])
    BY <2>1, PackedIs
  <2>4. Counts(h)[r] = Sum(h[r], N)
    BY DEF Counts
  <2>5. Len(Packed(h, r) \o Ones(h[r])) = Len(Packed(h, r)) + Len(Ones(h[r]))
    BY <2>2, <2>3, ConcatProperties
  <2> QED BY <2>1, <2>2, <2>3, <2>4, <2>5
<1> DEFINE T == {n \in Nat : n <= K => Len(Packed(h, n)) = Sum(Counts(h), n)}
<1>2. 0 \in T
  BY PackedIs, SumZero
<1>3. ASSUME NEW n \in Nat, n \in T PROVE n + 1 \in T
  <2> SUFFICES ASSUME n + 1 <= K PROVE Len(Packed(h, n + 1)) = Sum(Counts(h), n + 1)
    OBVIOUS
  <2>1. n \in Rows
    BY Degree DEF Rows
  <2>2. Ints(Counts(h), n + 1)
    <3> SUFFICES ASSUME NEW r \in 0 .. (n + 1) - 1 PROVE Counts(h)[r] \in Int
      BY DEF Ints
    <3>1. r \in Rows
      BY Degree DEF Rows
    <3> QED BY <1>1, <3>1
  <2>3. Sum(Counts(h), n + 1) = Sum(Counts(h), n) + Counts(h)[n]
    BY <2>2, SumNext
  <2>4. Len(Packed(h, n)) = Sum(Counts(h), n)
    BY <1>3, Degree
  <2> QED BY <1>1, <2>1, <2>3, <2>4
<1> HIDE DEF T
<1>4. \A n \in 0 .. K : n \in T
  BY <1>2, <1>3, Induction
<1> QED BY <1>1, <1>4, Degree DEF T

(* What is packed for the first rows stays at its place. *)
LEMMA PackedStays ==
  ASSUME NEW h, IsHint(h), NEW m \in 0 .. K
  PROVE  /\ Len(Packed(h, m)) <= Len(Packed(h, K))
         /\ \A p \in 1 .. Len(Packed(h, m)) : Packed(h, K)[p] = Packed(h, m)[p]
<1> DEFINE Good(n) == /\ Len(Packed(h, m)) <= Len(Packed(h, n))
                      /\ \A p \in 1 .. Len(Packed(h, m)) : Packed(h, n)[p] = Packed(h, m)[p]
           T == {n \in Nat : m + n <= K => Good(m + n)}
<1>0. Len(Packed(h, m)) \in Nat /\ m \in Nat
  BY PackedIs, Degree
<1>1. 0 \in T
  BY <1>0
<1>2. ASSUME NEW n \in Nat, n \in T PROVE n + 1 \in T
  <2> DEFINE e == m + n
  <2>1. e \in Nat /\ m + (n + 1) = e + 1
    BY <1>0
  <2> SUFFICES ASSUME e + 1 <= K PROVE Good(e + 1)
    BY <2>1
  <2>2. e \in Rows /\ e \in 0 .. K /\ Good(e)
    BY <1>0, <1>2, Degree DEF Rows
  <2> HIDE DEF e
  <2>3. /\ Packed(h, e + 1) = Packed(h, e) \o Ones(h[e]) /\ Packed(h, e) \in Seq(Nat)
        /\ Ones(h[e]) \in Seq(Nat)
    <3>1. Lists(Ones(h[e]), h[e], N)
      BY <2>2, PackedCounts
    <3> QED BY <2>2, <3>1, PackedIs DEF Lists
  <2>4. /\ Len(Packed(h, e + 1)) = Len(Packed(h, e)) + Len(Ones(h[e]))
        /\ \A p \in 1 .. Len(Packed(h, e)) : Packed(h, e + 1)[p] = Packed(h, e)[p]
    <3> DEFINE u == Packed(h, e)
               v == Ones(h[e])
    <3>1. u \in Seq(Nat) /\ v \in Seq(Nat)
      BY <2>3
    <3> HIDE DEF u, v
    <3>2. /\ Len(u \o v) = Len(u) + Len(v) /\ Len(u) \in Nat /\ Len(v) \in Nat
          /\ \A p \in 1 .. Len(u) + Len(v) : (u \o v)[p] = IF p <= Len(u) THEN u[p] ELSE v[p - Len(u)]
      BY <3>1, ConcatProperties
    <3>3. \A p \in 1 .. Len(u) : (u \o v)[p] = u[p]
      BY <3>2
    <3> QED BY <2>3, <3>2, <3>3 DEF u, v
  <2>5. Len(Packed(h, e)) \in Nat /\ Len(Ones(h[e])) \in Nat
    BY <2>3
  <2>6. Good(e)
    BY <2>2
  <2> QED BY <1>0, <2>4, <2>5, <2>6
<1> HIDE DEF T
<1>3. K - m \in T /\ m + (K - m) = K
  <2>1. K - m \in Nat /\ m + (K - m) = K
    BY <1>0, Degree
  <2> QED BY <1>1, <1>2, <2>1, Induction
<1>4. Good(K)
  BY <1>3, Degree DEF T
<1> QED BY <1>4

(* A packed hint with at most Omega ones is well formed and unpacked as it *)
(* was.                                                                    *)
Offs(b, r) == IF r = 0 THEN 0 ELSE b[Omega + r]

LEMMA HintIsUndone ==
  ASSUME NEW h, h = [r \in Rows |-> [i \in Idx |-> h[r][i]]], IsHint(h), SumHint(h) <= Omega
  PROVE  ~HintMalformed(PackH(h)) /\ UnpackH(PackH(h)) = h
<1> DEFINE all == Packed(h, K)
           n == Len(all)
           Off(r) == Len(Packed(h, r))
           pad == [p \in 1 .. Omega - n |-> 0]
           cnt == [r \in 1 .. K |-> Off(r)]
           b == PackH(h)
<1>0. Omega \in Nat /\ K \in Nat /\ K \in 0 .. K
  <2>1. Omega \in Nat
    BY DilithiumAssumption
  <2> QED BY <2>1, Degree
<1>1. all \in Seq(Nat) /\ n \in Nat /\ n <= Omega
  <2>1. all \in Seq(Nat) /\ n = Sum(Counts(h), K)
    BY <1>0, PackedIs, PackedCounts
  <2>2. SumHint(h) = Sum(Counts(h), K)
    BY DEF SumHint, Counts
  <2> QED BY <2>1, <2>2
<1>2. \A r \in 0 .. K : Off(r) \in Nat /\ Off(r) <= n
  <2> TAKE r \in 0 .. K
  <2>1. Packed(h, r) \in Seq(Nat) /\ Off(r) <= n
    BY PackedIs, PackedStays
  <2> QED BY <2>1
<1>3. Off(0) = 0 /\ Off(K) = n
  BY PackedIs
<1> HIDE DEF all, n, Off
<1>4. pad \in Seq(Nat) /\ Len(pad) = Omega - n /\ \A p \in 1 .. Omega - n : pad[p] = 0
  <2>1. pad \in [1 .. Omega - n -> Nat] /\ Omega - n \in Nat
    BY <1>0, <1>1
  <2> QED BY <2>1
<1>5. cnt \in Seq(Nat) /\ Len(cnt) = K /\ \A r \in 1 .. K : cnt[r] = Off(r)
  <2>1. cnt \in [1 .. K -> Nat]
    BY <1>0, <1>2
  <2> QED BY <1>0, <2>1
<1>6. b = (all \o pad) \o cnt
  BY DEF PackH, all, n, Off
<1> HIDE DEF pad, cnt, b
<1> DEFINE head == all \o pad
<1>7. /\ head \in Seq(Nat) /\ Len(head) = Omega
      /\ \A p \in 1 .. Omega : head[p] = IF p <= n THEN all[p] ELSE pad[p - n]
  <2>1. /\ head \in Seq(Nat) /\ Len(head) = Len(all) + Len(pad)
        /\ \A p \in 1 .. Len(all) + Len(pad) : head[p] = IF p <= Len(all) THEN all[p] ELSE pad[p - Len(all)]
    BY <1>1, <1>4, ConcatProperties
  <2>2. Len(all) = n /\ Len(all) + Len(pad) = Omega
    BY <1>0, <1>1, <1>4 DEF n
  <2> QED BY <2>1, <2>2
<1> HIDE DEF head
<1>8. \A p \in 1 .. Omega + K : b[p] = IF p <= Omega THEN head[p] ELSE cnt[p - Omega]
  BY <1>5, <1>6, <1>7, ConcatProperties DEF head
<1>9. \A p \in 1 .. n : b[p] = all[p]
  BY <1>0, <1>1, <1>7, <1>8
<1>10. \A p \in n + 1 .. Omega : b[p] = 0
  <2> TAKE p \in n + 1 .. Omega
  <2>1. p \in 1 .. Omega /\ p \in 1 .. Omega + K /\ ~ (p <= n) /\ p <= Omega /\ p - n \in 1 .. Omega - n
    BY <1>0, <1>1
  <2> QED BY <1>4, <1>7, <1>8, <2>1
<1>11. \A r \in 0 .. K : Offs(b, r) = Off(r)
  <2> TAKE r \in 0 .. K
  <2>1. CASE r = 0
    BY <1>3, <2>1 DEF Offs
  <2>2. CASE r # 0
    <3>1. Omega + r \in 1 .. Omega + K /\ ~ (Omega + r <= Omega) /\ (Omega + r) - Omega = r /\ r \in 1 .. K
      BY <1>0, <2>2
    <3> QED BY <1>5, <1>8, <2>2, <3>1 DEF Offs
  <2> QED BY <2>1, <2>2
(* Row r lies between two counts. *)
<1>12. ASSUME NEW r \in Rows
       PROVE  /\ r \in 0 .. K /\ r + 1 \in 0 .. K /\ r \in Nat
              /\ Lists(Ones(h[r]), h[r], N) /\ Len(Ones(h[r])) \in Nat
              /\ Off(r + 1) = Off(r) + Len(Ones(h[r]))
              /\ \A j \in 1 .. Len(Ones(h[r])) : b[Off(r) + j] = Ones(h[r])[j]
  <2>1. r \in 0 .. K /\ r + 1 \in 0 .. K /\ r \in Nat
    BY Degree DEF Rows
  <2>2. Lists(Ones(h[r]), h[r], N) /\ Off(r + 1) = Off(r) + Len(Ones(h[r]))
    BY PackedCounts DEF Off
  <2>3. /\ Ones(h[r]) \in Seq(Nat) /\ Len(Ones(h[r])) \in Nat
        /\ Packed(h, r) \in Seq(Nat) /\ Packed(h, r + 1) = Packed(h, r) \o Ones(h[r])
    <3>1. Ones(h[r]) \in Seq(Nat)
      BY <2>2 DEF Lists
    <3>2. Packed(h, r) \in Seq(Nat) /\ Packed(h, r + 1) = Packed(h, r) \o Ones(h[r])
      BY <2>1, PackedIs
    <3>3. Len(Ones(h[r])) \in Nat
      BY <3>1, LenProperties
    <3> QED BY <3>1, <3>2, <3>3, Zenon
  <2>4. ASSUME NEW j \in 1 .. Len(Ones(h[r])) PROVE b[Off(r) + j] = Ones(h[r])[j]
    <3> DEFINE u == Packed(h, r)
               v == Ones(h[r])
               p == Off(r) + j
    <3>1. Len(u) = Off(r) /\ Off(r) \in Nat /\ Off(r + 1) <= n
      BY <1>2, <2>1 DEF Off
    <3>2. p \in 1 .. Off(r + 1) /\ p \in 1 .. Len(u) + Len(v) /\ ~ (p <= Len(u)) /\ p - Len(u) = j
          /\ p \in 1 .. n
      BY <1>1, <2>2, <2>3, <3>1
    <3>3. (u \o v)[p] = v[j]
      <4> HIDE DEF u, v, p
      <4>1. u \in Seq(Nat) /\ v \in Seq(Nat)
        BY <2>3 DEF u, v
      <4> QED BY <3>2, <4>1, ConcatProperties
    <3>4. all[p] = Packed(h, r + 1)[p]
      BY <2>1, <3>2, PackedStays DEF all, Off
    <3> HIDE DEF p
    <3> QED BY <1>9, <2>3, <3>2, <3>3, <3>4 DEF p
  <2> QED BY <2>1, <2>2, <2>3, <2>4
<1>13. ASSUME NEW r \in Rows PROVE ~ (Offs(b, r) > Offs(b, r + 1))
  <2>1. /\ Offs(b, r) = Off(r) /\ Offs(b, r + 1) = Off(r + 1) /\ Off(r) \in Nat
        /\ Off(r + 1) = Off(r) + Len(Ones(h[r])) /\ Len(Ones(h[r])) \in Nat
    BY <1>2, <1>11, <1>12
  <2> QED BY <2>1
<1>14. ~ (Offs(b, K) > Omega)
  BY <1>0, <1>1, <1>3, <1>11
<1>15. ASSUME NEW p \in Offs(b, K) + 1 .. Omega PROVE ~ (b[p] # 0)
  BY <1>0, <1>3, <1>10, <1>11
<1>16. ASSUME NEW r \in Rows, NEW p \in Offs(b, r) + 2 .. Offs(b, r + 1) PROVE ~ (b[p] < b[p - 1])
  <2> DEFINE j == p - Off(r)
             l == Ones(h[r])
  <2>1. j \in 2 .. Len(l) /\ j \in 1 .. Len(l) /\ j - 1 \in 1 .. Len(l)
        /\ Off(r) + j = p /\ Off(r) + (j - 1) = p - 1
    BY <1>2, <1>11, <1>12
  <2>2. b[p] = l[j] /\ b[p - 1] = l[j - 1]
    <3> HIDE DEF j
    <3> QED BY <1>12, <2>1
  <2>3. l[j - 1] < l[j] /\ l[j] \in Nat /\ l[j - 1] \in Nat
    <3>1. l \in Seq(Nat) /\ \A x \in 2 .. Len(l) : l[x - 1] < l[x]
      BY <1>12 DEF Lists
    <3>2. j \in 2 .. Len(l) /\ j \in 1 .. Len(l) /\ j - 1 \in 1 .. Len(l)
      BY ONLY <2>1
    <3> HIDE DEF j, l
    <3>3. l[j] \in Nat /\ l[j - 1] \in Nat
      BY ONLY <3>1, <3>2
    <3> QED BY ONLY <3>1, <3>2, <3>3
  <2> HIDE DEF j, l
  <2> QED BY ONLY <2>2, <2>3
<1>17. ~HintMalformed(b)
  <2>1. HintMalformed(b) <=>
          \/ \E r \in Rows : Offs(b, r) > Offs(b, r + 1)
          \/ Offs(b, K) > Omega
          \/ \E p \in Offs(b, K) + 1 .. Omega : b[p] # 0
          \/ \E r \in Rows : \E p \in Offs(b, r) + 2 .. Offs(b, r + 1) : b[p] < b[p - 1]
    BY DEF HintMalformed, Offs
  <2> QED BY <1>13, <1>14, <1>15, <1>16, <2>1
<1>18. ASSUME NEW r \in Rows, NEW i \in Idx
       PROVE  (\E p \in Offs(b, r) + 1 .. Offs(b, r + 1) : b[p] = i) <=> h[r][i] = 1
  <2> DEFINE l == Ones(h[r])
  <2>1. /\ Len(l) \in Nat /\ Off(r) \in Nat
        /\ \A j \in 1 .. Len(l) : h[r][l[j]] = 1
        /\ \A x \in 0 .. N - 1 : h[r][x] = 1 => \E j \in 1 .. Len(l) : l[j] = x
        /\ \A j \in 1 .. Len(l) : b[Off(r) + j] = l[j]
        /\ Offs(b, r) = Off(r) /\ Offs(b, r + 1) = Off(r) + Len(l)
    BY <1>2, <1>11, <1>12 DEF Lists
  <2> HIDE DEF l
  <2>2. ASSUME NEW p \in Offs(b, r) + 1 .. Offs(b, r + 1), b[p] = i PROVE h[r][i] = 1
    <3> DEFINE j == p - Off(r)
    <3>1. j \in 1 .. Len(l) /\ Off(r) + j = p
      BY <2>1
    <3>2. b[p] = l[j] /\ h[r][l[j]] = 1
      <4>1. b[Off(r) + j] = l[j] /\ h[r][l[j]] = 1
        BY ONLY <2>1, <3>1
      <4> QED BY ONLY <3>1, <4>1
    <3> QED BY ONLY <2>2, <3>2
  <2>3. ASSUME h[r][i] = 1 PROVE \E p \in Offs(b, r) + 1 .. Offs(b, r + 1) : b[p] = i
    <3>1. PICK j \in 1 .. Len(l) : l[j] = i
      BY <2>1, <2>3 DEF Idx
    <3>2. Off(r) + j \in Offs(b, r) + 1 .. Offs(b, r + 1) /\ b[Off(r) + j] = i
      BY <2>1, <3>1
    <3> QED BY <3>2
  <2> QED BY <2>2, <2>3
<1>19. UnpackH(b) = h
  <2>1. UnpackH(b) = [r \in Rows |-> [i \in Idx |->
          IF \E p \in Offs(b, r) + 1 .. Offs(b, r + 1) : b[p] = i THEN 1 ELSE 0]]
    BY DEF UnpackH, Offs
  <2>2. ASSUME NEW r \in Rows, NEW i \in Idx
        PROVE  (IF \E p \in Offs(b, r) + 1 .. Offs(b, r + 1) : b[p] = i THEN 1 ELSE 0) = h[r][i]
    <3>1. h[r][i] \in {0, 1}
      BY DEF IsHint, IsBits
    <3> QED BY <1>18, <3>1
  <2>3. UnpackH(b) = [r \in Rows |-> [i \in Idx |-> h[r][i]]]
    BY <2>1, <2>2
  <2> QED BY <2>3
<1> QED BY <1>17, <1>19 DEF b

-----------------------------------------------------------------------------
(* What the signer hashed and what the verifier recomputes. *)
SumsTo(w, u, v) == \A i \in Idx : Cong(w[i], u[i] + v[i])

Balanced(mz, w, cas, cp, cs, cd, ct) ==
    /\ mz \in Int /\ w \in Int /\ cas \in Int /\ cp \in Int /\ cs \in Int
    /\ cd \in Int /\ ct \in Int
    /\ Cong(mz, w + cas) /\ Cong(cp, cas + cs) /\ Cong(cp, cd + ct)

LEMMA CongBalance ==
  ASSUME NEW mz, NEW w, NEW cas, NEW cp, NEW cs, NEW cd, NEW ct,
         Balanced(mz, w, cas, cp, cs, cd, ct)
  PROVE  (mz - cd) % Q = (((w - cs) % Q) + ct) % Q
<1>0. /\ mz \in Int /\ w \in Int /\ cas \in Int /\ cp \in Int /\ cs \in Int
      /\ cd \in Int /\ ct \in Int
      /\ Cong(mz, w + cas) /\ Cong(cp, cas + cs) /\ Cong(cp, cd + ct)
  BY DEF Balanced
<1> DEFINE d == w - cs
           r == d % Q
           left == mz - cd
           right == r + ct
<1>1. d \in Int /\ r \in Int /\ Cong(r, d)
  <2>1. d \in Int
    BY <1>0
  <2> HIDE DEF d
  <2> QED BY <2>1, CongMod, QPositive
<1>2. PICK e1 \in Int : mz = w + cas + Q * e1
  BY <1>0 DEF Cong
<1>3. PICK e2 \in Int : cp = cas + cs + Q * e2
  BY <1>0 DEF Cong
<1>4. PICK e3 \in Int : cp = cd + ct + Q * e3
  BY <1>0 DEF Cong
<1>5. PICK e4 \in Int : r = d + Q * e4
  BY <1>1 DEF Cong
<1>6. left = right + Q * (((e1 - e2) + e3) - e4)
  <2> HIDE DEF r
  <2>1. Q * (((e1 - e2) + e3) - e4) = ((Q * e1 - Q * e2) + Q * e3) - Q * e4
    BY QPositive
  <2>2. Q * e1 \in Int /\ Q * e2 \in Int /\ Q * e3 \in Int /\ Q * e4 \in Int
    BY QPositive
  <2> QED BY <1>0, <1>1, <1>2, <1>3, <1>4, <1>5, <2>1, <2>2
<1>7. left \in Int /\ right \in Int
  BY <1>0, <1>1
<1> HIDE DEF left, right
<1>8. Cong(left, right)
  BY <1>6 DEF Cong
<1>9. left % Q = right % Q
  BY <1>7, <1>8, CongEqual
<1> QED BY <1>9 DEF left, right

(* A z - c t1 2^d is w - c s2 + c t0 whenever z is y + c s1 and t1 2^d +   *)
(* t0 is A s1 + s2, all as residues.                                       *)
Related(a, f, v, s1, s2, z, t, d, t0) ==
    /\ IsMat(a) /\ IsPoly(f) /\ IsVec(v, L) /\ IsVec(s1, L) /\ DOMAIN s1 = Cols
    /\ IsVec(s2, K) /\ IsVec(z, L) /\ IsVec(t, K) /\ IsVec(d, K) /\ IsVec(t0, K)
    /\ \A j \in Cols : SumsTo(z[j], v[j], Mul(f, s1[j]))
    /\ \A r \in Rows : SumsTo(t[r], MatVec(a, s1)[r], s2[r])
    /\ \A r \in Rows : SumsTo(t[r], d[r], t0[r])

LEMMA VerifierEquation ==
  ASSUME NEW a, NEW f, NEW v, NEW s1, NEW s2, NEW z, NEW t, NEW d, NEW t0,
         Related(a, f, v, s1, s2, z, t, d, t0), NEW r \in Rows, NEW i \in Idx
  PROVE  (MatVec(a, z)[r][i] - Mul(f, d[r])[i]) % Q
           = (((MatVec(a, v)[r][i] - Mul(f, s2[r])[i]) % Q) + Mul(f, t0[r])[i]) % Q
<1> DEFINE u == VScale(f, s1)
           g == MatVec(a, s1)[r]
<1>0. /\ IsMat(a) /\ IsPoly(f) /\ IsVec(v, L) /\ IsVec(s1, L) /\ DOMAIN s1 = Cols
      /\ IsVec(s2, K) /\ IsVec(z, L) /\ IsVec(t, K) /\ IsVec(d, K) /\ IsVec(t0, K)
      /\ \A j \in Cols : SumsTo(z[j], v[j], Mul(f, s1[j]))
      /\ SumsTo(t[r], g, s2[r]) /\ SumsTo(t[r], d[r], t0[r])
  BY DEF Related
<1>1. ASSUME NEW j \in 0 .. L - 1
      PROVE  j \in Cols /\ u[j] = Mul(f, s1[j]) /\ IsPoly(u[j])
  <2>1. j \in Cols /\ IsPoly(s1[j])
    BY <1>0 DEF Cols, IsVec
  <2> QED BY <1>0, <2>1, MulPoly DEF VScale
<1>2. IsVec(u, L)
  BY <1>1 DEF IsVec
<1>3. \A j \in Cols : \A x \in Idx : Cong(z[j][x], v[j][x] + u[j][x])
  BY <1>0, <1>1 DEF SumsTo, Cols
<1>4. MatVec(a, u)[r][i] = Mul(f, g)[i]
  BY <1>0, MatVecScales
<1>5. IsPoly(g) /\ IsPoly(s2[r]) /\ IsPoly(d[r]) /\ IsPoly(t0[r]) /\ IsPoly(t[r])
  <2>1. r \in 0 .. K - 1 /\ IsVec(MatVec(a, s1), K)
    BY <1>0, MatVecPoly DEF Rows
  <2> QED BY <1>0, <2>1 DEF IsVec
<1>6. \A x \in Idx : Cong(t[r][x], g[x] + s2[r][x])
  BY <1>0 DEF SumsTo
<1>7. \A x \in Idx : Cong(t[r][x], d[r][x] + t0[r][x])
  BY <1>0 DEF SumsTo
<1> HIDE DEF u, g
<1>8. /\ Cong(MatVec(a, z)[r][i], MatVec(a, v)[r][i] + Mul(f, g)[i])
      /\ MatVec(a, z)[r][i] \in Int /\ MatVec(a, v)[r][i] \in Int
  <2>1. Cong(MatVec(a, z)[r][i], MatVec(a, v)[r][i] + MatVec(a, u)[r][i])
    BY <1>0, <1>2, <1>3, MatVecAdds
  <2> QED BY <1>0, <1>4, <2>1, MatVecIs
<1>9. Cong(Mul(f, t[r])[i], Mul(f, g)[i] + Mul(f, s2[r])[i])
  BY <1>0, <1>5, <1>6, MulAdds
<1>10. Cong(Mul(f, t[r])[i], Mul(f, d[r])[i] + Mul(f, t0[r])[i])
  BY <1>0, <1>5, <1>7, MulAdds
<1>11. /\ Mul(f, t[r])[i] \in Int /\ Mul(f, g)[i] \in Int /\ Mul(f, s2[r])[i] \in Int
       /\ Mul(f, d[r])[i] \in Int /\ Mul(f, t0[r])[i] \in Int
  BY <1>0, <1>5, MulIs
<1> DEFINE mz  == MatVec(a, z)[r][i]
           w   == MatVec(a, v)[r][i]
           cas == Mul(f, g)[i]
           cp  == Mul(f, t[r])[i]
           cs  == Mul(f, s2[r])[i]
           cd  == Mul(f, d[r])[i]
           ct  == Mul(f, t0[r])[i]
<1>12. Balanced(mz, w, cas, cp, cs, cd, ct)
  BY <1>8, <1>9, <1>10, <1>11 DEF Balanced
<1> HIDE DEF mz, w, cas, cp, cs, cd, ct
<1>13. (mz - cd) % Q = (((w - cs) % Q) + ct) % Q
  BY <1>12, CongBalance
<1> QED BY <1>13 DEF mz, w, cs, cd, ct

-----------------------------------------------------------------------------
(* The packed keys give the secrets back. *)
LEMMA SecretsBack ==
  ASSUME NEW J, NEW v \in [J -> [Idx -> -Eta .. Eta]]
  PROVE  VPack(UnpackS, VPack(PackS, v)) = v
<1>1. VPack(UnpackS, VPack(PackS, v)) = [j \in J |-> UnpackS(PackS(v[j]))]
  BY DEF VPack
<1>2. ASSUME NEW j \in J PROVE UnpackS(PackS(v[j])) = v[j]
  <2>1. IsSmall(v[j], Eta) /\ v[j] = [i \in Idx |-> v[j][i]]
    BY DEF IsSmall
  <2>2. \A i \in Idx : UnpackS(PackS(v[j]))[i] = v[j][i]
    BY <2>1, SUndone
  <2>3. \A x : UnpackS(x) = [i \in Idx |-> UnpackS(x)[i]]
    BY DEF UnpackS
  <2>4. UnpackS(PackS(v[j])) = [i \in Idx |-> UnpackS(PackS(v[j]))[i]]
    BY <2>3
  <2> QED BY <2>1, <2>2, <2>4
<1> QED BY <1>1, <1>2

(* t comes back as its halves. *)
LEMMA HalvesBack ==
  ASSUME NEW t, DOMAIN t = Rows, IsVec(t, K), NEW r \in Rows, NEW i \in Idx
  PROVE  LET t1 == VPack(UnpackT1, VPack(PackT1, VPower2High(t)))
             t0 == VPack(UnpackT0, VPack(PackT0, VPower2Low(t)))
             d  == Each(LAMBDA x : (x * Pow2(D)) % Q, t1)
         IN  /\ DOMAIN t1 = Rows /\ DOMAIN t0 = Rows /\ DOMAIN d = Rows
             /\ t0[r][i] \in Int /\ d[r][i] \in Int /\ Cong(t[r][i], d[r][i] + t0[r][i])
<1> DEFINE high == [x \in Idx |-> Power2Round(t[r][x], Pow2(D))[1]]
           low  == [x \in Idx |-> Power2Round(t[r][x], Pow2(D))[2]]
           t1 == VPack(UnpackT1, VPack(PackT1, VPower2High(t)))
           t0 == VPack(UnpackT0, VPack(PackT0, VPower2Low(t)))
           d  == Each(LAMBDA x : (x * Pow2(D)) % Q, t1)
<1>1. /\ DOMAIN t1 = Rows /\ t1[r] = UnpackT1(PackT1(high))
      /\ DOMAIN t0 = Rows /\ t0[r] = UnpackT0(PackT0(low))
  BY DEF VPack, VPower2High, VPower2Low, Each
<1>2. DOMAIN d = Rows /\ d[r][i] = (t1[r][i] * Pow2(D)) % Q
  BY <1>1 DEF Each
<1> HIDE DEF t1, t0, d
<1>3. \A x \in Idx : t[r][x] \in Int
  BY DEF IsVec, IsPoly, Rows
<1>4. \A x \in Idx : /\ high[x] \in 0 .. Pow2(T1Bits) - 1 /\ high[x] \in Nat
                     /\ low[x] \in Int /\ low[x] > -Pow2(D - 1) /\ low[x] <= Pow2(D - 1)
                     /\ t[r][x] % Q = high[x] * Pow2(D) + low[x]
  BY <1>3, Power2RoundIs
<1> HIDE DEF high, low
<1>5. t1[r][i] = high[i] /\ t0[r][i] = low[i]
  <2>1. UnpackT1(PackT1(high))[i] = high[i]
    BY <1>4, T1Undone
  <2>2. UnpackT0(PackT0(low))[i] = low[i]
    BY <1>4, T0Undone
  <2> QED BY <1>1, <2>1, <2>2
<1> DEFINE hp == high[i] * Pow2(D)
           lo == low[i]
           tt == t[r][i]
<1>6. hp \in Int /\ lo \in Int /\ tt \in Int /\ tt % Q = hp + lo /\ d[r][i] = hp % Q
  BY <1>2, <1>3, <1>4, <1>5, DFacts
<1> HIDE DEF hp, lo, tt
<1>7. d[r][i] \in Int /\ Cong(hp, d[r][i])
  BY <1>6, CongMod, QPositive
<1>8. Cong(tt, d[r][i] + lo)
  <2>1. Cong(hp + lo, d[r][i] + lo)
    BY <1>6, <1>7, CongRefl, CongAdd
  <2>2. Cong(tt, hp + lo)
    BY <1>6, CongMod
  <2>3. hp + lo \in Int /\ d[r][i] + lo \in Int
    BY <1>6, <1>7
  <2> QED BY <1>6, <2>1, <2>2, <2>3, CongTrans
<1>9. t0[r][i] \in Int /\ Cong(t[r][i], d[r][i] + t0[r][i])
  BY <1>5, <1>6, <1>8 DEF lo, tt
<1> QED BY <1>1, <1>2, <1>7, <1>9 DEF t1, t0, d

-----------------------------------------------------------------------------
(* What sign lets out verifies. *)

LEMMA ConstantsAre ==
  /\ \A a \in Matrices : IsMat(a)
  /\ Secrets1 \subseteq [Cols -> [Idx -> -Eta .. Eta]]
  /\ Secrets2 \subseteq [Rows -> [Idx -> -Eta .. Eta]]
  /\ \A v \in [Cols -> MaskPolys] : IsVec(v, L) /\ DOMAIN v = Cols
<1>1. /\ Matrices \subseteq [Rows -> [Cols -> [Idx -> 0 .. Q - 1]]]
      /\ Secrets1 \subseteq [Cols -> [Idx -> -Eta .. Eta]]
      /\ Secrets2 \subseteq [Rows -> [Idx -> -Eta .. Eta]]
      /\ MaskPolys \subseteq [Idx -> -Gamma1 + 1 .. Gamma1] /\ Gamma1 \in Nat
  BY DilithiumAssumption
<1>2. ASSUME NEW a \in Matrices PROVE IsMat(a)
  <2>1. a \in [Rows -> [Cols -> [Idx -> 0 .. Q - 1]]]
    BY <1>1
  <2>2. \A r \in Rows : \A j \in Cols : \A i \in Idx : a[r][j][i] \in 0 .. Q - 1
    BY <2>1
  <2>3. \A x \in 0 .. Q - 1 : x \in Int
    BY QPositive
  <2> QED BY <2>2, <2>3 DEF IsMat, IsVec, IsPoly, Cols
<1>3. ASSUME NEW v \in [Cols -> MaskPolys] PROVE IsVec(v, L) /\ DOMAIN v = Cols
  <2>1. \A j \in Cols : v[j] \in [Idx -> -Gamma1 + 1 .. Gamma1]
    BY <1>1
  <2>2. \A x \in -Gamma1 + 1 .. Gamma1 : x \in Int
    BY <1>1
  <2> QED BY <2>1, <2>2 DEF IsVec, IsPoly, Cols
<1> QED BY <1>1, <1>2, <1>3

LEMMA SmallVec ==
  ASSUME NEW n \in Nat, NEW J, J = 0 .. n - 1, NEW v \in [J -> [Idx -> -Eta .. Eta]]
  PROVE  IsVec(v, n) /\ DOMAIN v = J /\ \A j \in J : IsSmall(v[j], Eta) /\ IsPoly(v[j])
<1>1. \A j \in J : \A i \in Idx : v[j][i] \in -Eta .. Eta
  OBVIOUS
<1>2. \A x \in -Eta .. Eta : x \in Int
  BY BetaNat
<1> QED BY <1>1, <1>2 DEF IsVec, IsPoly, IsSmall

(* The attempt as arithmetic: what the four tests and verify speak of, for *)
(* the secrets the keys were made of.                                      *)
LEMMA AttemptIs ==
  ASSUME SchemeInv, pc \in Left
  PROVE  \E s1 \in Secrets1, s2 \in Secrets2 :
           /\ IsMat(mat) /\ IsVec(y, L) /\ DOMAIN y = Cols /\ c \in Ball /\ IsPoly(c)
           /\ S1 = s1 /\ S2 = s2
           /\ T0 = VPack(UnpackT0, VPack(PackT0, VPower2Low(VAdd(MatVec(mat, s1), s2))))
           /\ pk.t1 = VPack(PackT1, VPower2High(VAdd(MatVec(mat, s1), s2)))
           /\ sk.tr = HashPk(pk)
<1>1. /\ mat \in Matrices /\ y \in [Cols -> MaskPolys] /\ c \in Ball
      /\ \E s1 \in Secrets1, s2 \in Secrets2 : KeyPair(mat, s1, s2, pk, sk)
  BY DEF SchemeInv, KeysMade, MaskChosen, BallChosen, Left, Attempted, Tried
<1>2. PICK s1 \in Secrets1, s2 \in Secrets2 : KeyPair(mat, s1, s2, pk, sk)
  BY <1>1
<1>3. IsPoly(c)
  BY <1>1 DEF Ball, IsPoly
<1>4. /\ pk.t1 = VPack(PackT1, VPower2High(VAdd(MatVec(mat, s1), s2)))
      /\ sk.tr = HashPk(pk)
      /\ sk.s1 = VPack(PackS, s1) /\ sk.s2 = VPack(PackS, s2)
      /\ sk.t0 = VPack(PackT0, VPower2Low(VAdd(MatVec(mat, s1), s2)))
  BY <1>2 DEF KeyPair
<1>5. S1 = s1 /\ S2 = s2
  <2>1. s1 \in [Cols -> [Idx -> -Eta .. Eta]] /\ s2 \in [Rows -> [Idx -> -Eta .. Eta]]
    BY ConstantsAre
  <2>2. S1 = VPack(UnpackS, VPack(PackS, s1)) /\ S2 = VPack(UnpackS, VPack(PackS, s2))
    BY <1>4 DEF S1, S2, VPack
  <2> QED BY <2>1, <2>2, SecretsBack
<1>6. T0 = VPack(UnpackT0, VPack(PackT0, VPower2Low(VAdd(MatVec(mat, s1), s2))))
  BY <1>4 DEF T0, VPack
<1> QED BY <1>1, <1>3, <1>4, <1>5, <1>6, ConstantsAre

LEMMA VerdictIsTrue ==
  ASSUME SchemeInv, pc = "verified", asked.m = call.m, asked.ctx = call.ctx
  PROVE  Accepts(asked.m, asked.ctx)
<1> DEFINE pub  == VPack(UnpackT1, pk.t1)
           d    == Each(LAMBDA x : (x * Pow2(D)) % Q, pub)
           z    == VPack(UnpackZ, sig.z)
           az   == VSub(MatVec(mat, z), VScale(c, d))
           v    == VAdd(R, CT0)
<1>1. PICK s1 \in Secrets1, s2 \in Secrets2 :
           /\ IsMat(mat) /\ IsVec(y, L) /\ DOMAIN y = Cols /\ c \in Ball /\ IsPoly(c)
           /\ S1 = s1 /\ S2 = s2
           /\ T0 = VPack(UnpackT0, VPack(PackT0, VPower2Low(VAdd(MatVec(mat, s1), s2))))
           /\ pk.t1 = VPack(PackT1, VPower2High(VAdd(MatVec(mat, s1), s2)))
           /\ sk.tr = HashPk(pk)
  BY AttemptIs DEF Left
<1> DEFINE t == VAdd(MatVec(mat, s1), s2)
<1>2. /\ IsVec(s1, L) /\ DOMAIN s1 = Cols
      /\ IsVec(s2, K) /\ DOMAIN s2 = Rows /\ \A r \in Rows : IsSmall(s2[r], Eta)
  <2>1. s1 \in [Cols -> [Idx -> -Eta .. Eta]] /\ s2 \in [Rows -> [Idx -> -Eta .. Eta]]
    BY ConstantsAre
  <2> QED BY <2>1, SmallVec, Degree DEF Rows, Cols
<1>3. /\ ~ZBad /\ ~R0Bad /\ ~CT0Bad /\ ~HintBad
      /\ sig.c_tilde = CTilde(MuOfCall, W1) /\ sig.z = VPack(PackZ, Z) /\ sig.h = PackH(Hint)
  BY DEF SchemeInv, LetOut, Left
(* z: the response, modulo q. *)
<1>4. DOMAIN Z = Cols /\ \A j \in Cols : \A i \in Idx :
        Z[j][i] = (y[j][i] + Mul(c, s1[j])[i]) % Q
  BY <1>1, <1>2 DEF Z, VAdd, VScale, Add
<1>5. ASSUME NEW j \in Cols, NEW i \in Idx
      PROVE  /\ Z[j][i] \in Int /\ Cong(Z[j][i], y[j][i] + Mul(c, s1[j])[i])
             /\ ~NormFails(Z[j][i], Gamma1 - Beta)
             /\ y[j][i] + Mul(c, s1[j])[i] \in Int
  <2>1. IsPoly(y[j]) /\ IsPoly(s1[j])
    BY <1>1, <1>2 DEF IsVec, Cols
  <2> DEFINE e == y[j][i] + Mul(c, s1[j])[i]
  <2>2. y[j][i] \in Int /\ Mul(c, s1[j])[i] \in Int
    BY <1>1, <2>1, MulIs DEF IsPoly
  <2>3. e \in Int
    BY <2>2
  <2>4. Z[j][i] = e % Q
    BY <1>4
  <2> HIDE DEF e
  <2>5. Z[j][i] \in Int /\ Cong(Z[j][i], e)
    BY <2>3, <2>4, CongMod, QPositive
  <2>6. ~NormFails(Z[j][i], Gamma1 - Beta)
    BY <1>3, <1>4 DEF ZBad, VNormFails
  <2> QED BY <2>3, <2>5, <2>6 DEF e
<1>6. DOMAIN z = Cols /\ \A j \in Cols : z[j] = UnpackZ(PackZ(Z[j]))
  BY <1>3, <1>4 DEF VPack
<1> HIDE DEF z
<1>7. ASSUME NEW j \in Cols, NEW i \in Idx
      PROVE  /\ z[j][i] \in Int /\ Cong(z[j][i], Z[j][i])
             /\ Cong(z[j][i], y[j][i] + Mul(c, s1[j])[i])
             /\ ~NormFails(z[j][i], Gamma1 - Beta)
  <2>1. \A x \in Idx : Z[j][x] \in Int /\ ~NormFails(Z[j][x], Gamma1 - Beta)
    BY <1>5
  <2>2. UnpackZ(PackZ(Z[j]))[i] \in Int /\ Cong(UnpackZ(PackZ(Z[j]))[i], Z[j][i])
    BY <2>1, ZUndone
  <2>3. z[j][i] \in Int /\ Cong(z[j][i], Z[j][i])
    BY <1>6, <2>2
  <2>4. Z[j][i] \in Int /\ y[j][i] + Mul(c, s1[j])[i] \in Int
        /\ Cong(Z[j][i], y[j][i] + Mul(c, s1[j])[i]) /\ ~NormFails(Z[j][i], Gamma1 - Beta)
    BY <1>5
  <2>5. Cong(z[j][i], y[j][i] + Mul(c, s1[j])[i])
    BY <2>3, <2>4, CongTrans
  <2>6. ~NormFails(z[j][i], Gamma1 - Beta)
    BY <2>3, <2>4, ResidueOnly
  <2> QED BY <2>3, <2>5, <2>6
<1>8. IsVec(z, L) /\ ~VNormFails(z, Gamma1 - Beta)
  <2>1. ~VNormFails(z, Gamma1 - Beta)
    BY <1>6, <1>7 DEF VNormFails
  <2>2. \A j \in 0 .. L - 1 : j \in Cols
    BY DEF Cols
  <2> QED BY <1>7, <2>1, <2>2 DEF IsVec, IsPoly
(* t: the sum the keys were made of, and its halves. *)
<1>9. DOMAIN t = Rows /\ \A r \in Rows : \A i \in Idx :
        t[r][i] = (MatVec(mat, s1)[r][i] + s2[r][i]) % Q
  <2>1. DOMAIN MatVec(mat, s1) = Rows
    BY DEF MatVec
  <2> HIDE DEF MatVec
  <2> QED BY <2>1 DEF VAdd, Add
<1> HIDE DEF t
<1>10. ASSUME NEW r \in Rows, NEW i \in Idx
       PROVE  /\ t[r][i] \in Int /\ Cong(t[r][i], MatVec(mat, s1)[r][i] + s2[r][i])
  <2> DEFINE e == MatVec(mat, s1)[r][i] + s2[r][i]
  <2>1. MatVec(mat, s1)[r][i] \in Int /\ s2[r][i] \in Int
    <3>1. IsPoly(s2[r])
      BY <1>2 DEF IsVec, Rows
    <3> QED BY <1>1, <1>2, <3>1, MatVecIs DEF IsPoly
  <2>2. e \in Int
    BY <2>1
  <2>3. t[r][i] = e % Q
    BY <1>9
  <2> HIDE DEF e
  <2>4. t[r][i] \in Int /\ Cong(t[r][i], e)
    BY <2>2, <2>3, CongMod, QPositive
  <2> QED BY <2>4 DEF e
<1>11. IsVec(t, K)
  BY <1>10 DEF IsVec, IsPoly, Rows
<1>12. ASSUME NEW r \in Rows, NEW i \in Idx
       PROVE  /\ DOMAIN T0 = Rows /\ DOMAIN d = Rows
              /\ T0[r][i] \in Int /\ d[r][i] \in Int /\ Cong(t[r][i], d[r][i] + T0[r][i])
  <2>1. /\ T0 = VPack(UnpackT0, VPack(PackT0, VPower2Low(t)))
        /\ d = Each(LAMBDA x : (x * Pow2(D)) % Q, VPack(UnpackT1, VPack(PackT1, VPower2High(t))))
    BY <1>1 DEF t, VPack, Each
  <2> HIDE DEF d
  <2> QED BY <1>9, <1>11, <2>1, HalvesBack
<1>13. 0 \in Rows /\ 0 \in Idx
  BY Degree DEF Rows, Idx
<1>14. /\ DOMAIN T0 = Rows /\ DOMAIN d = Rows /\ IsVec(T0, K) /\ IsVec(d, K)
  <2>1. DOMAIN T0 = Rows /\ DOMAIN d = Rows
    BY <1>12, <1>13
  <2> HIDE DEF d
  <2>2. \A r \in 0 .. K - 1 : r \in Rows
    BY DEF Rows
  <2> QED BY <1>12, <2>1, <2>2 DEF IsVec, IsPoly
<1> HIDE DEF d
(* What the verifier hashes is computed from R + CT0. *)
<1>15. ASSUME NEW r \in Rows, NEW i \in Idx
       PROVE  (MatVec(mat, z)[r][i] - Mul(c, d[r])[i]) % Q
                = (((MatVec(mat, y)[r][i] - Mul(c, s2[r])[i]) % Q) + Mul(c, T0[r])[i]) % Q
  <2>1. \A j \in Cols : SumsTo(z[j], y[j], Mul(c, s1[j]))
    BY <1>7 DEF SumsTo
  <2>2. \A x \in Rows : SumsTo(t[x], MatVec(mat, s1)[x], s2[x])
    BY <1>10 DEF SumsTo
  <2>3. \A x \in Rows : SumsTo(t[x], d[x], T0[x])
    BY <1>12 DEF SumsTo
  <2>4. Related(mat, c, y, s1, s2, z, t, d, T0)
    BY <1>1, <1>2, <1>8, <1>11, <1>14, <2>1, <2>2, <2>3 DEF Related
  <2> QED BY <2>4, VerifierEquation
<1>16. /\ DOMAIN W = Rows /\ DOMAIN R = Rows /\ DOMAIN CT0 = Rows /\ DOMAIN v = Rows
       /\ DOMAIN az = Rows
       /\ \A r \in Rows : \A i \in Idx :
            /\ W[r][i] = MatVec(mat, y)[r][i]
            /\ R[r][i] = (W[r][i] - Mul(c, s2[r])[i]) % Q
            /\ CT0[r][i] = Mul(c, T0[r])[i]
            /\ v[r][i] = (R[r][i] + CT0[r][i]) % Q
            /\ az[r][i] = (MatVec(mat, z)[r][i] - Mul(c, d[r])[i]) % Q
  <2>1. \A x : DOMAIN MatVec(mat, x) = Rows
    BY DEF MatVec
  <2>2. W = MatVec(mat, y)
    BY DEF W
  <2> HIDE DEF MatVec
  <2>3. DOMAIN CS2 = Rows /\ \A r \in Rows : CS2[r] = Mul(c, s2[r])
    BY <1>1, <1>2 DEF CS2, VScale
  <2>4. DOMAIN CT0 = Rows /\ \A r \in Rows : CT0[r] = Mul(c, T0[r])
    BY <1>14 DEF CT0, VScale
  <2>5. /\ DOMAIN R = Rows
        /\ \A r \in Rows : \A i \in Idx : R[r][i] = (W[r][i] - Mul(c, s2[r])[i]) % Q
    BY <2>1, <2>2, <2>3 DEF R, VSub, Sub
  <2>6. /\ DOMAIN v = Rows
        /\ \A r \in Rows : \A i \in Idx : v[r][i] = (R[r][i] + CT0[r][i]) % Q
    BY <2>5 DEF VAdd, Add
  <2>7. /\ DOMAIN az = Rows
        /\ \A r \in Rows : \A i \in Idx :
             az[r][i] = (MatVec(mat, z)[r][i] - Mul(c, d[r])[i]) % Q
    BY <1>14, <2>1 DEF VSub, Sub, VScale
  <2> QED BY <2>1, <2>2, <2>4, <2>5, <2>6, <2>7
<1> HIDE DEF v, az
<1>17. \A r \in Rows : \A i \in Idx : az[r][i] = v[r][i]
  BY <1>15, <1>16
(* The hint of a coefficient does its work. *)
<1>18. /\ DOMAIN Hint = Rows
       /\ Hint = [r \in Rows |-> [i \in Idx |-> MakeHint((-CT0[r][i]) % Q, v[r][i], Alpha)]]
  BY <1>16 DEF Hint, VMakeHint, VNeg, Neg, v
<1>19. Hint = [r \in Rows |-> [i \in Idx |-> Hint[r][i]]] /\ IsHint(Hint)
  BY <1>18 DEF IsHint, IsBits, MakeHint
<1>20. ~HintMalformed(PackH(Hint)) /\ UnpackH(PackH(Hint)) = Hint /\ SumHint(Hint) <= Omega
  <2>1. SumHint(Hint) <= Omega
    <3>1. ~ (SumHint(Hint) > Omega)
      BY <1>3 DEF HintBad
    <3>2. SumHint(Hint) \in Int /\ Omega \in Int
      <4>1. K \in 0 .. K
        BY Degree
      <4>2. Packed(Hint, K) \in Seq(Nat) /\ Len(Packed(Hint, K)) = Sum(Counts(Hint), K)
        BY <1>19, <4>1, PackedIs, PackedCounts
      <4>3. Omega \in Nat
        BY DilithiumAssumption
      <4> QED BY <4>2, <4>3 DEF SumHint, Counts
    <3> QED BY <3>1, <3>2
  <2> QED BY <1>19, <2>1, HintIsUndone
<1>21. ASSUME NEW r \in Rows, NEW i \in Idx
       PROVE  UseHint(Hint[r][i], az[r][i], Alpha) = HighBits(W[r][i], Alpha)
  <2> DEFINE s  == Raw(c, s2[r], i)
             cs == Mul(c, s2[r])[i]
             ct == CT0[r][i]
             w  == W[r][i]
             r0 == R[r][i]
             vv == v[r][i]
  <2>1. s \in Int /\ s <= Beta /\ -s <= Beta /\ cs \in Int /\ Cong(cs, s)
    <3>1. c \in Ball /\ IsSmall(s2[r], Eta)
      BY <1>1, <1>2
    <3>2. IsPoly(c) /\ IsPoly(s2[r]) /\ Raw(c, s2[r], i) \in Int
          /\ Raw(c, s2[r], i) <= Beta /\ -Raw(c, s2[r], i) <= Beta
      BY <3>1, BallTimes
    <3> QED BY <3>2, MulIs
  <2>2. w \in Int /\ ct \in Int
    <3>1. IsPoly(T0[r])
      BY <1>14 DEF IsVec, Rows
    <3> QED BY <1>1, <1>16, <3>1, MatVecIs, MulIs
  <2>3. ~NormFails(ct, Gamma2)
    BY <1>3, <1>16 DEF CT0Bad, VNormFails
  <2>4. ~NormFails(LowBits(r0, Alpha), Gamma2 - Beta)
    BY <1>3, <1>16 DEF R0Bad, VNormFails, VLowBits, Each
  <2>5. r0 = (w - cs) % Q /\ vv = (r0 + ct) % Q
    BY <1>16
  <2>6. Hint[r][i] = MakeHint((-ct) % Q, vv, Alpha) /\ az[r][i] = vv
    BY <1>17, <1>18
  <2> HIDE DEF s, cs, ct, w, r0, vv
  <2>7. UseHint(MakeHint((-ct) % Q, vv, Alpha), vv, Alpha) = HighBits(w, Alpha)
    BY <2>1, <2>2, <2>3, <2>4, <2>5, CoefficientRecovered
  <2> QED BY <2>6, <2>7 DEF w
<1>22. VUseHint(Hint, az) = W1
  <2>1. VUseHint(Hint, az) = [r \in Rows |-> [i \in Idx |-> UseHint(Hint[r][i], az[r][i], Alpha)]]
    BY <1>16 DEF VUseHint
  <2>2. W1 = [r \in Rows |-> [i \in Idx |-> HighBits(W[r][i], Alpha)]]
    BY <1>16 DEF W1, VHighBits, Each
  <2> QED BY <1>21, <2>1, <2>2
<1>23. MuOfCall = Mu(HashPk(pk), asked.m, asked.ctx)
  BY <1>1 DEF MuOfCall
<1>24. sig.c_tilde = CTilde(Mu(HashPk(pk), asked.m, asked.ctx), VUseHint(UnpackH(sig.h), az))
  BY <1>3, <1>20, <1>22, <1>23
<1> QED BY <1>3, <1>8, <1>20, <1>24 DEF Accepts, az, d, z

(* A signature verifies for the message and context it was made for, with  *)
(* every parameter set, key, mask and challenge, directly or through mu:   *)
(* the tests of _sign_internal leave exactly what _verify_internal accepts *)
(* after packing and unpacking.                                            *)
THEOREM SignaturesVerify == ReferenceSpec => []SignedVerifies
<1>1. SchemeInv => SignedVerifies
  <2> SUFFICES ASSUME SchemeInv, pc = "verified", asked.m = call.m, asked.ctx = call.ctx
               PROVE  verdict
    BY DEF SignedVerifies
  <2>1. Accepts(asked.m, asked.ctx)
    BY VerdictIsTrue
  <2> QED BY <2>1 DEF SchemeInv, Answered
<1> QED BY <1>1, SchemeIsKept, PTL


(* The constants of the samplers. *)
LEMMA SamplerFacts ==
  /\ Block \in Nat /\ Block >= 1 /\ Out \in Nat /\ Out >= 1 /\ MinBlock \in Nat /\ MinBlock >= 1
  /\ SamplerN \in Nat /\ SamplerN >= 1 /\ SamplerTau \in Nat /\ SamplerTau >= 1
  /\ HalfBits \in Nat /\ HalfBits >= 1 /\ SignBytes \in Nat /\ SignBytes >= 1
  /\ Period \in Nat /\ Period >= 1
  /\ SamplerQ \in Nat /\ SamplerEta \in Nat /\ SamplerGamma1 \in Nat /\ SamplerZBits \in Nat
  /\ MinSpare \in Nat
  /\ ByteValues \subseteq 0 .. S!Byte - 1
  /\ SamplerTau <= SamplerN /\ SamplerTau <= SignBytes * S!Bits /\ SignBytes <= MinBlock
  /\ (SamplerN * SamplerZBits) % S!Bits = 0
<1>1. {Block, Out, MinBlock} \subseteq Nat \ {0}
  BY ReferenceAssumption DEF S!SamplersAssumption, S!ReaderAssumption
<1>2. {SamplerN, SamplerTau, HalfBits, SignBytes, Period} \subseteq Nat \ {0}
  BY ReferenceAssumption DEF S!SamplersAssumption
<1>3. {SamplerQ, SamplerEta, SamplerGamma1, SamplerZBits, MinSpare} \subseteq Nat
  BY ReferenceAssumption DEF S!SamplersAssumption
<1>4. /\ ByteValues \subseteq 0 .. S!Byte - 1
      /\ SamplerTau <= SamplerN /\ SamplerTau <= SignBytes * S!Bits /\ SignBytes <= MinBlock
      /\ (SamplerN * SamplerZBits) % S!Bits = 0
  BY ReferenceAssumption DEF S!SamplersAssumption
<1>5. Block \in Nat /\ Block >= 1 /\ Out \in Nat /\ Out >= 1 /\ MinBlock \in Nat /\ MinBlock >= 1
  BY ONLY <1>1
<1>6. /\ SamplerN \in Nat /\ SamplerN >= 1 /\ SamplerTau \in Nat /\ SamplerTau >= 1
      /\ HalfBits \in Nat /\ HalfBits >= 1 /\ SignBytes \in Nat /\ SignBytes >= 1
      /\ Period \in Nat /\ Period >= 1
  BY ONLY <1>2
<1>7. /\ SamplerQ \in Nat /\ SamplerEta \in Nat /\ SamplerGamma1 \in Nat /\ SamplerZBits \in Nat
      /\ MinSpare \in Nat
  BY ONLY <1>3
<1> QED BY ONLY <1>4, <1>5, <1>6, <1>7

(* A byte has 2^Bits values, and the fields of a mask are its bits. *)
LEMMA ByteFacts ==
  /\ S!Bits \in Nat /\ S!Bits >= 2
  /\ S!Nibble \in Nat /\ S!Nibble >= 2 /\ S!Byte \in Nat /\ S!Byte >= 1
<1>1. S!Bits \in Nat /\ S!Bits >= 2
  BY SamplerFacts DEF S!Bits
<1>2. S!Byte \in Nat /\ S!Byte >= 1
  BY <1>1, Pow2Is DEF S!Byte
<1>3. S!Nibble \in Nat /\ S!Nibble >= 2
  <2>1. HalfBits - 1 \in Nat /\ (HalfBits - 1) + 1 = HalfBits
    BY SamplerFacts
  <2>2. Pow2(HalfBits - 1) \in Nat /\ Pow2(HalfBits - 1) >= 1 /\ Pow2(HalfBits) = 2 * Pow2(HalfBits - 1)
    BY <2>1, Pow2Is
  <2> QED BY ONLY <2>2 DEF S!Nibble
<1> QED BY <1>1, <1>2, <1>3

-----------------------------------------------------------------------------
(* Sequences given as functions; intervals of stream positions. *)
LEMMA AsSeq ==
  ASSUME NEW X, NEW n \in Nat, NEW f \in [1 .. n -> X]
  PROVE  f \in Seq(X) /\ Len(f) = n
<1>1. f \in Seq(X)
  BY ONLY n \in Nat, f \in [1 .. n -> X], SeqDef
<1>2. Len(f) \in Nat /\ DOMAIN f = 1 .. Len(f)
  BY ONLY <1>1, LenProperties
<1>3. 1 .. n = 1 .. Len(f)
  BY ONLY <1>2, f \in [1 .. n -> X]
<1>4. /\ n >= 1 => n \in 1 .. Len(f)
      /\ Len(f) >= 1 => Len(f) \in 1 .. n
  BY ONLY <1>2, <1>3, n \in Nat
<1>5. Len(f) = n
  BY ONLY <1>2, <1>4, n \in Nat
<1> QED BY <1>1, <1>5

LEMMA IntervalIs ==
  ASSUME NEW a \in Int, NEW b \in Int, a <= b
  PROVE  /\ S!Interval(a, b) \in Seq(Int) /\ Len(S!Interval(a, b)) = b - a
         /\ DOMAIN S!Interval(a, b) = 1 .. b - a
         /\ \A k \in 1 .. b - a : S!Interval(a, b)[k] = a + k - 1
<1> DEFINE x == S!Interval(a, b)
<1>1. x = [k \in 1 .. b - a |-> a + k - 1]
  BY DEF S!Interval
<1>2. b - a \in Nat /\ x \in [1 .. b - a -> Int]
  BY ONLY <1>1, a \in Int, b \in Int, a <= b
<1>3. DOMAIN x = 1 .. b - a /\ \A k \in 1 .. b - a : x[k] = a + k - 1
  BY ONLY <1>1
<1> HIDE DEF x
<1>4. x \in Seq(Int) /\ Len(x) = b - a
  BY ONLY <1>2, AsSeq
<1> QED BY <1>3, <1>4 DEF x

LEMMA IntervalJoins ==
  ASSUME NEW a \in Int, NEW b \in Int, NEW cur \in Int, a <= b, b <= cur
  PROVE  S!Interval(a, b) \o S!Interval(b, cur) = S!Interval(a, cur)
<1> DEFINE x == S!Interval(a, b)
           y1 == S!Interval(b, cur)
           z == S!Interval(a, cur)
<1>0. a <= cur
  OBVIOUS
<1>1. /\ x \in Seq(Int) /\ Len(x) = b - a /\ \A k \in 1 .. b - a : x[k] = a + k - 1
      /\ y1 \in Seq(Int) /\ Len(y1) = cur - b /\ \A k \in 1 .. cur - b : y1[k] = b + k - 1
      /\ z \in Seq(Int) /\ Len(z) = cur - a /\ \A k \in 1 .. cur - a : z[k] = a + k - 1
  BY <1>0, IntervalIs
<1> HIDE DEF x, y1, z
<1> DEFINE w == x \o y1
<1>2. /\ w \in Seq(Int) /\ Len(w) = Len(x) + Len(y1)
      /\ \A i \in 1 .. Len(x) + Len(y1) : w[i] = IF i <= Len(x) THEN x[i] ELSE y1[i - Len(x)]
  BY ONLY <1>1, ConcatProperties
<1> HIDE DEF w
<1>3. Len(w) = Len(z) /\ (b - a) + (cur - b) = cur - a
  <2>1. (b - a) + (cur - b) = cur - a
    BY ONLY a \in Int, b \in Int, cur \in Int
  <2>2. Len(w) = Len(x) + Len(y1)
    BY ONLY <1>2
  <2>3. Len(x) = b - a /\ Len(y1) = cur - b /\ Len(z) = cur - a
    BY ONLY <1>1
  <2> QED BY ONLY <2>1, <2>2, <2>3
<1>4. \A k \in 1 .. Len(w) : w[k] = z[k]
  <2> TAKE k \in 1 .. Len(w)
  <2>0. k \in 1 .. cur - a /\ k \in Int
    BY ONLY <1>1, <1>3, k \in 1 .. Len(w)
  <2>1. w[k] = IF k <= b - a THEN x[k] ELSE y1[k - (b - a)]
    BY ONLY <1>1, <1>2, <1>3, <2>0
  <2>2. z[k] = a + k - 1
    BY ONLY <1>1, <2>0
  <2>3. CASE k <= b - a
    BY ONLY <1>1, <2>0, <2>1, <2>2, <2>3, a \in Int, b \in Int
  <2>4. CASE ~ (k <= b - a)
    <3>1. k - (b - a) \in 1 .. cur - b /\ b + (k - (b - a)) - 1 = a + k - 1
      BY ONLY <2>0, <2>4, a \in Int, b \in Int, cur \in Int
    <3>2. y1[k - (b - a)] = b + (k - (b - a)) - 1
      BY ONLY <1>1, <3>1
    <3> QED BY ONLY <2>1, <2>2, <2>4, <3>1, <3>2
  <2> QED BY ONLY <2>3, <2>4
<1>5. w = z
  BY ONLY <1>1, <1>2, <1>3, <1>4, SeqEqual
<1> QED BY <1>5 DEF w, x, y1, z

-----------------------------------------------------------------------------
(* The buffer of the Shake wrapper grows until the read fits. *)
LEMMA GrownFits ==
  ASSUME NEW len \in Nat, len >= 1, NEW need \in Nat
  PROVE  S!Grown(len, need) \in Nat /\ S!Grown(len, need) >= 1 /\ S!Grown(len, need) >= need
<1> DEFINE Is(g) == g = [k \in 0 .. need |-> IF k = 0 THEN len ELSE 2 * g[k - 1]]
           f == CHOOSE g : Is(g)
           r == [k \in 0 .. need |-> len * Pow2(k)]
           turns == CHOOSE k \in 0 .. need : f[k] >= need /\ (k > 0 => ~ (f[k - 1] >= need))
<1>1. S!Grown(len, need) = f[turns]
  BY DEF S!Grown
<1>2. Is(r)
  <2>1. \A k \in 0 .. need : r[k] = IF k = 0 THEN len ELSE 2 * r[k - 1]
    <3> TAKE k \in 0 .. need
    <3>1. CASE k = 0
      <4>1. Pow2(0) = 1
        BY Pow2Is
      <4> QED BY ONLY <3>1, <4>1, len \in Nat, need \in Nat
    <3>2. CASE k # 0
      <4>1. k - 1 \in Nat /\ (k - 1) + 1 = k /\ k - 1 \in 0 .. need
        BY <3>2
      <4>2. Pow2(k - 1) \in Nat /\ Pow2(k) = 2 * Pow2(k - 1)
        BY <4>1, Pow2Is
      <4>3. len * (2 * Pow2(k - 1)) = 2 * (len * Pow2(k - 1))
        BY ONLY <4>2, len \in Nat
      <4> QED BY ONLY <3>2, <4>1, <4>2, <4>3
    <3> QED BY <3>1, <3>2
  <2> QED BY ONLY <2>1
<1>3. Is(f)
  BY ONLY <1>2
<1> HIDE DEF f
<1>4. f[0] = len /\ \A k \in 1 .. need : f[k] = 2 * f[k - 1]
  BY ONLY <1>3, need \in Nat
<1> HIDE DEF Is, r
<1> DEFINE T == {k \in Nat : k <= need => f[k] \in Nat /\ f[k] >= k + 1}
           V == {k \in Nat : k <= need =>
                   \/ \E j \in 0 .. k : f[j] >= need /\ (j > 0 => ~ (f[j - 1] >= need))
                   \/ ~ (f[k] >= need)}
<1>5. 0 \in T
  BY <1>4
<1>6. \A k \in Nat : k \in T => k + 1 \in T
  <2> SUFFICES ASSUME NEW k \in Nat, k \in T, k + 1 <= need
               PROVE  f[k + 1] \in Nat /\ f[k + 1] >= (k + 1) + 1
    OBVIOUS
  <2>1. f[k] \in Nat /\ f[k] >= k + 1 /\ k + 1 \in 1 .. need /\ (k + 1) - 1 = k
    BY need \in Nat
  <2>2. f[k + 1] = 2 * f[k]
    BY ONLY <1>4, <2>1
  <2> QED BY ONLY <2>1, <2>2, k \in Nat
<1>7. 0 \in V
  <2>1. 0 \in 0 .. 0 /\ ~ (0 > 0)
    OBVIOUS
  <2> QED BY ONLY <2>1
<1>8. \A k \in Nat : k \in V => k + 1 \in V
  <2> SUFFICES ASSUME NEW k \in Nat, k \in V, k + 1 <= need
               PROVE  \/ \E j \in 0 .. k + 1 : f[j] >= need /\ (j > 0 => ~ (f[j - 1] >= need))
                      \/ ~ (f[k + 1] >= need)
    OBVIOUS
  <2>1. \/ \E j \in 0 .. k : f[j] >= need /\ (j > 0 => ~ (f[j - 1] >= need))
        \/ ~ (f[k] >= need)
    BY need \in Nat
  <2>2. 0 .. k \subseteq 0 .. k + 1 /\ k + 1 \in 0 .. k + 1 /\ (k + 1) - 1 = k
    OBVIOUS
  <2> QED BY ONLY <2>1, <2>2
<1> HIDE DEF T, V
<1>9. Nat \subseteq T /\ Nat \subseteq V
  <2>1. Nat \subseteq T
    BY ONLY <1>5, <1>6, Induction
  <2>2. Nat \subseteq V
    BY ONLY <1>7, <1>8, Induction
  <2> QED BY ONLY <2>1, <2>2
<1>10. \A k \in 0 .. need : f[k] \in Nat /\ f[k] >= k + 1
  BY <1>9 DEF T
<1>11. \E j \in 0 .. need : f[j] >= need /\ (j > 0 => ~ (f[j - 1] >= need))
  <2>1. need \in V /\ need \in 0 .. need /\ need <= need
    BY <1>9
  <2>2. f[need] >= need
    BY ONLY <2>1, <1>10, need \in Nat
  <2> QED BY ONLY <2>1, <2>2 DEF V
<1>12. turns \in 0 .. need /\ f[turns] >= need
  BY ONLY <1>11
<1> HIDE DEF turns
<1>13. f[turns] \in Nat /\ f[turns] >= 1
  BY ONLY <1>10, <1>12, need \in Nat
<1> QED BY ONLY <1>1, <1>12, <1>13

LEMMA MinPair ==
  ASSUME NEW a \in Int, NEW b \in Int, a <= b
  PROVE  S!Min({a, b}) = a
<1>1. \A y1 \in {a, b} : a <= y1
  OBVIOUS
<1>2. \A x \in {a, b} : (\A y1 \in {a, b} : x <= y1) => x = a
  OBVIOUS
<1>3. S!Min({a, b}) = CHOOSE x \in {a, b} : \A y1 \in {a, b} : x <= y1
  BY DEF S!Min
<1> QED BY ONLY <1>1, <1>2, <1>3

(* Where each reader stands after cur bytes of the stream. *)
ShakeAt(r, cur)  == r \in [index : {cur}, len : Nat \ {0}]
KeccakAt(r, cur) == /\ r \in [counter : Nat, pos : Nat, len : Nat] /\ r.pos <= r.len
                    /\ r.counter * Out - (r.len - r.pos) = cur
DigestAt(r, cur) == r \in [index : {cur}, len : Nat \ {0}] /\ cur <= r.len

LEMMA ShakeReads ==
  ASSUME NEW cur \in Nat, NEW n \in Nat, NEW r, ShakeAt(r, cur)
  PROVE  S!ShakePositions(r, n) = S!Interval(cur, cur + n) /\ ShakeAt(S!ShakeAfter(r, n), cur + n)
<1> DEFINE len == S!Grown(r.len, r.index + n)
<1>1. r.index = cur /\ r.len \in Nat /\ r.len >= 1 /\ cur + n \in Nat
  BY DEF ShakeAt
<1>2. len \in Nat /\ len >= 1 /\ len >= cur + n
  BY ONLY <1>1, GrownFits
<1>3. /\ S!ShakePositions(r, n) = S!Interval(r.index, S!Min({r.index + n, len}))
      /\ S!ShakeAfter(r, n) = [index |-> r.index + n, len |-> len]
  BY DEF S!ShakePositions, S!ShakeAfter
<1> HIDE DEF len
<1>4. S!Min({cur + n, len}) = cur + n
  BY ONLY <1>1, <1>2, MinPair
<1> QED BY ONLY <1>1, <1>2, <1>3, <1>4 DEF ShakeAt

LEMMA DigestReads ==
  ASSUME NEW cur \in Nat, NEW n \in Nat, NEW r, DigestAt(r, cur), n <= 1 \/ cur + n <= r.len
  PROVE  S!MinPositions(r, n) = S!Interval(cur, cur + n) /\ DigestAt(S!MinAfter(r, n), cur + n)
<1> DEFINE len == IF r.index >= r.len THEN 2 * r.len ELSE r.len
<1>1. r.index = cur /\ r.len \in Nat /\ r.len >= 1 /\ cur <= r.len
  BY DEF DigestAt
<1>2. len \in Nat /\ len >= 1 /\ len >= cur + n
  BY <1>1
<1>3. S!MinAfter(r, n) = [index |-> r.index + n, len |-> len]
  BY DEF S!MinAfter
<1>4. S!MinPositions(r, n) = S!Interval(r.index, S!Min({r.index + n, S!MinAfter(r, n).len}))
  BY DEF S!MinPositions
<1> HIDE DEF len
<1>5. S!Min({cur + n, len}) = cur + n
  BY ONLY <1>2, cur \in Nat, n \in Nat, MinPair
<1> QED BY ONLY <1>1, <1>2, <1>3, <1>4, <1>5 DEF DigestAt

LEMMA KeccakReads ==
  ASSUME NEW cur \in Nat, NEW n \in Nat, NEW r, KeccakAt(r, cur)
  PROVE  S!KeccakPositions(r, n) = S!Interval(cur, cur + n) /\ KeccakAt(S!KeccakAfter(r, n), cur + n)
<1> DEFINE left   == r.len - r.pos
           end    == r.counter * Out
           fresh  == S!Fresh(r, n)
           blocks == S!Blocks(r, n)
<1>1. /\ r = [counter |-> r.counter, pos |-> r.pos, len |-> r.len]
      /\ r.counter \in Nat /\ r.pos \in Nat /\ r.len \in Nat /\ r.pos <= r.len /\ end - left = cur
  BY DEF KeccakAt
<1>2. Out \in Nat /\ Out >= 1
  BY SamplerFacts
<1>3. end \in Nat /\ left \in Nat
  BY ONLY <1>1, <1>2
<1>4. fresh = IF n > left THEN n - left ELSE 0
  BY DEF S!Fresh, S!Left
<1>5. S!KeccakPositions(r, n) =
        S!Interval(end - left, end - left + n - fresh) \o S!Interval(end, end + fresh)
  BY DEF S!KeccakPositions, S!Left
<1>6. blocks = (fresh + Out - 1) \div Out
  BY DEF S!Blocks
<1>7. S!KeccakAfter(r, n) =
        IF fresh = 0 THEN [r EXCEPT !.pos = @ + n]
        ELSE [counter |-> r.counter + blocks, pos |-> fresh - (blocks - 1) * Out, len |-> Out]
  BY DEF S!KeccakAfter
<1> HIDE DEF left, end, fresh, blocks
<1>8. fresh \in Nat
  BY ONLY <1>3, <1>4, n \in Nat
<1>9. CASE fresh = 0
  <2>1. n <= left /\ end - left + n - fresh = cur + n
    BY ONLY <1>1, <1>3, <1>4, <1>9, n \in Nat, cur \in Nat
  <2>2. S!KeccakPositions(r, n) = S!Interval(cur, cur + n) \o S!Interval(end, end + 0)
    BY ONLY <1>1, <1>5, <1>9, <2>1
  <2>3. S!Interval(end, end + 0) = <<>>
    <3>1. end + 0 = end /\ 1 .. end - end = {}
      BY ONLY <1>3
    <3> QED BY ONLY <3>1 DEF S!Interval
  <2>4. S!Interval(cur, cur + n) \in Seq(Int)
    <3>1. cur \in Int /\ cur + n \in Int /\ cur <= cur + n
      BY ONLY cur \in Nat, n \in Nat
    <3> QED BY ONLY <3>1, IntervalIs
  <2>5. S!KeccakPositions(r, n) = S!Interval(cur, cur + n)
    BY ONLY <2>2, <2>3, <2>4, ConcatEmptySeq
  <2>6. S!KeccakAfter(r, n) = [counter |-> r.counter, pos |-> r.pos + n, len |-> r.len]
    BY ONLY <1>1, <1>7, <1>9
  <2>7. KeccakAt([counter |-> r.counter, pos |-> r.pos + n, len |-> r.len], cur + n)
    <3>1. r.pos + n \in Nat /\ r.pos + n <= r.len /\ end - (r.len - (r.pos + n)) = cur + n
      BY ONLY <1>1, <1>3, <2>1, n \in Nat, cur \in Nat DEF left
    <3> QED BY ONLY <1>1, <3>1 DEF KeccakAt, end
  <2> QED BY ONLY <2>5, <2>6, <2>7
<1>10. CASE fresh # 0
  <2>1. /\ n > left /\ fresh = n - left /\ cur \in Int /\ end \in Int /\ cur <= end
        /\ end - left + n - fresh = end /\ end + fresh = cur + n /\ end <= end + fresh
        /\ end + fresh \in Int
    BY ONLY <1>1, <1>3, <1>4, <1>8, <1>10, n \in Nat, cur \in Nat
  <2>2. S!KeccakPositions(r, n) = S!Interval(cur, end) \o S!Interval(end, end + fresh)
    BY ONLY <1>1, <1>5, <2>1
  <2>3. S!KeccakPositions(r, n) = S!Interval(cur, cur + n)
    <3>1. S!Interval(cur, end) \o S!Interval(end, end + fresh) = S!Interval(cur, end + fresh)
      BY ONLY <2>1, IntervalJoins
    <3> QED BY ONLY <2>1, <2>2, <3>1
  <2> DEFINE before == (blocks - 1) * Out
  <2>4. blocks \in Nat /\ before \in Nat /\ blocks * Out = before + Out /\ fresh > before /\ fresh <= before + Out
    <3>1. fresh + Out - 1 = Out * blocks + ((fresh + Out - 1) % Out)
      BY ONLY <1>2, <1>6, <1>8
    <3> DEFINE rest == (fresh + Out - 1) % Out
    <3>2. rest \in 0 .. Out - 1 /\ blocks \in Int
      BY ONLY <1>2, <1>6, <1>8
    <3> HIDE DEF rest
    <3>3. before = Out * blocks - Out /\ blocks * Out = Out * blocks
      BY ONLY <1>2, <3>2
    <3>4. Out * blocks \in Int /\ Out * blocks + rest = fresh + Out - 1
      BY ONLY <1>2, <1>8, <3>1, <3>2 DEF rest
    <3>5. blocks >= 1
      <4>1. Out * blocks >= 1
        BY ONLY <1>2, <1>8, <1>10, <3>2, <3>4
      <4>2. blocks <= 0 => Out * blocks <= 0
        BY ONLY <1>2, <3>2
      <4> QED BY ONLY <1>2, <3>2, <4>1, <4>2
    <3>6. before \in Nat
      BY ONLY <1>2, <3>2, <3>5
    <3> DEFINE all == Out * blocks
    <3> HIDE DEF before, all
    <3>7. fresh > before /\ fresh <= before + Out /\ all = before + Out
      BY ONLY <1>2, <1>8, <3>2, <3>3, <3>4, <3>6 DEF all
    <3> QED BY ONLY <3>2, <3>3, <3>5, <3>6, <3>7 DEF all
  <2>5. S!KeccakAfter(r, n) = [counter |-> r.counter + blocks, pos |-> fresh - before, len |-> Out]
    BY ONLY <1>7, <1>10
  <2> HIDE DEF before
  <2>6. (r.counter + blocks) * Out = end + (before + Out)
    <3>1. (r.counter + blocks) * Out = r.counter * Out + blocks * Out
      BY ONLY <1>1, <1>2, <2>4
    <3> QED BY ONLY <3>1, <2>4 DEF end
  <2>7. KeccakAt([counter |-> r.counter + blocks, pos |-> fresh - before, len |-> Out], cur + n)
    <3>1. r.counter + blocks \in Nat /\ fresh - before \in Nat /\ fresh - before <= Out
      BY ONLY <1>1, <1>2, <1>8, <2>4
    <3>2. (end + (before + Out)) - (Out - (fresh - before)) = cur + n
      BY ONLY <1>2, <1>3, <1>8, <2>1, <2>4
    <3> QED BY ONLY <1>2, <2>6, <3>1, <3>2 DEF KeccakAt
  <2> QED BY ONLY <2>3, <2>5, <2>7
<1> QED BY ONLY <1>9, <1>10

-----------------------------------------------------------------------------
(* A read returns the next bytes of the stream, whichever reader makes it. *)
ReaderAt(x, r, cur) == /\ x = "shake"  => ShakeAt(r, cur)
                       /\ x = "keccak" => KeccakAt(r, cur)
                       /\ x = "digest" => DigestAt(r, cur)

LEMMA Opens ==
  ASSUME NEW x \in {"shake", "keccak", "digest"}
  PROVE  ReaderAt(x, S!Opened(x), 0) /\ (x = "digest" => S!Opened(x).len = MinBlock)
<1>1. CASE x = "shake"
  <2>1. S!Opened(x) = [index |-> 0, len |-> 5 * Block]
    BY ONLY <1>1 DEF S!Opened, S!ShakeAbsorbed
  <2>2. 5 * Block \in Nat \ {0}
    BY SamplerFacts
  <2> QED BY ONLY <1>1, <2>1, <2>2 DEF ReaderAt, ShakeAt
<1>2. CASE x = "keccak"
  <2>1. S!Opened(x) = [counter |-> 0, pos |-> 0, len |-> 0]
    BY ONLY <1>2 DEF S!Opened, S!KeccakFlipped
  <2>2. 0 * Out - (0 - 0) = 0
    BY SamplerFacts
  <2> QED BY ONLY <1>2, <2>1, <2>2 DEF ReaderAt, KeccakAt
<1>3. CASE x = "digest"
  <2>1. S!Opened(x) = [index |-> 0, len |-> MinBlock]
    BY ONLY <1>3 DEF S!Opened, S!MinAbsorbed
  <2>2. MinBlock \in Nat \ {0} /\ 0 <= MinBlock
    BY SamplerFacts
  <2> QED BY ONLY <1>3, <2>1, <2>2 DEF ReaderAt, DigestAt
<1> QED BY <1>1, <1>2, <1>3

LEMMA Reads ==
  ASSUME NEW x \in {"shake", "keccak", "digest"}, NEW cur \in Nat, NEW n \in Nat, NEW r,
         ReaderAt(x, r, cur), x = "digest" => n <= 1 \/ cur + n <= r.len
  PROVE  S!Positions(x, r, n) = S!Interval(cur, cur + n) /\ ReaderAt(x, S!After(x, r, n), cur + n)
<1>1. CASE x = "shake"
  <2>1. S!Positions(x, r, n) = S!ShakePositions(r, n) /\ S!After(x, r, n) = S!ShakeAfter(r, n)
    BY ONLY <1>1 DEF S!Positions, S!After
  <2>2. S!ShakePositions(r, n) = S!Interval(cur, cur + n) /\ ShakeAt(S!ShakeAfter(r, n), cur + n)
    BY <1>1, ShakeReads DEF ReaderAt
  <2> QED BY ONLY <1>1, <2>1, <2>2 DEF ReaderAt
<1>2. CASE x = "keccak"
  <2>1. S!Positions(x, r, n) = S!KeccakPositions(r, n) /\ S!After(x, r, n) = S!KeccakAfter(r, n)
    BY ONLY <1>2 DEF S!Positions, S!After
  <2>2. S!KeccakPositions(r, n) = S!Interval(cur, cur + n) /\ KeccakAt(S!KeccakAfter(r, n), cur + n)
    BY <1>2, KeccakReads DEF ReaderAt
  <2> QED BY ONLY <1>2, <2>1, <2>2 DEF ReaderAt
<1>3. CASE x = "digest"
  <2>1. S!Positions(x, r, n) = S!MinPositions(r, n) /\ S!After(x, r, n) = S!MinAfter(r, n)
    BY ONLY <1>3 DEF S!Positions, S!After
  <2>2. S!MinPositions(r, n) = S!Interval(cur, cur + n) /\ DigestAt(S!MinAfter(r, n), cur + n)
    BY <1>3, DigestReads DEF ReaderAt
  <2> QED BY ONLY <1>3, <2>1, <2>2 DEF ReaderAt
<1> QED BY <1>1, <1>2, <1>3

Readers == {"shake", "keccak", "digest"}
IsStream(s) == s \in [0 .. Period - 1 -> 0 .. S!Byte - 1]

LEMMA BytesAre ==
  ASSUME NEW cur \in Nat, NEW n \in Nat, xof \in Readers, ReaderAt(xof, reader, cur),
         xof = "digest" => n <= 1 \/ cur + n <= reader.len
  PROVE  /\ S!Bytes(n) = [k \in 1 .. n |-> S!At(cur + k - 1)]
         /\ ReaderAt(xof, S!After(xof, reader, n), cur + n)
<1> DEFINE p == S!Positions(xof, reader, n)
<1>1. p = S!Interval(cur, cur + n) /\ ReaderAt(xof, S!After(xof, reader, n), cur + n)
  BY Reads DEF Readers
<1>2. S!Bytes(n) = [k \in DOMAIN p |-> S!At(p[k])]
  BY DEF S!Bytes
<1> HIDE DEF p
<1>3. cur \in Int /\ cur + n \in Int /\ cur <= cur + n /\ (cur + n) - cur = n
  OBVIOUS
<1>4. DOMAIN p = 1 .. n /\ \A k \in 1 .. n : p[k] = cur + k - 1
  BY ONLY <1>1, <1>3, IntervalIs
<1>5. \A k \in 1 .. n : S!At(p[k]) = S!At(cur + k - 1)
  BY ONLY <1>4
<1> QED BY ONLY <1>1, <1>2, <1>4, <1>5

LEMMA AtIs ==
  ASSUME IsStream(stream), NEW p \in Int
  PROVE  /\ S!At(p) \in 0 .. S!Byte - 1
         /\ S!At(p) = S!At(p % Period) /\ p % Period \in 0 .. Period - 1
         /\ S!At(p + Period) = S!At(p)
<1>1. Period \in Nat /\ Period >= 1
  BY SamplerFacts
<1>2. p % Period \in 0 .. Period - 1 /\ (p % Period) % Period = p % Period
  BY ONLY <1>1, p \in Int
<1>3. (p + Period) % Period = p % Period
  <2>1. p = Period * (p \div Period) + (p % Period) /\ p \div Period \in Int
    BY ONLY <1>1, p \in Int
  <2> DEFINE r == p % Period
             d == p \div Period
  <2>2. r \in 0 .. Period - 1 /\ d \in Int /\ p = Period * d + r
    BY ONLY <1>2, <2>1
  <2> HIDE DEF r, d
  <2>3. Period * (d + 1) = Period * d + Period /\ Period * d \in Int
    BY ONLY <1>1, <2>2
  <2>4. p + Period = Period * (d + 1) + r /\ d + 1 \in Int /\ p + Period \in Int
    BY ONLY <1>1, <2>2, <2>3, p \in Int
  <2>5. (p + Period) % Period = r
    BY ONLY <1>1, <2>2, <2>4, EuclidUnique
  <2> QED BY ONLY <2>5 DEF r
<1>4. S!At(p) \in 0 .. S!Byte - 1
  BY ONLY <1>2, IsStream(stream) DEF IsStream, S!At
<1> QED BY ONLY <1>2, <1>3, <1>4 DEF S!At

(* Every window of a period holds every position of the stream. *)
LEMMA Window ==
  ASSUME NEW cur \in Int, NEW v \in 0 .. Period - 1
  PROVE  \E p \in cur .. cur + Period - 1 : p % Period = v
<1>1. Period \in Nat /\ Period >= 1
  BY SamplerFacts
<1> DEFINE d == (v - cur) % Period
           e == (v - cur) \div Period
<1>2. d \in 0 .. Period - 1 /\ e \in Int /\ v - cur = Period * e + d
  BY ONLY <1>1, cur \in Int, v \in 0 .. Period - 1
<1> HIDE DEF d, e
<1>3. Period * (- e) = - (Period * e) /\ Period * e \in Int /\ -e \in Int
  BY ONLY <1>1, <1>2
<1>4. cur + d \in Int /\ cur + d = Period * (-e) + v
  BY ONLY <1>1, <1>2, <1>3, cur \in Int, v \in 0 .. Period - 1
<1>5. (cur + d) % Period = v
  BY ONLY <1>1, <1>3, <1>4, v \in 0 .. Period - 1, EuclidUnique
<1>6. cur + d \in cur .. cur + Period - 1
  BY ONLY <1>1, <1>2, cur \in Int
<1> QED BY ONLY <1>5, <1>6

-----------------------------------------------------------------------------
(* What a sampling loop keeps, turn by turn. *)
Keep(v, e, ok) == IF e \in ok THEN Append(v, e) ELSE v
KeptAs(s, n, f, ok) == /\ s \in [0 .. n -> Seq(ok)] /\ s[0] = <<>>
                       /\ \A k \in 1 .. n : s[k] = Keep(s[k - 1], f[k], ok)
                       /\ \A m \in 0 .. n : S!Kept(f, m, ok) = s[m]

LEMMA KeptSolved ==
  ASSUME NEW n \in Nat, NEW f, NEW ok
  PROVE  \E s : KeptAs(s, n, f, ok)
<1> DEFINE V == Seq(ok)
           G == [k \in 1 .. n |-> [v \in V |-> Keep(v, f[k], ok)]]
           none == << >>
<1>1. \A k \in 1 .. n : \A v \in V : G[k][v] = Keep(v, f[k], ok)
  OBVIOUS
<1>2. \A k \in 1 .. n : \A v \in V : Keep(v, f[k], ok) \in V
  <2> TAKE k \in 1 .. n
  <2> TAKE v \in V
  <2>1. CASE f[k] \in ok
    <3>1. Append(v, f[k]) \in Seq(ok)
      BY ONLY <2>1, v \in V, AppendProperties
    <3> QED BY ONLY <2>1, <3>1 DEF Keep
  <2>2. CASE f[k] \notin ok
    BY ONLY <2>2, v \in V DEF Keep
  <2> QED BY ONLY <2>1, <2>2
<1>3. none \in V
  BY ONLY EmptySeq
<1> HIDE DEF G, V, none
<1>4. Steps(G, n, V)
  BY ONLY <1>1, <1>2 DEF Steps
<1>5. PICK s : Solves(s, V, none, n, G)
  BY ONLY <1>3, <1>4, n \in Nat, Recursion, Zenon
<1>6. s \in [0 .. n -> V] /\ s[0] = none /\ \A k \in 1 .. n : s[k] = G[k][s[k - 1]]
  BY ONLY <1>5 DEF Solves
<1>7. \A k \in 1 .. n : s[k] = Keep(s[k - 1], f[k], ok)
  <2> TAKE k \in 1 .. n
  <2>1. s[k - 1] \in V
    BY ONLY <1>6, n \in Nat, k \in 1 .. n
  <2> QED BY ONLY <1>1, <1>6, <2>1, k \in 1 .. n
<1>8. ASSUME NEW m \in 0 .. n PROVE S!Kept(f, m, ok) = s[m]
  <2> DEFINE Is(g) == g = [k \in 0 .. m |->
                             IF k = 0 THEN <<>> ELSE Keep(g[k - 1], f[k], ok)]
             h == CHOOSE g : Is(g)
             r == [k \in 0 .. m |-> s[k]]
  <2>1. Is(r)
    <3>1. \A k \in 0 .. m : r[k] = IF k = 0 THEN <<>> ELSE Keep(r[k - 1], f[k], ok)
      <4> TAKE k \in 0 .. m
      <4>1. CASE k = 0
        BY ONLY <1>6, <4>1, k \in 0 .. m DEF none
      <4>2. CASE k # 0
        <5>1. k \in 1 .. n /\ k - 1 \in 0 .. m /\ k \in 0 .. m
          BY ONLY <4>2, n \in Nat, m \in 0 .. n, k \in 0 .. m
        <5>2. r[k] = s[k] /\ r[k - 1] = s[k - 1]
          BY ONLY <5>1
        <5> QED BY ONLY <1>7, <4>2, <5>1, <5>2
      <4> QED BY ONLY <4>1, <4>2
    <3> HIDE DEF r
    <3>2. r = [k \in 0 .. m |-> r[k]]
      BY DEF r
    <3> QED BY ONLY <3>1, <3>2
  <2>2. Is(h)
    BY ONLY <2>1
  <2>3. S!Kept(f, m, ok) = h[m]
    BY DEF S!Kept, Keep
  <2> HIDE DEF h, r
  <2>4. /\ h[0] = none
        /\ \A k \in 1 .. m : h[k] = Keep(h[k - 1], f[k], ok)
    BY ONLY <2>2, m \in 0 .. n, n \in Nat DEF none
  <2>5. Follows(h, V, none, m, G)
    <3> SUFFICES ASSUME NEW k \in 1 .. m, h[k - 1] \in V PROVE h[k] = G[k][h[k - 1]]
      BY <2>4 DEF Follows
    <3>1. k \in 1 .. n
      BY ONLY n \in Nat, m \in 0 .. n, k \in 1 .. m
    <3>2. G[k][h[k - 1]] = Keep(h[k - 1], f[k], ok)
      BY ONLY <1>1, <3>1, h[k - 1] \in V
    <3> QED BY ONLY <2>4, <3>2, k \in 1 .. m
  <2>6. Agree(h, s, m)
    BY ONLY <1>3, <1>5, <2>5, m \in 0 .. n, n \in Nat, RecursionUnique, Zenon
  <2>7. m \in 0 .. m
    BY ONLY m \in 0 .. n, n \in Nat
  <2> QED BY ONLY <2>3, <2>6, <2>7 DEF Agree
<1> QED BY ONLY <1>6, <1>7, <1>8 DEF KeptAs, V, none

LEMMA KeptNext ==
  ASSUME NEW n \in Nat, NEW f, NEW ok
  PROVE  /\ S!Kept(f, 0, ok) = <<>> /\ S!Kept(f, n, ok) \in Seq(ok)
         /\ S!Kept(f, n + 1, ok) = Keep(S!Kept(f, n, ok), f[n + 1], ok)
<1>0. n + 1 \in Nat
  OBVIOUS
<1>1. PICK s : KeptAs(s, n + 1, f, ok)
  BY ONLY <1>0, KeptSolved
<1>2. n \in 0 .. n + 1 /\ n + 1 \in 1 .. n + 1 /\ (n + 1) - 1 = n /\ n + 1 \in 0 .. n + 1 /\ 0 \in 0 .. n + 1
  OBVIOUS
<1> QED BY ONLY <1>1, <1>2 DEF KeptAs

LEMMA KeptSame ==
  ASSUME NEW n \in Nat, NEW f, NEW g, NEW ok, \A k \in 1 .. n : f[k] = g[k]
  PROVE  S!Kept(f, n, ok) = S!Kept(g, n, ok)
<1> DEFINE T == {m \in Nat : m <= n => S!Kept(f, m, ok) = S!Kept(g, m, ok)}
<1>1. 0 \in T
  <2>1. 0 \in Nat
    OBVIOUS
  <2>2. S!Kept(f, 0, ok) = <<>> /\ S!Kept(g, 0, ok) = <<>>
    BY ONLY <2>1, KeptNext
  <2> QED BY ONLY <2>1, <2>2
<1>2. \A m \in Nat : m \in T => m + 1 \in T
  <2> SUFFICES ASSUME NEW m \in Nat, m \in T, m + 1 <= n
               PROVE  S!Kept(f, m + 1, ok) = S!Kept(g, m + 1, ok)
    OBVIOUS
  <2>1. m <= n /\ m + 1 \in 1 .. n
    BY ONLY m \in Nat, n \in Nat, m + 1 <= n
  <2>2. S!Kept(f, m, ok) = S!Kept(g, m, ok)
    BY ONLY <2>1, m \in T
  <2>3. f[m + 1] = g[m + 1]
    BY <2>1
  <2> HIDE DEF T
  <2> QED BY ONLY <2>2, <2>3, m \in Nat, KeptNext
<1> HIDE DEF T
<1>3. n \in T
  BY ONLY <1>1, <1>2, n \in Nat, Induction
<1>4. n <= n
  OBVIOUS
<1> QED BY ONLY <1>3, <1>4 DEF T

(* More turns keep more, and nothing else first. *)
LEMMA KeptPrefix ==
  ASSUME NEW m \in Nat, NEW n \in Nat, m <= n, NEW f, NEW ok
  PROVE  /\ Len(S!Kept(f, m, ok)) <= Len(S!Kept(f, n, ok))
         /\ \A k \in 1 .. Len(S!Kept(f, m, ok)) : S!Kept(f, n, ok)[k] = S!Kept(f, m, ok)[k]
<1> DEFINE K0 == S!Kept(f, m, ok)
           Kd(d) == S!Kept(f, m + d, ok)
           T == {d \in Nat : /\ Len(K0) <= Len(Kd(d))
                             /\ \A k \in 1 .. Len(K0) : Kd(d)[k] = K0[k]}
<1>1. K0 \in Seq(ok) /\ Len(K0) \in Nat
  <2>1. K0 \in Seq(ok)
    BY ONLY m \in Nat, KeptNext
  <2> QED BY ONLY <2>1, LenProperties
<1>2. 0 \in T
  <2>1. m + 0 = m
    OBVIOUS
  <2> HIDE DEF K0
  <2> QED BY <1>1, <2>1 DEF K0
<1>3. \A d \in Nat : d \in T => d + 1 \in T
  <2> SUFFICES ASSUME NEW d \in Nat, d \in T PROVE d + 1 \in T
    OBVIOUS
  <2>1. m + d \in Nat /\ m + (d + 1) = (m + d) + 1
    OBVIOUS
  <2> DEFINE a == Kd(d)
             b == Kd(d + 1)
             e == f[m + d + 1]
  <2>2. a \in Seq(ok) /\ b = Keep(a, e, ok)
    <3>1. /\ S!Kept(f, m + d, ok) \in Seq(ok)
          /\ S!Kept(f, (m + d) + 1, ok) = Keep(S!Kept(f, m + d, ok), f[(m + d) + 1], ok)
      BY ONLY <2>1, KeptNext
    <3> QED BY ONLY <2>1, <3>1
  <2>3. Len(K0) <= Len(a) /\ \A k \in 1 .. Len(K0) : a[k] = K0[k]
    BY ONLY d \in T
  <2> HIDE DEF a, b, K0, e
  <2>4. Len(a) \in Nat
    BY ONLY <2>2, LenProperties
  <2>5. CASE e \in ok
    <3>1. b = Append(a, e)
      BY ONLY <2>2, <2>5 DEF Keep
    <3>2. Len(b) = Len(a) + 1 /\ \A k \in 1 .. Len(a) : b[k] = a[k]
      BY ONLY <2>2, <2>5, <3>1, AppendProperties
    <3>3. Len(K0) <= Len(b)
      BY ONLY <1>1, <2>3, <2>4, <3>2
    <3>4. \A k \in 1 .. Len(K0) : k \in 1 .. Len(a)
      BY ONLY <1>1, <2>3, <2>4
    <3>5. \A k \in 1 .. Len(K0) : b[k] = K0[k]
      BY ONLY <2>3, <3>2, <3>4
    <3>6. d + 1 \in Nat
      BY ONLY d \in Nat
    <3> QED BY ONLY <3>3, <3>5, <3>6 DEF b
  <2>6. CASE e \notin ok
    <3>1. b = a /\ d + 1 \in Nat
      BY ONLY <2>2, <2>6, d \in Nat DEF Keep
    <3>2. Len(K0) <= Len(b) /\ \A k \in 1 .. Len(K0) : b[k] = K0[k]
      BY ONLY <2>3, <3>1
    <3> QED BY ONLY <3>1, <3>2 DEF b
  <2> QED BY ONLY <2>5, <2>6
<1> HIDE DEF T
<1>4. n - m \in T
  <2>1. n - m \in Nat
    OBVIOUS
  <2> QED BY ONLY <1>2, <1>3, <2>1, Induction
<1>5. m + (n - m) = n
  OBVIOUS
<1> HIDE DEF K0
<1>6. Len(K0) <= Len(Kd(n - m)) /\ \A k \in 1 .. Len(K0) : Kd(n - m)[k] = K0[k]
  BY ONLY <1>4 DEF T
<1> QED BY ONLY <1>5, <1>6 DEF K0

(* When something is kept in every p turns, p * j turns keep j. *)
LEMMA KeptGrows ==
  ASSUME NEW p \in Nat, NEW f, NEW ok,
         \A cur \in Nat : \E k \in cur + 1 .. cur + p : f[k] \in ok,
         NEW j \in Nat
  PROVE  Len(S!Kept(f, p * j, ok)) >= j
<1> DEFINE T == {i \in Nat : Len(S!Kept(f, p * i, ok)) >= i}
<1>0. \A cur \in Nat : \E k \in cur + 1 .. cur + p : f[k] \in ok
  OBVIOUS
<1>a. \A n \in Nat : Len(S!Kept(f, n, ok)) \in Nat
  <2> TAKE n \in Nat
  <2>1. S!Kept(f, n, ok) \in Seq(ok)
    BY ONLY n \in Nat, KeptNext
  <2> QED BY ONLY <2>1, LenProperties
<1>1. 0 \in T
  <2>1. p * 0 \in Nat /\ 0 \in Nat
    OBVIOUS
  <2>2. Len(S!Kept(f, p * 0, ok)) \in Nat
    BY ONLY <1>a, <2>1
  <2> QED BY ONLY <2>1, <2>2
<1>2. \A i \in Nat : i \in T => i + 1 \in T
  <2> SUFFICES ASSUME NEW i \in Nat, i \in T PROVE i + 1 \in T
    OBVIOUS
  <2> DEFINE cur == p * i
             d == p * (i + 1)
  <2>1. cur \in Nat /\ d = cur + p /\ d \in Nat
    BY ONLY p \in Nat, i \in Nat
  <2>2. Len(S!Kept(f, cur, ok)) >= i
    BY ONLY i \in T
  <2> HIDE DEF cur, d
  <2>3. PICK k \in cur + 1 .. cur + p : f[k] \in ok
    BY ONLY <1>0, <2>1
  <2>4. k - 1 \in Nat /\ (k - 1) + 1 = k /\ k \in Nat /\ cur <= k - 1 /\ k <= d
    BY ONLY <2>1, p \in Nat, k \in cur + 1 .. cur + p
  <2>5. Len(S!Kept(f, k, ok)) = Len(S!Kept(f, k - 1, ok)) + 1
    <3>1. S!Kept(f, k - 1, ok) \in Seq(ok) /\ S!Kept(f, k, ok) = Append(S!Kept(f, k - 1, ok), f[k])
      <4>1. /\ S!Kept(f, k - 1, ok) \in Seq(ok)
            /\ S!Kept(f, (k - 1) + 1, ok) = Keep(S!Kept(f, k - 1, ok), f[(k - 1) + 1], ok)
        BY ONLY <2>4, KeptNext
      <4> QED BY ONLY <2>3, <2>4, <4>1 DEF Keep
    <3> QED BY ONLY <2>3, <3>1, AppendProperties
  <2>6. Len(S!Kept(f, cur, ok)) <= Len(S!Kept(f, k - 1, ok)) /\ Len(S!Kept(f, k, ok)) <= Len(S!Kept(f, d, ok))
    BY ONLY <2>1, <2>4, KeptPrefix
  <2>7. /\ Len(S!Kept(f, cur, ok)) \in Nat /\ Len(S!Kept(f, k - 1, ok)) \in Nat
        /\ Len(S!Kept(f, k, ok)) \in Nat /\ Len(S!Kept(f, d, ok)) \in Nat
    BY ONLY <1>a, <2>1, <2>4
  <2>8. Len(S!Kept(f, d, ok)) >= i + 1
    BY ONLY <2>2, <2>5, <2>6, <2>7, i \in Nat
  <2>9. i + 1 \in Nat
    OBVIOUS
  <2> QED BY ONLY <2>8, <2>9 DEF d
<1> HIDE DEF T
<1>3. j \in T
  BY ONLY <1>1, <1>2, j \in Nat, Induction
<1> QED BY ONLY <1>3 DEF T

(* The loop goes on where it stopped. *)
(* g is what f holds after its m-th element. *)
Continues(f, m, g, n) == \A k \in 1 .. n : g[k] = f[m + k]
Joined(f, m, g, n, ok) == S!Kept(f, m + n, ok) = S!Kept(f, m, ok) \o S!Kept(g, n, ok)

LEMMA KeptJoins ==
  ASSUME NEW m \in Nat, NEW n \in Nat, NEW f, NEW g, NEW ok, Continues(f, m, g, n)
  PROVE  Joined(f, m, g, n, ok)
<1> DEFINE K0 == S!Kept(f, m, ok)
           T == {d \in Nat : d <= n => S!Kept(f, m + d, ok) = K0 \o S!Kept(g, d, ok)}
<1>0. \A k \in 1 .. n : g[k] = f[m + k]
  BY DEF Continues
<1>1. K0 \in Seq(ok)
  BY ONLY m \in Nat, KeptNext
<1>2. 0 \in T
  <2>1. m + 0 = m /\ 0 \in Nat
    OBVIOUS
  <2>2. S!Kept(g, 0, ok) = <<>>
    BY ONLY <2>1, KeptNext
  <2>3. K0 \o <<>> = K0
    BY ONLY <1>1, ConcatEmptySeq
  <2> QED BY ONLY <2>1, <2>2, <2>3
<1> HIDE DEF K0
<1>3. \A d \in Nat : d \in T => d + 1 \in T
  <2> SUFFICES ASSUME NEW d \in Nat, d \in T, d + 1 <= n
               PROVE  S!Kept(f, m + (d + 1), ok) = K0 \o S!Kept(g, d + 1, ok)
    <3>1. \A d \in Nat : d + 1 \in Nat
      OBVIOUS
    <3> QED BY <3>1, Zenon
  <2>1. m + d \in Nat /\ m + (d + 1) = (m + d) + 1 /\ d + 1 \in 1 .. n /\ d <= n
    BY ONLY m \in Nat, d \in Nat, n \in Nat, d + 1 <= n
  <2> DEFINE a == S!Kept(f, m + d, ok)
             b == S!Kept(g, d, ok)
             e == g[d + 1]
  <2>2. a = K0 \o b
    BY ONLY <2>1, d \in T
  <2>3. b \in Seq(ok) /\ S!Kept(g, d + 1, ok) = Keep(b, e, ok)
    BY ONLY d \in Nat, KeptNext
  <2>4. S!Kept(f, m + (d + 1), ok) = Keep(a, e, ok)
    <3>1. S!Kept(f, (m + d) + 1, ok) = Keep(a, f[(m + d) + 1], ok)
      BY ONLY <2>1, KeptNext
    <3>2. e = f[m + (d + 1)]
      BY ONLY <1>0, <2>1
    <3> QED BY ONLY <2>1, <3>1, <3>2
  <2> HIDE DEF a, b, e
  <2>5. CASE e \in ok
    <3>1. K0 \o b \in Seq(ok)
      BY ONLY <1>1, <2>3, ConcatProperties
    <3>2. Append(a, e) = (K0 \o b) \o <<e>>
      BY ONLY <2>2, <2>5, <3>1, AppendIsConcat
    <3>3. Append(b, e) = b \o <<e>>
      BY ONLY <2>3, <2>5, AppendIsConcat
    <3>4. <<e>> \in Seq(ok)
      BY ONLY <2>5
    <3>5. (K0 \o b) \o <<e>> = K0 \o (b \o <<e>>)
      BY ONLY <1>1, <2>3, <3>4, ConcatAssociative
    <3> QED BY ONLY <2>3, <2>4, <2>5, <3>2, <3>3, <3>5 DEF Keep
  <2>6. CASE e \notin ok
    BY ONLY <2>2, <2>3, <2>4, <2>6 DEF Keep
  <2> QED BY ONLY <2>5, <2>6
<1> HIDE DEF T
<1>4. n \in T
  BY ONLY <1>2, <1>3, n \in Nat, Induction
<1>5. n <= n
  OBVIOUS
<1>6. S!Kept(f, m + n, ok) = S!Kept(f, m, ok) \o S!Kept(g, n, ok)
  BY ONLY <1>4, <1>5 DEF T, K0
<1> QED BY ONLY <1>6 DEF Joined

-----------------------------------------------------------------------------
(* The first elements of a sequence. *)
LEMMA TakeAll ==
  ASSUME NEW X, NEW s \in Seq(X), NEW b \in Nat, Len(s) <= b
  PROVE  S!Take(s, b) = s
<1>1. Len(s) \in Nat
  BY LenProperties
<1>2. S!Min({b, Len(s)}) = Len(s)
  <2>1. S!Min({Len(s), b}) = Len(s)
    BY <1>1, MinPair
  <2>2. {b, Len(s)} = {Len(s), b}
    OBVIOUS
  <2> QED BY ONLY <2>1, <2>2
<1>3. SubSeq(s, 1, Len(s)) = s
  BY ONLY s \in Seq(X), SubSeqFull
<1> QED BY ONLY <1>2, <1>3 DEF S!Take

LEMMA TakeFirst ==
  ASSUME NEW X, NEW s \in Seq(X), NEW b \in Nat, b <= Len(s)
  PROVE  /\ S!Take(s, b) \in Seq(X) /\ Len(S!Take(s, b)) = b
         /\ \A k \in 1 .. b : S!Take(s, b)[k] = s[k]
<1>1. Len(s) \in Nat
  BY LenProperties
<1>2. S!Min({b, Len(s)}) = b
  BY <1>1, MinPair
<1>3. \A k \in 1 .. b : s[k] \in X
  <2> TAKE k \in 1 .. b
  <2>1. k \in 1 .. Len(s)
    BY <1>1
  <2> QED BY ONLY <2>1, s \in Seq(X), ElementOfSeq
<1> DEFINE t == SubSeq(s, 1, b)
<1>4. S!Take(s, b) = t
  BY ONLY <1>2 DEF S!Take
<1>5. 1 \in Int /\ b \in Int /\ (IF 1 <= b THEN b - 1 + 1 ELSE 0) = b /\ b - 1 + 1 = b
  OBVIOUS
<1>6. /\ t \in Seq(X) /\ Len(t) = IF 1 <= b THEN b - 1 + 1 ELSE 0
      /\ \A k \in 1 .. b - 1 + 1 : t[k] = s[1 + k - 1]
  BY ONLY <1>3, <1>5, SubSeqProperties
<1> HIDE DEF t
<1>7. \A k \in 1 .. b : 1 + k - 1 = k
  OBVIOUS
<1> QED BY ONLY <1>4, <1>5, <1>6, <1>7

LEMMA KeptLen ==
  ASSUME NEW n \in Nat, NEW f, NEW ok
  PROVE  S!Kept(f, n, ok) \in Seq(ok) /\ Len(S!Kept(f, n, ok)) \in Nat
<1>1. S!Kept(f, n, ok) \in Seq(ok)
  BY ONLY n \in Nat, KeptNext
<1> QED BY ONLY <1>1, LenProperties

(* Once enough is kept, more turns do not change the first elements. *)
LEMMA TakeOfPrefix ==
  ASSUME NEW X, NEW s \in Seq(X), NEW t \in Seq(X), NEW b \in Nat,
         b <= Len(s), Len(s) <= Len(t), \A k \in 1 .. Len(s) : t[k] = s[k]
  PROVE  S!Take(s, b) = S!Take(t, b)
<1>1. Len(s) \in Nat /\ Len(t) \in Nat
  BY LenProperties
<1>2. b <= Len(t)
  BY <1>1
<1> DEFINE u == S!Take(s, b)
           v == S!Take(t, b)
<1>3. /\ u \in Seq(X) /\ Len(u) = b /\ \A k \in 1 .. b : u[k] = s[k]
      /\ v \in Seq(X) /\ Len(v) = b /\ \A k \in 1 .. b : v[k] = t[k]
  BY <1>2, TakeFirst
<1> HIDE DEF u, v
<1>4. \A k \in 1 .. Len(u) : u[k] = v[k]
  <2> TAKE k \in 1 .. Len(u)
  <2>1. k \in 1 .. b /\ k \in 1 .. Len(s)
    BY <1>1, <1>3
  <2> QED BY <1>3, <2>1
<1>5. u = v
  BY ONLY <1>3, <1>4, SeqEqual
<1> QED BY <1>5 DEF u, v

LEMMA TakeKept ==
  ASSUME NEW m \in Nat, NEW n \in Nat, NEW f, NEW ok, NEW b \in Nat,
         b <= Len(S!Kept(f, m, ok)), b <= Len(S!Kept(f, n, ok))
  PROVE  S!Take(S!Kept(f, m, ok), b) = S!Take(S!Kept(f, n, ok), b)
<1>1. \A i \in Nat : S!Kept(f, i, ok) \in Seq(ok)
  BY ONLY KeptLen
<1>2. CASE m <= n
  <2>1. /\ Len(S!Kept(f, m, ok)) <= Len(S!Kept(f, n, ok))
        /\ \A k \in 1 .. Len(S!Kept(f, m, ok)) : S!Kept(f, n, ok)[k] = S!Kept(f, m, ok)[k]
    BY ONLY <1>2, m \in Nat, n \in Nat, KeptPrefix
  <2> QED BY <1>1, <2>1, TakeOfPrefix
<1>3. CASE n <= m
  <2>1. /\ Len(S!Kept(f, n, ok)) <= Len(S!Kept(f, m, ok))
        /\ \A k \in 1 .. Len(S!Kept(f, n, ok)) : S!Kept(f, m, ok)[k] = S!Kept(f, n, ok)[k]
    BY ONLY <1>3, m \in Nat, n \in Nat, KeptPrefix
  <2>2. S!Take(S!Kept(f, n, ok), b) = S!Take(S!Kept(f, m, ok), b)
    BY <1>1, <2>1, TakeOfPrefix
  <2> QED BY ONLY <2>2
<1> QED BY <1>2, <1>3

(* The values of halves of bytes, element by element. *)
LEMMA FromNibblesIs ==
  ASSUME NEW s \in Seq(Nat)
  PROVE  /\ S!FromNibbles(s) \in Seq(Int) /\ Len(S!FromNibbles(s)) = Len(s)
         /\ \A k \in 1 .. Len(s) : S!FromNibbles(s)[k] = S!FromNibble(s[k])
<1> DEFINE t == S!FromNibbles(s)
<1>1. Len(s) \in Nat /\ DOMAIN s = 1 .. Len(s)
  BY LenProperties
<1>2. t = [k \in DOMAIN s |-> S!FromNibble(s[k])]
  BY DEF S!FromNibbles
<1>3. \A k \in 1 .. Len(s) : S!FromNibble(s[k]) \in Int
  <2> TAKE k \in 1 .. Len(s)
  <2> DEFINE j == s[k]
  <2>1. j \in Nat
    BY ElementOfSeq
  <2> HIDE DEF j
  <2>2. 2 * SamplerEta + 1 \in Nat /\ 2 * SamplerEta + 1 >= 1 /\ SamplerEta \in Nat
    BY SamplerFacts
  <2>3. j % (2 * SamplerEta + 1) \in Int
    BY ONLY <2>1, <2>2, Euclid
  <2>4. SamplerEta - (j % (2 * SamplerEta + 1)) \in Int
    BY ONLY <2>2, <2>3
  <2> QED BY ONLY <2>4 DEF S!FromNibble, j
<1> HIDE DEF t
<1>4. t \in [1 .. Len(s) -> Int] /\ \A k \in 1 .. Len(s) : t[k] = S!FromNibble(s[k])
  BY ONLY <1>1, <1>2, <1>3
<1>5. t \in Seq(Int) /\ Len(t) = Len(s)
  BY ONLY <1>1, <1>4, AsSeq
<1> QED BY ONLY <1>4, <1>5 DEF t

LEMMA FromNibblesJoins ==
  ASSUME NEW s \in Seq(Nat), NEW t \in Seq(Nat)
  PROVE  S!FromNibbles(s \o t) = S!FromNibbles(s) \o S!FromNibbles(t)
<1> DEFINE w == s \o t
           a == S!FromNibbles(s)
           b == S!FromNibbles(t)
           u == S!FromNibbles(w)
           v == a \o b
<1>1. /\ w \in Seq(Nat) /\ Len(w) = Len(s) + Len(t)
      /\ \A i \in 1 .. Len(s) + Len(t) : w[i] = IF i <= Len(s) THEN s[i] ELSE t[i - Len(s)]
  BY ConcatProperties
<1> HIDE DEF w
<1>2. /\ a \in Seq(Int) /\ Len(a) = Len(s) /\ \A k \in 1 .. Len(s) : a[k] = S!FromNibble(s[k])
      /\ b \in Seq(Int) /\ Len(b) = Len(t) /\ \A k \in 1 .. Len(t) : b[k] = S!FromNibble(t[k])
      /\ u \in Seq(Int) /\ Len(u) = Len(w) /\ \A k \in 1 .. Len(w) : u[k] = S!FromNibble(w[k])
  BY <1>1, FromNibblesIs
<1> HIDE DEF a, b, u
<1>2a. a \in Seq(Int) /\ b \in Seq(Int)
  BY ONLY <1>2
<1>3. /\ v \in Seq(Int) /\ Len(v) = Len(a) + Len(b)
      /\ \A i \in 1 .. Len(a) + Len(b) : v[i] = IF i <= Len(a) THEN a[i] ELSE b[i - Len(a)]
  BY ONLY <1>2a, ConcatProperties
<1>4. Len(s) \in Nat /\ Len(t) \in Nat
  BY LenProperties
<1> HIDE DEF v
<1>5. \A k \in 1 .. Len(u) : u[k] = v[k]
  <2> TAKE k \in 1 .. Len(u)
  <2>1. k \in 1 .. Len(s) + Len(t) /\ k \in 1 .. Len(w) /\ k \in 1 .. Len(a) + Len(b)
    BY ONLY <1>1, <1>2, k \in 1 .. Len(u)
  <2>2. u[k] = S!FromNibble(w[k])
    BY ONLY <1>2, <2>1
  <2>3. CASE k <= Len(s)
    <3>1. k \in 1 .. Len(s)
      BY ONLY <1>4, <2>1, <2>3
    <3>2. w[k] = s[k] /\ v[k] = a[k]
      BY ONLY <1>1, <1>2, <1>3, <2>1, <2>3
    <3> QED BY ONLY <1>2, <2>2, <3>1, <3>2
  <2>4. CASE ~ (k <= Len(s))
    <3>1. k - Len(s) \in 1 .. Len(t)
      BY ONLY <1>4, <2>1, <2>4
    <3>2. w[k] = t[k - Len(s)] /\ v[k] = b[k - Len(s)]
      BY ONLY <1>1, <1>2, <1>3, <2>1, <2>4
    <3> QED BY ONLY <1>2, <2>2, <3>1, <3>2
  <2> QED BY ONLY <2>3, <2>4
<1>6. Len(u) = Len(v)
  BY ONLY <1>1, <1>2, <1>3
<1>7. u = v
  BY ONLY <1>2, <1>3, <1>5, <1>6, SeqEqual
<1> QED BY ONLY <1>7 DEF u, v, a, b, w

-----------------------------------------------------------------------------
(* Bits of a number put together from bytes. *)
LEMMA Pow2Adds ==
  ASSUME NEW m \in Nat, NEW n \in Nat
  PROVE  Pow2(m + n) = Pow2(m) * Pow2(n)
<1> DEFINE T == {k \in Nat : Pow2(m + k) = Pow2(m) * Pow2(k)}
<1>1. 0 \in T
  <2>1. m + 0 = m /\ Pow2(0) = 1 /\ Pow2(m) \in Nat
    BY Pow2Is
  <2>2. Pow2(m) * 1 = Pow2(m)
    BY ONLY <2>1
  <2> QED BY ONLY <2>1, <2>2
<1>2. \A k \in Nat : k \in T => k + 1 \in T
  <2> SUFFICES ASSUME NEW k \in Nat, k \in T PROVE k + 1 \in T
    OBVIOUS
  <2>1. m + k \in Nat /\ m + (k + 1) = (m + k) + 1 /\ k + 1 \in Nat
    BY ONLY m \in Nat, k \in Nat
  <2>2. Pow2((m + k) + 1) = 2 * Pow2(m + k) /\ Pow2(k + 1) = 2 * Pow2(k)
    BY ONLY <2>1, k \in Nat, Pow2Is
  <2>3. Pow2(m) \in Nat /\ Pow2(k) \in Nat
    BY ONLY m \in Nat, k \in Nat, Pow2Is
  <2>4. 2 * (Pow2(m) * Pow2(k)) = Pow2(m) * (2 * Pow2(k))
    BY ONLY <2>3
  <2>5. Pow2(m + k) = Pow2(m) * Pow2(k)
    BY ONLY k \in T
  <2> QED BY ONLY <2>1, <2>2, <2>4, <2>5
<1> HIDE DEF T
<1>3. n \in T
  BY ONLY <1>1, <1>2, n \in Nat, Induction
<1> QED BY ONLY <1>3 DEF T

LEMMA HalfOf ==
  ASSUME NEW u \in Nat, NEW v \in Nat
  PROVE  /\ (u + 2 * v) \div 2 = (u \div 2) + v /\ (u + 2 * v) % 2 = u % 2
<1>1. u \div 2 \in Nat /\ u % 2 \in {0, 1} /\ u = 2 * (u \div 2) + (u % 2)
  BY Halves
<1> DEFINE h == u \div 2
           b == u % 2
<1>2. h \in Nat /\ b \in 0 .. 2 - 1 /\ u = 2 * h + b
  BY ONLY <1>1
<1> HIDE DEF h, b
<1>3. u + 2 * v = 2 * (h + v) + b /\ h + v \in Int /\ u + 2 * v \in Int /\ 2 \in Nat /\ 2 >= 1
  BY ONLY <1>2, v \in Nat
<1>4. (u + 2 * v) % 2 = b /\ (u + 2 * v) \div 2 = h + v
  BY ONLY <1>2, <1>3, EuclidUnique
<1> QED BY ONLY <1>4 DEF h, b

(* Shifting by m drops the low m bits. *)
LEMMA ShiftDrops ==
  ASSUME NEW m \in Nat, NEW u \in Nat, NEW v \in Nat, u < Pow2(m)
  PROVE  Shift(u + Pow2(m) * v, m) = v
<1> DEFINE T == {k \in Nat : \A x \in Nat : x < Pow2(k) => Shift(x + Pow2(k) * v, k) = v}
<1>1. 0 \in T
  <2> SUFFICES ASSUME NEW x \in Nat, x < Pow2(0) PROVE Shift(x + Pow2(0) * v, 0) = v
    OBVIOUS
  <2>1. x + Pow2(0) * v = v
    BY Pow2Is
  <2>2. Shift(v, 0) = v
    BY ShiftIs
  <2> QED BY ONLY <2>1, <2>2
<1>2. \A k \in Nat : k \in T => k + 1 \in T
  <2> SUFFICES ASSUME NEW k \in Nat, k \in T, NEW x \in Nat, x < Pow2(k + 1)
               PROVE  Shift(x + Pow2(k + 1) * v, k + 1) = v
    OBVIOUS
  <2> DEFINE p == Pow2(k)
  <2>1. p \in Nat /\ Pow2(k + 1) = 2 * p
    BY ONLY k \in Nat, Pow2Is
  <2>2. \A z \in Nat : z < p => Shift(z + p * v, k) = v
    BY ONLY k \in T
  <2>3. x < Pow2(k + 1)
    OBVIOUS
  <2> HIDE DEF p, T
  <2>4. x \div 2 \in Nat /\ x \div 2 < p
    BY ONLY <2>1, <2>3, x \in Nat, Halves
  <2>5. Pow2(k + 1) * v = 2 * (p * v) /\ p * v \in Nat
    BY ONLY <2>1, v \in Nat
  <2> DEFINE y1 == x + Pow2(k + 1) * v
  <2>6. y1 \in Nat /\ y1 \div 2 = (x \div 2) + p * v
    BY ONLY <2>5, x \in Nat, HalfOf
  <2> HIDE DEF y1
  <2>7. Shift(y1, k + 1) = Shift(y1 \div 2, k)
    BY ONLY <2>6, k \in Nat, ShiftHalf
  <2>8. Shift((x \div 2) + p * v, k) = v
    BY ONLY <2>2, <2>4
  <2> QED BY ONLY <2>6, <2>7, <2>8 DEF y1
<1> HIDE DEF T
<1>3. m \in T
  BY ONLY <1>1, <1>2, m \in Nat, Induction
<1> QED BY <1>3 DEF T

LEMMA ShiftAdds ==
  ASSUME NEW x \in Nat, NEW m \in Nat, NEW n \in Nat
  PROVE  Shift(x, m + n) = Shift(Shift(x, m), n)
<1> DEFINE y1 == Shift(x, m)
           T == {k \in Nat : Shift(x, m + k) = Shift(y1, k)}
<1>0. y1 \in Nat
  BY ShiftIs
<1>1. 0 \in T
  <2>1. m + 0 = m /\ 0 \in Nat
    OBVIOUS
  <2> HIDE DEF y1
  <2>2. Shift(y1, 0) = y1
    BY ONLY <1>0, ShiftIs
  <2> QED BY ONLY <2>1, <2>2 DEF y1
<1>2. \A k \in Nat : k \in T => k + 1 \in T
  <2> SUFFICES ASSUME NEW k \in Nat, k \in T PROVE k + 1 \in T
    OBVIOUS
  <2>1. m + k \in Nat /\ m + (k + 1) = (m + k) + 1 /\ k + 1 \in Nat
    BY ONLY m \in Nat, k \in Nat
  <2> HIDE DEF y1
  <2>2. Shift(x, (m + k) + 1) = Shift(x, m + k) \div 2 /\ Shift(y1, k + 1) = Shift(y1, k) \div 2
    BY ONLY <1>0, <2>1, x \in Nat, k \in Nat, ShiftIs
  <2>3. Shift(x, m + k) = Shift(y1, k)
    BY ONLY k \in T
  <2> QED BY ONLY <2>1, <2>2, <2>3
<1> HIDE DEF T, y1
<1>3. n \in T
  BY ONLY <1>1, <1>2, n \in Nat, Induction
<1> QED BY ONLY <1>3 DEF T, y1

(* The low bits do not see what is added above them. *)
LEMMA LowBit ==
  ASSUME NEW m \in Nat, NEW e \in 0 .. m - 1, NEW u \in Nat, NEW v \in Nat
  PROVE  Shift(u + Pow2(m) * v, e) % 2 = Shift(u, e) % 2
<1> DEFINE T == {k \in Nat : \A d \in Nat : \A x \in Nat :
                   Shift(x + Pow2(k + d + 1) * v, k) % 2 = Shift(x, k) % 2}
<1>0. \A j \in Nat : Pow2(j) \in Nat /\ Pow2(j + 1) = 2 * Pow2(j)
  BY Pow2Is
<1>1. 0 \in T
  <2> SUFFICES ASSUME NEW d \in Nat, NEW x \in Nat
               PROVE  Shift(x + Pow2(0 + d + 1) * v, 0) % 2 = Shift(x, 0) % 2
    OBVIOUS
  <2> DEFINE p == Pow2(d)
             y1 == x + Pow2(0 + d + 1) * v
  <2>1. 0 + d + 1 = d + 1
    OBVIOUS
  <2>2. p \in Nat /\ Pow2(0 + d + 1) = 2 * p
    BY ONLY <1>0, <2>1, d \in Nat
  <2> HIDE DEF p
  <2>3. p * v \in Nat /\ y1 = x + 2 * (p * v) /\ y1 \in Nat
    BY ONLY <2>2, x \in Nat, v \in Nat
  <2> HIDE DEF y1
  <2>4. y1 % 2 = x % 2
    BY ONLY <2>3, x \in Nat, HalfOf
  <2>5. Shift(y1, 0) = y1 /\ Shift(x, 0) = x
    BY ONLY <2>3, x \in Nat, ShiftIs
  <2> QED BY ONLY <2>4, <2>5 DEF y1
<1>2. \A k \in Nat : k \in T => k + 1 \in T
  <2> SUFFICES ASSUME NEW k \in Nat, k \in T, NEW d \in Nat, NEW x \in Nat
               PROVE  Shift(x + Pow2((k + 1) + d + 1) * v, k + 1) % 2 = Shift(x, k + 1) % 2
    <3>1. \A k \in Nat : k + 1 \in Nat
      OBVIOUS
    <3> QED BY <3>1, Zenon
  <2> DEFINE p == Pow2(k + d + 1)
             y1 == x + Pow2((k + 1) + d + 1) * v
  <2>0. \A z \in Nat : Shift(z + p * v, k) % 2 = Shift(z, k) % 2
    BY ONLY k \in T, d \in Nat
  <2>1. (k + 1) + d + 1 = (k + d + 1) + 1 /\ k + d + 1 \in Nat
    BY ONLY k \in Nat, d \in Nat
  <2>2. p \in Nat /\ Pow2((k + 1) + d + 1) = 2 * p
    BY ONLY <1>0, <2>1
  <2> HIDE DEF p, T
  <2>3. p * v \in Nat /\ y1 = x + 2 * (p * v) /\ y1 \in Nat
    BY ONLY <2>2, x \in Nat, v \in Nat
  <2> HIDE DEF y1
  <2>4. y1 \div 2 = (x \div 2) + p * v
    BY ONLY <2>3, x \in Nat, HalfOf
  <2>5. Shift(y1, k + 1) = Shift(y1 \div 2, k) /\ Shift(x, k + 1) = Shift(x \div 2, k)
    BY ONLY <2>3, k \in Nat, x \in Nat, ShiftHalf
  <2>6. x \div 2 \in Nat
    BY ONLY x \in Nat, Halves
  <2>7. Shift((x \div 2) + p * v, k) % 2 = Shift(x \div 2, k) % 2
    BY ONLY <2>0, <2>6
  <2>8. Shift(y1, k + 1) % 2 = Shift(x, k + 1) % 2
    BY ONLY <2>4, <2>5, <2>7
  <2> QED BY ONLY <2>8 DEF y1
<1> HIDE DEF T
<1>3. e \in T
  <2>1. e \in Nat
    OBVIOUS
  <2> QED BY ONLY <1>1, <1>2, <2>1, Induction
<1>4. (m - e) - 1 \in Nat /\ e + ((m - e) - 1) + 1 = m
  OBVIOUS
<1>5. \A d \in Nat : \A x \in Nat : Shift(x + Pow2(e + d + 1) * v, e) % 2 = Shift(x, e) % 2
  BY ONLY <1>3 DEF T
<1>6. Shift(u + Pow2(e + ((m - e) - 1) + 1) * v, e) % 2 = Shift(u, e) % 2
  BY ONLY <1>4, <1>5, u \in Nat
<1> QED BY ONLY <1>4, <1>6

(* What is left below the bits shifted out. *)
LEMMA ShiftSplits ==
  ASSUME NEW x \in Nat, NEW n \in Nat
  PROVE  \E r \in Nat : r < Pow2(n) /\ x = Pow2(n) * Shift(x, n) + r
<1> DEFINE T == {k \in Nat : \E r \in Nat : r < Pow2(k) /\ x = Pow2(k) * Shift(x, k) + r}
<1>1. 0 \in T
  <2>1. Pow2(0) = 1 /\ Shift(x, 0) = x
    BY Pow2Is, ShiftIs
  <2>2. 0 \in Nat /\ 0 < 1 /\ x = 1 * x + 0
    OBVIOUS
  <2> QED BY ONLY <2>1, <2>2
<1>2. \A k \in Nat : k \in T => k + 1 \in T
  <2> SUFFICES ASSUME NEW k \in Nat, k \in T PROVE k + 1 \in T
    OBVIOUS
  <2>1. PICK r \in Nat : r < Pow2(k) /\ x = Pow2(k) * Shift(x, k) + r
    BY ONLY k \in T
  <2> DEFINE p == Pow2(k)
             y1 == Shift(x, k)
             h == y1 \div 2
             b == y1 % 2
  <2>2. p \in Nat /\ Pow2(k + 1) = 2 * p /\ y1 \in Nat /\ Shift(x, k + 1) = h
    BY ONLY k \in Nat, x \in Nat, Pow2Is, ShiftIs
  <2>3. h \in Nat /\ b \in {0, 1} /\ y1 = 2 * h + b
    BY ONLY <2>2, Halves
  <2>4. r < p /\ x = p * y1 + r
    BY ONLY <2>1
  <2> HIDE DEF p, y1, h, b
  <2> DEFINE t == p * b + r
  <2>5. t \in Nat /\ t < 2 * p
    <3>1. CASE b = 0
      BY ONLY <2>2, <2>4, <3>1, r \in Nat
    <3>2. CASE b = 1
      BY ONLY <2>2, <2>4, <3>2, r \in Nat
    <3> QED BY ONLY <2>3, <3>1, <3>2
  <2>6. p * (2 * h + b) = (2 * p) * h + p * b
    BY ONLY <2>2, <2>3
  <2>7. (2 * p) * h \in Nat /\ p * b \in Nat
    BY ONLY <2>2, <2>3
  <2>8. x = (2 * p) * h + t
    BY ONLY <2>3, <2>4, <2>6, <2>7, r \in Nat
  <2> HIDE DEF t
  <2>9. k + 1 \in Nat
    OBVIOUS
  <2> QED BY ONLY <2>2, <2>5, <2>8, <2>9
<1> HIDE DEF T
<1>3. n \in T
  BY ONLY <1>1, <1>2, n \in Nat, Induction
<1> QED BY ONLY <1>3 DEF T

(* The low bits of a number are the number modulo a power of two. *)
LEMMA FieldIsBits ==
  ASSUME NEW x \in Nat, NEW n \in Nat, NEW t, \A e \in 0 .. n - 1 : t[e] = (Shift(x, e) % 2) * Pow2(e)
  PROVE  x % Pow2(n) = Sum(t, n)
<1>0. \A e \in 0 .. n - 1 : t[e] = (Shift(x, e) % 2) * Pow2(e)
  OBVIOUS
<1> DEFINE T == {k \in Nat : k <= n => x % Pow2(k) = Sum(t, k)}
<1>1. \A e \in Nat : Pow2(e) \in Nat /\ Pow2(e) >= 1 /\ Pow2(e + 1) = 2 * Pow2(e) /\ Shift(x, e) \in Nat
  BY Pow2Is, ShiftIs
<1>2. \A e \in Nat : Shift(x, e) % 2 \in {0, 1} /\ (Shift(x, e) % 2) * Pow2(e) \in Int
  <2> TAKE e \in Nat
  <2>1. Shift(x, e) % 2 \in {0, 1}
    BY ONLY <1>1, e \in Nat, Halves
  <2> QED BY ONLY <1>1, <2>1, e \in Nat
<1>3. \A k \in Nat : k <= n => Ints(t, k)
  <2> TAKE k \in Nat
  <2> HAVE k <= n
  <2> SUFFICES ASSUME NEW e \in 0 .. k - 1 PROVE t[e] \in Int
    BY DEF Ints
  <2>1. e \in Nat /\ e \in 0 .. n - 1
    OBVIOUS
  <2> QED BY ONLY <1>0, <1>2, <2>1
<1>4. 0 \in T
  <2>1. Pow2(0) = 1 /\ Sum(t, 0) = 0 /\ x % 1 = 0
    BY Pow2Is, SumZero
  <2>2. 0 \in Nat
    OBVIOUS
  <2> QED BY ONLY <2>1, <2>2
<1>5. \A k \in Nat : k \in T => k + 1 \in T
  <2> SUFFICES ASSUME NEW k \in Nat, k \in T, k + 1 <= n PROVE x % Pow2(k + 1) = Sum(t, k + 1)
    OBVIOUS
  <2>1. k <= n /\ k \in 0 .. n - 1 /\ k + 1 \in Nat /\ k + 1 <= n
    OBVIOUS
  <2>2. x % Pow2(k) = Sum(t, k)
    BY ONLY <2>1, k \in T
  <2> HIDE DEF T
  <2>3. Sum(t, k) \in Int /\ Sum(t, k + 1) = Sum(t, k) + t[k]
    <3>1. Ints(t, k + 1)
      BY ONLY <1>3, <2>1
    <3> QED BY ONLY <3>1, k \in Nat, SumNext
  <2> DEFINE p == Pow2(k)
             y1 == Shift(x, k)
             h == y1 \div 2
             b == y1 % 2
  <2>4. PICK r \in Nat : r < p /\ x = p * y1 + r
    BY ONLY x \in Nat, k \in Nat, ShiftSplits
  <2>5. p \in Nat /\ p >= 1 /\ Pow2(k + 1) = 2 * p /\ y1 \in Nat
    BY ONLY <1>1, k \in Nat
  <2>6. h \in Nat /\ b \in {0, 1} /\ y1 = 2 * h + b
    BY ONLY <2>5, Halves
  <2>7. t[k] = b * p
    BY ONLY <1>0, <2>1
  <2> HIDE DEF p, y1, h, b
  <2>8. x % p = r
    <3>1. r \in 0 .. p - 1 /\ y1 \in Int
      BY ONLY <2>4, <2>5, r \in Nat
    <3> QED BY ONLY <2>4, <2>5, <3>1, x \in Nat, EuclidUnique
  <2> DEFINE w == b * p + r
  <2>9. w \in 0 .. 2 * p - 1
    <3>1. CASE b = 0
      BY ONLY <2>4, <2>5, <3>1, r \in Nat
    <3>2. CASE b = 1
      BY ONLY <2>4, <2>5, <3>2, r \in Nat
    <3> QED BY ONLY <2>6, <3>1, <3>2
  <2>10. x = (2 * p) * h + w
    <3>1. p * (2 * h + b) = (2 * p) * h + b * p
      BY ONLY <2>5, <2>6
    <3>2. (2 * p) * h \in Int /\ b * p \in Int
      BY ONLY <2>5, <2>6
    <3> QED BY ONLY <2>4, <2>6, <3>1, <3>2, r \in Nat
  <2> HIDE DEF w
  <2>11. x % (2 * p) = w
    <3>1. 2 * p \in Nat /\ 2 * p >= 1 /\ h \in Int /\ x \in Int
      BY ONLY <2>5, <2>6, x \in Nat
    <3> QED BY ONLY <2>9, <2>10, <3>1, EuclidUnique
  <2>12. r = Sum(t, k)
    BY ONLY <2>2, <2>8 DEF p
  <2>13. b * p \in Int
    BY ONLY <2>5, <2>6
  <2>14. w = Sum(t, k + 1)
    BY ONLY <2>3, <2>7, <2>12, <2>13, r \in Nat DEF w
  <2> QED BY ONLY <2>5, <2>11, <2>14
<1> HIDE DEF T
<1>6. n \in T
  BY ONLY <1>4, <1>5, n \in Nat, Induction
<1>7. n <= n
  OBVIOUS
<1> QED BY ONLY <1>6, <1>7 DEF T

-----------------------------------------------------------------------------
(* A number whose bytes are b[0], .., b[n - 1]. *)
BytesOf(b, n)    == \A k \in 0 .. n - 1 : b[k] \in 0 .. S!Byte - 1
Weighed(t, b, n) == \A k \in 0 .. n - 1 : t[k] = b[k] * Pow2(S!Bits * k)

LEMMA WordTerms ==
  ASSUME NEW n \in Nat, NEW b, NEW t, BytesOf(b, n), Weighed(t, b, n), NEW k \in 0 .. n - 1
  PROVE  /\ b[k] \in Nat /\ b[k] <= S!Byte - 1 /\ t[k] = b[k] * Pow2(S!Bits * k) /\ t[k] \in Nat
         /\ Pow2(S!Bits * k) \in Nat /\ Pow2(S!Bits * (k + 1)) = Pow2(S!Bits * k) * S!Byte
<1>1. S!Bits \in Nat /\ S!Byte \in Nat /\ k \in Nat
  BY ByteFacts
<1>2. S!Bits * k \in Nat /\ S!Bits * (k + 1) = S!Bits * k + S!Bits
  BY ONLY <1>1
<1>3. Pow2(S!Bits * k) \in Nat
  BY ONLY <1>2, Pow2Is
<1>4. Pow2(S!Bits * k + S!Bits) = Pow2(S!Bits * k) * Pow2(S!Bits)
  BY ONLY <1>1, <1>2, Pow2Adds
<1>5. b[k] \in 0 .. S!Byte - 1 /\ t[k] = b[k] * Pow2(S!Bits * k)
  BY DEF BytesOf, Weighed
<1>6. b[k] * Pow2(S!Bits * k) \in Nat /\ b[k] \in Nat /\ b[k] <= S!Byte - 1
  BY ONLY <1>1, <1>3, <1>5
<1> QED BY ONLY <1>2, <1>3, <1>4, <1>5, <1>6 DEF S!Byte

LEMMA WordInts ==
  ASSUME NEW n \in Nat, NEW b, NEW t, BytesOf(b, n), Weighed(t, b, n), NEW j \in 0 .. n
  PROVE  Ints(t, j)
<1> SUFFICES ASSUME NEW k \in 0 .. j - 1 PROVE t[k] \in Int
  BY DEF Ints
<1>1. k \in 0 .. n - 1
  OBVIOUS
<1>2. t[k] \in Nat
  BY <1>1, WordTerms
<1> QED BY ONLY <1>2

LEMMA WordBelow ==
  ASSUME NEW n \in Nat, NEW b, NEW t, BytesOf(b, n), Weighed(t, b, n), NEW j \in 0 .. n
  PROVE  Sum(t, j) \in Nat /\ Sum(t, j) < Pow2(S!Bits * j)
<1> DEFINE T == {k \in Nat : k <= n => Sum(t, k) \in Nat /\ Sum(t, k) < Pow2(S!Bits * k)}
<1>1. 0 \in T
  <2>1. S!Bits * 0 = 0 /\ 0 \in Nat
    BY ByteFacts
  <2>2. Pow2(0) = 1 /\ Sum(t, 0) = 0
    BY Pow2Is, SumZero
  <2> QED BY ONLY <2>1, <2>2
<1>2. \A k \in Nat : k \in T => k + 1 \in T
  <2> SUFFICES ASSUME NEW k \in Nat, k \in T, k + 1 <= n
               PROVE  Sum(t, k + 1) \in Nat /\ Sum(t, k + 1) < Pow2(S!Bits * (k + 1))
    OBVIOUS
  <2>1. k <= n /\ k \in 0 .. n - 1 /\ k + 1 \in 0 .. n
    OBVIOUS
  <2>2. Sum(t, k) \in Nat /\ Sum(t, k) < Pow2(S!Bits * k)
    BY ONLY <2>1, k \in T
  <2> HIDE DEF T
  <2>3. Sum(t, k + 1) = Sum(t, k) + t[k]
    <3>1. Ints(t, k + 1)
      BY <2>1, WordInts
    <3> QED BY ONLY <3>1, k \in Nat, SumNext
  <2>4. /\ b[k] \in Nat /\ b[k] <= S!Byte - 1 /\ t[k] = b[k] * Pow2(S!Bits * k)
        /\ Pow2(S!Bits * k) \in Nat /\ Pow2(S!Bits * (k + 1)) = Pow2(S!Bits * k) * S!Byte
    BY <2>1, WordTerms
  <2>5. S!Byte \in Nat
    BY ByteFacts
  <2> DEFINE p == Pow2(S!Bits * k)
             x == b[k]
             s == Sum(t, k)
             y1 == S!Byte
  <2>6. /\ x \in Nat /\ p \in Nat /\ s \in Nat /\ y1 \in Nat /\ x + 1 <= y1 /\ s < p
        /\ Sum(t, k + 1) = s + x * p /\ Pow2(S!Bits * (k + 1)) = p * y1
    BY ONLY <2>2, <2>3, <2>4, <2>5
  <2> HIDE DEF p, x, s, y1
  <2>7. x * p \in Nat /\ (x + 1) * p = x * p + p
    BY ONLY <2>6
  <2>8. (x + 1) * p <= y1 * p /\ y1 * p = p * y1
    BY ONLY <2>6
  <2>9. s + x * p \in Nat /\ s + x * p < p * y1
    <3> DEFINE xp == x * p
               yp == p * y1
    <3>1. xp \in Nat /\ xp + p <= yp /\ yp \in Nat
      BY ONLY <2>6, <2>7, <2>8
    <3> HIDE DEF xp, yp
    <3>2. s + xp \in Nat /\ s + xp < yp
      BY ONLY <2>6, <3>1
    <3> QED BY ONLY <3>2 DEF xp, yp
  <2> QED BY ONLY <2>6, <2>9
<1> HIDE DEF T
<1>3. j \in T /\ j <= n
  <2>1. j \in Nat /\ j <= n
    OBVIOUS
  <2> QED BY ONLY <1>1, <1>2, <2>1, Induction
<1> QED BY ONLY <1>3 DEF T

LEMMA WordSplits ==
  ASSUME NEW n \in Nat, NEW b, NEW t, BytesOf(b, n), Weighed(t, b, n), NEW m \in 0 .. n - 1
  PROVE  \E h \in Nat : Sum(t, n) = Sum(t, m) + Pow2(S!Bits * m) * (b[m] + S!Byte * h)
<1> DEFINE T == {d \in Nat : m + 1 + d <= n =>
                   \E h \in Nat : Sum(t, m + 1 + d) = Sum(t, m) + Pow2(S!Bits * m) * (b[m] + S!Byte * h)}
<1>0. m \in Nat /\ S!Byte \in Nat /\ S!Bits \in Nat
  BY ByteFacts
<1>a. /\ b[m] \in Nat /\ t[m] = b[m] * Pow2(S!Bits * m) /\ Pow2(S!Bits * m) \in Nat
      /\ Pow2(S!Bits * (m + 1)) = Pow2(S!Bits * m) * S!Byte
  BY WordTerms
<1>b. Sum(t, m) \in Nat
  <2>1. m \in 0 .. n
    OBVIOUS
  <2> QED BY <2>1, WordBelow
<1>1. 0 \in T
  <2>1. m + 1 + 0 = m + 1 /\ m + 1 \in 0 .. n /\ 0 \in Nat
    OBVIOUS
  <2>2. Sum(t, m + 1) = Sum(t, m) + t[m]
    <3>1. Ints(t, m + 1)
      BY <2>1, WordInts
    <3> QED BY ONLY <1>0, <3>1, SumNext
  <2>3. b[m] * Pow2(S!Bits * m) = Pow2(S!Bits * m) * (b[m] + S!Byte * 0)
    BY ONLY <1>0, <1>a
  <2>4. Sum(t, m + 1 + 0) = Sum(t, m) + Pow2(S!Bits * m) * (b[m] + S!Byte * 0)
    BY ONLY <1>a, <2>1, <2>2, <2>3
  <2> QED BY ONLY <2>1, <2>4
<1>2. \A d \in Nat : d \in T => d + 1 \in T
  <2> SUFFICES ASSUME NEW d \in Nat, d \in T, m + 1 + (d + 1) <= n
               PROVE  \E h \in Nat : Sum(t, m + 1 + (d + 1)) =
                        Sum(t, m) + Pow2(S!Bits * m) * (b[m] + S!Byte * h)
    OBVIOUS
  <2> DEFINE k == m + 1 + d
  <2>1. /\ k \in Nat /\ m + 1 + (d + 1) = k + 1 /\ k + 1 \in 0 .. n /\ k \in 0 .. n - 1
        /\ m + 1 + d <= n
    BY ONLY <1>0, d \in Nat, m + 1 + (d + 1) <= n, n \in Nat
  <2>2. PICK h \in Nat : Sum(t, k) = Sum(t, m) + Pow2(S!Bits * m) * (b[m] + S!Byte * h)
    BY ONLY <2>1, d \in T
  <2> HIDE DEF T
  <2>3. Sum(t, k + 1) = Sum(t, k) + t[k]
    <3>1. Ints(t, k + 1)
      BY <2>1, WordInts
    <3> QED BY ONLY <2>1, <3>1, SumNext
  <2>4. b[k] \in Nat /\ t[k] = b[k] * Pow2(S!Bits * k)
    BY <2>1, WordTerms
  <2>5. Pow2(S!Bits * k) = Pow2(S!Bits * m) * (S!Byte * Pow2(S!Bits * d)) /\ Pow2(S!Bits * d) \in Nat
    <3>1. S!Bits * k = S!Bits * (m + 1) + S!Bits * d /\ S!Bits * (m + 1) \in Nat /\ S!Bits * d \in Nat
      BY ONLY <1>0, d \in Nat
    <3>2. Pow2(S!Bits * (m + 1) + S!Bits * d) = Pow2(S!Bits * (m + 1)) * Pow2(S!Bits * d)
      BY ONLY <3>1, Pow2Adds
    <3>3. Pow2(S!Bits * d) \in Nat
      BY ONLY <3>1, Pow2Is
    <3>4. (Pow2(S!Bits * m) * S!Byte) * Pow2(S!Bits * d) = Pow2(S!Bits * m) * (S!Byte * Pow2(S!Bits * d))
      BY ONLY <1>0, <1>a, <3>3
    <3> QED BY ONLY <1>a, <3>1, <3>2, <3>3, <3>4
  <2> DEFINE p == Pow2(S!Bits * m)
             q == Pow2(S!Bits * d)
             x == b[k]
             z == b[m]
             y1 == S!Byte
             s == Sum(t, m)
  <2>6. /\ p \in Nat /\ q \in Nat /\ x \in Nat /\ z \in Nat /\ y1 \in Nat /\ s \in Nat
        /\ Sum(t, k + 1) = (s + p * (z + y1 * h)) + x * (p * (y1 * q))
    BY ONLY <1>0, <1>a, <1>b, <2>2, <2>3, <2>4, <2>5
  <2> HIDE DEF p, q, x, z, y1, s
  <2>7. h + x * q \in Nat
    BY ONLY <2>6, h \in Nat
  <2>8. Sum(t, k + 1) = s + p * (z + y1 * (h + x * q))
    <3>1. y1 * (h + x * q) = y1 * h + y1 * (x * q) /\ y1 * h \in Nat /\ y1 * (x * q) \in Nat
      BY ONLY <2>6, h \in Nat
    <3> DEFINE yh  == y1 * h
               yxq == y1 * (x * q)
    <3>2. x * (p * (y1 * q)) = p * yxq
      BY ONLY <2>6
    <3> HIDE DEF yh, yxq
    <3>3. yh \in Nat /\ yxq \in Nat
      BY ONLY <3>1 DEF yh, yxq
    <3>4. p * (z + (yh + yxq)) = p * (z + yh) + p * yxq /\ p * (z + yh) \in Nat /\ p * yxq \in Nat
      BY ONLY <2>6, <3>3
    <3>5. s + p * (z + (yh + yxq)) = (s + p * (z + yh)) + p * yxq
      BY ONLY <2>6, <3>4
    <3>6. y1 * (h + x * q) = yh + yxq
      BY ONLY <3>1 DEF yh, yxq
    <3> QED BY ONLY <2>6, <3>2, <3>5, <3>6 DEF yh
  <2>9. \E i \in Nat : Sum(t, k + 1) = s + p * (z + y1 * i)
    BY ONLY <2>7, <2>8
  <2> QED BY ONLY <2>1, <2>9 DEF s, p, z, y1
<1> HIDE DEF T
<1>3. (n - m) - 1 \in T
  <2>1. (n - m) - 1 \in Nat
    OBVIOUS
  <2> QED BY ONLY <1>1, <1>2, <2>1, Induction
<1>4. m + 1 + ((n - m) - 1) = n /\ n <= n
  OBVIOUS
<1> QED BY ONLY <1>3, <1>4 DEF T

LEMMA BitOfWord ==
  ASSUME NEW n \in Nat, NEW b, NEW t, BytesOf(b, n), Weighed(t, b, n),
         NEW p \in 0 .. n * S!Bits - 1
  PROVE  Shift(Sum(t, n), p) % 2 = Shift(b[p \div S!Bits], p % S!Bits) % 2
<1> DEFINE w == S!Bits
           m == p \div w
           e == p % w
<1>1. w \in Nat /\ w >= 1 /\ S!Byte \in Nat
  BY ByteFacts
<1>2. p = w * m + e /\ e \in 0 .. w - 1 /\ m \in Int
  <2>1. p \in Int
    OBVIOUS
  <2> HIDE DEF w
  <2> QED BY ONLY <1>1, <2>1, Euclid
<1> HIDE DEF w, m, e
<1>3. m \in 0 .. n - 1
  <2>1. p \in 0 .. n * w - 1
    BY DEF w
  <2>2. m >= 0
    <3>1. m <= -1 => w * m <= - w
      BY ONLY <1>1, <1>2
    <3>2. w * m \in Int
      BY ONLY <1>1, <1>2
    <3> QED BY ONLY <1>1, <1>2, <2>1, <3>1, <3>2
  <2>3. m <= n - 1
    <3>1. m >= n => w * m >= w * n
      BY ONLY <1>1, <1>2, n \in Nat
    <3>2. w * m \in Int /\ w * n = n * w /\ w * n \in Int
      BY ONLY <1>1, <1>2, n \in Nat
    <3> QED BY ONLY <1>1, <1>2, <2>1, <3>1, <3>2, n \in Nat
  <2> QED BY ONLY <1>2, <2>2, <2>3, n \in Nat
<1>4. PICK h \in Nat : Sum(t, n) = Sum(t, m) + Pow2(S!Bits * m) * (b[m] + S!Byte * h)
  BY <1>3, WordSplits
<1>5. b[m] \in Nat
  BY <1>3, WordTerms
<1>6. Sum(t, m) \in Nat /\ Sum(t, m) < Pow2(S!Bits * m)
  <2>1. m \in 0 .. n
    BY <1>3
  <2> QED BY <2>1, WordBelow
<1> DEFINE v == b[m] + S!Byte * h
           x == Sum(t, n)
           k == w * m
<1>7. v \in Nat /\ k \in Nat /\ e \in Nat
  BY ONLY <1>1, <1>2, <1>3, <1>5, h \in Nat
<1>8. x = Sum(t, m) + Pow2(k) * v /\ Sum(t, m) < Pow2(k)
  BY ONLY <1>4, <1>6 DEF w
<1>9. Pow2(k) \in Nat
  BY ONLY <1>7, Pow2Is
<1> HIDE DEF v, x, k
<1>10. x \in Nat
  <2>1. Pow2(k) * v \in Nat
    BY ONLY <1>7, <1>9
  <2> QED BY ONLY <1>6, <1>8, <2>1
<1>11. Shift(x, k) = v
  BY ONLY <1>6, <1>7, <1>8, ShiftDrops
<1>12. Shift(x, k + e) = Shift(v, e)
  BY ONLY <1>7, <1>10, <1>11, ShiftAdds
<1>13. Shift(v, e) % 2 = Shift(b[m], e) % 2
  <2>1. Shift(b[m] + Pow2(w) * h, e) % 2 = Shift(b[m], e) % 2
    BY ONLY <1>1, <1>2, <1>5, h \in Nat, LowBit
  <2> QED BY ONLY <2>1 DEF v, w, S!Byte
<1> QED BY ONLY <1>2, <1>12, <1>13 DEF x, k, m, e, w

(* The bits of the first bytes of a stream are the first bits of it. *)
LEMMA WordBits ==
  ASSUME IsStream(stream), NEW n \in Nat, NEW s, s = [k \in 1 .. n |-> S!At(0 + k - 1)]
  PROVE  /\ S!Word(s) \in Nat
         /\ \A p \in 0 .. n * S!Bits - 1 : Shift(S!Word(s), p) % 2 = S!StreamBit(p)
<1> DEFINE b == [k \in 0 .. n - 1 |-> S!At(k)]
           t == [k \in 0 .. Len(s) - 1 |-> s[k + 1] * Pow2(S!Bits * k)]
<1>1. \A k \in Int : S!At(k) \in 0 .. S!Byte - 1
  BY AtIs
<1>2. Len(s) = n
  <2>1. \A k \in 1 .. n : 0 + k - 1 \in Int
    OBVIOUS
  <2>2. s \in [1 .. n -> 0 .. S!Byte - 1]
    BY ONLY <1>1, <2>1, s = [k \in 1 .. n |-> S!At(0 + k - 1)]
  <2> QED BY ONLY <2>2, n \in Nat, AsSeq
<1>3. \A k \in 0 .. n - 1 : b[k] = S!At(k) /\ s[k + 1] = S!At(k) /\ t[k] = s[k + 1] * Pow2(S!Bits * k)
  <2> TAKE k \in 0 .. n - 1
  <2>1. k + 1 \in 1 .. n /\ 0 + (k + 1) - 1 = k /\ k \in 0 .. Len(s) - 1
    BY <1>2
  <2>2. s[k + 1] = S!At(0 + (k + 1) - 1)
    BY ONLY <2>1, s = [i \in 1 .. n |-> S!At(0 + i - 1)]
  <2> QED BY <2>1, <2>2
<1>4. S!Word(s) = Sum(t, n)
  BY <1>2 DEF S!Word
<1> HIDE DEF b, t
<1>5. BytesOf(b, n)
  <2> SUFFICES ASSUME NEW k \in 0 .. n - 1 PROVE b[k] \in 0 .. S!Byte - 1
    BY DEF BytesOf
  <2>1. k \in Int
    OBVIOUS
  <2> QED BY ONLY <1>1, <1>3, <2>1, k \in 0 .. n - 1
<1>6. Weighed(t, b, n)
  BY ONLY <1>3 DEF Weighed
<1>7. S!Word(s) \in Nat
  <2>1. n \in 0 .. n
    OBVIOUS
  <2> QED BY ONLY <1>4, <1>5, <1>6, <2>1, n \in Nat, WordBelow
<1>8. ASSUME NEW p \in 0 .. n * S!Bits - 1 PROVE Shift(S!Word(s), p) % 2 = S!StreamBit(p)
  <2>1. Shift(Sum(t, n), p) % 2 = Shift(b[p \div S!Bits], p % S!Bits) % 2
    BY ONLY <1>5, <1>6, n \in Nat, p \in 0 .. n * S!Bits - 1, BitOfWord
  <2> DEFINE w == S!Bits
             m == p \div w
  <2>2. w \in Nat /\ w >= 1
    BY ByteFacts
  <2>3. m \in 0 .. n - 1
    <3>1. p = w * m + (p % w) /\ p % w \in 0 .. w - 1 /\ m \in Int
      <4>1. p \in Int
        OBVIOUS
      <4> HIDE DEF w
      <4> QED BY ONLY <2>2, <4>1, Euclid
    <3>2. p \in 0 .. n * w - 1
      OBVIOUS
    <3> DEFINE e == p % w
    <3>3. p = w * m + e /\ e \in 0 .. w - 1
      BY ONLY <3>1
    <3> HIDE DEF w, m, e
    <3>4. m >= 0
      <4>1. m <= -1 => w * m <= - w
        BY ONLY <2>2, <3>1
      <4>2. w * m \in Int
        BY ONLY <2>2, <3>1
      <4> QED BY ONLY <2>2, <3>1, <3>2, <3>3, <4>1, <4>2
    <3>5. m <= n - 1
      <4>1. m >= n => w * m >= w * n
        BY ONLY <2>2, <3>1, n \in Nat
      <4>2. w * m \in Int /\ w * n = n * w /\ w * n \in Int
        BY ONLY <2>2, <3>1, n \in Nat
      <4> QED BY ONLY <2>2, <3>1, <3>2, <3>3, <4>1, <4>2, n \in Nat
    <3> QED BY ONLY <3>1, <3>4, <3>5, n \in Nat
  <2>4. b[m] = S!At(m)
    BY ONLY <1>3, <2>3
  <2> QED BY ONLY <1>4, <2>1, <2>4 DEF S!StreamBit
<1> QED BY ONLY <1>7, <1>8

-----------------------------------------------------------------------------
(* The stream repeats itself. *)
LEMMA AtAgain ==
  ASSUME NEW x \in Int, NEW y1 \in Int, x % Period = y1 % Period, NEW a \in Int, NEW b \in Int
  PROVE  S!At(a * x + b) = S!At(a * y1 + b)
<1>1. Period \in Nat /\ Period >= 1
  BY SamplerFacts
<1> DEFINE r  == x % Period
           dx == x \div Period
           dy == y1 \div Period
<1>2. x = Period * dx + r /\ y1 = Period * dy + r /\ dx \in Int /\ dy \in Int /\ r \in Int
  <2>1. x = Period * (x \div Period) + (x % Period) /\ x % Period \in 0 .. Period - 1 /\ x \div Period \in Int
    BY ONLY <1>1, x \in Int, Euclid
  <2>2. y1 = Period * (y1 \div Period) + (y1 % Period) /\ y1 \div Period \in Int
    BY ONLY <1>1, y1 \in Int, Euclid
  <2>3. x % Period = y1 % Period
    OBVIOUS
  <2>4. y1 = Period * dy + r
    BY ONLY <2>2, <2>3
  <2>5. r \in Int
    BY ONLY <1>1, <2>1
  <2> QED BY ONLY <2>1, <2>2, <2>4, <2>5
<1> HIDE DEF r, dx, dy
<1> DEFINE u == a * x + b
           v == a * y1 + b
           e == a * (dx - dy)
<1>3. u \in Int /\ v \in Int /\ e \in Int
  BY ONLY <1>2, x \in Int, y1 \in Int, a \in Int, b \in Int
<1>4. u = v + Period * e
  <2>1. x - y1 = Period * (dx - dy)
    BY ONLY <1>1, <1>2
  <2>2. a * x - a * y1 = a * (x - y1) /\ a * x \in Int /\ a * y1 \in Int
    BY ONLY x \in Int, y1 \in Int, a \in Int
  <2>3. a * (Period * (dx - dy)) = Period * (a * (dx - dy))
    BY ONLY <1>1, <1>2, a \in Int
  <2>4. Period * e \in Int
    BY ONLY <1>1, <1>3
  <2> QED BY ONLY <2>1, <2>2, <2>3, <2>4, b \in Int
<1> HIDE DEF u, v, e
<1>5. v = Period * (v \div Period) + (v % Period) /\ v % Period \in 0 .. Period - 1 /\ v \div Period \in Int
  BY ONLY <1>1, <1>3, Euclid
<1> DEFINE f == v \div Period
           s == v % Period
<1>6. v = Period * f + s /\ s \in 0 .. Period - 1 /\ f \in Int
  BY ONLY <1>5
<1> HIDE DEF f, s
<1>7. u = Period * (f + e) + s /\ f + e \in Int
  <2>1. Period * (f + e) = Period * f + Period * e /\ Period * f \in Int /\ Period * e \in Int
    BY ONLY <1>1, <1>3, <1>6
  <2> QED BY ONLY <1>3, <1>4, <1>6, <2>1
<1>8. u % Period = s
  BY ONLY <1>1, <1>3, <1>6, <1>7, EuclidUnique
<1>9. u % Period = v % Period
  BY ONLY <1>8 DEF s
<1> QED BY ONLY <1>9 DEF S!At, u, v

-----------------------------------------------------------------------------
(* Candidates and halves of bytes, as functions of their number. *)
Cands   == [k \in Nat |-> S!Candidate(S!At(3 * k - 3), S!At(3 * k - 2), S!At(3 * k - 1))]
Nibbles == [k \in Nat |-> IF k % 2 = 1 THEN S!At(k \div 2) % S!Nibble
                          ELSE S!At(k \div 2 - 1) \div S!Nibble]

LEMMA CandsCome ==
  ASSUME task = "ntt", S!Acceptable, NEW cur \in Nat
  PROVE  \E k \in cur + 1 .. cur + Period : Cands[k] \in S!CandidateOk
<1>0. Period \in Nat /\ Period >= 1
  BY SamplerFacts
<1>1. PICK j \in 1 .. Period :
        S!Candidate(S!At(3 * j - 3), S!At(3 * j - 2), S!At(3 * j - 1)) \in S!CandidateOk
  BY DEF S!Acceptable
<1>2. j \in Int /\ j % Period \in 0 .. Period - 1 /\ cur + 1 \in Int
  BY ONLY <1>0, j \in 1 .. Period, cur \in Nat
<1>3. PICK k \in cur + 1 .. cur + 1 + Period - 1 : k % Period = j % Period
  BY ONLY <1>2, Window
<1>4. k \in Nat /\ k \in Int /\ k \in cur + 1 .. cur + Period
  BY ONLY <1>0, cur \in Nat, k \in cur + 1 .. cur + 1 + Period - 1
<1>5. /\ S!At(3 * k + (-3)) = S!At(3 * j + (-3)) /\ S!At(3 * k + (-2)) = S!At(3 * j + (-2))
      /\ S!At(3 * k + (-1)) = S!At(3 * j + (-1))
  <2>1. 3 \in Int /\ -3 \in Int /\ -2 \in Int /\ -1 \in Int
    OBVIOUS
  <2> QED BY ONLY <1>2, <1>3, <1>4, <2>1, AtAgain
<1>6. /\ 3 * k + (-3) = 3 * k - 3 /\ 3 * k + (-2) = 3 * k - 2 /\ 3 * k + (-1) = 3 * k - 1
      /\ 3 * j + (-3) = 3 * j - 3 /\ 3 * j + (-2) = 3 * j - 2 /\ 3 * j + (-1) = 3 * j - 1
  BY ONLY <1>2, <1>4
<1>7. Cands[k] = S!Candidate(S!At(3 * j - 3), S!At(3 * j - 2), S!At(3 * j - 1))
  BY ONLY <1>4, <1>5, <1>6 DEF Cands
<1> QED BY ONLY <1>1, <1>4, <1>7

LEMMA NibblesAre ==
  ASSUME NEW p \in Nat
  PROVE  Nibbles[2 * p + 1] = S!At(p) % S!Nibble /\ Nibbles[2 * p + 2] = S!At(p) \div S!Nibble
<1>1. 2 * p + 1 \in Nat /\ 2 * p + 2 \in Nat
  OBVIOUS
<1>2. (2 * p + 1) % 2 = 1 /\ (2 * p + 1) \div 2 = p
  OBVIOUS
<1>3. (2 * p + 2) % 2 = 0 /\ (2 * p + 2) \div 2 - 1 = p
  OBVIOUS
<1> QED BY <1>1, <1>2, <1>3 DEF Nibbles

LEMMA NibblesCome ==
  ASSUME task = "bounded", S!Acceptable, NEW cur \in Nat
  PROVE  \E k \in cur + 1 .. cur + (2 * Period + 1) : Nibbles[k] \in S!NibbleOk
<1>0. Period \in Nat /\ Period >= 1
  BY SamplerFacts
<1>1. PICK j \in 0 .. Period - 1 :
        S!At(j) % S!Nibble \in S!NibbleOk \/ S!At(j) \div S!Nibble \in S!NibbleOk
  BY DEF S!Acceptable
<1> DEFINE h == (cur + 1) \div 2
<1>2. h \in Int /\ cur <= 2 * h /\ 2 * h <= cur + 1
  BY cur \in Nat
<1> HIDE DEF h
<1>3. PICK p \in h .. h + Period - 1 : p % Period = j
  BY ONLY <1>2, j \in 0 .. Period - 1, Window
<1>4. p \in Nat /\ p \in Int /\ j \in Int /\ j % Period = j
  BY ONLY <1>0, <1>2, cur \in Nat, p \in h .. h + Period - 1, j \in 0 .. Period - 1
<1>5. S!At(p) = S!At(j)
  <2>1. p % Period = j % Period
    BY ONLY <1>3, <1>4
  <2> QED BY ONLY <2>1 DEF S!At
<1>6. 2 * p + 1 \in cur + 1 .. cur + (2 * Period + 1) /\ 2 * p + 2 \in cur + 1 .. cur + (2 * Period + 1)
  BY ONLY <1>0, <1>2, cur \in Nat, p \in h .. h + Period - 1
<1>7. Nibbles[2 * p + 1] = S!At(j) % S!Nibble /\ Nibbles[2 * p + 2] = S!At(j) \div S!Nibble
  BY ONLY <1>4, <1>5, NibblesAre
<1> QED BY ONLY <1>1, <1>6, <1>7

(* Far is past what has to be read. *)
LEMMA FarEnough ==
  /\ S!Far \in Nat /\ S!Far \div 3 \in Nat /\ Period * SamplerN \in Nat
  /\ (2 * Period + 1) * SamplerN \in Nat
  /\ Period * SamplerN <= S!Far \div 3 /\ (2 * Period + 1) * SamplerN <= S!Far
  /\ SignBytes + Period * SamplerN <= S!Far
<1>1. Period \in Nat /\ Period >= 1 /\ SamplerN \in Nat /\ SignBytes \in Nat
  BY SamplerFacts
<1> DEFINE a == Period * SamplerN
           f == SignBytes + 3 * Period * (SamplerN + 1)
<1>2. a \in Nat /\ (2 * Period + 1) * SamplerN = 2 * a + SamplerN /\ SamplerN <= a
  <2>1. a \in Nat
    BY ONLY <1>1
  <2>2. (2 * Period + 1) * SamplerN = 2 * (Period * SamplerN) + SamplerN
    BY ONLY <1>1
  <2>3. 1 * SamplerN <= Period * SamplerN
    BY ONLY <1>1
  <2> QED BY ONLY <1>1, <2>1, <2>2, <2>3
<1>3. 3 * Period * (SamplerN + 1) = 3 * a + 3 * Period
  BY ONLY <1>1
<1>4. S!Far = f
  BY DEF S!Far
<1> HIDE DEF a
<1>5. f = SignBytes + (3 * a + 3 * Period)
  BY ONLY <1>3
<1> HIDE DEF f
<1>6. f \in Nat /\ 3 * a <= f /\ SignBytes + a <= f /\ 2 * a + SamplerN <= f
  BY ONLY <1>1, <1>2, <1>5
<1>7. f \div 3 \in Nat /\ a <= f \div 3
  <2>1. f = 3 * (f \div 3) + (f % 3) /\ f % 3 \in 0 .. 2 /\ f \div 3 \in Int
    BY ONLY <1>6
  <2> DEFINE d == f \div 3
             e == f % 3
  <2>2. f = 3 * d + e /\ e \in 0 .. 2 /\ d \in Int
    BY ONLY <2>1
  <2> HIDE DEF d, e
  <2>3. d \in Nat /\ a <= d
    BY ONLY <1>2, <1>6, <2>2
  <2> QED BY ONLY <2>3 DEF d
<1> QED BY ONLY <1>1, <1>2, <1>4, <1>6, <1>7 DEF a

LEMMA EnoughKept ==
  ASSUME NEW p \in Nat, NEW f, NEW ok, \A cur \in Nat : \E k \in cur + 1 .. cur + p : f[k] \in ok,
         NEW j \in Nat, NEW n \in Nat, p * j <= n
  PROVE  Len(S!Kept(f, n, ok)) >= j
<1>1. Len(S!Kept(f, p * j, ok)) >= j
  BY KeptGrows
<1>2. p * j \in Nat
  BY ONLY p \in Nat, j \in Nat
<1>3. Len(S!Kept(f, p * j, ok)) <= Len(S!Kept(f, n, ok))
  BY ONLY <1>2, n \in Nat, p * j <= n, KeptPrefix
<1>4. Len(S!Kept(f, p * j, ok)) \in Nat /\ Len(S!Kept(f, n, ok)) \in Nat
  BY ONLY <1>2, n \in Nat, KeptLen
<1> QED BY ONLY <1>1, <1>3, <1>4, j \in Nat

LEMMA ScannedIs ==
  ASSUME NEW len \in Nat
  PROVE  S!Scanned(len) = S!Take(S!Kept(Cands, len \div 3, S!CandidateOk), SamplerN)
<1> DEFINE n == len \div 3
           all == [k \in 1 .. n |-> S!Candidate(S!At(3*k - 3), S!At(3*k - 2), S!At(3*k - 1))]
<1>1. n \in Nat
  OBVIOUS
<1>2. \A k \in 1 .. n : all[k] = Cands[k]
  <2> HIDE DEF n
  <2> QED BY <1>1 DEF Cands
<1>3. S!Scanned(len) = S!Take(S!Kept(all, n, S!CandidateOk), SamplerN)
  BY DEF S!Scanned
<1> HIDE DEF all, n
<1>4. S!Kept(all, n, S!CandidateOk) = S!Kept(Cands, n, S!CandidateOk)
  BY ONLY <1>1, <1>2, KeptSame
<1> QED BY ONLY <1>3, <1>4 DEF n

(* However the candidates were read, N of them are those of FIPS 204. *)
LEMMA NttIsSpec ==
  ASSUME task = "ntt", S!Acceptable, NEW m \in Nat,
         SamplerN <= Len(S!Kept(Cands, m, S!CandidateOk))
  PROVE  S!Take(S!Kept(Cands, m, S!CandidateOk), SamplerN) = S!SpecNtt
<1> DEFINE n == S!Far \div 3
<1>1. n \in Nat /\ S!Far \in Nat /\ Period * SamplerN <= n /\ Period \in Nat /\ SamplerN \in Nat
  BY FarEnough, SamplerFacts
<1>2. S!SpecNtt = S!Take(S!Kept(Cands, n, S!CandidateOk), SamplerN)
  BY <1>1, ScannedIs DEF S!SpecNtt
<1> HIDE DEF n
<1>3. \A cur \in Nat : \E k \in cur + 1 .. cur + Period : Cands[k] \in S!CandidateOk
  BY CandsCome
<1>4. Len(S!Kept(Cands, n, S!CandidateOk)) >= SamplerN
  BY ONLY <1>1, <1>3, EnoughKept
<1>5. Len(S!Kept(Cands, n, S!CandidateOk)) \in Nat
  BY ONLY <1>1, KeptLen
<1>6. SamplerN <= Len(S!Kept(Cands, n, S!CandidateOk))
  BY ONLY <1>1, <1>4, <1>5
<1>7. SamplerN <= Len(S!Kept(Cands, m, S!CandidateOk))
  OBVIOUS
<1>8. S!Take(S!Kept(Cands, m, S!CandidateOk), SamplerN) = S!Take(S!Kept(Cands, n, S!CandidateOk), SamplerN)
  BY ONLY <1>1, <1>6, <1>7, m \in Nat, TakeKept
<1> QED BY ONLY <1>2, <1>8

-----------------------------------------------------------------------------
LEMMA NibbleSeq ==
  ASSUME NEW f, NEW n \in Nat
  PROVE  S!Kept(f, n, S!NibbleOk) \in Seq(Nat) /\ Len(S!Kept(f, n, S!NibbleOk)) \in Nat
<1>1. S!Kept(f, n, S!NibbleOk) \in Seq(S!NibbleOk) /\ Len(S!Kept(f, n, S!NibbleOk)) \in Nat
  BY KeptLen
<1>2. S!NibbleOk \subseteq Nat
  BY ByteFacts DEF S!NibbleOk
<1> QED BY ONLY <1>1, <1>2, SeqMonotonic

LEMMA TakeFromKept ==
  ASSUME NEW m \in Nat, NEW n \in Nat, m <= n, NEW f, NEW b \in Nat,
         b <= Len(S!Kept(f, m, S!NibbleOk))
  PROVE  S!Take(S!FromNibbles(S!Kept(f, m, S!NibbleOk)), b)
           = S!Take(S!FromNibbles(S!Kept(f, n, S!NibbleOk)), b)
<1> DEFINE u == S!Kept(f, m, S!NibbleOk)
           v == S!Kept(f, n, S!NibbleOk)
           x == S!FromNibbles(u)
           y1 == S!FromNibbles(v)
<1>1. u \in Seq(Nat) /\ Len(u) \in Nat /\ v \in Seq(Nat) /\ Len(v) \in Nat
  BY NibbleSeq
<1>2. Len(u) <= Len(v) /\ \A k \in 1 .. Len(u) : v[k] = u[k]
  BY ONLY m \in Nat, n \in Nat, m <= n, KeptPrefix
<1>3. b <= Len(u)
  OBVIOUS
<1> HIDE DEF u, v
<1>4. /\ x \in Seq(Int) /\ Len(x) = Len(u) /\ \A k \in 1 .. Len(u) : x[k] = S!FromNibble(u[k])
      /\ y1 \in Seq(Int) /\ Len(y1) = Len(v) /\ \A k \in 1 .. Len(v) : y1[k] = S!FromNibble(v[k])
  BY ONLY <1>1, FromNibblesIs
<1> HIDE DEF x, y1
<1>5. \A k \in 1 .. Len(x) : y1[k] = x[k]
  <2> TAKE k \in 1 .. Len(x)
  <2>1. k \in 1 .. Len(u) /\ k \in 1 .. Len(v)
    BY ONLY <1>1, <1>2, <1>4, k \in 1 .. Len(x)
  <2> QED BY ONLY <1>2, <1>4, <2>1
<1>6. x \in Seq(Int) /\ y1 \in Seq(Int) /\ b <= Len(x) /\ Len(x) <= Len(y1)
  BY ONLY <1>2, <1>3, <1>4
<1>7. S!Take(x, b) = S!Take(y1, b)
  BY ONLY <1>5, <1>6, b \in Nat, TakeOfPrefix
<1> QED BY ONLY <1>7 DEF x, y1, u, v

LEMMA BoundedIsSpec ==
  ASSUME task = "bounded", S!Acceptable, NEW m \in Nat,
         SamplerN <= Len(S!Kept(Nibbles, m, S!NibbleOk))
  PROVE  S!Take(S!FromNibbles(S!Kept(Nibbles, m, S!NibbleOk)), SamplerN) = S!SpecBounded
<1> DEFINE n == S!Far
           w == 2 * Period + 1
           half == [k \in 1 .. n |-> IF k % 2 = 1 THEN S!At(k \div 2) % S!Nibble
                                     ELSE S!At(k \div 2 - 1) \div S!Nibble]
<1>1. n \in Nat /\ w * SamplerN <= n /\ w \in Nat /\ SamplerN \in Nat
  BY FarEnough, SamplerFacts
<1>2. S!SpecBounded = S!Take(S!FromNibbles(S!Kept(half, n, S!NibbleOk)), SamplerN)
  BY DEF S!SpecBounded
<1>3. \A k \in 1 .. n : half[k] = Nibbles[k]
  <2> HIDE DEF n
  <2> QED BY ONLY <1>1 DEF Nibbles
<1>4. \A cur \in Nat : \E k \in cur + 1 .. cur + w : Nibbles[k] \in S!NibbleOk
  BY NibblesCome
<1>0. SamplerN <= Len(S!Kept(Nibbles, m, S!NibbleOk))
  OBVIOUS
<1> HIDE DEF n, w, half
<1>5. S!Kept(half, n, S!NibbleOk) = S!Kept(Nibbles, n, S!NibbleOk)
  BY ONLY <1>1, <1>3, KeptSame
<1>6. Len(S!Kept(Nibbles, n, S!NibbleOk)) >= SamplerN
  BY ONLY <1>1, <1>4, EnoughKept
<1>7. Len(S!Kept(Nibbles, n, S!NibbleOk)) \in Nat
  BY ONLY <1>1, KeptLen
<1>8. SamplerN <= Len(S!Kept(Nibbles, n, S!NibbleOk))
  BY ONLY <1>1, <1>6, <1>7
<1>9. CASE m <= n
  <2>1. S!Take(S!FromNibbles(S!Kept(Nibbles, m, S!NibbleOk)), SamplerN)
          = S!Take(S!FromNibbles(S!Kept(Nibbles, n, S!NibbleOk)), SamplerN)
    BY ONLY <1>0, <1>1, <1>9, m \in Nat, TakeFromKept
  <2> QED BY ONLY <1>2, <1>5, <2>1
<1>10. CASE n <= m
  <2>1. S!Take(S!FromNibbles(S!Kept(Nibbles, n, S!NibbleOk)), SamplerN)
          = S!Take(S!FromNibbles(S!Kept(Nibbles, m, S!NibbleOk)), SamplerN)
    BY ONLY <1>1, <1>8, <1>10, m \in Nat, TakeFromKept
  <2> QED BY ONLY <1>2, <1>5, <2>1
<1> QED BY ONLY <1>1, <1>9, <1>10, m \in Nat

-----------------------------------------------------------------------------
LEMMA MaskIsSpec ==
  ASSUME IsStream(stream), NEW s, s = [k \in 1 .. S!MaskBytes |-> S!At(0 + k - 1)]
  PROVE  [k \in 1 .. SamplerN |->
           SamplerGamma1 - (Shift(S!Word(s), SamplerZBits * (k - 1)) % Pow2(SamplerZBits))] = S!SpecMask
<1> DEFINE n == S!MaskBytes
           w == S!Bits
           z == SamplerZBits
           x == S!Word(s)
           field(k) == [e \in 0 .. z - 1 |-> S!StreamBit(z * (k - 1) + e) * Pow2(e)]
<1>1. w \in Nat /\ w >= 1 /\ z \in Nat /\ SamplerN \in Nat /\ (SamplerN * z) % w = 0
  BY ByteFacts, SamplerFacts
<1>2. n = (SamplerN * z) \div w
  BY DEF S!MaskBytes
<1>3. n \in Nat /\ n * w = SamplerN * z
  <2> DEFINE a == SamplerN * z
  <2>1. a \in Nat
    BY ONLY <1>1
  <2> HIDE DEF a, n, w
  <2>2. a = w * (a \div w) + (a % w) /\ a % w = 0 /\ n = a \div w /\ a \div w \in Int
    BY ONLY <1>1, <1>2, <2>1, Euclid DEF a
  <2>3. a = w * n /\ n \in Int
    BY ONLY <1>1, <2>2
  <2>4. n >= 0
    <3>1. n <= -1 => w * n <= - w
      BY ONLY <1>1, <2>3
    <3>2. w * n \in Int
      BY ONLY <1>1, <2>3
    <3> QED BY ONLY <1>1, <2>1, <2>3, <3>1, <3>2
  <2>5. n * w = w * n
    BY ONLY <1>1, <2>3
  <2> QED BY ONLY <2>3, <2>4, <2>5 DEF a
<1>4. x \in Nat /\ \A p \in 0 .. n * w - 1 : Shift(x, p) % 2 = S!StreamBit(p)
  BY <1>3, WordBits
<1>5. S!SpecMask = [k \in 1 .. SamplerN |-> SamplerGamma1 - Sum(field(k), z)]
  BY DEF S!SpecMask
<1> HIDE DEF x, w, n, z
<1>6. ASSUME NEW k \in 1 .. SamplerN
      PROVE  Shift(x, z * (k - 1)) % Pow2(z) = Sum(field(k), z)
  <2> DEFINE base == z * (k - 1)
             y1 == Shift(x, base)
             t == field(k)
  <2>1. base \in Nat
    BY ONLY <1>1, k \in 1 .. SamplerN
  <2>2. y1 \in Nat
    BY ONLY <1>4, <2>1, ShiftIs
  <2>3. \A e \in 0 .. z - 1 : t[e] = (Shift(y1, e) % 2) * Pow2(e)
    <3> TAKE e \in 0 .. z - 1
    <3>1. t[e] = S!StreamBit(base + e) * Pow2(e)
      OBVIOUS
    <3>2. base + e \in 0 .. n * w - 1 /\ e \in Nat
      <4>1. base + z = z * k
        BY ONLY <1>1, k \in 1 .. SamplerN
      <4>2. z * k <= z * SamplerN
        BY ONLY <1>1, k \in 1 .. SamplerN
      <4>3. z * SamplerN = SamplerN * z /\ z * SamplerN \in Int /\ z * k \in Int
        BY ONLY <1>1, k \in 1 .. SamplerN
      <4> DEFINE top == z * SamplerN
                 zk == z * k
      <4>4. top \in Int /\ zk \in Int /\ base + z = zk /\ zk <= top /\ n * w = top
        BY ONLY <1>3, <4>1, <4>2, <4>3
      <4> HIDE DEF top, zk, base
      <4> QED BY ONLY <1>1, <2>1, <4>4, e \in 0 .. z - 1
    <3> HIDE DEF base
    <3>3. Shift(x, base + e) = Shift(y1, e)
      BY ONLY <1>4, <2>1, <3>2, ShiftAdds
    <3>4. Shift(x, base + e) % 2 = S!StreamBit(base + e)
      BY ONLY <1>4, <3>2
    <3> HIDE DEF t, y1
    <3> QED BY ONLY <3>1, <3>3, <3>4
  <2> HIDE DEF base, y1, t
  <2>4. y1 % Pow2(z) = Sum(t, z)
    BY ONLY <1>1, <2>2, <2>3, FieldIsBits
  <2> QED BY ONLY <2>4 DEF t, y1, base
<1>7. [k \in 1 .. SamplerN |-> SamplerGamma1 - (Shift(x, z * (k - 1)) % Pow2(z))]
        = [k \in 1 .. SamplerN |-> SamplerGamma1 - Sum(field(k), z)]
  <2> HIDE DEF field
  <2> QED BY ONLY <1>6
<1> QED BY ONLY <1>5, <1>7 DEF x, z

-----------------------------------------------------------------------------
(* The draws of a challenge. *)
NextPlace(d, v) == S!Min({p \in v + 1 .. S!Far : S!At(p) < SamplerN - SamplerTau + d})
PlacesTo(g, n)  == g = [d \in 0 .. n |-> IF d = 0 THEN SignBytes - 1 ELSE NextPlace(d, g[d - 1])]
NoOnes          == [k \in 1 .. SamplerN |-> 0]
BallsTo(g, n)   == g = [d \in 0 .. n |-> IF d = 0 THEN NoOnes ELSE S!Drawn(g[d - 1], d)]
Balls           == CHOOSE g : BallsTo(g, SamplerTau)

LEMMA PlacesExist == ASSUME NEW n \in Nat PROVE \E g : PlacesTo(g, n)
<1> DEFINE T == {m \in Nat : \E g : PlacesTo(g, m)}
<1>1. 0 \in T
  <2>1. PlacesTo([d \in 0 .. 0 |-> SignBytes - 1], 0)
    BY DEF PlacesTo
  <2> QED BY <2>1
<1>2. \A m \in Nat : m \in T => m + 1 \in T
  <2> SUFFICES ASSUME NEW m \in Nat, m \in T PROVE m + 1 \in T
    OBVIOUS
  <2>1. PICK g : PlacesTo(g, m)
    BY ONLY m \in T
  <2>2. \A d \in 0 .. m : g[d] = IF d = 0 THEN SignBytes - 1 ELSE NextPlace(d, g[d - 1])
    BY ONLY <2>1 DEF PlacesTo
  <2> DEFINE r == [d \in 0 .. m + 1 |-> IF d = m + 1 THEN NextPlace(m + 1, g[m]) ELSE g[d]]
  <2>3. \A d \in 0 .. m + 1 : r[d] = IF d = 0 THEN SignBytes - 1 ELSE NextPlace(d, r[d - 1])
    <3> TAKE d \in 0 .. m + 1
    <3>1. CASE d = m + 1
      <4>1. d # 0 /\ d - 1 = m /\ m \in 0 .. m + 1 /\ m # m + 1
        BY ONLY <3>1, m \in Nat
      <4>2. r[d] = NextPlace(d, g[m]) /\ r[d - 1] = g[m]
        BY ONLY <3>1, <4>1, d \in 0 .. m + 1
      <4> QED BY ONLY <4>1, <4>2
    <3>2. CASE d # m + 1
      <4>1. d \in 0 .. m /\ (d # 0 => d - 1 \in 0 .. m + 1 /\ d - 1 # m + 1)
        BY ONLY <3>2, m \in Nat, d \in 0 .. m + 1
      <4>2. r[d] = g[d] /\ (d # 0 => r[d - 1] = g[d - 1])
        BY ONLY <3>2, <4>1, d \in 0 .. m + 1
      <4> QED BY ONLY <2>2, <4>1, <4>2
    <3> QED BY ONLY <3>1, <3>2
  <2> DEFINE s == r
  <2>4. r = [d \in 0 .. m + 1 |-> r[d]]
    OBVIOUS
  <2> HIDE DEF r
  <2>5. PlacesTo(r, m + 1)
    BY ONLY <2>3, <2>4 DEF PlacesTo
  <2>6. m + 1 \in Nat
    OBVIOUS
  <2> QED BY ONLY <2>5, <2>6
<1> HIDE DEF T
<1>3. n \in T
  BY ONLY <1>1, <1>2, n \in Nat, Induction
<1> QED BY ONLY <1>3 DEF T

LEMMA PlaceIs ==
  /\ S!Place[0] = SignBytes - 1
  /\ \A d \in 1 .. SamplerTau : S!Place[d] = NextPlace(d, S!Place[d - 1])
<1>1. SamplerTau \in Nat
  BY SamplerFacts
<1> DEFINE f == CHOOSE g : PlacesTo(g, SamplerTau)
<1>2. PlacesTo(f, SamplerTau)
  BY ONLY <1>1, PlacesExist
<1>3. S!Place = f
  BY DEF S!Place, PlacesTo, NextPlace
<1> HIDE DEF f
<1>4. f[0] = SignBytes - 1 /\ \A d \in 1 .. SamplerTau : f[d] = NextPlace(d, f[d - 1])
  BY ONLY <1>1, <1>2 DEF PlacesTo
<1> QED BY ONLY <1>3, <1>4

LEMMA BallsExist == ASSUME NEW n \in Nat PROVE \E g : BallsTo(g, n)
<1> DEFINE T == {m \in Nat : \E g : BallsTo(g, m)}
<1>1. 0 \in T
  <2>1. BallsTo([d \in 0 .. 0 |-> NoOnes], 0)
    BY DEF BallsTo
  <2> QED BY <2>1
<1>2. \A m \in Nat : m \in T => m + 1 \in T
  <2> SUFFICES ASSUME NEW m \in Nat, m \in T PROVE m + 1 \in T
    OBVIOUS
  <2>1. PICK g : BallsTo(g, m)
    BY ONLY m \in T
  <2>2. \A d \in 0 .. m : g[d] = IF d = 0 THEN NoOnes ELSE S!Drawn(g[d - 1], d)
    BY ONLY <2>1 DEF BallsTo
  <2> DEFINE r == [d \in 0 .. m + 1 |-> IF d = m + 1 THEN S!Drawn(g[m], m + 1) ELSE g[d]]
  <2>3. \A d \in 0 .. m + 1 : r[d] = IF d = 0 THEN NoOnes ELSE S!Drawn(r[d - 1], d)
    <3> TAKE d \in 0 .. m + 1
    <3>1. CASE d = m + 1
      <4>1. d # 0 /\ d - 1 = m /\ m \in 0 .. m + 1 /\ m # m + 1
        BY ONLY <3>1, m \in Nat
      <4>2. r[d] = S!Drawn(g[m], d) /\ r[d - 1] = g[m]
        BY ONLY <3>1, <4>1, d \in 0 .. m + 1
      <4> QED BY ONLY <4>1, <4>2
    <3>2. CASE d # m + 1
      <4>1. d \in 0 .. m /\ (d # 0 => d - 1 \in 0 .. m + 1 /\ d - 1 # m + 1)
        BY ONLY <3>2, m \in Nat, d \in 0 .. m + 1
      <4>2. r[d] = g[d] /\ (d # 0 => r[d - 1] = g[d - 1])
        BY ONLY <3>2, <4>1, d \in 0 .. m + 1
      <4> QED BY ONLY <2>2, <4>1, <4>2
    <3> QED BY ONLY <3>1, <3>2
  <2>4. r = [d \in 0 .. m + 1 |-> r[d]]
    OBVIOUS
  <2> HIDE DEF r
  <2>5. BallsTo(r, m + 1)
    BY ONLY <2>3, <2>4 DEF BallsTo
  <2>6. m + 1 \in Nat
    OBVIOUS
  <2> QED BY ONLY <2>5, <2>6
<1> HIDE DEF T
<1>3. n \in T
  BY ONLY <1>1, <1>2, n \in Nat, Induction
<1> QED BY ONLY <1>3 DEF T

LEMMA BallsAre ==
  /\ Balls[0] = NoOnes /\ Balls[SamplerTau] = S!SpecBall
  /\ \A d \in 1 .. SamplerTau : Balls[d] = S!Drawn(Balls[d - 1], d)
<1>1. SamplerTau \in Nat
  BY SamplerFacts
<1>2. BallsTo(Balls, SamplerTau)
  BY ONLY <1>1, BallsExist DEF Balls
<1>3. Balls[SamplerTau] = S!SpecBall
  BY DEF S!SpecBall, Balls, BallsTo, NoOnes
<1>4. Balls[0] = NoOnes /\ \A d \in 1 .. SamplerTau : Balls[d] = S!Drawn(Balls[d - 1], d)
  BY ONLY <1>1, <1>2 DEF BallsTo
<1> QED BY ONLY <1>3, <1>4

LEMMA LeastIs ==
  ASSUME NEW X \in SUBSET Int, NEW cur \in X, \A y1 \in X : cur <= y1
  PROVE  S!Min(X) = cur
<1>1. S!Min(X) = CHOOSE x \in X : \A y1 \in X : x <= y1
  BY DEF S!Min
<1>2. \A x \in X : (\A y1 \in X : x <= y1) => x = cur
  <2> SUFFICES ASSUME NEW x \in X, \A y1 \in X : x <= y1
               PROVE  x = cur
    OBVIOUS
  <2>1. x <= cur /\ cur <= x
    OBVIOUS
  <2>2. x \in Int /\ cur \in Int
    OBVIOUS
  <2> QED BY ONLY <2>1, <2>2
<1> QED BY ONLY <1>1, <1>2, cur \in X, \A y1 \in X : cur <= y1

(* A draw takes the next byte that is not rejected, within a period. *)
LEMMA BallsCome ==
  ASSUME task = "ball", S!Acceptable, NEW cur \in Int
  PROVE  \E p \in cur + 1 .. cur + Period : S!At(p) <= SamplerN - SamplerTau
<1>0. Period \in Nat /\ Period >= 1
  BY SamplerFacts
<1>1. PICK j \in 0 .. Period - 1 : S!At(j) <= SamplerN - SamplerTau
  BY DEF S!Acceptable
<1>2. cur + 1 \in Int
  OBVIOUS
<1>3. PICK p \in cur + 1 .. cur + 1 + Period - 1 : p % Period = j
  BY ONLY <1>2, j \in 0 .. Period - 1, Window
<1>4. p \in Int /\ j \in Int /\ j % Period = j /\ p \in cur + 1 .. cur + Period
  BY ONLY <1>0, cur \in Int, p \in cur + 1 .. cur + 1 + Period - 1, j \in 0 .. Period - 1
<1>5. S!At(p) = S!At(j)
  <2>1. p % Period = j % Period
    BY ONLY <1>3, <1>4
  <2> QED BY ONLY <2>1 DEF S!At
<1> QED BY ONLY <1>1, <1>4, <1>5

(* The bytes between the last draw and position cur are rejected. *)
Drew(d, cur) ==
  /\ S!Place[d] \in Int /\ S!Place[d] < cur
  /\ S!Place[d] <= SignBytes - 1 + d * Period
  /\ \A p \in S!Place[d] + 1 .. cur - 1 : ~ (S!At(p) < SamplerN - SamplerTau + (d + 1))

LEMMA DrawFirst == Drew(0, SignBytes)
<1>1. SignBytes \in Nat /\ Period \in Nat
  BY SamplerFacts
<1>2. S!Place[0] = SignBytes - 1
  BY PlaceIs
<1>3. SignBytes - 1 \in Int /\ SignBytes - 1 < SignBytes /\ SignBytes - 1 <= SignBytes - 1 + 0 * Period
  BY ONLY <1>1
<1>4. SignBytes - 1 + 1 .. SignBytes - 1 = {}
  BY ONLY <1>1
<1> QED BY ONLY <1>2, <1>3, <1>4 DEF Drew

LEMMA DrawRejects ==
  ASSUME IsStream(stream), NEW d \in 0 .. SamplerTau - 1, NEW cur \in Nat, Drew(d, cur),
         ~ (S!At(cur) < SamplerN - SamplerTau + (d + 1))
  PROVE  Drew(d, cur + 1)
<1>1. /\ S!Place[d] \in Int /\ S!Place[d] < cur
      /\ S!Place[d] <= SignBytes - 1 + d * Period
      /\ \A p \in S!Place[d] + 1 .. cur - 1 : ~ (S!At(p) < SamplerN - SamplerTau + (d + 1))
  BY DEF Drew
<1>2. \A p \in S!Place[d] + 1 .. (cur + 1) - 1 : p = cur \/ p \in S!Place[d] + 1 .. cur - 1
  BY ONLY <1>1, cur \in Nat
<1>3. S!Place[d] < cur + 1
  BY ONLY <1>1, cur \in Nat
<1>4. ~ (S!At(cur) < SamplerN - SamplerTau + (d + 1))
  OBVIOUS
<1> QED BY ONLY <1>1, <1>2, <1>3, <1>4 DEF Drew

LEMMA DrawAccepts ==
  ASSUME IsStream(stream), task = "ball", S!Acceptable,
         NEW d \in 0 .. SamplerTau - 1, NEW cur \in Nat, Drew(d, cur),
         S!At(cur) < SamplerN - SamplerTau + (d + 1)
  PROVE  S!Place[d + 1] = cur /\ Drew(d + 1, cur + 1)
<1>0. /\ SignBytes \in Nat /\ Period \in Nat /\ Period >= 1 /\ SamplerN \in Nat /\ SamplerTau \in Nat
      /\ SamplerTau <= SamplerN /\ S!Far \in Nat /\ SignBytes + Period * SamplerN <= S!Far
  BY SamplerFacts, FarEnough
<1> DEFINE v == S!Place[d]
           bound == SamplerN - SamplerTau + (d + 1)
<1>1. /\ v \in Int /\ v < cur /\ v <= SignBytes - 1 + d * Period
      /\ \A p \in v + 1 .. cur - 1 : ~ (S!At(p) < bound)
  BY DEF Drew
<1>2. \A p \in Int : S!At(p) \in Nat
  <2> TAKE p \in Int
  <2>1. S!At(p) \in 0 .. S!Byte - 1
    BY AtIs
  <2> QED BY ONLY <2>1
<1>3. S!Place[d + 1] = NextPlace(d + 1, v)
  <2>1. d + 1 \in 1 .. SamplerTau /\ (d + 1) - 1 = d
    BY ONLY <1>0, d \in 0 .. SamplerTau - 1
  <2> QED BY ONLY <2>1, PlaceIs
<1>4. PICK w \in v + 1 .. v + Period : S!At(w) <= SamplerN - SamplerTau
  <2>1. v \in Int
    BY ONLY <1>1
  <2> HIDE DEF v
  <2> QED BY <2>1, BallsCome
<1>cur. S!At(cur) < bound
  OBVIOUS
<1> HIDE DEF v
<1>5. w \in Int /\ S!At(w) \in Nat
  BY ONLY <1>0, <1>1, <1>2, w \in v + 1 .. v + Period
<1>6. S!At(w) < bound /\ bound \in Int
  BY ONLY <1>0, <1>4, <1>5, d \in 0 .. SamplerTau - 1
<1> HIDE DEF bound
<1>7. cur <= v + Period
  <2>1. ~ (w \in v + 1 .. cur - 1)
    BY ONLY <1>1, <1>6
  <2> QED BY ONLY <1>0, <1>1, <2>1, cur \in Nat, w \in v + 1 .. v + Period
<1>8. d * Period + Period = (d + 1) * Period /\ d * Period \in Int /\ (d + 1) * Period \in Int
  BY ONLY <1>0, d \in 0 .. SamplerTau - 1
<1>9. cur <= SignBytes - 1 + (d + 1) * Period
  <2> DEFINE x == d * Period
             y1 == (d + 1) * Period
  <2>1. x \in Int /\ y1 \in Int /\ x + Period = y1 /\ v <= SignBytes - 1 + x
    BY ONLY <1>1, <1>8
  <2> HIDE DEF x, y1
  <2>2. cur <= SignBytes - 1 + y1
    BY ONLY <1>0, <1>1, <1>7, <2>1, cur \in Nat
  <2> QED BY ONLY <2>2 DEF y1
<1>10. cur <= S!Far
  <2>1. (d + 1) * Period <= SamplerN * Period
    BY ONLY <1>0, d \in 0 .. SamplerTau - 1
  <2>2. SamplerN * Period = Period * SamplerN /\ SamplerN * Period \in Int
    BY ONLY <1>0
  <2> QED BY ONLY <1>0, <1>8, <1>9, <2>1, <2>2, cur \in Nat
<1> DEFINE X == {p \in v + 1 .. S!Far : S!At(p) < bound}
<1>11. X \in SUBSET Int /\ cur \in X
  BY ONLY <1>0, <1>1, <1>cur, <1>10, cur \in Nat
<1>12. \A y1 \in X : cur <= y1
  <2> TAKE y1 \in X
  <2>1. y1 \in v + 1 .. S!Far /\ S!At(y1) < bound
    OBVIOUS
  <2>2. ~ (y1 \in v + 1 .. cur - 1)
    BY ONLY <1>1, <2>1
  <2> QED BY ONLY <1>0, <1>1, <2>1, <2>2, cur \in Nat
<1>13. NextPlace(d + 1, v) = S!Min(X)
  BY DEF NextPlace, bound
<1> HIDE DEF X
<1>14. S!Min(X) = cur
  BY ONLY <1>11, <1>12, LeastIs
<1>15. S!Place[d + 1] = cur
  BY ONLY <1>3, <1>13, <1>14
<1>16. cur < cur + 1 /\ cur \in Int /\ cur + 1 .. (cur + 1) - 1 = {}
  BY ONLY cur \in Nat
<1> QED BY ONLY <1>9, <1>15, <1>16 DEF Drew

-----------------------------------------------------------------------------
(* What a sampler has read and kept after its reads, for each task. *)
Running ==
  /\ xof \in Readers /\ task \in {"ntt", "bounded", "mask", "ball"}
  /\ xof = "digest" => task \in {"ntt", "ball"}
  /\ IsStream(stream) /\ S!Acceptable

NttRead(t) ==
  /\ ReaderAt(xof, reader, 3 * t)
  /\ coeffs = S!Kept(Cands, t, S!CandidateOk) /\ Len(coeffs) < SamplerN
NibblesRead(t) ==
  /\ ReaderAt(xof, reader, t)
  /\ coeffs = S!FromNibbles(S!Kept(Nibbles, 2 * t, S!NibbleOk))
  /\ Len(S!Kept(Nibbles, 2 * t, S!NibbleOk)) < SamplerN
BallRead(d, cur) ==
  /\ ReaderAt(xof, reader, cur) /\ Drew(d, cur)
  /\ next = SamplerN - SamplerTau + d /\ coeffs = Balls[d]
  /\ signs = [k \in 1 .. SamplerTau |-> S!StreamBit(k - 1)]

Sampling ==
  /\ task = "ntt" /\ xof # "digest" => \E t \in Nat : NttRead(t)
  /\ task = "ntt" /\ xof = "digest" => want \in Nat
  /\ task = "bounded"               => \E t \in Nat : NibblesRead(t)
  /\ task = "mask"                  => ReaderAt(xof, reader, 0)
  /\ task = "ball"                  => \E d \in 0 .. SamplerTau - 1 : \E cur \in Nat : BallRead(d, cur)

SamplerInv ==
  /\ at \in {"absorb", "sample", "done", "returned"}
  /\ at # "returned" => Running
  /\ at = "absorb" => reader = S!Opened(xof) /\ coeffs = <<>>
  /\ at = "sample" => Sampling
  /\ SampledIsSpec

(* The stream does not change while it is read, nor does what FIPS 204     *)
(* samples from it.                                                        *)
LEMMA StreamStays ==
  ASSUME xof' = xof, task' = task, stream' = stream
  PROVE  /\ Cands' = Cands /\ Nibbles' = Nibbles /\ Balls' = Balls
         /\ \A d, cur : Drew(d, cur)' <=> Drew(d, cur)
         /\ \A p : S!StreamBit(p)' = S!StreamBit(p)
         /\ S!Sampled' = S!Sampled
         /\ Running' <=> Running
<1>1. Cands' = Cands
  BY DEF Cands, S!At
<1>2. Nibbles' = Nibbles
  BY DEF Nibbles, S!At
<1>3. S!Place' = S!Place
  BY DEF S!Place, S!At
<1>4. Balls' = Balls
  BY DEF Balls, BallsTo, S!Drawn, S!Place, S!At, S!StreamBit
<1>5. \A d, cur : Drew(d, cur)' <=> Drew(d, cur)
  BY <1>3 DEF Drew, S!At
<1>6. \A p : S!StreamBit(p)' = S!StreamBit(p)
  BY DEF S!StreamBit, S!At
<1>7. S!Sampled' = S!Sampled
  BY DEF S!Sampled, S!SpecBounded, S!SpecBall, S!Place, S!At, S!StreamBit, S!Drawn, S!SpecNtt,
         S!Scanned, S!SpecMask
<1>8. Running' <=> Running
  BY DEF Running, IsStream, S!Acceptable, S!At
<1> QED BY ONLY <1>1, <1>2, <1>4, <1>5, <1>6, <1>7, <1>8

(* The first read of a challenge takes the sign bytes; the other samplers  *)
(* have read nothing.                                                      *)
LEMMA AbsorbKeeps ==
  ASSUME SamplerInv, S!Absorb
  PROVE  SamplerInv'
<1>0. at = "absorb" /\ at' = "sample" /\ xof' = xof /\ task' = task /\ stream' = stream
  BY DEF S!Absorb, S!input
<1>1. Running /\ reader = S!Opened(xof) /\ xof \in Readers
  BY <1>0 DEF SamplerInv, Running
<1>2. ReaderAt(xof, reader, 0) /\ (xof = "digest" => reader.len = MinBlock)
  BY <1>1, Opens DEF Readers
<1>3. CASE task = "ball"
  <2>1. /\ signs' = [k \in 1 .. SamplerTau |-> Shift(S!Word(S!Bytes(SignBytes)), k - 1) % 2]
        /\ reader' = S!After(xof, reader, SignBytes)
        /\ coeffs' = NoOnes /\ next' = SamplerN - SamplerTau
    BY <1>1, <1>3 DEF S!Absorb, NoOnes
  <2>2. /\ SignBytes \in Nat /\ SignBytes <= MinBlock /\ S!Bits \in Nat
        /\ SamplerTau \in Nat /\ SamplerTau >= 1 /\ SamplerTau <= SignBytes * S!Bits /\ SamplerN \in Nat
    BY SamplerFacts, ByteFacts
  <2>3. 0 + SignBytes = SignBytes /\ 0 \in Nat /\ (xof = "digest" => SignBytes <= 1 \/ 0 + SignBytes <= reader.len)
    BY ONLY <1>2, <2>2
  <2>4. /\ S!Bytes(SignBytes) = [k \in 1 .. SignBytes |-> S!At(0 + k - 1)]
        /\ ReaderAt(xof, S!After(xof, reader, SignBytes), 0 + SignBytes)
    BY ONLY <1>1, <1>2, <2>2, <2>3, BytesAre
  <2>5. IsStream(stream)
    BY <1>1 DEF Running
  <2>6. \A p \in 0 .. SignBytes * S!Bits - 1 : Shift(S!Word(S!Bytes(SignBytes)), p) % 2 = S!StreamBit(p)
    BY ONLY <2>2, <2>4, <2>5, WordBits
  <2>7. \A k \in 1 .. SamplerTau : k - 1 \in 0 .. SignBytes * S!Bits - 1
    <3> DEFINE m == SignBytes * S!Bits
    <3>1. m \in Int /\ SamplerTau <= m
      BY ONLY <2>2
    <3> HIDE DEF m
    <3>2. \A k \in 1 .. SamplerTau : k - 1 \in 0 .. m - 1
      BY ONLY <2>2, <3>1
    <3> QED BY ONLY <3>2 DEF m
  <2>8. signs' = [k \in 1 .. SamplerTau |-> S!StreamBit(k - 1)]
    BY ONLY <2>1, <2>6, <2>7
  <2>9. signs' = [k \in 1 .. SamplerTau |-> S!StreamBit(k - 1)']
    BY <1>0, <2>8, StreamStays
  <2>10. Drew(0, SignBytes)' /\ coeffs' = Balls'[0]
    BY <1>0, <2>1, DrawFirst, BallsAre, StreamStays
  <2>11. ReaderAt(xof', reader', SignBytes) /\ next' = SamplerN - SamplerTau + 0
    <3>1. SamplerN - SamplerTau = SamplerN - SamplerTau + 0
      BY ONLY <2>2
    <3> QED BY ONLY <1>0, <2>1, <2>3, <2>4, <3>1
  <2>12. BallRead(0, SignBytes)'
    BY ONLY <2>9, <2>10, <2>11 DEF BallRead
  <2>13. 0 \in 0 .. SamplerTau - 1
    BY ONLY <2>2
  <2>14. Sampling'
    BY ONLY <1>0, <1>3, <2>2, <2>12, <2>13 DEF Sampling
  <2> QED BY <1>0, <1>1, <2>14, StreamStays DEF SamplerInv, SampledIsSpec
<1>4. CASE task # "ball"
  <2>1. /\ reader' = reader /\ coeffs' = <<>>
        /\ want' = IF xof = "digest" THEN 3 * SamplerN + MinSpare ELSE 0
    BY <1>0, <1>4 DEF S!Absorb, SamplerInv
  <2>2. SamplerN \in Nat /\ SamplerN >= 1 /\ MinSpare \in Nat
    BY SamplerFacts
  <2>3. want' \in Nat
    BY ONLY <2>1, <2>2
  <2>4. 3 * 0 = 0 /\ 2 * 0 = 0 /\ 0 \in Nat
    OBVIOUS
  <2>5. /\ S!Kept(Cands', 0, S!CandidateOk) = <<>> /\ S!Kept(Nibbles', 0, S!NibbleOk) = <<>>
        /\ S!FromNibbles(<<>>) = <<>> /\ Len(<<>>) < SamplerN
    <3>1. S!Kept(Cands', 0, S!CandidateOk) = <<>> /\ S!Kept(Nibbles', 0, S!NibbleOk) = <<>>
      BY ONLY <2>4, KeptNext
    <3>2. S!FromNibbles(<<>>) = <<>>
      BY DEF S!FromNibbles
    <3>3. Len(<<>>) < SamplerN
      BY ONLY <2>2
    <3> QED BY ONLY <3>1, <3>2, <3>3
  <2>6. ReaderAt(xof', reader', 0)
    BY ONLY <1>0, <1>2, <2>1
  <2>7. NttRead(0)'
    BY ONLY <2>1, <2>4, <2>5, <2>6 DEF NttRead
  <2>8. NibblesRead(0)'
    BY ONLY <2>1, <2>4, <2>5, <2>6 DEF NibblesRead
  <2>9. Sampling'
    BY ONLY <1>0, <1>4, <2>3, <2>4, <2>6, <2>7, <2>8 DEF Sampling
  <2> QED BY <1>0, <1>1, <2>9, StreamStays DEF SamplerInv, SampledIsSpec
<1> QED BY <1>3, <1>4

LEMMA KeepLen ==
  ASSUME NEW X, NEW v \in Seq(X), NEW e
  PROVE  Len(v) \in Nat /\ Len(Keep(v, e, X)) \in Nat /\ Len(Keep(v, e, X)) <= Len(v) + 1
<1>1. CASE e \in X
  <2>1. Keep(v, e, X) = Append(v, e)
    BY ONLY <1>1 DEF Keep
  <2> QED BY ONLY <1>1, <2>1, v \in Seq(X)
<1>2. CASE e \notin X
  <2>1. Keep(v, e, X) = v
    BY ONLY <1>2 DEF Keep
  <2> QED BY ONLY <2>1, v \in Seq(X)
<1> QED BY <1>1, <1>2

(* Three bytes a read: one more candidate has been seen. *)
LEMMA SampleNttKeeps ==
  ASSUME SamplerInv, S!SampleNtt
  PROVE  SamplerInv'
<1> DEFINE Ks(t) == S!Kept(Cands, t, S!CandidateOk)
<1>0. /\ at = "sample" /\ task = "ntt" /\ xof # "digest"
      /\ xof' = xof /\ task' = task /\ stream' = stream
  BY DEF S!SampleNtt, S!input
<1>1. Running /\ xof \in Readers /\ S!Acceptable
  BY <1>0 DEF SamplerInv, Running
<1>2. PICK t \in Nat : NttRead(t)
  BY <1>0 DEF SamplerInv, Sampling
<1>3. ReaderAt(xof, reader, 3 * t) /\ coeffs = Ks(t) /\ Len(coeffs) < SamplerN
  BY <1>2 DEF NttRead
<1>4. 3 * t \in Nat /\ 3 \in Nat /\ t + 1 \in Nat /\ 3 * t + 3 = 3 * (t + 1) /\ SamplerN \in Nat
  BY SamplerFacts
<1>5. /\ S!Bytes(3) = [k \in 1 .. 3 |-> S!At(3 * t + k - 1)]
      /\ ReaderAt(xof, S!After(xof, reader, 3), 3 * t + 3)
  BY ONLY <1>0, <1>1, <1>3, <1>4, BytesAre
<1>6. S!Candidate(S!Bytes(3)[1], S!Bytes(3)[2], S!Bytes(3)[3]) = Cands[t + 1]
  <2>1. /\ 3 * t + 1 - 1 = 3 * (t + 1) - 3 /\ 3 * t + 2 - 1 = 3 * (t + 1) - 2
        /\ 3 * t + 3 - 1 = 3 * (t + 1) - 1 /\ {1, 2, 3} \subseteq 1 .. 3
    OBVIOUS
  <2>2. /\ S!Bytes(3)[1] = S!At(3 * t + 1 - 1) /\ S!Bytes(3)[2] = S!At(3 * t + 2 - 1)
        /\ S!Bytes(3)[3] = S!At(3 * t + 3 - 1)
    BY ONLY <1>5, <2>1
  <2>3. Cands[t + 1] = S!Candidate(S!At(3 * (t + 1) - 3), S!At(3 * (t + 1) - 2), S!At(3 * (t + 1) - 1))
    BY ONLY <1>4 DEF Cands
  <2> QED BY ONLY <2>1, <2>2, <2>3
<1>7. coeffs' = Ks(t + 1)
  <2>1. coeffs' = Keep(coeffs, Cands[t + 1], S!CandidateOk)
    BY ONLY <1>6, S!SampleNtt DEF S!SampleNtt, Keep
  <2> QED BY ONLY <1>3, <2>1, KeptNext, t \in Nat
<1>8. reader' = S!After(xof, reader, 3) /\ at' = S!Finish(Len(coeffs'))
  BY DEF S!SampleNtt
<1>9. ReaderAt(xof', reader', 3 * (t + 1))
  BY ONLY <1>0, <1>4, <1>5, <1>8
<1>10. Len(coeffs') \in Nat /\ Len(coeffs') <= SamplerN /\ Ks(t + 1) \in Seq(S!CandidateOk)
  <2>1. /\ Ks(t) \in Seq(S!CandidateOk) /\ Ks(t + 1) \in Seq(S!CandidateOk)
        /\ Ks(t + 1) = Keep(Ks(t), Cands[t + 1], S!CandidateOk)
    BY ONLY <1>4, t \in Nat, KeptNext
  <2> HIDE DEF Ks
  <2>2. Len(Ks(t + 1)) \in Nat /\ Len(Ks(t)) \in Nat /\ Len(Ks(t + 1)) <= Len(Ks(t)) + 1
    BY ONLY <2>1, KeepLen
  <2> QED BY ONLY <1>3, <1>4, <1>7, <2>1, <2>2
<1>11. CASE Len(coeffs') = SamplerN
  <2>1. at' = "done"
    BY <1>8, <1>11 DEF S!Finish
  <2>2. coeffs' = S!Take(Ks(t + 1), SamplerN)
    BY ONLY <1>4, <1>7, <1>10, TakeAll
  <2>3. S!Take(Ks(t + 1), SamplerN) = S!SpecNtt
    BY <1>0, <1>1, <1>4, <1>7, <1>10, <1>11, NttIsSpec
  <2>4. coeffs' = S!Sampled
    BY <1>0, <2>2, <2>3 DEF S!Sampled
  <2> QED BY <1>0, <1>1, <2>1, <2>4, StreamStays DEF SamplerInv, SampledIsSpec
<1>12. CASE Len(coeffs') # SamplerN
  <2>1. at' = "sample" /\ Len(coeffs') < SamplerN
    BY <1>4, <1>8, <1>10, <1>12 DEF S!Finish
  <2>2. Cands' = Cands
    BY <1>0, StreamStays
  <2>3. NttRead(t + 1)'
    BY ONLY <1>7, <1>9, <2>1, <2>2 DEF NttRead
  <2>4. Sampling'
    BY ONLY <1>0, <1>4, <2>3 DEF Sampling
  <2> QED BY <1>0, <1>1, <2>1, <2>4, StreamStays DEF SamplerInv, SampledIsSpec
<1> QED BY <1>11, <1>12

(* A digest of rej_ntt_poly is scanned whole: it held enough candidates or *)
(* the next one is twice as long.                                          *)
LEMMA MinSampleNttKeeps ==
  ASSUME SamplerInv, S!MinSampleNtt
  PROVE  SamplerInv'
<1> DEFINE m == want \div 3
           Ks == S!Kept(Cands, m, S!CandidateOk)
<1>0. /\ at = "sample" /\ task = "ntt" /\ xof = "digest"
      /\ xof' = xof /\ task' = task /\ stream' = stream
      /\ coeffs' = S!Scanned(want) /\ at' = S!Finish(Len(coeffs'))
      /\ want' = IF Len(coeffs') = SamplerN THEN want ELSE 2 * want
  BY DEF S!MinSampleNtt, S!input
<1>1. Running /\ S!Acceptable /\ want \in Nat
  BY <1>0 DEF SamplerInv, Running, Sampling
<1>2. want' \in Nat /\ m \in Nat /\ SamplerN \in Nat
  <2>1. want' \in Nat
    BY ONLY <1>0, <1>1
  <2>2. m \in Nat
    BY ONLY <1>1
  <2> QED BY <2>1, <2>2, SamplerFacts
<1>3. coeffs' = S!Take(Ks, SamplerN)
  BY <1>0, <1>1, ScannedIs
<1> HIDE DEF m
<1>4. Ks \in Seq(S!CandidateOk) /\ Len(Ks) \in Nat
  BY ONLY <1>2, KeptLen
<1>5. CASE Len(coeffs') = SamplerN
  <2>1. at' = "done"
    BY <1>0, <1>5 DEF S!Finish
  <2>2. SamplerN <= Len(Ks)
    <3> SUFFICES ASSUME Len(Ks) <= SamplerN PROVE SamplerN <= Len(Ks)
      BY <1>2, <1>4
    <3>1. coeffs' = Ks
      BY ONLY <1>2, <1>3, <1>4, Len(Ks) <= SamplerN, TakeAll
    <3> QED BY ONLY <1>2, <1>4, <1>5, <3>1
  <2>3. S!Take(Ks, SamplerN) = S!SpecNtt
    BY <1>0, <1>1, <1>2, <2>2, NttIsSpec
  <2>4. coeffs' = S!Sampled
    BY <1>0, <1>3, <2>3 DEF S!Sampled
  <2> QED BY <1>0, <1>1, <2>1, <2>4, StreamStays DEF SamplerInv, SampledIsSpec
<1>6. CASE Len(coeffs') # SamplerN
  <2>1. at' = "sample"
    BY <1>0, <1>6 DEF S!Finish
  <2>2. Sampling'
    BY ONLY <1>0, <1>2 DEF Sampling
  <2> QED BY <1>0, <1>1, <2>1, <2>2, StreamStays DEF SamplerInv, SampledIsSpec
<1> QED BY <1>5, <1>6

(* Both halves of a byte a read. *)
LEMMA SampleBoundedKeeps ==
  ASSUME SamplerInv, S!SampleBounded
  PROVE  SamplerInv'
<1> DEFINE Ks(n) == S!Kept(Nibbles, n, S!NibbleOk)
<1>0. /\ at = "sample" /\ task = "bounded"
      /\ xof' = xof /\ task' = task /\ stream' = stream
  BY DEF S!SampleBounded, S!input
<1>1. Running /\ xof \in Readers /\ xof # "digest" /\ S!Acceptable /\ IsStream(stream)
  BY <1>0 DEF SamplerInv, Running
<1>2. PICK t \in Nat : NibblesRead(t)
  BY <1>0 DEF SamplerInv, Sampling
<1>3. ReaderAt(xof, reader, t) /\ coeffs = S!FromNibbles(Ks(2 * t)) /\ Len(Ks(2 * t)) < SamplerN
  BY <1>2 DEF NibblesRead
<1>4. /\ 2 * t \in Nat /\ 1 \in Nat /\ 2 \in Nat /\ t + 1 \in Nat /\ 2 * t + 2 = 2 * (t + 1)
      /\ 2 * (t + 1) \in Nat /\ SamplerN \in Nat
  BY SamplerFacts
<1> DEFINE b == S!Bytes(1)[1]
           g == <<b % S!Nibble, b \div S!Nibble>>
<1>5. b = S!At(t) /\ ReaderAt(xof, S!After(xof, reader, 1), t + 1)
  <2>1. /\ S!Bytes(1) = [k \in 1 .. 1 |-> S!At(t + k - 1)]
        /\ ReaderAt(xof, S!After(xof, reader, 1), t + 1)
    BY ONLY <1>1, <1>3, <1>4, t \in Nat, BytesAre
  <2>2. t + 1 - 1 = t /\ 1 \in 1 .. 1
    OBVIOUS
  <2> QED BY ONLY <2>1, <2>2
<1>6. coeffs' = S!Take(coeffs \o S!FromNibbles(S!Kept(g, 2, S!NibbleOk)), SamplerN)
  BY DEF S!SampleBounded
<1>7. reader' = S!After(xof, reader, 1) /\ at' = S!Finish(Len(coeffs'))
  BY DEF S!SampleBounded
<1> HIDE DEF b
<1>8. Continues(Nibbles, 2 * t, g, 2)
  <2>1. g[1] = S!At(t) % S!Nibble /\ g[2] = S!At(t) \div S!Nibble
    BY ONLY <1>5
  <2> HIDE DEF g
  <2>2. Nibbles[2 * t + 1] = S!At(t) % S!Nibble /\ Nibbles[2 * t + 2] = S!At(t) \div S!Nibble
    BY ONLY t \in Nat, NibblesAre
  <2>3. \A k \in 1 .. 2 : k = 1 \/ k = 2
    OBVIOUS
  <2> QED BY ONLY <2>1, <2>2, <2>3 DEF Continues
<1> HIDE DEF g
<1>9. Ks(2 * (t + 1)) = Ks(2 * t) \o S!Kept(g, 2, S!NibbleOk)
  <2>1. Joined(Nibbles, 2 * t, g, 2, S!NibbleOk)
    BY ONLY <1>4, <1>8, KeptJoins
  <2>2. S!Kept(Nibbles, 2 * t + 2, S!NibbleOk) = Ks(2 * t) \o S!Kept(g, 2, S!NibbleOk)
    BY ONLY <2>1 DEF Joined
  <2> QED BY ONLY <1>4, <2>2
<1>10. /\ Ks(2 * t) \in Seq(Nat) /\ S!Kept(g, 2, S!NibbleOk) \in Seq(Nat)
       /\ Ks(2 * (t + 1)) \in Seq(Nat) /\ Len(Ks(2 * (t + 1))) \in Nat
  BY ONLY <1>4, NibbleSeq
<1> DEFINE F == S!FromNibbles(Ks(2 * (t + 1)))
<1>11. coeffs' = S!Take(F, SamplerN)
  <2>1. F = coeffs \o S!FromNibbles(S!Kept(g, 2, S!NibbleOk))
    BY ONLY <1>3, <1>9, <1>10, FromNibblesJoins
  <2> QED BY ONLY <1>6, <2>1
<1>12. F \in Seq(Int) /\ Len(F) = Len(Ks(2 * (t + 1)))
  BY ONLY <1>10, FromNibblesIs
<1>13. ReaderAt(xof', reader', t + 1)
  BY ONLY <1>0, <1>5, <1>7
<1>14. CASE SamplerN <= Len(Ks(2 * (t + 1)))
  <2>1. coeffs' = S!SpecBounded
    BY <1>0, <1>1, <1>4, <1>11, <1>14, BoundedIsSpec
  <2>2. Len(coeffs') = SamplerN
    BY ONLY <1>4, <1>11, <1>12, <1>14, TakeFirst
  <2>3. at' = "done" /\ coeffs' = S!Sampled
    BY <1>0, <1>7, <2>1, <2>2 DEF S!Finish, S!Sampled
  <2> QED BY <1>0, <1>1, <2>3, StreamStays DEF SamplerInv, SampledIsSpec
<1>15. CASE ~ (SamplerN <= Len(Ks(2 * (t + 1))))
  <2>1. Len(Ks(2 * (t + 1))) < SamplerN /\ Len(F) <= SamplerN /\ Len(F) # SamplerN
    BY ONLY <1>4, <1>10, <1>12, <1>15
  <2>2. coeffs' = F
    BY ONLY <1>4, <1>11, <1>12, <2>1, TakeAll
  <2>3. at' = "sample"
    BY <1>7, <2>1, <2>2 DEF S!Finish
  <2>4. Nibbles' = Nibbles
    BY <1>0, StreamStays
  <2>5. NibblesRead(t + 1)'
    BY ONLY <1>13, <2>1, <2>2, <2>4 DEF NibblesRead
  <2>6. Sampling'
    BY ONLY <1>0, <1>4, <2>5 DEF Sampling
  <2> QED BY <1>0, <1>1, <2>3, <2>6, StreamStays DEF SamplerInv, SampledIsSpec
<1> QED BY <1>14, <1>15

(* All the fields of a mask in one read. *)
LEMMA SampleMaskKeeps ==
  ASSUME SamplerInv, S!SampleMask
  PROVE  SamplerInv'
<1>0. /\ at = "sample" /\ task = "mask" /\ at' = "done"
      /\ xof' = xof /\ task' = task /\ stream' = stream
      /\ coeffs' = [k \in 1 .. SamplerN |->
           SamplerGamma1 - (Shift(S!Word(S!Bytes(S!MaskBytes)), SamplerZBits * (k - 1)) % Pow2(SamplerZBits))]
  BY DEF S!SampleMask, S!input
<1>1. Running /\ xof \in Readers /\ xof # "digest" /\ IsStream(stream)
  BY <1>0 DEF SamplerInv, Running
<1>2. ReaderAt(xof, reader, 0)
  BY <1>0 DEF SamplerInv, Sampling
<1>3. S!MaskBytes \in Nat /\ 0 \in Nat
  <2>1. SamplerN \in Nat /\ SamplerZBits \in Nat /\ S!Bits \in Nat /\ S!Bits >= 2
    BY SamplerFacts, ByteFacts
  <2>2. SamplerN * SamplerZBits \in Nat
    BY ONLY <2>1
  <2> DEFINE m == SamplerN * SamplerZBits
  <2>3. m \in Nat
    BY ONLY <2>2
  <2> HIDE DEF m
  <2>4. m \div S!Bits \in Nat
    BY ONLY <2>1, <2>3
  <2> QED BY ONLY <2>4 DEF m, S!MaskBytes
<1>4. S!Bytes(S!MaskBytes) = [k \in 1 .. S!MaskBytes |-> S!At(0 + k - 1)]
  BY ONLY <1>1, <1>2, <1>3, BytesAre
<1>5. coeffs' = S!SpecMask
  BY ONLY <1>0, <1>1, <1>4, MaskIsSpec
<1>6. coeffs' = S!Sampled
  BY <1>0, <1>5 DEF S!Sampled
<1> QED BY <1>0, <1>1, <1>6, StreamStays DEF SamplerInv, SampledIsSpec

LEMMA BallFunction ==
  ASSUME NEW d \in 0 .. SamplerTau
  PROVE  Balls[d] = [k \in 1 .. SamplerN |-> Balls[d][k]]
<1>1. CASE d = 0
  BY ONLY <1>1, BallsAre DEF NoOnes
<1>2. CASE d # 0
  <2>1. d \in 1 .. SamplerTau
    BY ONLY <1>2, SamplerFacts, d \in 0 .. SamplerTau
  <2>2. Balls[d] = S!Drawn(Balls[d - 1], d)
    BY ONLY <2>1, BallsAre
  <2> QED BY ONLY <2>2 DEF S!Drawn
<1> QED BY ONLY <1>1, <1>2

(* A byte of a challenge: refused above the index, and otherwise the next  *)
(* draw.                                                                   *)
LEMMA SampleBallKeeps ==
  ASSUME SamplerInv, S!SampleBall
  PROVE  SamplerInv'
<1>0. /\ at = "sample" /\ task = "ball"
      /\ xof' = xof /\ task' = task /\ stream' = stream /\ signs' = signs
  BY DEF S!SampleBall, S!input
<1>1. Running /\ xof \in Readers /\ S!Acceptable /\ IsStream(stream)
  BY <1>0 DEF SamplerInv, Running
<1>2. PICK d \in 0 .. SamplerTau - 1 : \E cur \in Nat : BallRead(d, cur)
  BY <1>0 DEF SamplerInv, Sampling
<1>3. PICK cur \in Nat : BallRead(d, cur)
  BY <1>2
<1>4. /\ ReaderAt(xof, reader, cur) /\ Drew(d, cur)
      /\ next = SamplerN - SamplerTau + d /\ coeffs = Balls[d]
      /\ signs = [k \in 1 .. SamplerTau |-> S!StreamBit(k - 1)]
  BY <1>3 DEF BallRead
<1>5. SamplerTau \in Nat /\ SamplerTau >= 1 /\ SamplerN \in Nat /\ SamplerTau <= SamplerN
  BY SamplerFacts
<1>6. d \in Nat /\ d < SamplerTau /\ 1 \in Nat /\ cur + 1 \in Nat /\ cur \in Int /\ next \in Nat
  BY ONLY <1>4, <1>5, cur \in Nat, d \in 0 .. SamplerTau - 1
<1> DEFINE j == S!Bytes(1)[1]
<1>7. j = S!At(cur) /\ ReaderAt(xof, S!After(xof, reader, 1), cur + 1)
  <2>1. /\ S!Bytes(1) = [k \in 1 .. 1 |-> S!At(cur + k - 1)]
        /\ ReaderAt(xof, S!After(xof, reader, 1), cur + 1)
    <3>1. ReaderAt(xof, reader, cur) /\ xof \in Readers /\ 1 \in Nat /\ 1 <= 1
      BY ONLY <1>1, <1>4
    <3> HIDE DEF j
    <3> QED BY ONLY <3>1, cur \in Nat, BytesAre
  <2>2. cur + 1 - 1 = cur /\ 1 \in 1 .. 1
    OBVIOUS
  <2> QED BY ONLY <2>1, <2>2
<1>8. /\ IF j <= next
         THEN /\ coeffs' = [coeffs EXCEPT ![next + 1] = coeffs[j + 1],
                              ![j + 1] = 1 - 2 * signs[next - (SamplerN - SamplerTau) + 1]]
              /\ next' = next + 1
         ELSE coeffs' = coeffs /\ next' = next
      /\ reader' = S!After(xof, reader, 1) /\ at' = S!Finish(next')
  BY DEF S!SampleBall
<1>9. ReaderAt(xof', reader', cur + 1)
  BY ONLY <1>0, <1>7, <1>8
<1> HIDE DEF j
<1>10. j \in Nat
  <2>1. S!At(cur) \in 0 .. S!Byte - 1
    BY ONLY <1>1, <1>6, AtIs
  <2> QED BY ONLY <1>7, <2>1
<1>11. signs' = [k \in 1 .. SamplerTau |-> S!StreamBit(k - 1)']
  BY <1>0, <1>4, StreamStays
<1>12. CASE ~ (j <= next)
  <2>1. coeffs' = coeffs /\ next' = next /\ at' = S!Finish(next)
    BY ONLY <1>8, <1>12
  <2>2. at' = "sample"
    <3>1. next # SamplerN
      BY ONLY <1>4, <1>5, <1>6
    <3> QED BY ONLY <2>1, <3>1 DEF S!Finish
  <2>3. ~ (S!At(cur) < SamplerN - SamplerTau + (d + 1))
    BY ONLY <1>4, <1>5, <1>6, <1>7, <1>10, <1>12
  <2>4. Drew(d, cur + 1)
    BY ONLY <1>1, <1>4, <2>3, DrawRejects, cur \in Nat, d \in 0 .. SamplerTau - 1
  <2>5. Drew(d, cur + 1)' /\ Balls' = Balls
    BY <1>0, <2>4, StreamStays
  <2>6. BallRead(d, cur + 1)'
    BY ONLY <1>4, <1>9, <1>11, <2>1, <2>5 DEF BallRead
  <2>7. Sampling'
    BY ONLY <1>0, <1>6, <2>6, d \in 0 .. SamplerTau - 1 DEF Sampling
  <2> QED BY <1>0, <1>1, <2>2, <2>7, StreamStays DEF SamplerInv, SampledIsSpec
<1>13. CASE j <= next
  <2>1. S!At(cur) < SamplerN - SamplerTau + (d + 1)
    BY ONLY <1>4, <1>5, <1>6, <1>7, <1>10, <1>13
  <2>2. S!Place[d + 1] = cur /\ Drew(d + 1, cur + 1)
    BY ONLY <1>0, <1>1, <1>4, <2>1, DrawAccepts, cur \in Nat, d \in 0 .. SamplerTau - 1
  <2>3. d + 1 \in 1 .. SamplerTau /\ (d + 1) - 1 = d /\ d \in 0 .. SamplerTau
    BY ONLY <1>5, <1>6
  <2>4. /\ next + 1 = SamplerN - SamplerTau + (d + 1)
        /\ next - (SamplerN - SamplerTau) + 1 = d + 1
        /\ next + 1 \in 1 .. SamplerN /\ j + 1 \in 1 .. SamplerN
    BY ONLY <1>4, <1>5, <1>6, <1>10, <1>13
  <2>5. signs[d + 1] = S!StreamBit(d)
    BY ONLY <1>4, <2>3
  <2>6. Balls[d + 1] = S!Drawn(Balls[d], d + 1)
    BY ONLY <2>3, BallsAre
  <2>7. S!Drawn(Balls[d], d + 1) =
          [k \in 1 .. SamplerN |-> IF k = j + 1 THEN 1 - 2 * S!StreamBit(d)
                                   ELSE IF k = next + 1 THEN Balls[d][j + 1] ELSE Balls[d][k]]
    BY ONLY <1>7, <2>2, <2>3, <2>4 DEF S!Drawn
  <2>8. coeffs' = [coeffs EXCEPT ![next + 1] = coeffs[j + 1], ![j + 1] = 1 - 2 * S!StreamBit(d)]
    BY ONLY <1>8, <1>13, <2>4, <2>5
  <2>9. coeffs = [k \in 1 .. SamplerN |-> Balls[d][k]]
    BY ONLY <1>4, <2>3, BallFunction
  <2>10. coeffs' = Balls[d + 1]
    BY ONLY <1>4, <2>4, <2>6, <2>7, <2>8, <2>9
  <2>11. next' = next + 1 /\ at' = S!Finish(next + 1)
    BY ONLY <1>8, <1>13
  <2>12. CASE d + 1 = SamplerTau
    <3>1. next + 1 = SamplerN
      BY ONLY <1>5, <2>4, <2>12
    <3>2. at' = "done"
      BY ONLY <2>11, <3>1 DEF S!Finish
    <3>3. coeffs' = S!SpecBall
      BY ONLY <2>10, <2>12, BallsAre
    <3>4. coeffs' = S!Sampled
      BY <1>0, <3>3 DEF S!Sampled
    <3> QED BY <1>0, <1>1, <3>2, <3>4, StreamStays DEF SamplerInv, SampledIsSpec
  <2>13. CASE d + 1 # SamplerTau
    <3>1. next + 1 # SamplerN /\ d + 1 \in 0 .. SamplerTau - 1
      BY ONLY <1>5, <1>6, <2>4, <2>13
    <3>2. at' = "sample"
      BY ONLY <2>11, <3>1 DEF S!Finish
    <3>3. Drew(d + 1, cur + 1)' /\ Balls' = Balls
      BY <1>0, <2>2, StreamStays
    <3>4. next' = SamplerN - SamplerTau + (d + 1)
      BY ONLY <2>4, <2>11
    <3>5. BallRead(d + 1, cur + 1)'
      BY ONLY <1>9, <1>11, <2>10, <3>3, <3>4 DEF BallRead
    <3>6. Sampling'
      BY ONLY <1>0, <1>6, <3>1, <3>5 DEF Sampling
    <3> QED BY <1>0, <1>1, <3>2, <3>6, StreamStays DEF SamplerInv, SampledIsSpec
  <2> QED BY ONLY <2>12, <2>13
<1> QED BY <1>12, <1>13

(* When the sampler has returned, nothing of it is left. *)
LEMMA ReturnedKeeps ==
  ASSUME SamplerInv, Returned
  PROVE  SamplerInv'
<1>1. at' = "returned"
  BY DEF Returned
<1> QED BY ONLY <1>1 DEF SamplerInv, SampledIsSpec

LEMMA SchemeKeeps ==
  ASSUME SamplerInv, UNCHANGED sampler
  PROVE  SamplerInv'
<1>1. /\ xof' = xof /\ task' = task /\ stream' = stream /\ at' = at /\ reader' = reader
      /\ want' = want /\ signs' = signs /\ coeffs' = coeffs /\ next' = next
  BY DEF sampler
<1>2. /\ Cands' = Cands /\ Nibbles' = Nibbles /\ Balls' = Balls
      /\ \A d, cur : Drew(d, cur)' <=> Drew(d, cur)
      /\ \A p : S!StreamBit(p)' = S!StreamBit(p)
      /\ S!Sampled' = S!Sampled
      /\ Running' <=> Running
  BY ONLY <1>1, StreamStays
<1>3. \A t \in Nat : NttRead(t) => NttRead(t)'
  BY ONLY <1>1, <1>2 DEF NttRead
<1>4. \A t \in Nat : NibblesRead(t) => NibblesRead(t)'
  BY ONLY <1>1, <1>2 DEF NibblesRead
<1>5. \A d, cur : BallRead(d, cur) => BallRead(d, cur)'
  BY ONLY <1>1, <1>2 DEF BallRead
<1>6. Sampling => Sampling'
  BY ONLY <1>1, <1>3, <1>4, <1>5 DEF Sampling
<1> QED BY <1>1, <1>2, <1>6 DEF SamplerInv, SampledIsSpec

LEMMA SamplerInitially == S!Init => SamplerInv
<1> SUFFICES ASSUME S!Init PROVE SamplerInv
  OBVIOUS
<1>1. stream \in [0 .. Period - 1 -> 0 .. S!Byte - 1]
  BY SamplerFacts DEF S!Init
<1>2. Running
  BY <1>1 DEF S!Init, Running, Readers, IsStream
<1> QED BY <1>2 DEF S!Init, SamplerInv, SampledIsSpec

(* Whatever reader feeds it - the doubling buffer of Shake, the blocks of  *)
(* Keccak256PRNG, the digests of mldsa_min - a sampler of the Python       *)
(* reference that ends has taken from the stream what FIPS 204 takes.      *)
THEOREM SamplersAreFips204 == ReferenceSpec => []SampledIsSpec
<1>1. S!Init /\ Init => SamplerInv
  BY SamplerInitially
<1>2. SamplerInv /\ [ReferenceNext]_<<sampler, vars>> => SamplerInv'
  <2> SUFFICES ASSUME SamplerInv, [ReferenceNext]_<<sampler, vars>>
               PROVE  SamplerInv'
    OBVIOUS
  <2>1. CASE S!Step
    BY <2>1, AbsorbKeeps, SampleNttKeeps, MinSampleNttKeeps, SampleBoundedKeeps, SampleMaskKeeps,
       SampleBallKeeps DEF S!Step
  <2>2. CASE Returned
    BY <2>2, ReturnedKeeps
  <2>3. CASE UNCHANGED sampler
    BY <2>3, SchemeKeeps
  <2> QED BY <2>1, <2>2, <2>3 DEF ReferenceNext
<1>3. SamplerInv => SampledIsSpec
  BY DEF SamplerInv
<1> QED BY <1>1, <1>2, <1>3, PTL DEF ReferenceSpec
=============================================================================
