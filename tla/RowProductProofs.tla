-------------------------- MODULE RowProductProofs --------------------------
(***************************************************************************)
(* Proofs about the row product, for every modulus, every pair of tables,  *)
(* every offset RowProduct's assumptions allow and every slack the Barrett *)
(* steps may leave: no lane overflows its bound and no subtraction borrows *)
(* (the constants of the code satisfy the assumptions: OffsetsDominate in  *)
(* FormalProofs); what useHintSwar makes of the rows, its lanes, its       *)
(* packed words and its stores, is w1Encode; and what the lanes stand for: *)
(* the forward passes are the transform of FIPS 204 and the rows are the   *)
(* inverse transform of the product.                                       *)
(***************************************************************************)
EXTENDS RecoverW1, SequenceTheorems, WellFoundedInduction, TLAPS

-----------------------------------------------------------------------------
(* Products and residues.                                                  *)
LEMMA QNat == Q \in Nat /\ Q > 1
  BY NttAssumption, Zenon

LEMMA TimesUpTo ==
  ASSUME NEW a \in Nat, NEW b \in Nat, NEW x \in 0 .. a, NEW y \in 0 .. b
  PROVE  x * y \in Nat /\ a * b \in Nat /\ x * y <= a * b
<1>1. (a - x) * b >= 0 /\ x * (b - y) >= 0
  OBVIOUS
<1>2. (a - x) * b = a * b - x * b /\ x * (b - y) = x * b - x * y
  OBVIOUS
<1>3. x * y \in Nat /\ a * b \in Nat /\ x * b \in Nat
  OBVIOUS
<1>4. QED
  BY <1>1, <1>2, <1>3

LEMMA MulmodCanonical ==
  ASSUME NEW x \in Int, NEW s \in Int
  PROVE  Mulmod(x, s) \in 0 .. Q - 1
<1>1. Q \in Nat /\ Q > 1
  BY QNat
<1>2. x % Q \in Int /\ (x % Q) * s \in Int
  BY <1>1
<1>3. QED
  BY <1>1, <1>2 DEF Mulmod

SlackOK == \A l \in Lanes : slack[l] \in {0, Q}

LEMMA TwiddledBound ==
  ASSUME SlackOK, NEW x, \A l \in Lanes : x[l] \in Int, NEW s \in Int
  PROVE  \A l \in Lanes : Twiddled(x, s, slack)[l] \in 0 .. 2 * Q - 1
<1> SUFFICES ASSUME NEW l \in Lanes PROVE Twiddled(x, s, slack)[l] \in 0 .. 2 * Q - 1
  OBVIOUS
<1>1. Q \in Nat /\ Q > 1
  BY QNat
<1>2. Mulmod(x[l], s) \in 0 .. Q - 1
  BY MulmodCanonical
<1>3. slack[l] = 0 \/ slack[l] = Q
  BY DEF SlackOK
<1>4. Twiddled(x, s, slack)[l] = Mulmod(x[l], s) + slack[l]
  BY DEF Twiddled
<1>5. QED
  BY <1>1, <1>2, <1>3, <1>4

(* The tables are read inside them, and hold canonical numbers.            *)
LEMMA TableInt ==
  ASSUME NEW j \in 0 .. 255
  PROVE  FwT[j] \in Int /\ InvT[j] \in Int
<1>1. Q \in Nat /\ FwT \in [0 .. 255 -> 0 .. Q - 1] /\ InvT \in [0 .. 255 -> 0 .. Q - 1]
  BY NttAssumption, Zenon
<1>2. QED
  BY <1>1

Strides == {1, 2, 4, 8, 16, 32}

LEMMA TwiddleInTable ==
  ASSUME NEW w \in Words, NEW t \in Strides
  PROVE  TwiddleIndex(w, t) \in 0 .. 255
<1>1. CASE t = 1
  BY <1>1 DEF TwiddleIndex, Words
<1>2. CASE t = 2
  BY <1>2 DEF TwiddleIndex, Words
<1>3. CASE t = 4
  BY <1>3 DEF TwiddleIndex, Words
<1>4. CASE t = 8
  BY <1>4 DEF TwiddleIndex, Words
<1>5. CASE t = 16
  BY <1>5 DEF TwiddleIndex, Words
<1>6. CASE t = 32
  BY <1>6 DEF TwiddleIndex, Words
<1>7. QED
  BY <1>1, <1>2, <1>3, <1>4, <1>5, <1>6 DEF Strides

(* The word a layer pairs with w, and the lane of w after the layer.       *)
Partner(w, t) == IF IsLow(w, t) THEN w + t ELSE w - t

(* A forward layer adds 2q to the bound of the words of its octet.         *)
LEMMA ForwardLayerBound ==
  ASSUME SlackOK, NEW m, NEW octet, NEW t \in Strides, NEW w \in octet, octet \subseteq Words,
         Partner(w, t) \in Words, NEW b \in Nat,
         \A l \in Lanes : m[w][l] \in 0 .. b - 1 /\ m[Partner(w, t)][l] \in 0 .. b - 1
  PROVE  \A l \in Lanes : ForwardLayer(m, octet, t, slack)[w][l] \in 0 .. b + 2 * Q - 1
<1> DEFINE S(v) == FwT[TwiddleIndex(v, t)]
<1>1. Q \in Nat /\ Q > 1 /\ w \in Words
  BY QNat
<1>2. S(w) \in Int
  BY <1>1, TwiddleInTable, TableInt
<1>3. ForwardLayer(m, octet, t, slack)[w] =
        IF IsLow(w, t) THEN Plus(m[w], Twiddled(m[w + t], S(w), slack))
        ELSE Minus(m[w - t], 2 * Q, Twiddled(m[w], S(w), slack))
  BY <1>1 DEF ForwardLayer
<1> HIDE DEF S
<1>4. CASE IsLow(w, t)
  <2> DEFINE v == Twiddled(m[w + t], S(w), slack)
  <2>1. \A l \in Lanes : v[l] \in 0 .. 2 * Q - 1
    <3>1. \A l \in Lanes : m[w + t][l] \in Int
      BY <1>4 DEF Partner
    <3>2. QED
      BY <1>2, <3>1, TwiddledBound
  <2> HIDE DEF v
  <2>2. \A l \in Lanes : Plus(m[w], v)[l] = m[w][l] + v[l]
    BY DEF Plus
  <2>3. ForwardLayer(m, octet, t, slack)[w] = Plus(m[w], v)
    BY <1>3, <1>4 DEF v
  <2>4. QED
    BY <1>1, <2>1, <2>2, <2>3
<1>5. CASE ~ IsLow(w, t)
  <2> DEFINE v == Twiddled(m[w], S(w), slack)
  <2>1. \A l \in Lanes : v[l] \in 0 .. 2 * Q - 1
    BY <1>2, TwiddledBound
  <2> HIDE DEF v
  <2>2. \A l \in Lanes : Minus(m[w - t], 2 * Q, v)[l] = m[w - t][l] + 2 * Q - v[l]
    BY DEF Minus
  <2>3. ForwardLayer(m, octet, t, slack)[w] = Minus(m[w - t], 2 * Q, v)
    BY <1>3, <1>5 DEF v
  <2>4. \A l \in Lanes : m[w - t][l] \in 0 .. b - 1
    BY <1>5 DEF Partner
  <2>5. QED
    BY <1>1, <2>1, <2>2, <2>3, <2>4
<1>6. QED
  BY <1>4, <1>5

LEMMA ForwardLayerElsewhere ==
  ASSUME NEW m, NEW octet, NEW t, NEW w \in Words \ octet
  PROVE  ForwardLayer(m, octet, t, slack)[w] = m[w]
  BY DEF ForwardLayer

(* Layers 7 and 8 take 13 q to 17 q. *)
LEMMA ForwardWordBound ==
  ASSUME NEW x, NEW w \in Words, \A l \in Lanes : x[l] \in 0 .. 13 * Q - 1
  PROVE  \A l \in Lanes : ForwardWord(x, w)[l] \in 0 .. 17 * Q - 1
<1> DEFINE v2 == Mulmod(x[3], FwT[64 + w])
           v3 == Mulmod(x[4], FwT[64 + w])
           l0 == x[1] + v2
           l2 == x[1] + 2 * Q - v2
           ya == Mulmod(x[2] + v3, FwT[128 + 2 * w])
           yb == Mulmod(x[2] + 2 * Q - v3, FwT[129 + 2 * w])
<1>1. Q \in Nat /\ Q > 1 /\ 64 + w \in 0 .. 255 /\ 128 + 2 * w \in 0 .. 255 /\ 129 + 2 * w \in 0 .. 255
  BY QNat DEF Words
<1>2. FwT[64 + w] \in Int /\ FwT[128 + 2 * w] \in Int /\ FwT[129 + 2 * w] \in Int
  BY <1>1, TableInt
<1>3. x[1] \in 0 .. 13 * Q - 1 /\ x[2] \in 0 .. 13 * Q - 1 /\ x[3] \in Int /\ x[4] \in Int
  BY DEF Lanes
<1>4. v2 \in 0 .. Q - 1 /\ v3 \in 0 .. Q - 1
  BY <1>2, <1>3, MulmodCanonical
<1> HIDE DEF v2, v3
<1>5. x[2] + v3 \in Int /\ x[2] + 2 * Q - v3 \in Int
  BY <1>1, <1>3, <1>4
<1>6. ya \in 0 .. Q - 1 /\ yb \in 0 .. Q - 1
  BY <1>2, <1>5, MulmodCanonical
<1>7. ForwardWord(x, w) = <<l0 + ya, l0 + 2 * Q - ya, l2 + yb, l2 + 2 * Q - yb>>
  BY DEF ForwardWord, v2, v3
<1> HIDE DEF ya, yb
<1>8. /\ l0 + ya \in 0 .. 17 * Q - 1 /\ l0 + 2 * Q - ya \in 0 .. 17 * Q - 1
      /\ l2 + yb \in 0 .. 17 * Q - 1 /\ l2 + 2 * Q - yb \in 0 .. 17 * Q - 1
  BY <1>1, <1>3, <1>4, <1>6
<1> HIDE DEF l0, l2
<1>9. QED
  BY <1>7, <1>8 DEF Lanes

-----------------------------------------------------------------------------
(* The product with the key and the inverse transform.                     *)
Product == (PKBound - 1) * (17 * Q - 1)

LEMMA ConstantsInt ==
  /\ PKBound \in 1 .. Q /\ PKBound - 1 \in Nat /\ 17 * Q - 1 \in Nat /\ Product \in Nat
  /\ KQ28 \in Nat /\ Product <= KQ28
  /\ AccEntry = 4 * Product + KQ28
  /\ ACCQ30 \in Nat /\ ACCQ31 \in Nat /\ AccEntry <= ACCQ30 /\ 2 * AccEntry <= ACCQ31
  /\ NINV \in Int /\ S8P \in Int
<1>1. PKBound \in 1 .. Q
  BY RowProductAssumption, Zenon
<1>2. PKBound - 1 \in Nat /\ 17 * Q - 1 \in Nat
  BY <1>1, QNat
<1>3. Product \in Nat
  BY <1>2 DEF Product
<1>4. KQ28 \in Nat /\ Product <= KQ28 /\ AccEntry <= ACCQ30 /\ 2 * AccEntry <= ACCQ31
  BY OffsetAssumption, Zenon DEF Product
<1>5. ACCQ30 \in Nat /\ ACCQ31 \in Nat /\ NINV \in 0 .. Q - 1
  BY InvNttAssumption, Zenon
<1>6. AccEntry = 4 * Product + KQ28
  <2>1. (4 * (PKBound - 1)) * (17 * Q - 1) = 4 * ((PKBound - 1) * (17 * Q - 1))
    BY <1>2
  <2>2. QED
    BY <2>1 DEF AccEntry, Product
<1>7. NINV \in Int /\ S8P \in Int
  <2>1. InvT[1] \in Int /\ NINV \in Int
    BY <1>5, QNat, TableInt
  <2>2. InvT[1] * NINV \in Int
    BY <2>1
  <2>3. QED
    BY <2>1, <2>2, QNat DEF S8P
<1>8. QED
  BY <1>1, <1>2, <1>3, <1>4, <1>5, <1>6, <1>7

LEMMA KeyLanes ==
  ASSUME NEW i \in 1 .. Rows, NEW w \in Words, NEW l \in Lanes
  PROVE  /\ T1[i][w][l] \in 0 .. PKBound - 1
         /\ \A k \in 0 .. 3 : A[i][k][w][l] \in 0 .. PKBound - 1
<1>1. IsMemory(T1[i], PKBound) /\ \A k \in 0 .. 3 : IsMemory(A[i][k], PKBound)
  BY RowProductAssumption, Zenon
<1>2. QED
  BY <1>1 DEF IsMemory

LEMMA ColumnsBound ==
  ASSUME Row \in 1 .. Rows, NEW w \in Words, NEW i \in 0 .. 3, NEW j \in 0 .. 3,
         \A k \in 1 .. 5 : \A l \in Lanes : poly[k][w][l] \in 0 .. 17 * Q - 1
  PROVE  \A l \in Lanes : Columns(i, j, w)[l] \in 0 .. 2 * Product
<1> SUFFICES ASSUME NEW l \in Lanes PROVE Columns(i, j, w)[l] \in 0 .. 2 * Product
  OBVIOUS
<1> DEFINE a == A[Row][i][w][l]  x == poly[i + 2][w][l]
           b == A[Row][j][w][l]  y == poly[j + 2][w][l]
<1>1. Columns(i, j, w)[l] = a * x + b * y
  BY DEF Columns
<1>2. PKBound - 1 \in Nat /\ 17 * Q - 1 \in Nat
  BY ConstantsInt
<1>3. a \in 0 .. PKBound - 1 /\ b \in 0 .. PKBound - 1
  BY KeyLanes
<1>4. x \in 0 .. 17 * Q - 1 /\ y \in 0 .. 17 * Q - 1
  OBVIOUS
<1> HIDE DEF a, b, x, y
<1>5. a * x \in Nat /\ a * x <= Product /\ b * y \in Nat /\ b * y <= Product /\ Product \in Nat
  BY <1>2, <1>3, <1>4, TimesUpTo DEF Product
<1>6. QED
  BY <1>1, <1>5

LEMMA MinusCT1Bound ==
  ASSUME Row \in 1 .. Rows, NEW w \in Words,
         \A l \in Lanes : poly[1][w][l] \in 0 .. 17 * Q - 1
  PROVE  \A l \in Lanes : MinusCT1(w)[l] \in 0 .. KQ28
<1> SUFFICES ASSUME NEW l \in Lanes PROVE MinusCT1(w)[l] \in 0 .. KQ28
  OBVIOUS
<1> DEFINE a == T1[Row][w][l]  x == poly[1][w][l]
<1>1. MinusCT1(w)[l] = KQ28 - a * x
  BY DEF MinusCT1
<1>2. PKBound - 1 \in Nat /\ 17 * Q - 1 \in Nat /\ KQ28 \in Nat /\ Product <= KQ28
  BY ConstantsInt
<1>3. a \in 0 .. PKBound - 1 /\ x \in 0 .. 17 * Q - 1
  BY KeyLanes
<1> HIDE DEF a, x
<1>4. a * x \in Nat /\ a * x <= Product /\ Product \in Nat
  BY <1>2, <1>3, TimesUpTo DEF Product
<1>5. QED
  BY <1>1, <1>2, <1>4

(* Layers 1 and 2 of the inverse take ACC_ENTRY to 2q. *)
LEMMA EntryWordBound ==
  ASSUME NEW x, NEW w \in Words, \A l \in Lanes : x[l] \in 0 .. AccEntry
  PROVE  \A l \in Lanes : EntryWord(x, w)[l] \in 0 .. 2 * Q - 1
<1> DEFINE s01 == x[1] + x[2]
           s23 == x[3] + x[4]
           a01 == x[1] + ACCQ30 - x[2]
           a23 == x[3] + ACCQ30 - x[4]
           d01 == Mulmod(a01, InvT[128 + 2 * w])
           d23 == Mulmod(a23, InvT[129 + 2 * w])
           y3  == Mulmod(s01 + ACCQ31 - s23, InvT[64 + w])
           y4  == Mulmod(d01 + 2 * Q - d23, InvT[64 + w])
<1>1. Q \in Nat /\ Q > 1 /\ 64 + w \in 0 .. 255 /\ 128 + 2 * w \in 0 .. 255 /\ 129 + 2 * w \in 0 .. 255
  BY QNat DEF Words
<1>2. InvT[64 + w] \in Int /\ InvT[128 + 2 * w] \in Int /\ InvT[129 + 2 * w] \in Int
  BY <1>1, TableInt
<1>3. x[1] \in Int /\ x[2] \in Int /\ x[3] \in Int /\ x[4] \in Int
  BY DEF Lanes
<1>4. a01 \in Int /\ a23 \in Int /\ s01 + ACCQ31 - s23 \in Int /\ s01 + s23 \in Int
  BY <1>3, ConstantsInt
<1>5. d01 \in 0 .. Q - 1 /\ d23 \in 0 .. Q - 1 /\ y3 \in 0 .. Q - 1
  <2> HIDE DEF a01, a23, s01, s23
  <2>1. QED
    BY <1>2, <1>4, MulmodCanonical
<1>6. EntryWord(x, w) = <<(s01 + s23) % Q, d01 + d23, y3, y4>>
  BY DEF EntryWord
<1> HIDE DEF a01, a23, s01, s23, d01, d23, y3
<1>7. d01 + 2 * Q - d23 \in Int
  BY <1>1, <1>5
<1>8. y4 \in 0 .. Q - 1
  BY <1>2, <1>7, MulmodCanonical
<1> HIDE DEF y4
<1>9. (s01 + s23) % Q \in 0 .. 2 * Q - 1 /\ d01 + d23 \in 0 .. 2 * Q - 1
      /\ y3 \in 0 .. 2 * Q - 1 /\ y4 \in 0 .. 2 * Q - 1
  BY <1>1, <1>4, <1>5, <1>8
<1>10. QED
  BY <1>6, <1>9 DEF Lanes

(* A further layer doubles the bound of the sums; the differences start    *)
(* again at 2q.                                                            *)
LEMMA InverseLayerBound ==
  ASSUME SlackOK, NEW m, NEW quad, NEW t \in Strides, NEW w \in quad, quad \subseteq Words,
         Partner(w, t) \in Words, NEW b \in Nat,
         \A l \in Lanes : m[w][l] \in 0 .. b - 1 /\ m[Partner(w, t)][l] \in 0 .. b - 1
  PROVE  \A l \in Lanes : InverseLayer(m, quad, t, slack)[w][l]
                             \in 0 .. (IF IsLow(w, t) THEN 2 * b - 1 ELSE 2 * Q - 1)
<1> DEFINE S(v) == InvT[TwiddleIndex(v, t)]
<1>1. Q \in Nat /\ Q > 1 /\ w \in Words
  BY QNat
<1>2. S(w) \in Int
  BY <1>1, TwiddleInTable, TableInt
<1>3. InverseLayer(m, quad, t, slack)[w] =
        IF IsLow(w, t) THEN Plus(m[w], m[w + t])
        ELSE Twiddled(Minus(m[w - t], Offset(t), m[w]), S(w), slack)
  BY <1>1 DEF InverseLayer
<1> HIDE DEF S
<1>4. CASE IsLow(w, t)
  <2>1. \A l \in Lanes : Plus(m[w], m[w + t])[l] = m[w][l] + m[w + t][l]
    BY DEF Plus
  <2>2. \A l \in Lanes : m[w][l] \in 0 .. b - 1 /\ m[w + t][l] \in 0 .. b - 1
    BY <1>4 DEF Partner
  <2>3. QED
    BY <1>1, <1>3, <1>4, <2>1, <2>2
<1>5. CASE ~ IsLow(w, t)
  <2> DEFINE v == Minus(m[w - t], Offset(t), m[w])
  <2>1. Offset(t) \in Int
    BY <1>1 DEF Offset, Strides
  <2>2. \A l \in Lanes : v[l] = m[w - t][l] + Offset(t) - m[w][l]
    BY DEF Minus
  <2>3. \A l \in Lanes : m[w][l] \in 0 .. b - 1 /\ m[w - t][l] \in 0 .. b - 1
    BY <1>5 DEF Partner
  <2> HIDE DEF v
  <2>4. \A l \in Lanes : v[l] \in Int
    BY <2>1, <2>2, <2>3
  <2>5. \A l \in Lanes : Twiddled(v, S(w), slack)[l] \in 0 .. 2 * Q - 1
    BY <1>2, <2>4, TwiddledBound
  <2>6. InverseLayer(m, quad, t, slack)[w] = Twiddled(v, S(w), slack)
    BY <1>3, <1>5 DEF v
  <2>7. QED
    BY <1>5, <2>5, <2>6
<1>6. QED
  BY <1>4, <1>5

LEMMA InverseLayerElsewhere ==
  ASSUME NEW m, NEW quad, NEW t, NEW w \in Words \ quad
  PROVE  InverseLayer(m, quad, t, slack)[w] = m[w]
  BY DEF InverseLayer

(* The last layer is canonical, whatever lanes it is given. *)
LEMMA LastLayerBound ==
  ASSUME NEW m, NEW quad, NEW w \in quad, quad \subseteq Words, Partner(w, 32) \in Words,
         \A l \in Lanes : m[w][l] \in Int /\ m[Partner(w, 32)][l] \in Int
  PROVE  \A l \in Lanes : LastLayer(m, quad)[w][l] \in 0 .. Q - 1
<1> SUFFICES ASSUME NEW l \in Lanes PROVE LastLayer(m, quad)[w][l] \in 0 .. Q - 1
  OBVIOUS
<1>1. LastLayer(m, quad)[w][l] =
        IF w < 32 THEN Mulmod(m[w][l] + m[w + 32][l], NINV)
        ELSE Mulmod(m[w - 32][l] + LastOffset(w) - m[w][l], S8P)
  BY DEF LastLayer
<1>2. w < 32 <=> IsLow(w, 32)
  BY DEF IsLow, Words
<1>3. LastOffset(w) \in Int /\ NINV \in Int /\ S8P \in Int
  BY QNat, ConstantsInt DEF LastOffset
<1>4. CASE w < 32
  <2>1. m[w][l] + m[w + 32][l] \in Int
    BY <1>2, <1>4 DEF Partner
  <2>2. QED
    BY <1>1, <1>3, <1>4, <2>1, MulmodCanonical
<1>5. CASE ~ (w < 32)
  <2>1. m[w - 32][l] + LastOffset(w) - m[w][l] \in Int
    BY <1>2, <1>3, <1>5 DEF Partner
  <2>2. QED
    BY <1>1, <1>3, <1>5, <2>1, MulmodCanonical
<1>6. QED
  BY <1>4, <1>5

LEMMA LastLayerElsewhere ==
  ASSUME NEW m, NEW quad, NEW w \in Words \ quad
  PROVE  LastLayer(m, quad)[w] = m[w]
  BY DEF LastLayer

-----------------------------------------------------------------------------
(* The inductive invariant: where the loops are, the rows finished so far, *)
(* what is a memory, and LaneBounds.                                       *)
Control ==
  /\ pass \in {"A", "B", "C", "mac1", "mac2", "entry", "34", "56", "78", "done", "w1"}
  /\ which \in 1 .. 5
  /\ pass \in {"A", "B"} => block \in 0 .. 7 /\ layer \in 1 .. 3
  /\ pass \in {"C", "entry"} => block \in 0 .. 63 /\ layer = 1
  /\ pass \in {"mac1", "mac2"} => block \in 0 .. 15 /\ layer = 1
  /\ pass \in {"34", "56", "78"} => block \in 0 .. 15 /\ layer \in 1 .. 2

RowsCanonical ==
  \A i \in 1 .. Len(r) : \A w \in Words : \A l \in Lanes : r[i][w][l] \in Canonical

RowsInv ==
  /\ \E S : r \in Seq(S)
  /\ pass \notin {"done", "w1"} => Len(r) < Rows
  /\ RowsCanonical

Memory ==
  /\ SlackOK
  /\ DOMAIN poly = 1 .. 5 /\ \A k \in 1 .. 5 : DOMAIN poly[k] = Words
  /\ pass = "entry" => DOMAIN acc = Words

PolyBounds ==
  \A k \in 1 .. 5 : \A w \in Words : \A l \in Lanes :
    poly[k][w][l] \in 0 .. (2 * LayersDone(k, w) + 1) * Q - 1

AccBounds ==
  pass \notin {"A", "B", "C"} => \A w \in Words : \A l \in Lanes :
    Written(w) => acc[w][l] \in 0 .. AccumulatorBound(w) - 1

LaneInv == Control /\ RowsInv /\ Memory /\ PolyBounds /\ AccBounds

LEMMA RowInRange ==
  ASSUME RowsInv, pass \notin {"done", "w1"}
  PROVE  Row \in 1 .. Rows
<1>1. PICK S : r \in Seq(S)
  BY DEF RowsInv
<1>2. Len(r) \in Nat
  BY <1>1, LenProperties
<1>3. Rows \in Nat
  BY RowProductAssumption, Zenon
<1>4. QED
  BY <1>2, <1>3 DEF RowsInv, Row

LEMMA InitLaneInv == RecoverInit => LaneInv
<1> SUFFICES ASSUME RecoverInit PROVE LaneInv
  OBVIOUS
<1>1. input \in Inputs /\ slack \in Slacks /\ pass = "A" /\ which = 1 /\ block = 0 /\ layer = 1
      /\ poly = input /\ r = <<>>
  BY DEF RecoverInit, Init
<1>2. DOMAIN poly = 1 .. 5 /\ \A k \in 1 .. 5 : IsMemory(poly[k], Q)
  BY <1>1, RowProductAssumption, Zenon
<1>3. SlackOK
  BY <1>1, RowProductAssumption, Zenon DEF SlackOK
<1>4. Rows \in Nat \ {0}
  BY RowProductAssumption, Zenon
<1>5. PolyBounds
  <2>1. \A k \in 1 .. 5 : \A w \in Words : LayersDone(k, w) = 0
    <3>1. pass = "A" /\ which = 1 /\ block = 0 /\ layer = 1
      BY <1>1
    <3>2. \A w \in Words : w % 8 \in 0 .. 7
      BY DEF Words
    <3>3. QED
      BY <3>1, <3>2 DEF LayersDone
  <2>2. (2 * 0 + 1) * Q - 1 = Q - 1
    BY QNat
  <2>3. \A k \in 1 .. 5 : \A w \in Words : \A l \in Lanes : poly[k][w][l] \in 0 .. Q - 1
    BY <1>2 DEF IsMemory
  <2>4. QED
    BY <2>1, <2>2, <2>3 DEF PolyBounds
<1>6. RowsInv
  <2>1. r \in Seq({})
    BY <1>1
  <2>2. Len(r) = 0
    BY <1>1
  <2>3. QED
    BY <1>4, <2>1, <2>2 DEF RowsInv, RowsCanonical
<1>7. Control /\ AccBounds
  BY <1>1 DEF Control, AccBounds
<1>8. Memory
  BY <1>1, <1>2, <1>3 DEF Memory, IsMemory
<1>9. QED
  BY <1>5, <1>6, <1>7, <1>8 DEF LaneInv

(* A layer of the forward transform. *)
LEMMA ForwardStep ==
  ASSUME Memory, PolyBounds, which \in 1 .. 5,
         NEW octet, octet \subseteq Words, NEW t \in Strides, NEW d \in 0 .. 5,
         \A w \in octet : Partner(w, t) \in octet,
         \A k \in 1 .. 5 : \A w \in Words : (k = which /\ w \in octet) =>
           LayersDone(k, w) = d /\ LayersDone(k, w)' = d + 1,
         \A k \in 1 .. 5 : \A w \in Words :
           (k # which \/ w \notin octet) => LayersDone(k, w)' = LayersDone(k, w),
         poly' = [poly EXCEPT ![which] = ForwardLayer(@, octet, t, slack)]
  PROVE  PolyBounds' /\ DOMAIN poly' = 1 .. 5 /\ \A k \in 1 .. 5 : DOMAIN poly'[k] = Words
<1> DEFINE p == poly[which]
<1>1. DOMAIN poly = 1 .. 5 /\ \A k \in 1 .. 5 : DOMAIN poly[k] = Words
  BY DEF Memory
<1>2. /\ DOMAIN poly' = 1 .. 5
      /\ poly'[which] = ForwardLayer(p, octet, t, slack)
      /\ \A k \in 1 .. 5 : k # which => poly'[k] = poly[k]
  BY <1>1
<1>3. DOMAIN ForwardLayer(p, octet, t, slack) = Words
  BY DEF ForwardLayer
<1>4. ASSUME NEW k \in 1 .. 5, NEW w \in Words, NEW l \in Lanes
      PROVE  poly'[k][w][l] \in 0 .. (2 * LayersDone(k, w)' + 1) * Q - 1
  <2>1. CASE k = which /\ w \in octet
    <3> DEFINE b == (2 * d + 1) * Q
    <3>1. b \in Nat /\ b + 2 * Q - 1 = (2 * (d + 1) + 1) * Q - 1
      BY QNat
    <3>2. \A m \in Lanes : p[w][m] \in 0 .. b - 1 /\ p[Partner(w, t)][m] \in 0 .. b - 1
      <4>1. Partner(w, t) \in octet /\ Partner(w, t) \in Words
        BY <2>1
      <4>2. LayersDone(which, w) = d /\ LayersDone(which, Partner(w, t)) = d
        BY <2>1, <4>1
      <4>3. QED
        BY <2>1, <4>1, <4>2 DEF PolyBounds
    <3> HIDE DEF b
    <3>3. ForwardLayer(p, octet, t, slack)[w][l] \in 0 .. b + 2 * Q - 1
      BY <2>1, <3>1, <3>2, ForwardLayerBound DEF Memory
    <3>4. QED
      BY <1>2, <2>1, <3>1, <3>3
  <2>2. CASE k = which /\ w \notin octet
    <3>1. poly'[k][w] = poly[k][w]
      BY <1>2, <2>2, ForwardLayerElsewhere
    <3>2. QED
      BY <2>2, <3>1 DEF PolyBounds
  <2>3. CASE k # which
    BY <1>2, <2>3 DEF PolyBounds
  <2>4. QED
    BY <2>1, <2>2, <2>3
<1>5. PolyBounds'
  BY <1>4 DEF PolyBounds
<1>6. \A k \in 1 .. 5 : DOMAIN poly'[k] = Words
  BY <1>1, <1>2, <1>3
<1>7. QED
  BY <1>2, <1>5, <1>6

(* The octets hold the partners of their words. *)
LEMMA OctetsClosed ==
  /\ \A i \in 0 .. 7 : OctetA(i) \subseteq Words /\ OctetB(i) \subseteq Words
  /\ \A i \in 0 .. 7 : \A w \in OctetA(i) : \A t \in {8, 16, 32} : Partner(w, t) \in OctetA(i)
  /\ \A i \in 0 .. 7 : \A w \in OctetB(i) : \A t \in {1, 2, 4} : Partner(w, t) \in OctetB(i)
<1>1. ASSUME NEW i \in 0 .. 7, NEW w \in OctetA(i), NEW t \in {8, 16, 32}
      PROVE  Partner(w, t) \in OctetA(i)
  <2>1. CASE t = 8
    BY <2>1 DEF OctetA, Partner, IsLow, Words
  <2>2. CASE t = 16
    BY <2>2 DEF OctetA, Partner, IsLow, Words
  <2>3. CASE t = 32
    BY <2>3 DEF OctetA, Partner, IsLow, Words
  <2>4. QED
    BY <2>1, <2>2, <2>3
<1>2. ASSUME NEW i \in 0 .. 7, NEW w \in OctetB(i), NEW t \in {1, 2, 4}
      PROVE  Partner(w, t) \in OctetB(i)
  <2>1. CASE t = 1
    BY <2>1 DEF OctetB, Partner, IsLow, Words
  <2>2. CASE t = 2
    BY <2>2 DEF OctetB, Partner, IsLow, Words
  <2>3. CASE t = 4
    BY <2>3 DEF OctetB, Partner, IsLow, Words
  <2>4. QED
    BY <2>1, <2>2, <2>3
<1>3. QED
  BY <1>1, <1>2 DEF OctetA, OctetB

LEMMA StepPassA == LaneInv /\ PassA => LaneInv'
<1> SUFFICES ASSUME LaneInv, PassA PROVE LaneInv'
  OBVIOUS
<1>1. pass = "A" /\ block \in 0 .. 7 /\ layer \in 1 .. 3 /\ which \in 1 .. 5
  BY DEF PassA, LaneInv, Control
<1>2. UNCHANGED <<input, slack, which, acc, r>>
  BY DEF PassA
<1>3. \/ layer < 3 /\ layer' = layer + 1 /\ block' = block /\ pass' = "A"
      \/ layer = 3 /\ layer' = 1 /\ block < 7 /\ block' = block + 1 /\ pass' = "A"
      \/ layer = 3 /\ layer' = 1 /\ block = 7 /\ block' = 0 /\ pass' = "B"
  BY <1>1 DEF PassA, Advance
<1> DEFINE t == StrideA[layer]
<1>4. t \in {8, 16, 32}
  BY <1>1 DEF StrideA
<1>5. \A k \in 1 .. 5 : \A w \in Words : (k = which /\ w \in OctetA(block)) =>
        LayersDone(k, w) = layer - 1 /\ LayersDone(k, w)' = (layer - 1) + 1
  BY <1>1, <1>2, <1>3 DEF LayersDone, OctetA, Words
<1>6. \A k \in 1 .. 5 : \A w \in Words :
        (k # which \/ w \notin OctetA(block)) => LayersDone(k, w)' = LayersDone(k, w)
  BY <1>1, <1>2, <1>3 DEF LayersDone, OctetA, Words
<1>7. poly' = [poly EXCEPT ![which] = ForwardLayer(@, OctetA(block), t, slack)]
  BY DEF PassA
<1> HIDE DEF t
<1>8. layer - 1 \in 0 .. 5 /\ t \in Strides
  BY <1>1, <1>4 DEF Strides
<1>9. PolyBounds' /\ DOMAIN poly' = 1 .. 5 /\ \A k \in 1 .. 5 : DOMAIN poly'[k] = Words
  BY <1>1, <1>4, <1>5, <1>6, <1>7, <1>8, OctetsClosed, ForwardStep DEF LaneInv
<1>10. Control' /\ AccBounds'
  BY <1>1, <1>2, <1>3 DEF Control, AccBounds
<1>11. RowsInv'
  BY <1>1, <1>2, <1>3 DEF LaneInv, RowsInv, RowsCanonical
<1>12. Memory'
  BY <1>1, <1>2, <1>3, <1>9 DEF LaneInv, Memory, SlackOK
<1>13. QED
  BY <1>9, <1>10, <1>11, <1>12 DEF LaneInv

LEMMA StepPassB == LaneInv /\ PassB => LaneInv'
<1> SUFFICES ASSUME LaneInv, PassB PROVE LaneInv'
  OBVIOUS
<1>1. pass = "B" /\ block \in 0 .. 7 /\ layer \in 1 .. 3 /\ which \in 1 .. 5
  BY DEF PassB, LaneInv, Control
<1>2. UNCHANGED <<input, slack, which, acc, r>>
  BY DEF PassB
<1>3. \/ layer < 3 /\ layer' = layer + 1 /\ block' = block /\ pass' = "B"
      \/ layer = 3 /\ layer' = 1 /\ block < 7 /\ block' = block + 1 /\ pass' = "B"
      \/ layer = 3 /\ layer' = 1 /\ block = 7 /\ block' = 0 /\ pass' = "C"
  BY <1>1 DEF PassB, Advance
<1> DEFINE t == StrideB[layer]
<1>4. t \in {1, 2, 4}
  BY <1>1 DEF StrideB
<1>5. \A k \in 1 .. 5 : \A w \in Words : (k = which /\ w \in OctetB(block)) =>
        LayersDone(k, w) = layer + 2 /\ LayersDone(k, w)' = (layer + 2) + 1
  BY <1>1, <1>2, <1>3 DEF LayersDone, OctetB, Words
<1>6. \A k \in 1 .. 5 : \A w \in Words :
        (k # which \/ w \notin OctetB(block)) => LayersDone(k, w)' = LayersDone(k, w)
  BY <1>1, <1>2, <1>3 DEF LayersDone, OctetB, Words
<1>7. poly' = [poly EXCEPT ![which] = ForwardLayer(@, OctetB(block), t, slack)]
  BY DEF PassB
<1> HIDE DEF t
<1>8. layer + 2 \in 0 .. 5 /\ t \in Strides
  BY <1>1, <1>4 DEF Strides
<1>9. PolyBounds' /\ DOMAIN poly' = 1 .. 5 /\ \A k \in 1 .. 5 : DOMAIN poly'[k] = Words
  BY <1>1, <1>4, <1>5, <1>6, <1>7, <1>8, OctetsClosed, ForwardStep DEF LaneInv
<1>10. Control' /\ AccBounds'
  BY <1>1, <1>2, <1>3 DEF Control, AccBounds
<1>11. RowsInv'
  BY <1>1, <1>2, <1>3 DEF LaneInv, RowsInv, RowsCanonical
<1>12. Memory'
  BY <1>1, <1>2, <1>3, <1>9 DEF LaneInv, Memory, SlackOK
<1>13. QED
  BY <1>9, <1>10, <1>11, <1>12 DEF LaneInv

LEMMA StepPassC == LaneInv /\ PassC => LaneInv'
<1> SUFFICES ASSUME LaneInv, PassC PROVE LaneInv'
  OBVIOUS
<1>1. pass = "C" /\ block \in 0 .. 63 /\ layer = 1 /\ which \in 1 .. 5
  BY DEF PassC, LaneInv, Control
<1>2. UNCHANGED <<input, slack, acc, r>>
      /\ poly' = [poly EXCEPT ![which][block] = ForwardWord(@, block)]
  BY DEF PassC
<1>3. \/ layer' = 1 /\ block < 63 /\ block' = block + 1 /\ pass' = "C" /\ which' = which
      \/ layer' = 1 /\ block = 63 /\ block' = 0 /\ which < 5 /\ pass' = "A" /\ which' = which + 1
      \/ layer' = 1 /\ block = 63 /\ block' = 0 /\ which = 5 /\ pass' = "mac1" /\ which' = which
  BY <1>1 DEF PassC, Advance
<1>4. \A k \in 1 .. 5 : \A w \in Words : (k = which /\ w = block) =>
        LayersDone(k, w) = 6 /\ LayersDone(k, w)' = 8
  BY <1>1, <1>3 DEF LayersDone, Words
<1>5. \A k \in 1 .. 5 : \A w \in Words : (k # which \/ w # block) => LayersDone(k, w)' = LayersDone(k, w)
  BY <1>1, <1>3 DEF LayersDone, Words
<1>6. block \in Words /\ DOMAIN poly = 1 .. 5 /\ \A k \in 1 .. 5 : DOMAIN poly[k] = Words
  BY <1>1 DEF LaneInv, Memory, Words
<1>7. /\ DOMAIN poly' = 1 .. 5 /\ \A k \in 1 .. 5 : DOMAIN poly'[k] = Words
      /\ poly'[which][block] = ForwardWord(poly[which][block], block)
      /\ \A k \in 1 .. 5 : \A w \in Words : (k # which \/ w # block) => poly'[k][w] = poly[k][w]
  BY <1>1, <1>2, <1>6
<1>8. \A l \in Lanes : poly[which][block][l] \in 0 .. 13 * Q - 1
  <2>1. (2 * 6 + 1) * Q - 1 = 13 * Q - 1
    BY QNat
  <2>2. QED
    BY <1>1, <1>4, <1>6, <2>1 DEF LaneInv, PolyBounds
<1>9. \A l \in Lanes : poly'[which][block][l] \in 0 .. 17 * Q - 1
  BY <1>6, <1>7, <1>8, ForwardWordBound
<1>10. PolyBounds'
  <2>1. (2 * 8 + 1) * Q - 1 = 17 * Q - 1
    BY QNat
  <2> SUFFICES ASSUME NEW k \in 1 .. 5, NEW w \in Words, NEW l \in Lanes
               PROVE  poly'[k][w][l] \in 0 .. (2 * LayersDone(k, w)' + 1) * Q - 1
    BY DEF PolyBounds
  <2>2. CASE k = which /\ w = block
    BY <1>4, <1>9, <2>1, <2>2
  <2>3. CASE ~ (k = which /\ w = block)
    BY <1>5, <1>7, <2>3 DEF LaneInv, PolyBounds
  <2>4. QED
    BY <2>2, <2>3
<1>11. Control' /\ AccBounds'
  BY <1>1, <1>2, <1>3 DEF Control, AccBounds, Written, Words
<1>12. RowsInv'
  BY <1>1, <1>2, <1>3 DEF LaneInv, RowsInv, RowsCanonical
<1>13. Memory'
  BY <1>1, <1>2, <1>3, <1>7 DEF LaneInv, Memory, SlackOK
<1>14. QED
  BY <1>10, <1>11, <1>12, <1>13 DEF LaneInv

-----------------------------------------------------------------------------
(* The forward transforms are behind: every lane is below 17q. *)
LEMMA PolyLazy ==
  ASSUME PolyBounds, pass \notin {"A", "B", "C"}
  PROVE  \A k \in 1 .. 5 : \A w \in Words : \A l \in Lanes : poly[k][w][l] \in 0 .. 17 * Q - 1
<1>1. \A k \in 1 .. 5 : \A w \in Words : LayersDone(k, w) = 8
  BY DEF LayersDone
<1>2. (2 * 8 + 1) * Q - 1 = 17 * Q - 1
  BY QNat
<1>3. QED
  BY <1>1, <1>2 DEF PolyBounds

LEMMA PolyKept ==
  ASSUME PolyBounds, Memory, pass \notin {"A", "B", "C"}, pass' \notin {"A", "B", "C"},
         poly' = poly
  PROVE  PolyBounds' /\ DOMAIN poly' = 1 .. 5 /\ \A k \in 1 .. 5 : DOMAIN poly'[k] = Words
<1>1. \A k \in 1 .. 5 : \A w \in Words : LayersDone(k, w) = 8 /\ LayersDone(k, w)' = 8
  BY DEF LayersDone
<1>2. QED
  BY <1>1 DEF PolyBounds, Memory

(* AccumulatorBound, with its products named. *)
LEMMA MacBound ==
  2 * (PKBound - 1) * (17 * Q - 1) + 1 = 2 * Product + 1
<1>1. PKBound - 1 \in Int /\ 17 * Q - 1 \in Int
  BY ConstantsInt
<1>2. (2 * (PKBound - 1)) * (17 * Q - 1) = 2 * ((PKBound - 1) * (17 * Q - 1))
  BY <1>1
<1>3. QED
  BY <1>2 DEF Product

LEMMA StepMacFirst == LaneInv /\ MacFirst => LaneInv'
<1> SUFFICES ASSUME LaneInv, MacFirst PROVE LaneInv'
  OBVIOUS
<1>1. pass = "mac1" /\ block \in 0 .. 15 /\ layer = 1 /\ which \in 1 .. 5
  BY DEF MacFirst, LaneInv, Control
<1>2. UNCHANGED <<input, slack, which, poly, r>>
      /\ acc' = [w \in Words |-> IF w \in Turn THEN Columns(0, 1, w) ELSE acc[w]]
  BY DEF MacFirst
<1>3. \/ layer' = 1 /\ block < 15 /\ block' = block + 1 /\ pass' = "mac1"
      \/ layer' = 1 /\ block = 15 /\ block' = 0 /\ pass' = "mac2"
  BY <1>1 DEF MacFirst, Advance
<1>4. Row \in 1 .. Rows
  BY <1>1, RowInRange DEF LaneInv
<1>5. \A w \in Words : \A l \in Lanes : Columns(0, 1, w)[l] \in 0 .. 2 * Product
  BY <1>1, <1>4, PolyLazy, ColumnsBound DEF LaneInv
<1>6. Product \in Nat
  BY ConstantsInt
<1>7. AccBounds'
  <2> SUFFICES ASSUME NEW w \in Words, NEW l \in Lanes, Written(w)'
               PROVE  acc'[w][l] \in 0 .. AccumulatorBound(w)' - 1
    BY DEF AccBounds
  <2>1. AccumulatorBound(w)' - 1 = 2 * Product
    <3>1. AccumulatorBound(w)' = 2 * (PKBound - 1) * (17 * Q - 1) + 1
      BY <1>3 DEF AccumulatorBound
    <3>2. QED
      BY <1>6, <3>1, MacBound
  <2>2. CASE w \in Turn
    BY <1>2, <1>5, <2>1, <2>2
  <2>3. CASE w \notin Turn
    <3>1. w < 4 * block
      BY <1>1, <1>3, <2>3 DEF Written, Turn, Words
    <3>2. acc[w][l] \in 0 .. AccumulatorBound(w) - 1
      BY <1>1, <3>1 DEF LaneInv, AccBounds, Written
    <3>3. AccumulatorBound(w) - 1 = 2 * Product
      <4>1. AccumulatorBound(w) = 2 * (PKBound - 1) * (17 * Q - 1) + 1
        BY <1>1 DEF AccumulatorBound
      <4>2. QED
        BY <1>6, <4>1, MacBound
    <3>4. QED
      BY <1>2, <2>1, <2>3, <3>2, <3>3
  <2>4. QED
    BY <2>2, <2>3
<1>8. PolyBounds' /\ DOMAIN poly' = 1 .. 5 /\ \A k \in 1 .. 5 : DOMAIN poly'[k] = Words
  BY <1>1, <1>2, <1>3, PolyKept DEF LaneInv
<1>9. Control' /\ RowsInv' /\ Memory'
  BY <1>1, <1>2, <1>3, <1>8 DEF LaneInv, Control, RowsInv, RowsCanonical, Memory, SlackOK
<1>10. QED
  BY <1>7, <1>8, <1>9 DEF LaneInv

LEMMA StepMacSecond == LaneInv /\ MacSecond => LaneInv'
<1> SUFFICES ASSUME LaneInv, MacSecond PROVE LaneInv'
  OBVIOUS
<1>1. pass = "mac2" /\ block \in 0 .. 15 /\ layer = 1 /\ which \in 1 .. 5
  BY DEF MacSecond, LaneInv, Control
<1>2. UNCHANGED <<input, slack, which, poly, r>>
      /\ acc' = [w \in Words |-> IF w \in Turn
                   THEN Plus(Plus(acc[w], MinusCT1(w)), Columns(2, 3, w)) ELSE acc[w]]
  BY DEF MacSecond
<1>3. \/ layer' = 1 /\ block < 15 /\ block' = block + 1 /\ pass' = "mac2"
      \/ layer' = 1 /\ block = 15 /\ block' = 0 /\ pass' = "entry"
  BY <1>1 DEF MacSecond, Advance
<1>4. Row \in 1 .. Rows
  BY <1>1, RowInRange DEF LaneInv
<1>5. \A w \in Words : \A l \in Lanes : /\ Columns(2, 3, w)[l] \in 0 .. 2 * Product
                                        /\ MinusCT1(w)[l] \in 0 .. KQ28
  BY <1>1, <1>4, PolyLazy, ColumnsBound, MinusCT1Bound DEF LaneInv
<1>6. Product \in Nat /\ KQ28 \in Nat /\ AccEntry = 4 * Product + KQ28
  BY ConstantsInt
<1>7. \A w \in Words : AccumulatorBound(w) - 1 =
        IF w < 4 * block THEN AccEntry ELSE 2 * Product
  <2> SUFFICES ASSUME NEW w \in Words
               PROVE  AccumulatorBound(w) - 1 = IF w < 4 * block THEN AccEntry ELSE 2 * Product
    OBVIOUS
  <2>1. AccumulatorBound(w) =
          IF w \in 0 .. 4 * block - 1 THEN AccEntry + 1
          ELSE 2 * (PKBound - 1) * (17 * Q - 1) + 1
    BY <1>1 DEF AccumulatorBound
  <2>2. w \in 0 .. 4 * block - 1 <=> w < 4 * block
    BY <1>1 DEF Words
  <2>3. QED
    BY <1>6, <2>1, <2>2, MacBound
<1>8. \A w \in Words : w < 4 * block + 4 => AccumulatorBound(w)' - 1 = AccEntry
  <2> SUFFICES ASSUME NEW w \in Words, w < 4 * block + 4
               PROVE  AccumulatorBound(w)' - 1 = AccEntry
    OBVIOUS
  <2>1. AccumulatorBound(w)' = AccEntry + 1
    BY <1>1, <1>3 DEF AccumulatorBound, Words
  <2>2. QED
    BY <1>6, <2>1
<1>9. \A w \in Words : ~ (w < 4 * block + 4) => AccumulatorBound(w)' - 1 = 2 * Product
  <2> SUFFICES ASSUME NEW w \in Words, ~ (w < 4 * block + 4)
               PROVE  AccumulatorBound(w)' - 1 = 2 * Product
    OBVIOUS
  <2>1. AccumulatorBound(w)' = 2 * (PKBound - 1) * (17 * Q - 1) + 1
    BY <1>1, <1>3 DEF AccumulatorBound, Words
  <2>2. QED
    BY <1>6, <2>1, MacBound
<1>10. \A w \in Words : \A l \in Lanes : acc[w][l] \in 0 .. AccumulatorBound(w) - 1
  BY <1>1 DEF LaneInv, AccBounds, Written
<1>11. AccBounds'
  <2> SUFFICES ASSUME NEW w \in Words, NEW l \in Lanes
               PROVE  acc'[w][l] \in 0 .. AccumulatorBound(w)' - 1
    BY DEF AccBounds
  <2>1. CASE w \in Turn
    <3>1. ~ (w < 4 * block) /\ w < 4 * block + 4
      BY <1>1, <2>1 DEF Turn
    <3>2. acc[w][l] \in 0 .. 2 * Product
      BY <1>7, <1>10, <3>1
    <3>3. acc'[w][l] = acc[w][l] + MinusCT1(w)[l] + Columns(2, 3, w)[l]
      BY <1>2, <2>1 DEF Plus
    <3>4. acc'[w][l] \in 0 .. AccEntry
      BY <1>5, <1>6, <3>2, <3>3
    <3>5. QED
      BY <1>8, <3>1, <3>4
  <2>2. CASE w \notin Turn
    <3>1. w < 4 * block \/ ~ (w < 4 * block + 4)
      BY <1>1, <2>2 DEF Turn, Words
    <3>2. AccumulatorBound(w)' - 1 = AccumulatorBound(w) - 1
      <4>1. CASE w < 4 * block
        <5>1. w < 4 * block + 4
          BY <1>1, <4>1 DEF Words
        <5>2. QED
          BY <1>7, <1>8, <4>1, <5>1
      <4>2. CASE ~ (w < 4 * block + 4)
        <5>1. ~ (w < 4 * block)
          BY <1>1, <4>2 DEF Words
        <5>2. QED
          BY <1>7, <1>9, <4>2, <5>1
      <4>3. QED
        BY <3>1, <4>1, <4>2
    <3>3. acc'[w][l] = acc[w][l]
      BY <1>2, <2>2
    <3>4. QED
      BY <1>10, <3>2, <3>3
  <2>3. QED
    BY <2>1, <2>2
<1>12. PolyBounds' /\ DOMAIN poly' = 1 .. 5 /\ \A k \in 1 .. 5 : DOMAIN poly'[k] = Words
  BY <1>1, <1>2, <1>3, PolyKept DEF LaneInv
<1>13. DOMAIN acc' = Words
  BY <1>2
<1>14. Control' /\ RowsInv' /\ Memory'
  BY <1>1, <1>2, <1>3, <1>12, <1>13 DEF LaneInv, Control, RowsInv, RowsCanonical, Memory, SlackOK
<1>15. QED
  BY <1>11, <1>12, <1>14 DEF LaneInv

-----------------------------------------------------------------------------
(* The bound of word w after d layers of the inverse transform from the    *)
(* third on.                                                               *)
Multiple(d) == <<2, 4, 8, 16, 32, 64, 1>>[d + 1]
BoundAfter(d, w) == IF d = 5 /\ w % 32 >= 16 THEN 2 * Q ELSE Multiple(d) * Q

LEMMA MultipleDoubles ==
  /\ \A d \in 0 .. 4 : Multiple(d + 1) = 2 * Multiple(d) /\ Multiple(d) \in Nat /\ Multiple(d) >= 2
  /\ Multiple(0) = 2 /\ Multiple(5) = 64 /\ Multiple(6) = 1
  /\ \A d \in 0 .. 6 : Multiple(d) \in 1 .. 64
  BY DEF Multiple

LEMMA InverseBound ==
  ASSUME pass \in {"34", "56", "78"}
  PROVE  \A w \in Words : AccumulatorBound(w) = BoundAfter(InverseDone(w), w)
  BY DEF AccumulatorBound, BoundAfter, Multiple

LEMMA StepEntry == LaneInv /\ Entry => LaneInv'
<1> SUFFICES ASSUME LaneInv, Entry PROVE LaneInv'
  OBVIOUS
<1>1. pass = "entry" /\ block \in 0 .. 63 /\ layer = 1 /\ which \in 1 .. 5
  BY DEF Entry, LaneInv, Control
<1>2. UNCHANGED <<input, slack, which, poly, r>>
      /\ acc' = [acc EXCEPT ![block] = EntryWord(@, block)]
  BY DEF Entry
<1>3. \/ layer' = 1 /\ block < 63 /\ block' = block + 1 /\ pass' = "entry"
      \/ layer' = 1 /\ block = 63 /\ block' = 0 /\ pass' = "34"
  BY <1>1 DEF Entry, Advance
<1>4. AccEntry \in Nat /\ Q \in Nat
  BY ConstantsInt, QNat
<1>5. \A w \in Words : AccumulatorBound(w) = IF w < block THEN 2 * Q ELSE AccEntry + 1
  BY <1>1 DEF AccumulatorBound
<1>6. block \in Words /\ DOMAIN acc = Words
  BY <1>1 DEF LaneInv, Memory, Words
<1>7. \A w \in Words : \A l \in Lanes : acc[w][l] \in 0 .. AccumulatorBound(w) - 1
  BY <1>1 DEF LaneInv, AccBounds, Written
<1>8. \A l \in Lanes : acc[block][l] \in 0 .. AccEntry
  <2>1. AccumulatorBound(block) - 1 = AccEntry
    BY <1>1, <1>4, <1>5, <1>6
  <2>2. QED
    BY <1>6, <1>7, <2>1
<1>9. \A l \in Lanes : acc'[block][l] \in 0 .. 2 * Q - 1
  BY <1>2, <1>6, <1>8, EntryWordBound
<1>10. \A w \in Words : w # block => acc'[w] = acc[w]
  BY <1>2, <1>6
<1>11. \A w \in Words : AccumulatorBound(w)' = IF w <= block THEN 2 * Q ELSE AccEntry + 1
  <2>1. CASE pass' = "entry"
    <3>1. \A w \in Words : w < block' <=> w <= block
      BY <1>1, <1>3, <2>1 DEF Words
    <3>2. \A w \in Words : AccumulatorBound(w)' = IF w < block' THEN 2 * Q ELSE AccEntry + 1
      BY <2>1 DEF AccumulatorBound
    <3>3. QED
      BY <3>1, <3>2
  <2>2. CASE pass' = "34"
    <3>1. \A w \in Words : InverseDone(w)' = 0 /\ w <= block
      BY <1>3, <2>2 DEF InverseDone, BlockOf, Words
    <3>2. \A w \in Words : AccumulatorBound(w)' = 2 * Q
      BY <2>2, <3>1 DEF AccumulatorBound
    <3>3. QED
      BY <3>1, <3>2
  <2>3. QED
    BY <1>3, <2>1, <2>2
<1>12. AccBounds'
  <2> SUFFICES ASSUME NEW w \in Words, NEW l \in Lanes
               PROVE  acc'[w][l] \in 0 .. AccumulatorBound(w)' - 1
    BY DEF AccBounds
  <2>1. CASE w = block
    BY <1>1, <1>9, <1>11, <2>1
  <2>2. CASE w # block
    <3>1. w < block <=> w <= block
      BY <1>1, <2>2 DEF Words
    <3>2. AccumulatorBound(w)' = AccumulatorBound(w)
      BY <1>5, <1>11, <3>1
    <3>3. QED
      BY <1>7, <1>10, <2>2, <3>2
  <2>3. QED
    BY <2>1, <2>2
<1>13. PolyBounds' /\ DOMAIN poly' = 1 .. 5 /\ \A k \in 1 .. 5 : DOMAIN poly'[k] = Words
  BY <1>1, <1>2, <1>3, PolyKept DEF LaneInv
<1>14. DOMAIN acc' = Words
  BY <1>2, <1>6
<1>15. Control' /\ RowsInv' /\ Memory'
  <2>1. Control'
    BY <1>1, <1>2, <1>3 DEF Control
  <2>2. RowsInv'
    BY <1>1, <1>2, <1>3 DEF LaneInv, RowsInv, RowsCanonical
  <2>3. Memory'
    BY <1>2, <1>13, <1>14 DEF LaneInv, Memory, SlackOK
  <2>4. QED
    BY <2>1, <2>2, <2>3
<1>16. QED
  BY <1>12, <1>13, <1>15 DEF LaneInv

(* The quads hold the partners of their words, and the high words of layer *)
(* 7 are the ones whose bound starts again.                                *)
LEMMA QuadsClosed ==
  ASSUME NEW i \in 0 .. 15
  PROVE  /\ Quad34(i) \subseteq Words /\ Quad56(i) \subseteq Words /\ Quad78(i) \subseteq Words
         /\ \A w \in Quad34(i) : \A t \in {1, 2} : Partner(w, t) \in Quad34(i)
         /\ \A w \in Quad56(i) : \A t \in {4, 8} : Partner(w, t) \in Quad56(i)
         /\ \A w \in Quad78(i) : \A t \in {16, 32} : Partner(w, t) \in Quad78(i)
         /\ \A w \in Words : IsLow(w, 16) <=> w % 32 < 16
<1>1. ASSUME NEW w \in Quad34(i), NEW t \in {1, 2}
      PROVE  Partner(w, t) \in Quad34(i)
  <2>1. CASE t = 1
    BY <2>1 DEF Quad34, Partner, IsLow, Words
  <2>2. CASE t = 2
    BY <2>2 DEF Quad34, Partner, IsLow, Words
  <2>3. QED
    BY <2>1, <2>2
<1>2. ASSUME NEW w \in Quad56(i), NEW t \in {4, 8}
      PROVE  Partner(w, t) \in Quad56(i)
  <2>1. CASE t = 4
    BY <2>1 DEF Quad56, Partner, IsLow, Words
  <2>2. CASE t = 8
    BY <2>2 DEF Quad56, Partner, IsLow, Words
  <2>3. QED
    BY <2>1, <2>2
<1>3. ASSUME NEW w \in Quad78(i), NEW t \in {16, 32}
      PROVE  Partner(w, t) \in Quad78(i)
  <2>1. CASE t = 16
    BY <2>1 DEF Quad78, Partner, IsLow, Words
  <2>2. CASE t = 32
    BY <2>2 DEF Quad78, Partner, IsLow, Words
  <2>3. QED
    BY <2>1, <2>2
<1>4. \A w \in Words : IsLow(w, 16) <=> w % 32 < 16
  BY DEF IsLow, Words
<1>5. Quad34(i) \subseteq Words /\ Quad56(i) \subseteq Words /\ Quad78(i) \subseteq Words
  BY DEF Quad34, Quad56, Quad78
<1>6. QED
  BY <1>1, <1>2, <1>3, <1>4, <1>5

(* The words of the block at hand are those of its quad. *)
LEMMA BlockIsQuad ==
  ASSUME NEW w \in Words, block \in 0 .. 15
  PROVE  /\ pass = "34" => (BlockOf(w) = block <=> w \in Quad34(block))
         /\ pass = "56" => (BlockOf(w) = block <=> w \in Quad56(block))
         /\ pass = "78" => (BlockOf(w) = block <=> w \in Quad78(block))
         /\ pass \in {"34", "56", "78"} => BlockOf(w) \in 0 .. 15
  BY DEF BlockOf, Quad34, Quad56, Quad78, Words

(* One layer of the inverse transform that doubles its sums. *)
LEMMA InverseStep ==
  ASSUME SlackOK, NEW quad, quad \subseteq Words, NEW t \in Strides, NEW d \in 0 .. 4,
         \A w \in quad : Partner(w, t) \in quad,
         \A w \in quad : \A l \in Lanes : acc[w][l] \in 0 .. BoundAfter(d, w) - 1,
         d = 4 => \A w \in Words : IsLow(w, t) <=> w % 32 < 16
  PROVE  \A w \in quad : \A l \in Lanes :
           InverseLayer(acc, quad, t, slack)[w][l] \in 0 .. BoundAfter(d + 1, w) - 1
<1> SUFFICES ASSUME NEW w \in quad, NEW l \in Lanes
             PROVE  InverseLayer(acc, quad, t, slack)[w][l] \in 0 .. BoundAfter(d + 1, w) - 1
  OBVIOUS
<1> DEFINE b == Multiple(d) * Q
<1>1. Q \in Nat /\ Q > 1 /\ w \in Words
  BY QNat
<1>2. Multiple(d) \in Nat /\ Multiple(d) >= 2 /\ Multiple(d + 1) = 2 * Multiple(d)
  BY MultipleDoubles
<1>3. b \in Nat /\ Multiple(d + 1) * Q = 2 * b
  BY <1>1, <1>2
<1>4. 2 * Q <= b
  <2>1. (Multiple(d) - 2) * Q >= 0
    BY <1>1, <1>2
  <2>2. (Multiple(d) - 2) * Q = Multiple(d) * Q - 2 * Q
    BY <1>1, <1>2
  <2>3. QED
    BY <1>1, <1>3, <2>1, <2>2
<1>5. \A v \in quad : \A m \in Lanes : acc[v][m] \in 0 .. b - 1
  <2>1. \A v \in quad : BoundAfter(d, v) = b
    BY DEF BoundAfter
  <2>2. QED
    BY <2>1
<1> HIDE DEF b
<1>6. InverseLayer(acc, quad, t, slack)[w][l] \in 0 .. (IF IsLow(w, t) THEN 2 * b - 1 ELSE 2 * Q - 1)
  <2>1. Partner(w, t) \in quad /\ Partner(w, t) \in Words
    OBVIOUS
  <2>2. QED
    BY <1>3, <1>5, <2>1, InverseLayerBound
<1>7. CASE d + 1 = 5 /\ w % 32 >= 16
  <2>1. BoundAfter(d + 1, w) = 2 * Q
    BY <1>7 DEF BoundAfter
  <2>2. ~ IsLow(w, t)
    <3>1. w % 32 \in 0 .. 31
      BY <1>1 DEF Words
    <3>2. d = 4
      BY <1>7
    <3>3. QED
      BY <1>1, <1>7, <3>1, <3>2
  <2>3. QED
    BY <1>6, <2>1, <2>2
<1>8. CASE ~ (d + 1 = 5 /\ w % 32 >= 16)
  <2>1. BoundAfter(d + 1, w) = 2 * b
    BY <1>3, <1>8 DEF BoundAfter
  <2>2. QED
    BY <1>1, <1>3, <1>4, <1>6, <2>1
<1>9. QED
  BY <1>7, <1>8

(* A step of a quad: its words have one more layer behind, the others are  *)
(* as they were, in the accumulator and in their bounds.                   *)
LEMMA QuadStep ==
  ASSUME LaneInv, pass \in {"34", "56", "78"}, NEW quad, quad \subseteq Words,
         NEW d \in 0 .. 5,
         \A w \in quad : InverseDone(w) = d,
         \A w \in quad : \A l \in Lanes : acc'[w][l] \in 0 .. BoundAfter(d + 1, w) - 1,
         \A w \in Words \ quad : acc'[w] = acc[w]
  PROVE  \A w \in Words : \A l \in Lanes :
           acc'[w][l] \in 0 .. BoundAfter(IF w \in quad THEN d + 1 ELSE InverseDone(w), w) - 1
<1> SUFFICES ASSUME NEW w \in Words, NEW l \in Lanes
             PROVE  acc'[w][l] \in 0 .. BoundAfter(IF w \in quad THEN d + 1 ELSE InverseDone(w), w) - 1
  OBVIOUS
<1>1. CASE w \in quad
  BY <1>1
<1>2. CASE w \notin quad
  <2>1. acc[w][l] \in 0 .. AccumulatorBound(w) - 1
    BY DEF LaneInv, AccBounds, Written
  <2>2. QED
    BY <1>2, <2>1, InverseBound
<1>3. QED
  BY <1>1, <1>2

LEMMA QuadBefore ==
  ASSUME LaneInv, pass \in {"34", "56", "78"}
  PROVE  \A w \in Words : \A l \in Lanes : acc[w][l] \in 0 .. BoundAfter(InverseDone(w), w) - 1
<1>1. \A w \in Words : \A l \in Lanes : acc[w][l] \in 0 .. AccumulatorBound(w) - 1
  BY DEF LaneInv, AccBounds, Written
<1>2. QED
  BY <1>1, InverseBound

LEMMA StepLayers34 == LaneInv /\ Layers34 => LaneInv'
<1> SUFFICES ASSUME LaneInv, Layers34 PROVE LaneInv'
  OBVIOUS
<1>1. pass = "34" /\ block \in 0 .. 15 /\ layer \in 1 .. 2 /\ which \in 1 .. 5
  BY DEF Layers34, LaneInv, Control
<1> DEFINE t == <<1, 2>>[layer]
           quad == Quad34(block)
           d == layer - 1
<1>2. UNCHANGED <<input, slack, which, poly, r>> /\ acc' = InverseLayer(acc, quad, t, slack)
  BY DEF Layers34
<1>3. \/ layer = 1 /\ layer' = 2 /\ block' = block /\ pass' = "34"
      \/ layer = 2 /\ layer' = 1 /\ block < 15 /\ block' = block + 1 /\ pass' = "34"
      \/ layer = 2 /\ layer' = 1 /\ block = 15 /\ block' = 0 /\ pass' = "56"
  BY <1>1 DEF Layers34, Advance
<1>4. t \in {1, 2} /\ t \in Strides /\ d \in 0 .. 4 /\ d \in 0 .. 5 /\ d # 4
  BY <1>1 DEF Strides
<1>5. \A w \in Words : w \in quad <=> BlockOf(w) = block
  BY <1>1, BlockIsQuad
<1>6. \A w \in quad : InverseDone(w) = d
  BY <1>1, <1>5, QuadsClosed DEF InverseDone
<1>7. \A w \in Words : InverseDone(w)' = IF w \in quad THEN d + 1 ELSE InverseDone(w)
  BY <1>1, <1>3 DEF InverseDone, BlockOf, Quad34, Words
<1> HIDE DEF t, quad, d
<1>8. quad \subseteq Words /\ \A w \in quad : Partner(w, t) \in quad
  BY <1>1, <1>4, QuadsClosed DEF quad
<1>9. \A w \in quad : \A l \in Lanes : acc[w][l] \in 0 .. BoundAfter(d, w) - 1
  BY <1>1, <1>6, <1>8, QuadBefore
<1>10. \A w \in quad : \A l \in Lanes : acc'[w][l] \in 0 .. BoundAfter(d + 1, w) - 1
  BY <1>2, <1>4, <1>8, <1>9, InverseStep DEF LaneInv, Memory
<1>11. \A w \in Words \ quad : acc'[w] = acc[w]
  BY <1>2, InverseLayerElsewhere
<1>12. AccBounds'
  <2>1. \A w \in Words : \A l \in Lanes :
          acc'[w][l] \in 0 .. BoundAfter(IF w \in quad THEN d + 1 ELSE InverseDone(w), w) - 1
    BY <1>1, <1>4, <1>6, <1>8, <1>10, <1>11, QuadStep
  <2>2. pass' \in {"34", "56", "78"}
    BY <1>3
  <2>3. \A w \in Words : AccumulatorBound(w)' = BoundAfter(InverseDone(w)', w)
    BY <2>2 DEF AccumulatorBound, BoundAfter, Multiple
  <2>4. QED
    BY <1>7, <2>1, <2>3 DEF AccBounds
<1>13. PolyBounds' /\ DOMAIN poly' = 1 .. 5 /\ \A k \in 1 .. 5 : DOMAIN poly'[k] = Words
  BY <1>1, <1>2, <1>3, PolyKept DEF LaneInv
<1>14. Control'
  BY <1>1, <1>2, <1>3 DEF Control
<1>15. RowsInv' /\ Memory'
  BY <1>1, <1>2, <1>3, <1>13 DEF LaneInv, RowsInv, RowsCanonical, Memory, SlackOK
<1>16. QED
  BY <1>12, <1>13, <1>14, <1>15 DEF LaneInv

LEMMA StepLayers56 == LaneInv /\ Layers56 => LaneInv'
<1> SUFFICES ASSUME LaneInv, Layers56 PROVE LaneInv'
  OBVIOUS
<1>1. pass = "56" /\ block \in 0 .. 15 /\ layer \in 1 .. 2 /\ which \in 1 .. 5
  BY DEF Layers56, LaneInv, Control
<1> DEFINE t == <<4, 8>>[layer]
           quad == Quad56(block)
           d == layer + 1
<1>2. UNCHANGED <<input, slack, which, poly, r>> /\ acc' = InverseLayer(acc, quad, t, slack)
  BY DEF Layers56
<1>3. \/ layer = 1 /\ layer' = 2 /\ block' = block /\ pass' = "56"
      \/ layer = 2 /\ layer' = 1 /\ block < 15 /\ block' = block + 1 /\ pass' = "56"
      \/ layer = 2 /\ layer' = 1 /\ block = 15 /\ block' = 0 /\ pass' = "78"
  BY <1>1 DEF Layers56, Advance
<1>4. t \in {4, 8} /\ t \in Strides /\ d \in 0 .. 4 /\ d \in 0 .. 5 /\ d # 4
  BY <1>1 DEF Strides
<1>5. \A w \in Words : w \in quad <=> BlockOf(w) = block
  BY <1>1, BlockIsQuad
<1>6. \A w \in quad : InverseDone(w) = d
  BY <1>1, <1>5, QuadsClosed DEF InverseDone
<1>7. \A w \in Words : InverseDone(w)' = IF w \in quad THEN d + 1 ELSE InverseDone(w)
  BY <1>1, <1>3 DEF InverseDone, BlockOf, Quad56, Words
<1> HIDE DEF t, quad, d
<1>8. quad \subseteq Words /\ \A w \in quad : Partner(w, t) \in quad
  BY <1>1, <1>4, QuadsClosed DEF quad
<1>9. \A w \in quad : \A l \in Lanes : acc[w][l] \in 0 .. BoundAfter(d, w) - 1
  BY <1>1, <1>6, <1>8, QuadBefore
<1>10. \A w \in quad : \A l \in Lanes : acc'[w][l] \in 0 .. BoundAfter(d + 1, w) - 1
  BY <1>2, <1>4, <1>8, <1>9, InverseStep DEF LaneInv, Memory
<1>11. \A w \in Words \ quad : acc'[w] = acc[w]
  BY <1>2, InverseLayerElsewhere
<1>12. AccBounds'
  <2>1. \A w \in Words : \A l \in Lanes :
          acc'[w][l] \in 0 .. BoundAfter(IF w \in quad THEN d + 1 ELSE InverseDone(w), w) - 1
    BY <1>1, <1>4, <1>6, <1>8, <1>10, <1>11, QuadStep
  <2>2. pass' \in {"34", "56", "78"}
    BY <1>3
  <2>3. \A w \in Words : AccumulatorBound(w)' = BoundAfter(InverseDone(w)', w)
    BY <2>2 DEF AccumulatorBound, BoundAfter, Multiple
  <2>4. QED
    BY <1>7, <2>1, <2>3 DEF AccBounds
<1>13. PolyBounds' /\ DOMAIN poly' = 1 .. 5 /\ \A k \in 1 .. 5 : DOMAIN poly'[k] = Words
  BY <1>1, <1>2, <1>3, PolyKept DEF LaneInv
<1>14. Control'
  BY <1>1, <1>2, <1>3 DEF Control
<1>15. RowsInv' /\ Memory'
  BY <1>1, <1>2, <1>3, <1>13 DEF LaneInv, RowsInv, RowsCanonical, Memory, SlackOK
<1>16. QED
  BY <1>12, <1>13, <1>14, <1>15 DEF LaneInv

LEMMA StepLayers78 == LaneInv /\ Layers78 => LaneInv'
<1> SUFFICES ASSUME LaneInv, Layers78 PROVE LaneInv'
  OBVIOUS
<1>1. pass = "78" /\ block \in 0 .. 15 /\ layer \in 1 .. 2 /\ which \in 1 .. 5
  BY DEF Layers78, LaneInv, Control
<1> DEFINE quad == Quad78(block)
           d == layer + 3
<1>2. UNCHANGED <<input, slack, which, poly>>
      /\ acc' = (IF layer = 1 THEN InverseLayer(acc, quad, 16, slack) ELSE LastLayer(acc, quad))
      /\ r' = (IF block = 15 /\ layer = 2 THEN Append(r, acc') ELSE r)
  BY DEF Layers78
<1>3. \/ layer = 1 /\ layer' = 2 /\ block' = block /\ pass' = "78"
      \/ layer = 2 /\ layer' = 1 /\ block < 15 /\ block' = block + 1 /\ pass' = "78"
      \/ layer = 2 /\ layer' = 1 /\ block = 15 /\ block' = 0
         /\ pass' = IF Row < Rows THEN "mac1" ELSE "done"
  BY <1>1 DEF Layers78, Advance
<1>4. d \in {4, 5} /\ (d = 4 <=> layer = 1) /\ 16 \in Strides
  BY <1>1 DEF Strides
<1>5. \A w \in Words : w \in quad <=> BlockOf(w) = block
  BY <1>1, BlockIsQuad
<1>6. \A w \in quad : InverseDone(w) = d
  BY <1>1, <1>5, QuadsClosed DEF InverseDone
<1>7. pass' = "78" => \A w \in Words : InverseDone(w)' = IF w \in quad THEN d + 1 ELSE InverseDone(w)
  BY <1>1, <1>3 DEF InverseDone, BlockOf, Quad78, Words
<1>8. (block = 15 /\ layer = 2) => \A w \in Words : w \notin quad => InverseDone(w) = 6
  BY <1>1 DEF InverseDone, BlockOf, Quad78, Words
<1> HIDE DEF quad, d
<1>9. quad \subseteq Words /\ (\A w \in quad : Partner(w, 16) \in quad /\ Partner(w, 32) \in quad)
      /\ \A w \in Words : IsLow(w, 16) <=> w % 32 < 16
  BY <1>1, QuadsClosed DEF quad
<1>10. \A w \in quad : \A l \in Lanes : acc[w][l] \in 0 .. BoundAfter(d, w) - 1
  BY <1>1, <1>6, <1>9, QuadBefore
<1>11. \A w \in quad : \A l \in Lanes : acc'[w][l] \in 0 .. BoundAfter(d + 1, w) - 1
  <2>1. CASE layer = 1
    BY <1>2, <1>4, <1>9, <1>10, <2>1, InverseStep DEF LaneInv, Memory
  <2>2. CASE layer # 1
    <3> SUFFICES ASSUME NEW w \in quad, NEW l \in Lanes
                 PROVE  acc'[w][l] \in 0 .. BoundAfter(d + 1, w) - 1
      OBVIOUS
    <3>1. d + 1 = 6 /\ BoundAfter(6, w) = Q
      BY <1>4, <2>2, QNat, MultipleDoubles DEF BoundAfter
    <3>2. \A v \in quad : \A m \in Lanes : acc[v][m] \in Int
      BY <1>10
    <3>3. \A m \in Lanes : acc[w][m] \in Int /\ acc[Partner(w, 32)][m] \in Int
      BY <1>9, <3>2
    <3>4. Partner(w, 32) \in Words
      BY <1>9
    <3>5. LastLayer(acc, quad)[w][l] \in 0 .. Q - 1
      BY <1>9, <3>3, <3>4, LastLayerBound
    <3>6. QED
      BY <1>2, <2>2, <3>1, <3>5
  <2>3. QED
    BY <2>1, <2>2
<1>12. \A w \in Words \ quad : acc'[w] = acc[w]
  BY <1>2, InverseLayerElsewhere, LastLayerElsewhere
<1>13. \A w \in Words : \A l \in Lanes :
         acc'[w][l] \in 0 .. BoundAfter(IF w \in quad THEN d + 1 ELSE InverseDone(w), w) - 1
  <2>1. d \in 0 .. 5
    BY <1>4
  <2>2. QED
    BY <1>1, <1>6, <1>9, <1>11, <1>12, <2>1, QuadStep
<1>14. ASSUME block = 15, layer = 2
       PROVE  \A w \in Words : \A l \in Lanes : acc'[w][l] \in Canonical
  <2>1. d + 1 = 6
    BY <1>4, <1>14
  <2>2. \A w \in Words : (IF w \in quad THEN d + 1 ELSE InverseDone(w)) = 6
    BY <1>8, <1>14, <2>1
  <2>3. \A w \in Words : BoundAfter(6, w) = Q
    BY QNat, MultipleDoubles DEF BoundAfter
  <2>4. QED
    BY <1>13, <2>2, <2>3 DEF Canonical
<1>15. AccBounds'
  <2>1. CASE pass' = "78"
    <3>1. \A w \in Words : AccumulatorBound(w)' = BoundAfter(InverseDone(w)', w)
      BY <2>1 DEF AccumulatorBound, BoundAfter, Multiple
    <3>2. QED
      BY <1>7, <1>13, <2>1, <3>1 DEF AccBounds
  <2>2. CASE pass' = "mac1"
    <3>1. block' = 0
      BY <1>3, <2>2
    <3>2. \A w \in Words : ~ Written(w)'
      BY <2>2, <3>1 DEF Written, Words
    <3>3. QED
      BY <3>2 DEF AccBounds
  <2>3. CASE pass' = "done"
    <3>1. block = 15 /\ layer = 2
      BY <1>3, <2>3
    <3>2. \A w \in Words : AccumulatorBound(w)' = Q
      BY <2>3 DEF AccumulatorBound
    <3>3. QED
      BY <1>14, <3>1, <3>2 DEF AccBounds, Canonical
  <2>4. QED
    BY <1>3, <2>1, <2>2, <2>3
<1>16. PolyBounds' /\ DOMAIN poly' = 1 .. 5 /\ \A k \in 1 .. 5 : DOMAIN poly'[k] = Words
  <2>1. pass' \notin {"A", "B", "C"}
    BY <1>3
  <2>2. QED
    BY <1>1, <1>2, <2>1, PolyKept DEF LaneInv
<1>17. Control'
  BY <1>1, <1>2, <1>3 DEF Control
<1>18. Memory'
  <2>1. pass' # "entry"
    BY <1>3
  <2>2. QED
    BY <1>2, <1>16, <2>1 DEF LaneInv, Memory, SlackOK
<1>19. RowsInv'
  <2>1. PICK S : r \in Seq(S)
    BY DEF LaneInv, RowsInv
  <2>2. Len(r) \in Nat /\ Row = Len(r) + 1 /\ Len(r) < Rows /\ Rows \in Nat
    <3>1. Len(r) \in Nat
      BY <2>1, LenProperties
    <3>2. Rows \in Nat
      BY RowProductAssumption, Zenon
    <3>3. QED
      BY <1>1, <3>1, <3>2 DEF LaneInv, RowsInv, Row
  <2>3. CASE block = 15 /\ layer = 2
    <3> DEFINE T == S \cup {acc'}
    <3>1. r \in Seq(T) /\ acc' \in T
      BY <2>1, SeqMonotonic
    <3> HIDE DEF T
    <3>2. r' = Append(r, acc')
      BY <1>2, <2>3
    <3>3. /\ r' \in Seq(T) /\ Len(r') = Len(r) + 1
          /\ \A i \in 1 .. Len(r) : r'[i] = r[i]
          /\ r'[Len(r) + 1] = acc'
      BY <3>1, <3>2, AppendProperties
    <3>4. pass' \notin {"done", "w1"} => Len(r') < Rows
      BY <1>3, <2>2, <2>3, <3>3
    <3>5. RowsCanonical'
      <4> SUFFICES ASSUME NEW i \in 1 .. Len(r'), NEW w \in Words, NEW l \in Lanes
                   PROVE  r'[i][w][l] \in Canonical
        BY DEF RowsCanonical, Canonical
      <4>1. CASE i = Len(r) + 1
        BY <1>14, <2>3, <3>3, <4>1
      <4>2. CASE i # Len(r) + 1
        <5>1. i \in 1 .. Len(r)
          BY <2>2, <3>3, <4>2
        <5>2. QED
          BY <3>3, <5>1 DEF LaneInv, RowsInv, RowsCanonical
      <4>3. QED
        BY <4>1, <4>2
    <3>6. \E X : r' \in Seq(X)
      BY <3>3
    <3>7. QED
      BY <3>4, <3>5, <3>6 DEF RowsInv
  <2>4. CASE ~ (block = 15 /\ layer = 2)
    <3>1. r' = r /\ pass' = "78"
      BY <1>2, <1>3, <2>4
    <3>2. QED
      BY <1>1, <3>1 DEF LaneInv, RowsInv, RowsCanonical
  <2>5. QED
    BY <2>3, <2>4
<1>20. QED
  BY <1>15, <1>16, <1>17, <1>18, <1>19 DEF LaneInv

LEMMA StepLaneInv == LaneInv /\ [RecoverNext]_allVars => LaneInv'
<1> SUFFICES ASSUME LaneInv, [RecoverNext]_allVars PROVE LaneInv'
  OBVIOUS
<1>1. CASE Next
  BY <1>1, StepPassA, StepPassB, StepPassC, StepMacFirst, StepMacSecond, StepEntry,
     StepLayers34, StepLayers56, StepLayers78 DEF Next
<1>2. CASE BeginUseHint
  <2>1. pass = "done" /\ pass' = "w1"
        /\ UNCHANGED <<input, slack, which, block, layer, poly, acc, r>>
    BY <1>2 DEF BeginUseHint
  <2>2. PolyBounds' /\ DOMAIN poly' = 1 .. 5 /\ \A k \in 1 .. 5 : DOMAIN poly'[k] = Words
    BY <2>1, PolyKept DEF LaneInv
  <2>3. AccBounds'
    <3>1. \A w \in Words : AccumulatorBound(w) = Q /\ AccumulatorBound(w)' = Q /\ Written(w)
      BY <2>1 DEF AccumulatorBound, Written
    <3>2. QED
      BY <2>1, <3>1 DEF LaneInv, AccBounds
  <2>4. Control' /\ RowsInv' /\ Memory'
    BY <2>1, <2>2 DEF LaneInv, Control, RowsInv, RowsCanonical, Memory, SlackOK
  <2>5. QED
    BY <2>2, <2>3, <2>4 DEF LaneInv
<1>3. CASE UNCHANGED vars
  <2>1. UNCHANGED <<input, slack, pass, which, block, layer, poly, acc, r>>
    BY <1>3 DEF vars
  <2>2. PolyBounds'
    BY <2>1 DEF LaneInv, PolyBounds, LayersDone
  <2>3. AccBounds'
    BY <2>1 DEF LaneInv, AccBounds, AccumulatorBound, Written, InverseDone, BlockOf
  <2>4. Control' /\ RowsInv' /\ Memory'
    BY <2>1 DEF LaneInv, Control, RowsInv, RowsCanonical, Memory, SlackOK
  <2>5. QED
    BY <2>2, <2>3, <2>4 DEF LaneInv
<1>4. QED
  BY <1>1, <1>2, <1>3 DEF RecoverNext, WPrimeRows, UseHintTurn, allVars

(* "Outputs are LAZY - every lane < 17q", and every bound in between, hold *)
(* for any modulus, tables and key below PKBound: after L layers of the    *)
(* forward transform lanes are below (2L + 1)q, the accumulator stays      *)
(* within ACC_ENTRY, and the sums of the inverse double.                   *)
THEOREM RowLaneBounds == RecoverSpec => []LaneBounds
<1>1. LaneInv => LaneBounds
  BY DEF LaneInv, PolyBounds, AccBounds, LaneBounds
<1>2. QED
  BY InitLaneInv, StepLaneInv, <1>1, PTL DEF RecoverSpec

(* Every row that is finished is canonical: what useHintSwar may rely on.  *)
THEOREM FinishedRowsCanonical == RecoverSpec => []RowsCanonical
<1>1. LaneInv => RowsCanonical
  BY DEF LaneInv, RowsInv
<1>2. QED
  BY InitLaneInv, StepLaneInv, <1>1, PTL DEF RecoverSpec

(* The offset of a layer after d layers covers every lane of its quad. *)
LEMMA OffsetCovers ==
  ASSUME LaneInv, pass \in {"34", "56", "78"}, NEW t \in Strides, NEW d \in 0 .. 4,
         Multiple(d) <= 4 * t, NEW quad, quad \subseteq Words,
         \A w \in quad : Partner(w, t) \in quad,
         \A w \in quad : InverseDone(w) = d
  PROVE  \A w \in quad : ~ IsLow(w, t) => \A l \in Lanes :
           acc[w][l] <= acc[w - t][l] + Offset(t)
<1> SUFFICES ASSUME NEW w \in quad, ~ IsLow(w, t), NEW l \in Lanes
             PROVE  acc[w][l] <= acc[w - t][l] + Offset(t)
  OBVIOUS
<1> DEFINE b == Multiple(d) * Q
           o == 4 * t * Q
<1>1. Q \in Nat /\ Q > 1 /\ Multiple(d) \in Nat /\ t \in Nat
  BY QNat, MultipleDoubles DEF Strides
<1>2. b \in Nat /\ o \in Nat /\ b <= o
  <2>1. (4 * t - Multiple(d)) * Q >= 0
    BY <1>1
  <2>2. (4 * t - Multiple(d)) * Q = o - b
    BY <1>1
  <2>3. b \in Nat /\ o \in Nat
    BY <1>1
  <2>4. QED
    BY <2>1, <2>2, <2>3
<1>3. w - t \in quad
  <2>1. Partner(w, t) = w - t /\ Partner(w, t) \in quad
    BY DEF Partner
  <2>2. QED
    BY <2>1
<1>4. \A v \in quad : BoundAfter(d, v) = b
  BY DEF BoundAfter
<1>5. acc[w][l] \in 0 .. b - 1 /\ acc[w - t][l] \in 0 .. b - 1
  BY <1>3, <1>4, QuadBefore
<1>6. Offset(t) = o
  BY DEF Offset
<1> HIDE DEF b, o
<1>7. QED
  BY <1>2, <1>5, <1>6

(* No lane borrows from the one above it, at any subtraction of the row    *)
(* product, whatever the modulus, the tables, the key and the slack.       *)
THEOREM RowNoBorrow == RecoverSpec => []NoBorrow
<1>1. ASSUME LaneInv PROVE NoBorrow
  <2>1. ASSUME pass = "mac2", NEW w \in Turn, NEW l \in Lanes
        PROVE  MinusCT1(w)[l] >= 0
    <3>1. Row \in 1 .. Rows /\ w \in Words
      BY <1>1, <2>1, RowInRange DEF LaneInv, Control, Turn, Words
    <3>2. MinusCT1(w)[l] \in 0 .. KQ28
      BY <1>1, <2>1, <3>1, PolyLazy, MinusCT1Bound DEF LaneInv
    <3>3. QED
      BY <3>2, ConstantsInt
  <2>2. ASSUME pass = "entry"
        PROVE  LET x == acc[block] IN
                 /\ x[2] <= x[1] + ACCQ30
                 /\ x[4] <= x[3] + ACCQ30
                 /\ x[3] + x[4] <= x[1] + x[2] + ACCQ31
    <3>1. block \in Words
      BY <1>1, <2>2 DEF LaneInv, Control, Words
    <3>2. AccumulatorBound(block) = AccEntry + 1 /\ AccEntry \in Nat
      BY <1>1, <2>2, <3>1, ConstantsInt DEF AccumulatorBound, LaneInv, Control, Words
    <3>3. \A l \in Lanes : acc[block][l] \in 0 .. AccEntry
      BY <1>1, <2>2, <3>1, <3>2 DEF LaneInv, AccBounds, Written
    <3>4. /\ acc[block][1] \in 0 .. AccEntry /\ acc[block][2] \in 0 .. AccEntry
          /\ acc[block][3] \in 0 .. AccEntry /\ acc[block][4] \in 0 .. AccEntry
      BY <3>3 DEF Lanes
    <3>5. QED
      BY <3>2, <3>4, ConstantsInt
  <2>3. ASSUME pass = "34", NEW w \in Words, BlockOf(w) = block, ~ IsLow(w, layer), NEW l \in Lanes
        PROVE  acc[w][l] <= acc[w - layer][l] + Offset(layer)
    <3>1. block \in 0 .. 15 /\ layer \in {1, 2}
      BY <1>1, <2>3 DEF LaneInv, Control
    <3>2. \A v \in Quad34(block) : InverseDone(v) = layer - 1
      BY <2>3, <3>1, BlockIsQuad, QuadsClosed DEF InverseDone
    <3>3. layer - 1 \in 0 .. 4 /\ Multiple(layer - 1) <= 4 * layer /\ layer \in Strides
      BY <3>1 DEF Multiple, Strides
    <3>4. w \in Quad34(block)
      BY <2>3, <3>1, BlockIsQuad
    <3>5. QED
      BY <1>1, <2>3, <3>1, <3>2, <3>3, <3>4, QuadsClosed, OffsetCovers
  <2>4. ASSUME pass = "56", NEW w \in Words, BlockOf(w) = block, ~ IsLow(w, 4 * layer), NEW l \in Lanes
        PROVE  acc[w][l] <= acc[w - 4 * layer][l] + Offset(4 * layer)
    <3>1. block \in 0 .. 15 /\ layer \in {1, 2} /\ 4 * layer \in {4, 8}
      BY <1>1, <2>4 DEF LaneInv, Control
    <3>2. \A v \in Quad56(block) : InverseDone(v) = layer + 1
      BY <2>4, <3>1, BlockIsQuad, QuadsClosed DEF InverseDone
    <3>3. layer + 1 \in 0 .. 4 /\ Multiple(layer + 1) <= 4 * (4 * layer) /\ 4 * layer \in Strides
      BY <3>1 DEF Multiple, Strides
    <3>4. w \in Quad56(block)
      BY <2>4, <3>1, BlockIsQuad
    <3>5. QED
      BY <1>1, <2>4, <3>1, <3>2, <3>3, <3>4, QuadsClosed, OffsetCovers
  <2>5. ASSUME pass = "78", layer = 1, NEW w \in Words, BlockOf(w) = block, ~ IsLow(w, 16), NEW l \in Lanes
        PROVE  acc[w][l] <= acc[w - 16][l] + Offset(16)
    <3>1. block \in 0 .. 15
      BY <1>1, <2>5 DEF LaneInv, Control
    <3>2. \A v \in Quad78(block) : InverseDone(v) = 4
      BY <2>5, <3>1, BlockIsQuad, QuadsClosed DEF InverseDone
    <3>3. 4 \in 0 .. 4 /\ Multiple(4) <= 4 * 16 /\ 16 \in Strides
      BY DEF Multiple, Strides
    <3>4. w \in Quad78(block)
      BY <2>5, <3>1, BlockIsQuad
    <3>5. QED
      BY <1>1, <2>5, <3>1, <3>2, <3>3, <3>4, QuadsClosed, OffsetCovers
  <2>6. ASSUME pass = "78", layer = 2, NEW w \in Words, BlockOf(w) = block, ~ IsLow(w, 32), NEW l \in Lanes
        PROVE  acc[w][l] <= acc[w - 32][l] + LastOffset(w)
    <3>1. block \in 0 .. 15
      BY <1>1, <2>6 DEF LaneInv, Control
    <3>2. \A v \in Quad78(block) : InverseDone(v) = 5
      BY <2>6, <3>1, BlockIsQuad, QuadsClosed DEF InverseDone
    <3>3. w \in Quad78(block) /\ Partner(w, 32) \in Quad78(block) /\ Partner(w, 32) = w - 32
          /\ Quad78(block) \subseteq Words
      BY <2>6, <3>1, BlockIsQuad, QuadsClosed DEF Partner
    <3>4. acc[w][l] \in 0 .. BoundAfter(5, w) - 1 /\ acc[w - 32][l] \in 0 .. BoundAfter(5, w - 32) - 1
      BY <1>1, <2>6, <3>2, <3>3, QuadBefore
    <3>5. BoundAfter(5, w) <= LastOffset(w) /\ LastOffset(w) \in Int /\ BoundAfter(5, w) \in Int
          /\ BoundAfter(5, w - 32) \in Int
      <4>1. w % 32 < 16 \/ w % 32 >= 16
        BY DEF Words
      <4>2. QED
        BY <4>1, QNat, MultipleDoubles DEF BoundAfter, LastOffset
    <3>6. QED
      BY <3>4, <3>5
  <2>7. QED
    BY <2>1, <2>2, <2>3, <2>4, <2>5, <2>6 DEF NoBorrow
<1>2. QED
  BY InitLaneInv, StepLaneInv, <1>1, PTL DEF RecoverSpec

-----------------------------------------------------------------------------
(* UseHint: one lane, four lanes, and the bytes they are packed in.        *)
LEMMA RoundingConstants ==
  /\ D \in Nat /\ D >= 2 /\ D % 2 = 0 /\ U!M \in 2 .. 64 /\ Q = U!M * D + 1
  /\ D \div 2 \in Nat /\ D = 2 * (D \div 2)
<1>1. D \in Nat \ {0} /\ (Q - 1) % D = 0 /\ D % 2 = 0 /\ U!M \in 2 .. 64 /\ Q \in Nat /\ Q > 1
  BY RecoverW1Assumption, QNat, Zenon
<1>2. U!M = (Q - 1) \div D
  BY DEF U!M
<1> DEFINE top == Q - 1
<1>3. top = (top \div D) * D + (top % D)
  <2>1. top \in Nat
    BY <1>1
  <2> HIDE DEF top
  <2> QED BY <1>1, <2>1
<1>4. Q = U!M * D + 1
  <2>1. Q - 1 = U!M * D + 0
    BY <1>1, <1>2, <1>3
  <2>2. U!M * D \in Int
    BY <1>1
  <2> QED BY <1>1, <2>1, <2>2
<1>5. D >= 2 /\ D = 2 * (D \div 2) /\ D \div 2 \in Nat
  BY <1>1
<1> QED BY <1>1, <1>4, <1>5

(* Quotient and remainder of a canonical coefficient. *)
LEMMA CoefficientParts ==
  ASSUME NEW x \in 0 .. Q - 1
  PROVE  /\ x \div D \in 0 .. U!M /\ x % D \in 0 .. D - 1
         /\ x = (x \div D) * D + (x % D)
         /\ x \div D = U!M => x % D = 0
<1> DEFINE q == x \div D
           e == x % D
           m == U!M
<1>1. D \in Nat /\ D >= 2 /\ m \in Nat /\ Q = m * D + 1 /\ x \in Nat
  BY RoundingConstants, QNat
<1>2. q \in Nat /\ e \in 0 .. D - 1 /\ x = q * D + e
  BY <1>1
<1> HIDE DEF q, e, m
<1>3. q * D + e <= m * D
  BY <1>1, <1>2
<1>4. q <= m
  <2> SUFFICES ASSUME q >= m + 1 PROVE FALSE
    BY <1>1, <1>2
  <2>1. (q - (m + 1)) * D >= 0
    BY <1>1, <1>2
  <2>2. (q - (m + 1)) * D = q * D - m * D - D
    BY <1>1, <1>2
  <2>3. q * D \in Int /\ m * D \in Int
    BY <1>1, <1>2
  <2> QED BY <1>1, <1>2, <1>3, <2>1, <2>2, <2>3
<1>5. q = m => e = 0
  <2>1. m * D \in Int
    BY <1>1
  <2> QED BY <1>1, <1>2, <1>3, <2>1
<1>6. q \in 0 .. m /\ e \in 0 .. D - 1 /\ x = q * D + e /\ (q = m => e = 0)
  BY <1>1, <1>2, <1>4, <1>5
<1> QED BY <1>6 DEF q, e, m

(* A lane of useHintSwar is Algorithm 40 of its coefficient and hint.      *)
LEMMA LaneIsHinted ==
  ASSUME NEW h \in {0, 1}, NEW x \in 0 .. Q - 1
  PROVE  U!Out(h, x) = U!Hinted(h, x) /\ U!Out(h, x) \in 0 .. 63
<1> DEFINE q == x \div D
           e == x % D
           m == U!M
           half == D \div 2
           c == IF e > half THEN 1 ELSE 0
<1>1. /\ D \in Nat /\ half \in Nat /\ D = 2 * half /\ half >= 1 /\ m \in 2 .. 64
      /\ Q - 1 = m * D /\ q \in 0 .. m /\ e \in 0 .. D - 1 /\ x = q * D + e /\ (q = m => e = 0)
      /\ x \in Nat /\ Q \in Nat
  <2>1. D \in Nat /\ half \in Nat /\ D = 2 * half /\ half >= 1 /\ m \in 2 .. 64 /\ Q = m * D + 1
    BY ONLY RoundingConstants
  <2>2. q \in 0 .. m /\ e \in 0 .. D - 1 /\ x = q * D + e /\ (q = m => e = 0)
    BY ONLY x \in 0 .. Q - 1, CoefficientParts
  <2>3. Q \in Nat /\ x \in Nat
    BY ONLY x \in 0 .. Q - 1, QNat
  <2> HIDE DEF q, e, m, half
  <2>4. Q - 1 = m * D
    <3> DEFINE p == m * D
    <3>1. p \in Int /\ Q = p + 1
      BY ONLY <2>1
    <3> HIDE DEF p
    <3>2. Q - 1 = p
      BY ONLY <3>1
    <3> QED BY ONLY <3>2 DEF p
  <2> QED BY ONLY <2>1, <2>2, <2>3, <2>4
<1>2. U!Out(h, x) = LET r0  == x - q * D
                        cc  == IF r0 > half THEN 1 ELSE 0
                        neg == r0 = 0 \/ cc = 1
                        adj == IF h = 0 THEN 0 ELSE IF neg THEN m - 1 ELSE 1
                    IN  (q + cc + adj) % m
  BY DEF U!Out
<1>3. U!Centred(x) = IF e > half THEN e - D ELSE e
  BY DEF U!Centred
<1>4. U!HighBits(x) = IF x - U!Centred(x) = Q - 1 THEN 0 ELSE (x - U!Centred(x)) \div D
  BY DEF U!HighBits
<1>5. U!LowBits(x) = IF x - U!Centred(x) = Q - 1 THEN U!Centred(x) - 1 ELSE U!Centred(x)
  BY DEF U!LowBits
<1>6. U!Hinted(h, x) = IF h = 0 THEN U!HighBits(x)
                       ELSE IF U!LowBits(x) > 0 THEN (U!HighBits(x) + 1) % m
                            ELSE (U!HighBits(x) - 1) % m
  BY DEF U!Hinted
<1> HIDE DEF q, e, m, half
<1>7. x - q * D = e
  <2>1. q * D \in Int
    BY <1>1
  <2> QED BY <1>1, <2>1
<1>8. x - U!Centred(x) = (q + c) * D /\ U!Centred(x) \in Int
  <2>1. q * D \in Int /\ (q + 1) * D = q * D + D /\ (q + 0) * D = q * D
    BY <1>1
  <2> QED BY <1>1, <1>3, <2>1
<1>9. q + c \in 0 .. m /\ c \in {0, 1}
  BY <1>1
<1> DEFINE g == q + c
<1>10. g * D = m * D <=> g = m
  <2> HIDE DEF g, c
  <2>1. g \in Int /\ m \in Int /\ D \in Int /\ D # 0
    BY <1>1, <1>9 DEF g
  <2>2. (g - m) * D = g * D - m * D
    BY <2>1
  <2>3. (g - m) * D = 0 => g - m = 0
    BY <2>1
  <2>4. g * D \in Int /\ m * D \in Int
    BY <2>1
  <2> QED BY <2>1, <2>2, <2>3, <2>4
<1>11. (g * D) \div D = g
  <2> HIDE DEF g, c
  <2>1. g \in Nat /\ D \in Nat /\ D >= 1
    BY <1>1, <1>9 DEF g
  <2> QED BY <2>1
<1>12. /\ U!HighBits(x) = IF g = m THEN 0 ELSE g
       /\ U!LowBits(x) = IF g = m THEN U!Centred(x) - 1 ELSE U!Centred(x)
  BY <1>1, <1>4, <1>5, <1>8, <1>10, <1>11
<1>13. U!LowBits(x) > 0 <=> ~ (e = 0 \/ c = 1)
  BY <1>1, <1>3, <1>12
<1>14. U!Out(h, x) = (g + (IF h = 0 THEN 0 ELSE IF e = 0 \/ c = 1 THEN m - 1 ELSE 1)) % m
  BY <1>2, <1>7
<1> HIDE DEF c, g
<1>15. g \in 0 .. m
  BY <1>9 DEF g
<1>16. U!Out(h, x) \in 0 .. m - 1
  BY <1>1, <1>14, <1>15
<1>17. CASE h = 0
  BY <1>1, <1>6, <1>12, <1>14, <1>15, <1>16, <1>17
<1>18. CASE h = 1 /\ (e = 0 \/ c = 1)
  <2>1. U!Out(h, x) = (g + (m - 1)) % m /\ U!Hinted(h, x) = (U!HighBits(x) - 1) % m
    BY <1>6, <1>13, <1>14, <1>18
  <2>2. CASE g = m
    BY <1>1, <1>12, <2>1, <2>2
  <2>3. CASE g # m
    <3>1. U!HighBits(x) = g /\ g \in 0 .. m /\ m \in Nat /\ m >= 2
      BY ONLY <1>1, <1>12, <1>15, <2>3
    <3>2. U!Hinted(h, x) = (g - 1) % m
      BY ONLY <2>1, <3>1
    <3>3. CASE g = 0
      <4>1. (g + (m - 1)) % m = m - 1 /\ (g - 1) % m = m - 1
        BY ONLY <3>1, <3>3
      <4> QED BY ONLY <1>1, <1>16, <2>1, <3>2, <4>1
    <3>4. CASE g # 0
      <4>1. (g + (m - 1)) % m = g - 1 /\ (g - 1) % m = g - 1
        <5>1. g - 1 \in 0 .. m - 1 /\ g + (m - 1) = 1 * m + (g - 1)
          BY ONLY <2>3, <3>1, <3>4
        <5> QED BY ONLY <3>1, <5>1
      <4> QED BY ONLY <1>1, <1>16, <2>1, <3>2, <4>1
    <3> QED BY <3>3, <3>4
  <2> QED BY <1>1, <1>16, <2>2, <2>3
<1>19. CASE h = 1 /\ ~ (e = 0 \/ c = 1)
  <2>1. U!Out(h, x) = (g + 1) % m /\ U!Hinted(h, x) = (U!HighBits(x) + 1) % m
    BY <1>6, <1>13, <1>14, <1>19
  <2>2. CASE g = m
    BY <1>1, <1>12, <2>1, <2>2
  <2>3. CASE g # m
    BY <1>1, <1>12, <1>15, <2>1, <2>3
  <2> QED BY <1>1, <1>16, <2>2, <2>3
<1> QED BY <1>1, <1>16, <1>17, <1>18, <1>19

(* Algorithm 28 over any bits, and the bytes of four six-bit fields.       *)
SixBit(v, k) == (v \div U!Power2[k + 1]) % 2

IsFields(f, a, b, c, d) ==
  /\ a \in 0 .. 63 /\ b \in 0 .. 63 /\ c \in 0 .. 63 /\ d \in 0 .. 63
  /\ f = a + 64 * b + 4096 * c + 262144 * d

LEMMA ByteOfFields ==
  ASSUME NEW g, NEW a, NEW b, NEW c, NEW d, IsFields(g, a, b, c, d)
  PROVE  /\ (g \div 1) % 256 =
              SixBit(a, 0) + 2 * SixBit(a, 1) + 4 * SixBit(a, 2) + 8 * SixBit(a, 3)
                + 16 * SixBit(a, 4) + 32 * SixBit(a, 5) + 64 * SixBit(b, 0) + 128 * SixBit(b, 1)
         /\ (g \div 256) % 256 =
              SixBit(b, 2) + 2 * SixBit(b, 3) + 4 * SixBit(b, 4) + 8 * SixBit(b, 5)
                + 16 * SixBit(c, 0) + 32 * SixBit(c, 1) + 64 * SixBit(c, 2) + 128 * SixBit(c, 3)
         /\ (g \div 65536) % 256 =
              SixBit(c, 4) + 2 * SixBit(c, 5) + 4 * SixBit(d, 0) + 8 * SixBit(d, 1)
                + 16 * SixBit(d, 2) + 32 * SixBit(d, 3) + 64 * SixBit(d, 4) + 128 * SixBit(d, 5)
<1>0. a \in 0 .. 63 /\ b \in 0 .. 63 /\ c \in 0 .. 63 /\ d \in 0 .. 63
      /\ g = a + 64 * b + 4096 * c + 262144 * d
  BY DEF IsFields
<1>11. a \in 0 .. 63 /\ b \in 0 .. 63 /\ c \in 0 .. 63 /\ d \in 0 .. 63
  BY <1>0
<1> DEFINE f == a + 64 * b + 4096 * c + 262144 * d
<1>1. ASSUME NEW v \in 0 .. 63
      PROVE  /\ SixBit(v, 0) = v % 2 /\ SixBit(v, 1) = (v \div 2) % 2
             /\ SixBit(v, 2) = (v \div 4) % 2 /\ SixBit(v, 3) = (v \div 8) % 2
             /\ SixBit(v, 4) = (v \div 16) % 2 /\ SixBit(v, 5) = (v \div 32) % 2
  <2>1. /\ U!Power2[1] = 1 /\ U!Power2[2] = 2 /\ U!Power2[3] = 4 /\ U!Power2[4] = 8
        /\ U!Power2[5] = 16 /\ U!Power2[6] = 32
    BY DEF U!Power2
  <2>2. /\ SixBit(v, 0) = (v \div U!Power2[1]) % 2 /\ SixBit(v, 1) = (v \div U!Power2[2]) % 2
        /\ SixBit(v, 2) = (v \div U!Power2[3]) % 2 /\ SixBit(v, 3) = (v \div U!Power2[4]) % 2
        /\ SixBit(v, 4) = (v \div U!Power2[5]) % 2 /\ SixBit(v, 5) = (v \div U!Power2[6]) % 2
    BY DEF SixBit
  <2>3. v \div 1 = v
    OBVIOUS
  <2> QED BY <2>1, <2>2, <2>3
<1>2. (f \div 1) % 256 = a + 64 * (b % 4)
  BY <1>0
<1>3. (f \div 256) % 256 = (b \div 4) + 16 * (c % 16)
  <2> DEFINE low == a + 64 * (b % 4)
             mid == (b \div 4) + 16 * (c % 16)
             top == (c \div 16) + 4 * d
  <2>1. low \in 0 .. 255 /\ mid \in 0 .. 255 /\ top \in 0 .. 255
    BY <1>0
  <2>2. b = 4 * (b \div 4) + (b % 4) /\ c = 16 * (c \div 16) + (c % 16)
    BY <1>0
  <2>3. f = low + 256 * (mid + 256 * top)
    BY <1>0, <2>2
  <2> HIDE DEF f, low, mid, top
  <2>4. f \div 256 = mid + 256 * top
    BY <2>1, <2>3
  <2>5. (mid + 256 * top) % 256 = mid
    BY <2>1
  <2> QED BY <2>4, <2>5 DEF mid
<1>4. (f \div 65536) % 256 = (c \div 16) + 4 * d
  BY <1>0
<1>5. ASSUME NEW v \in 0 .. 63
      PROVE  /\ v = SixBit(v, 0) + 2 * SixBit(v, 1) + 4 * SixBit(v, 2) + 8 * SixBit(v, 3)
                      + 16 * SixBit(v, 4) + 32 * SixBit(v, 5)
             /\ v % 4 = SixBit(v, 0) + 2 * SixBit(v, 1)
             /\ v \div 4 = SixBit(v, 2) + 2 * SixBit(v, 3) + 4 * SixBit(v, 4) + 8 * SixBit(v, 5)
             /\ v % 16 = SixBit(v, 0) + 2 * SixBit(v, 1) + 4 * SixBit(v, 2) + 8 * SixBit(v, 3)
             /\ v \div 16 = SixBit(v, 4) + 2 * SixBit(v, 5)
             /\ SixBit(v, 0) \in Nat /\ SixBit(v, 1) \in Nat /\ SixBit(v, 2) \in Nat
             /\ SixBit(v, 3) \in Nat /\ SixBit(v, 4) \in Nat /\ SixBit(v, 5) \in Nat
  <2>1. /\ v = (v % 2) + 2 * ((v \div 2) % 2) + 4 * ((v \div 4) % 2) + 8 * ((v \div 8) % 2)
                 + 16 * ((v \div 16) % 2) + 32 * ((v \div 32) % 2)
        /\ v % 4 = (v % 2) + 2 * ((v \div 2) % 2)
        /\ v \div 4 = ((v \div 4) % 2) + 2 * ((v \div 8) % 2) + 4 * ((v \div 16) % 2) + 8 * ((v \div 32) % 2)
        /\ v % 16 = (v % 2) + 2 * ((v \div 2) % 2) + 4 * ((v \div 4) % 2) + 8 * ((v \div 8) % 2)
        /\ v \div 16 = ((v \div 16) % 2) + 2 * ((v \div 32) % 2)
    BY SMTT(60)
  <2>2. /\ v % 2 \in Nat /\ (v \div 2) % 2 \in Nat /\ (v \div 4) % 2 \in Nat
        /\ (v \div 8) % 2 \in Nat /\ (v \div 16) % 2 \in Nat /\ (v \div 32) % 2 \in Nat
    OBVIOUS
  <2> QED BY <1>1, <2>1, <2>2
<1> HIDE DEF f
<1>6. /\ SixBit(a, 0) \in Nat /\ SixBit(a, 1) \in Nat /\ SixBit(a, 2) \in Nat
      /\ SixBit(a, 3) \in Nat /\ SixBit(a, 4) \in Nat /\ SixBit(a, 5) \in Nat
      /\ SixBit(b, 0) \in Nat /\ SixBit(b, 1) \in Nat /\ SixBit(b, 2) \in Nat
      /\ SixBit(b, 3) \in Nat /\ SixBit(b, 4) \in Nat /\ SixBit(b, 5) \in Nat
      /\ SixBit(c, 0) \in Nat /\ SixBit(c, 1) \in Nat /\ SixBit(c, 2) \in Nat
      /\ SixBit(c, 3) \in Nat /\ SixBit(c, 4) \in Nat /\ SixBit(c, 5) \in Nat
      /\ SixBit(d, 0) \in Nat /\ SixBit(d, 1) \in Nat /\ SixBit(d, 2) \in Nat
      /\ SixBit(d, 3) \in Nat /\ SixBit(d, 4) \in Nat /\ SixBit(d, 5) \in Nat
  BY <1>5, <1>11
<1>7. (f \div 1) % 256 =
        SixBit(a, 0) + 2 * SixBit(a, 1) + 4 * SixBit(a, 2) + 8 * SixBit(a, 3)
          + 16 * SixBit(a, 4) + 32 * SixBit(a, 5) + 64 * SixBit(b, 0) + 128 * SixBit(b, 1)
  <2>1. /\ a = SixBit(a, 0) + 2 * SixBit(a, 1) + 4 * SixBit(a, 2) + 8 * SixBit(a, 3)
                  + 16 * SixBit(a, 4) + 32 * SixBit(a, 5)
        /\ b % 4 = SixBit(b, 0) + 2 * SixBit(b, 1)
    BY <1>5, <1>11
  <2> QED BY <1>2, <1>6, <2>1
<1>8. (f \div 256) % 256 =
        SixBit(b, 2) + 2 * SixBit(b, 3) + 4 * SixBit(b, 4) + 8 * SixBit(b, 5)
          + 16 * SixBit(c, 0) + 32 * SixBit(c, 1) + 64 * SixBit(c, 2) + 128 * SixBit(c, 3)
  <2>1. /\ b \div 4 = SixBit(b, 2) + 2 * SixBit(b, 3) + 4 * SixBit(b, 4) + 8 * SixBit(b, 5)
        /\ c % 16 = SixBit(c, 0) + 2 * SixBit(c, 1) + 4 * SixBit(c, 2) + 8 * SixBit(c, 3)
    BY <1>5, <1>11
  <2> DEFINE u == b \div 4
             w == c % 16
  <2>3. u \in Nat /\ w \in Nat /\ (f \div 256) % 256 = u + 16 * w
    BY <1>0, <1>3
  <2>4. /\ u = SixBit(b, 2) + 2 * SixBit(b, 3) + 4 * SixBit(b, 4) + 8 * SixBit(b, 5)
        /\ w = SixBit(c, 0) + 2 * SixBit(c, 1) + 4 * SixBit(c, 2) + 8 * SixBit(c, 3)
    BY <2>1
  <2> HIDE DEF u, w
  <2> QED BY <1>6, <2>3, <2>4
<1>9. (f \div 65536) % 256 =
        SixBit(c, 4) + 2 * SixBit(c, 5) + 4 * SixBit(d, 0) + 8 * SixBit(d, 1)
          + 16 * SixBit(d, 2) + 32 * SixBit(d, 3) + 64 * SixBit(d, 4) + 128 * SixBit(d, 5)
  <2>1. /\ c \div 16 = SixBit(c, 4) + 2 * SixBit(c, 5)
        /\ d = SixBit(d, 0) + 2 * SixBit(d, 1) + 4 * SixBit(d, 2) + 8 * SixBit(d, 3)
                  + 16 * SixBit(d, 4) + 32 * SixBit(d, 5)
    BY <1>5, <1>11
  <2> QED BY <1>4, <1>6, <2>1
<1>10. g = f
  BY <1>0 DEF f
<1> QED BY <1>7, <1>8, <1>9, <1>10

(* The exchanges reverse the bytes of a word. *)
LEMMA ExchangeIs ==
  ASSUME NEW s, NEW n \in {1, 2, 4, 8, 16}, NEW k \in 0 .. 31
  PROVE  /\ U!Exchange(s, n)[k] = s[IF (k \div n) % 2 = 0 THEN k + n ELSE k - n]
         /\ DOMAIN U!Exchange(s, n) = 0 .. 31
  BY DEF U!Exchange

Flip(k, n) == IF (k \div n) % 2 = 0 THEN k + n ELSE k - n

LEMMA FlipsReverse ==
  ASSUME NEW k \in 0 .. 31
  PROVE  LET a == Flip(k, 16)
             b == Flip(a, 8)
             c == Flip(b, 4)
             d == Flip(c, 2)
         IN  /\ a \in 0 .. 31 /\ b \in 0 .. 31 /\ c \in 0 .. 31 /\ d \in 0 .. 31
             /\ Flip(d, 1) = 31 - k
<1> DEFINE e == k \div 16
           f == (k \div 8) % 2
           g == (k \div 4) % 2
           h == (k \div 2) % 2
           i == k % 2
<1>1. /\ k = 16 * e + 8 * f + 4 * g + 2 * h + i
      /\ e \in 0 .. 1 /\ f \in 0 .. 1 /\ g \in 0 .. 1 /\ h \in 0 .. 1 /\ i \in 0 .. 1
  BY SMTT(60)
<1> HIDE DEF e, f, g, h, i
<1> DEFINE a == 16 * (1 - e) + 8 * f + 4 * g + 2 * h + i
           b == 16 * (1 - e) + 8 * (1 - f) + 4 * g + 2 * h + i
           c == 16 * (1 - e) + 8 * (1 - f) + 4 * (1 - g) + 2 * h + i
           d == 16 * (1 - e) + 8 * (1 - f) + 4 * (1 - g) + 2 * (1 - h) + i
<1>2. Flip(k, 16) = a
  BY <1>1 DEF Flip
<1>3. Flip(a, 8) = b
  BY <1>1 DEF Flip
<1>4. Flip(b, 4) = c
  BY <1>1 DEF Flip
<1>5. Flip(c, 2) = d
  BY <1>1 DEF Flip
<1>6. Flip(d, 1) = 31 - k
  BY <1>1 DEF Flip
<1>7. a \in 0 .. 31 /\ b \in 0 .. 31 /\ c \in 0 .. 31 /\ d \in 0 .. 31
  BY <1>1
<1> HIDE DEF a, b, c, d
<1> QED BY <1>2, <1>3, <1>4, <1>5, <1>6, <1>7

LEMMA ReversedIs ==
  ASSUME NEW s, NEW k \in 0 .. 31
  PROVE  U!Reversed(s)[k] = s[31 - k]
<1> DEFINE s1 == U!Exchange(s, 1)
           s2 == U!Exchange(s1, 2)
           s4 == U!Exchange(s2, 4)
           s8 == U!Exchange(s4, 8)
           a  == Flip(k, 16)
           b  == Flip(a, 8)
           c  == Flip(b, 4)
           d  == Flip(c, 2)
<1>1. a \in 0 .. 31 /\ b \in 0 .. 31 /\ c \in 0 .. 31 /\ d \in 0 .. 31 /\ Flip(d, 1) = 31 - k
  BY FlipsReverse
<1>2. U!Reversed(s) = U!Exchange(s8, 16)
  BY DEF U!Reversed
<1> HIDE DEF s1, s2, s4, s8, a, b, c, d
<1>3. U!Exchange(s8, 16)[k] = s8[a]
  BY ExchangeIs DEF Flip, a
<1>4. s8[a] = s4[b]
  BY <1>1, ExchangeIs DEF Flip, b, s8
<1>5. s4[b] = s2[c]
  BY <1>1, ExchangeIs DEF Flip, c, s4
<1>6. s2[c] = s1[d]
  BY <1>1, ExchangeIs DEF Flip, d, s2
<1>7. s1[d] = s[31 - k]
  BY <1>1, ExchangeIs DEF Flip, s1
<1> QED BY <1>2, <1>3, <1>4, <1>5, <1>6, <1>7

(* Byte n of w1Encode of a row, as EncodedByte takes it from the input.    *)
EncodedBit(row, b) ==
  SixBit(U!Hinted(row.h[b \div 6], row.r[b \div 6]), b % 6)
EncodedByteOf(row, n) ==
  LET at == 8 * (n % 192)
  IN  EncodedBit(row, at) + 2 * EncodedBit(row, at + 1) + 4 * EncodedBit(row, at + 2)
        + 8 * EncodedBit(row, at + 3) + 16 * EncodedBit(row, at + 4)
        + 32 * EncodedBit(row, at + 5) + 64 * EncodedBit(row, at + 6)
        + 128 * EncodedBit(row, at + 7)

LEMMA EncodedByteIs ==
  ASSUME NEW n
  PROVE  U!EncodedByte(n) = EncodedByteOf(Hinted[n \div 192], n)
  BY DEF U!EncodedByte, U!Byte, EncodedByteOf, EncodedBit, SixBit

IsRow(row) ==
  \A x \in 0 .. 255 : row.h[x] \in {0, 1} /\ row.r[x] \in 0 .. Q - 1

LEMMA BitOfLane ==
  ASSUME NEW row, NEW x \in Nat, NEW t \in 0 .. 23
  PROVE  EncodedBit(row, 6 * x + t) =
           SixBit(U!Hinted(row.h[x + t \div 6], row.r[x + t \div 6]), t % 6)
<1>1. (6 * x + t) \div 6 = x + t \div 6 /\ (6 * x + t) % 6 = t % 6
  OBVIOUS
<1> QED BY <1>1 DEF EncodedBit

(* At turn s of a row, whose shifted masks are g.                          *)
TurnOf(row, s, g) ==
  /\ IsRow(row) /\ hintSrc = 32 * s
  /\ \A x \in 0 .. 31 : g[x] = row.h[32 * s + x]

(* Three bytes of a turn are four lanes with their hints. *)
LEMMA ChunkByte ==
  ASSUME NEW row, NEW s \in 0 .. 7, NEW g, TurnOf(row, s, g),
         NEW n \in 0 .. 23, NEW at, at % 192 = 24 * s + n
  PROVE  U!Chunk(row.r, g)[n] = EncodedByteOf(row, at)
<1>0. /\ IsRow(row) /\ hintSrc = 32 * s
      /\ \A x \in 0 .. 31 : g[x] = row.h[32 * s + x]
  BY DEF TurnOf
<1> DEFINE w == n \div 3
           p == n % 3
           x == 32 * s + 4 * w
           V(k) == U!Hinted(row.h[x + k], row.r[x + k])
           lane(k) == U!Out(g[4 * w + k], row.r[hintSrc + 4 * w + k])
<1>1. w \in 0 .. 7 /\ p \in 0 .. 2 /\ n = 3 * w + p /\ x \in Nat
  OBVIOUS
<1>2. ASSUME NEW k \in 0 .. 3 PROVE lane(k) = V(k) /\ V(k) \in 0 .. 63
  <2>1. x + k \in 0 .. 255 /\ 4 * w + k \in 0 .. 31 /\ hintSrc + 4 * w + k = x + k
        /\ 32 * s + (4 * w + k) = x + k
    BY <1>0, <1>1
  <2>2. g[4 * w + k] = row.h[x + k]
    BY <1>0, <2>1
  <2>3. row.h[x + k] \in {0, 1} /\ row.r[x + k] \in 0 .. Q - 1
    <3>1. \A i \in 0 .. 255 : row.h[i] \in {0, 1} /\ row.r[i] \in 0 .. Q - 1
      BY <1>0 DEF IsRow
    <3>2. x + k \in 0 .. 255
      BY ONLY <2>1
    <3> HIDE DEF x
    <3> QED BY ONLY <3>1, <3>2
  <2>4. lane(k) = U!Out(row.h[x + k], row.r[x + k])
    BY <2>1, <2>2
  <2> HIDE DEF x, w, lane
  <2> QED BY <2>3, <2>4, LaneIsHinted
<1> DEFINE f == lane(0) + 64 * lane(1) + 4096 * lane(2) + 262144 * lane(3)
<1>3. U!Chunk(row.r, g)[n] = (f \div <<1, 256, 65536>>[p + 1]) % 256
  <2>1. U!Chunk(row.r, g)[n] =
          LET word   == [k \in 0 .. 3 |-> row.r[hintSrc + 4 * w + k]]
              nibble == [k \in 0 .. 3 |-> g[4 * w + k]]
          IN  (U!Field(word, nibble) \div <<1, 256, 65536>>[p + 1]) % 256
    BY DEF U!Chunk
  <2> DEFINE word   == [k \in 0 .. 3 |-> row.r[hintSrc + 4 * w + k]]
             nibble == [k \in 0 .. 3 |-> g[4 * w + k]]
  <2>2. \A k \in 0 .. 3 : U!Out(nibble[k], word[k]) = lane(k)
    OBVIOUS
  <2> HIDE DEF word, nibble, lane
  <2>3. U!Field(word, nibble) = f
    BY <2>2 DEF U!Field
  <2> QED BY <2>1, <2>3 DEF word, nibble
<1>4. f = V(0) + 64 * V(1) + 4096 * V(2) + 262144 * V(3)
  <2> HIDE DEF lane, V
  <2> QED BY <1>2
<1>5. 8 * (at % 192) = 6 * x + 8 * p
  BY <1>1
<1> DEFINE B(t) == EncodedBit(row, 6 * x + t)
<1>6. /\ B(0) = SixBit(V(0), 0) /\ B(1) = SixBit(V(0), 1) /\ B(2) = SixBit(V(0), 2)
      /\ B(3) = SixBit(V(0), 3) /\ B(4) = SixBit(V(0), 4) /\ B(5) = SixBit(V(0), 5)
      /\ B(6) = SixBit(V(1), 0) /\ B(7) = SixBit(V(1), 1) /\ B(8) = SixBit(V(1), 2)
      /\ B(9) = SixBit(V(1), 3) /\ B(10) = SixBit(V(1), 4) /\ B(11) = SixBit(V(1), 5)
      /\ B(12) = SixBit(V(2), 0) /\ B(13) = SixBit(V(2), 1) /\ B(14) = SixBit(V(2), 2)
      /\ B(15) = SixBit(V(2), 3) /\ B(16) = SixBit(V(2), 4) /\ B(17) = SixBit(V(2), 5)
      /\ B(18) = SixBit(V(3), 0) /\ B(19) = SixBit(V(3), 1) /\ B(20) = SixBit(V(3), 2)
      /\ B(21) = SixBit(V(3), 3) /\ B(22) = SixBit(V(3), 4) /\ B(23) = SixBit(V(3), 5)
  <2>1. ASSUME NEW t \in 0 .. 23 PROVE B(t) = SixBit(V(t \div 6), t % 6)
    <3>1. x \in Nat
      BY <1>1
    <3> HIDE DEF x, w, p
    <3> QED BY <3>1, BitOfLane, ZenonT(30)
  <2> HIDE DEF B, V
  <2>2. \A t \in 0 .. 5 : t \div 6 = 0 /\ t % 6 = t
    OBVIOUS
  <2>3. \A t \in 6 .. 11 : t \div 6 = 1 /\ t % 6 = t - 6
    OBVIOUS
  <2>4. \A t \in 12 .. 17 : t \div 6 = 2 /\ t % 6 = t - 12
    OBVIOUS
  <2>5. \A t \in 18 .. 23 : t \div 6 = 3 /\ t % 6 = t - 18
    OBVIOUS
  <2> QED BY <2>1, <2>2, <2>3, <2>4, <2>5
<1>7. EncodedByteOf(row, at) =
        B(8 * p) + 2 * B(8 * p + 1) + 4 * B(8 * p + 2) + 8 * B(8 * p + 3)
          + 16 * B(8 * p + 4) + 32 * B(8 * p + 5) + 64 * B(8 * p + 6) + 128 * B(8 * p + 7)
  <2>1. \A t \in 0 .. 7 : (6 * x + 8 * p) + t = 6 * x + (8 * p + t)
    BY <1>1
  <2> QED BY <1>1, <1>5, <2>1 DEF EncodedByteOf
<1>8. V(0) \in 0 .. 63 /\ V(1) \in 0 .. 63 /\ V(2) \in 0 .. 63 /\ V(3) \in 0 .. 63
  <2> HIDE DEF lane, V
  <2> QED BY <1>2
<1>12. IsFields(f, V(0), V(1), V(2), V(3))
  <2> HIDE DEF V, lane, B
  <2> QED BY <1>4, <1>8 DEF IsFields
<1> HIDE DEF V, B, f, lane
<1>9. CASE p = 0
  <2>1. U!Chunk(row.r, g)[n] = (f \div 1) % 256
    BY <1>3, <1>9
  <2>2. EncodedByteOf(row, at) = B(0) + 2 * B(1) + 4 * B(2) + 8 * B(3) + 16 * B(4)
          + 32 * B(5) + 64 * B(6) + 128 * B(7)
    BY <1>7, <1>9
  <2> QED BY <1>6, <1>12, <2>1, <2>2, ByteOfFields
<1>10. CASE p = 1
  <2>1. U!Chunk(row.r, g)[n] = (f \div 256) % 256
    BY <1>3, <1>10
  <2>2. EncodedByteOf(row, at) = B(8) + 2 * B(9) + 4 * B(10) + 8 * B(11) + 16 * B(12)
          + 32 * B(13) + 64 * B(14) + 128 * B(15)
    BY <1>7, <1>10
  <2> QED BY <1>6, <1>12, <2>1, <2>2, ByteOfFields
<1>11. CASE p = 2
  <2>1. U!Chunk(row.r, g)[n] = (f \div 65536) % 256
    BY <1>3, <1>11
  <2>2. EncodedByteOf(row, at) = B(16) + 2 * B(17) + 4 * B(18) + 8 * B(19) + 16 * B(20)
          + 32 * B(21) + 64 * B(22) + 128 * B(23)
    BY <1>7, <1>11
  <2> QED BY <1>6, <1>12, <2>1, <2>2, ByteOfFields
<1> QED BY <1>1, <1>9, <1>10, <1>11

(* A store of the reversed word puts its bytes in their order.             *)
LEMMA StoreIs ==
  ASSUME NEW mem, NEW at \in Nat, NEW s, NEW n \in DOMAIN mem, DOMAIN mem \subseteq Nat
  PROVE  /\ U!Mstore(mem, at, U!Reversed(s))[n] =
              IF n \in at .. at + 31 THEN s[n - at] ELSE mem[n]
         /\ DOMAIN U!Mstore(mem, at, U!Reversed(s)) = DOMAIN mem
<1> DEFINE bytes == U!Reversed(s)
<1>1. /\ U!Mstore(mem, at, bytes)[n] =
           IF n \in at .. at + 31 THEN bytes[31 - (n - at)] ELSE mem[n]
      /\ DOMAIN U!Mstore(mem, at, bytes) = DOMAIN mem
  BY DEF U!Mstore
<1>2. ASSUME n \in at .. at + 31 PROVE bytes[31 - (n - at)] = s[n - at]
  <2> DEFINE k == 31 - (n - at)
  <2>1. k \in 0 .. 31 /\ 31 - k = n - at
    BY <1>2
  <2> HIDE DEF k
  <2>2. bytes[k] = s[31 - k]
    BY <2>1, ReversedIs
  <2> QED BY <2>1, <2>2 DEF k
<1> QED BY <1>1, <1>2

-----------------------------------------------------------------------------
(* Where useHintSwar is.  Before it runs, nothing is written.  A turn at   *)
(* coefficient 32 s of a row writes at byte 24 s of the row's 192, with    *)
(* the masks shifted as far; all bytes before are those of w1Encode.       *)
RowsComplete == pass \in {"done", "w1"} => Len(r) = Rows

TheRow(k) == [r |-> Flat(r[k + 1]), h |-> hints[k]]

AtTurn(s) ==
  /\ hintSrc = 32 * s /\ dst = 192 * hintRow + 24 * s
  /\ hintRow = Rows => s = 0

EncodeInv ==
  /\ RowsComplete
  /\ DOMAIN w1 = 0 .. U!Size + 31
  /\ pass # "w1" => hintRow = 0 /\ hintSrc = 0 /\ dst = 0
  /\ pass = "w1" =>
       /\ hints \in Hints
       /\ hintRow \in 0 .. Rows
       /\ \E s \in 0 .. 7 : AtTurn(s)
       /\ hintRow < Rows => \A x \in 0 .. 255 :
            x + hintSrc \in 0 .. 255 => hm[x] = hints[hintRow][x + hintSrc]
       /\ \A n \in 0 .. dst - 1 : w1[n] = EncodedByteOf(TheRow(n \div 192), n)

LEMMA SizeIs == Rows \in Nat /\ Rows >= 1 /\ U!Size = 192 * Rows
<1>1. Rows \in Nat \ {0}
  BY RowProductAssumption, Zenon
<1> QED BY <1>1 DEF U!Size

LEMMA InitEncodeInv == RecoverInit => EncodeInv
  BY DEF RecoverInit, Init, EncodeInv, RowsComplete

(* The rows useHintSwar is given are canonical and its masks are bits.     *)
LEMMA RowsAreRows ==
  ASSUME LaneInv, EncodeInv, pass = "w1", NEW k \in 0 .. Rows - 1
  PROVE  IsRow(TheRow(k)) /\ Hinted[k] = TheRow(k)
<1>1. Rows \in Nat /\ k + 1 \in 1 .. Len(r)
  <2>1. Len(r) = Rows /\ Rows \in Nat
    BY SizeIs DEF EncodeInv, RowsComplete
  <2> QED BY <2>1
<1>2. Hinted[k] = TheRow(k)
  BY DEF Hinted, TheRow
<1>3. ASSUME NEW x \in 0 .. 255
      PROVE  hints[k][x] \in {0, 1} /\ Flat(r[k + 1])[x] \in 0 .. Q - 1
  <2>1. hints[k][x] \in {0, 1}
    <3>1. hints \in Hints
      BY DEF EncodeInv
    <3> QED BY <3>1, RecoverW1Assumption, Zenon
  <2>2. x \div 4 \in Words /\ (x % 4) + 1 \in Lanes
    BY DEF Words, Lanes
  <2>3. r[k + 1][x \div 4][(x % 4) + 1] \in Canonical
    BY <1>1, <2>2 DEF LaneInv, RowsInv, RowsCanonical
  <2> QED BY <2>1, <2>3 DEF Flat, Canonical
<1> QED BY <1>2, <1>3 DEF IsRow, TheRow

(* One turn extends the prefix by 24 bytes; the eight it writes too many   *)
(* lie behind the next turn's.                                             *)
LEMMA TurnKeepsEncodeInv ==
  ASSUME LaneInv, EncodeInv, UseHintTurn
  PROVE  EncodeInv'
<1>1. pass = "w1" /\ UNCHANGED <<pass, r, hints>> /\ U!Turn
  BY DEF UseHintTurn, vars
<1>2. hintRow \in 0 .. Rows /\ hintRow < Rows /\ Rows \in Nat /\ hints \in Hints
      /\ U!Size = 192 * Rows /\ DOMAIN w1 = 0 .. U!Size + 31
  BY <1>1, SizeIs DEF EncodeInv, U!Turn
<1>3. PICK s \in 0 .. 7 : AtTurn(s)
  BY <1>1 DEF EncodeInv
<1>4. hintSrc = 32 * s /\ dst = 192 * hintRow + 24 * s /\ dst \in Nat
  BY <1>2, <1>3 DEF AtTurn
<1>5. hintRow \in 0 .. Rows - 1
  BY <1>2
<1> DEFINE row == TheRow(hintRow)
           s24 == U!Chunk(row.r, hm)
<1>6. IsRow(row) /\ Hinted[hintRow] = row
  BY <1>1, <1>5, RowsAreRows
<1>7. \A x \in 0 .. 31 : hm[x] = row.h[32 * s + x]
  <2>1. TAKE x \in 0 .. 31
  <2>2. x \in 0 .. 255 /\ x + hintSrc \in 0 .. 255 /\ x + hintSrc = 32 * s + x
    BY <1>4
  <2> QED BY <1>1, <1>2, <2>2 DEF EncodeInv, TheRow
<1>8. w1' = U!Mstore(w1, dst, U!Reversed(s24)) /\ dst' = dst + 24
  BY <1>1, <1>6 DEF U!Turn, U!Advance
<1>9. IF hintSrc + 32 < 256
      THEN /\ hintSrc' = hintSrc + 32
           /\ hm' = [n \in 0 .. 255 |-> IF n + 32 < 256 THEN hm[n + 32] ELSE 0]
           /\ hintRow' = hintRow
      ELSE /\ hintRow' = hintRow + 1 /\ hintSrc' = 0
           /\ hm' = IF hintRow + 1 < Rows THEN Hinted[hintRow + 1].h ELSE hm
  BY <1>1 DEF U!Turn, U!Coefficients
<1>10. ASSUME NEW n \in 0 .. U!Size + 31
       PROVE  w1'[n] = IF n \in dst .. dst + 31 THEN s24[n - dst] ELSE w1[n]
  <2>1. n \in DOMAIN w1 /\ DOMAIN w1 \subseteq Nat
    BY <1>2, <1>10
  <2>2. U!Mstore(w1, dst, U!Reversed(s24))[n] =
          IF n \in dst .. dst + 31 THEN s24[n - dst] ELSE w1[n]
    <3> HIDE DEF s24
    <3> QED BY <1>4, <2>1, StoreIs
  <2> HIDE DEF s24
  <2> QED BY <1>8, <2>2, Zenon
<1>11. DOMAIN w1' = 0 .. U!Size + 31
  <2> HIDE DEF s24
  <2>1. DOMAIN U!Mstore(w1, dst, U!Reversed(s24)) = DOMAIN w1
    BY DEF U!Mstore
  <2> HIDE DEF s24
  <2> QED BY <1>2, <1>8, <2>1, Zenon
<1>12. dst + 23 \in 0 .. U!Size + 31
  BY <1>2, <1>4
(* The bytes before the new end. *)
<1>13. ASSUME NEW n \in 0 .. dst' - 1
       PROVE  w1'[n] = EncodedByteOf(TheRow(n \div 192), n)
  <2>1. n \in 0 .. dst + 23 /\ n \in 0 .. U!Size + 31
    <3>1. n \in 0 .. (dst + 24) - 1
      BY <1>8
    <3> QED BY <1>2, <1>4, <1>12, <3>1
  <2>2. CASE n < dst
    <3>1. w1'[n] = w1[n] /\ n \in 0 .. dst - 1
      BY <1>4, <1>10, <2>1, <2>2
    <3> QED BY <1>1, <3>1 DEF EncodeInv
  <2>3. CASE n >= dst
    <3> DEFINE m == n - dst
    <3>0. hintRow \in Nat
      BY <1>2
    <3>1. m \in 0 .. 23 /\ n = 192 * hintRow + (24 * s + m) /\ n \in dst .. dst + 31
          /\ 24 * s + m \in 0 .. 191
      <4>1. n \in 0 .. dst + 23
        BY <2>1
      <4>2. dst \in Nat /\ dst = 192 * hintRow + 24 * s
        BY <1>4
      <4> QED BY <3>0, <4>1, <4>2, <2>3
    <3>2. n \div 192 = hintRow /\ n % 192 = 24 * s + m
      <4> HIDE DEF m
      <4> DEFINE e == 24 * s + m
      <4>1. e \in 0 .. 191 /\ n = 192 * hintRow + e /\ hintRow \in Nat
        BY <1>2, <3>1
      <4> HIDE DEF e
      <4>2. n \div 192 = hintRow /\ n % 192 = e
        BY <4>1
      <4> QED BY <4>2 DEF e
    <3>3. w1'[n] = s24[m]
      BY <1>10, <2>1, <3>1
    <3>4. s24[m] = EncodedByteOf(row, n)
      <4>1. TurnOf(row, s, hm)
        <5> HIDE DEF row
        <5> QED BY <1>4, <1>6, <1>7 DEF TurnOf
      <4>2. U!Chunk(row.r, hm)[m] = EncodedByteOf(row, n)
        <5> HIDE DEF m, row
        <5> QED BY <3>1, <3>2, <4>1, ChunkByte
      <4> QED BY <4>2
    <3> QED BY <3>2, <3>3, <3>4
  <2> QED BY <1>4, <2>1, <2>2, <2>3
<1>14. \A k : TheRow(k)' = TheRow(k)
  BY <1>1 DEF TheRow
<1>15. \A n \in 0 .. dst' - 1 : w1'[n] = EncodedByteOf(TheRow(n \div 192)', n)
  BY <1>13, <1>14
(* The next turn, in this row or at the start of the next. *)
<1>16. CASE s < 7
  <2>1. hintSrc' = hintSrc + 32 /\ hintRow' = hintRow
        /\ hm' = [n \in 0 .. 255 |-> IF n + 32 < 256 THEN hm[n + 32] ELSE 0]
    BY <1>4, <1>9, <1>16
  <2>2. s + 1 \in 0 .. 7 /\ hintSrc' = 32 * (s + 1) /\ dst' = 192 * hintRow' + 24 * (s + 1)
        /\ hintRow' # Rows
    <3>1. hintRow \in Nat /\ hintRow # Rows
      BY <1>2
    <3>2. hintSrc' = 32 * s + 32 /\ dst' = (192 * hintRow + 24 * s) + 24 /\ hintRow' = hintRow
      BY <1>4, <1>8, <2>1
    <3> QED BY <1>16, <3>1, <3>2
  <2>3. \E t \in 0 .. 7 : AtTurn(t)'
    <3> DEFINE t == s + 1
    <3>1. t \in 0 .. 7 /\ hintSrc' = 32 * t /\ dst' = 192 * hintRow' + 24 * t /\ hintRow' # Rows
      BY <2>2
    <3> HIDE DEF t
    <3> QED BY <3>1 DEF AtTurn
  <2>4. ASSUME NEW x \in 0 .. 255, x + hintSrc' \in 0 .. 255
        PROVE  hm'[x] = hints'[hintRow'][x + hintSrc']
    <3>1. x + 32 \in 0 .. 255 /\ (x + 32) + hintSrc = x + hintSrc' /\ x + 32 < 256
      BY <1>4, <2>1, <2>4
    <3>2. hm'[x] = hm[x + 32]
      BY <2>1, <3>1
    <3> QED BY <1>1, <1>2, <2>1, <2>4, <3>1, <3>2 DEF EncodeInv
  <2>5. RowsComplete'
    BY <1>1 DEF EncodeInv, RowsComplete
  <2> QED BY <1>1, <1>2, <1>11, <1>15, <2>1, <2>3, <2>4, <2>5 DEF EncodeInv, U!Size
<1>17. CASE s = 7
  <2>1. hintRow' = hintRow + 1 /\ hintSrc' = 0
        /\ hm' = IF hintRow + 1 < Rows THEN Hinted[hintRow + 1].h ELSE hm
    BY <1>4, <1>9, <1>17
  <2>2. dst' = 192 * hintRow' + 24 * 0 /\ hintRow' \in 0 .. Rows /\ hintSrc' = 32 * 0
    BY <1>2, <1>4, <1>8, <1>17, <2>1
  <2>3. \E t \in 0 .. 7 : AtTurn(t)'
    BY <2>2 DEF AtTurn
  <2>4. ASSUME hintRow' < Rows, NEW x \in 0 .. 255, x + hintSrc' \in 0 .. 255
        PROVE  hm'[x] = hints'[hintRow'][x + hintSrc']
    <3>1. hintRow + 1 \in 0 .. Rows - 1 /\ x + hintSrc' = x
      BY <1>2, <2>1, <2>4
    <3>2. Hinted[hintRow + 1].h = hints[hintRow + 1]
      BY <3>1 DEF Hinted
    <3> QED BY <1>1, <2>1, <2>4, <3>1, <3>2
  <2>5. RowsComplete'
    BY <1>1 DEF EncodeInv, RowsComplete
  <2> QED BY <1>1, <1>2, <1>11, <1>15, <2>2, <2>3, <2>4, <2>5 DEF EncodeInv, U!Size
<1> QED BY <1>3, <1>16, <1>17

(* The rows come first; the last of them ends the row product. *)
LEMMA RowsKeepEncodeInv ==
  ASSUME LaneInv, EncodeInv, WPrimeRows
  PROVE  EncodeInv'
<1>1. Next /\ UNCHANGED <<hints, hintRow, hintSrc, hm, dst, w1>>
  BY DEF WPrimeRows, hintVars
<1>2. pass # "w1" /\ pass # "done" /\ pass' # "w1"
  BY <1>1 DEF Next, PassA, PassB, PassC, MacFirst, MacSecond, Entry, Layers34, Layers56, Layers78,
              Advance
<1>3. RowsComplete'
  <2>1. CASE Layers78
    <3>1. PICK S : r \in Seq(S)
      BY DEF LaneInv, RowsInv
    <3>2. Len(r) \in Nat /\ Len(r) < Rows /\ Rows \in Nat
      BY <1>2, <3>1, SizeIs DEF LaneInv, RowsInv
    <3>3. pass' = "done" => layer = 2 /\ block = 15 /\ ~ (Row < Rows)
      <4>1. block \in 0 .. 15 /\ layer \in 1 .. 2 /\ pass = "78"
        BY <2>1 DEF Layers78, LaneInv, Control
      <4>2. Advance(2, 16, IF Row < Rows THEN "mac1" ELSE "done")
        BY <2>1 DEF Layers78
      <4> QED BY <4>1, <4>2 DEF Advance
    <3>4. CASE pass' = "done"
      <4>1. r' = Append(r, acc')
        BY <2>1, <3>3, <3>4 DEF Layers78
      <4> DEFINE T == S \cup {acc'}
      <4>2. r \in Seq(T) /\ acc' \in T
        BY <3>1, SeqMonotonic
      <4> HIDE DEF T
      <4>3. Len(r') = Len(r) + 1
        BY <4>1, <4>2, AppendProperties
      <4> QED BY <3>2, <3>3, <3>4, <4>3 DEF RowsComplete, Row
    <3> QED BY <1>2, <3>4 DEF RowsComplete
  <2>2. CASE ~ Layers78
    <3>1. pass' # "done"
      BY <1>1, <2>2 DEF Next, PassA, PassB, PassC, MacFirst, MacSecond, Entry, Layers34, Layers56,
                        Advance
    <3> QED BY <1>2, <3>1 DEF RowsComplete
  <2> QED BY <2>1, <2>2
<1> QED BY <1>1, <1>2, <1>3 DEF EncodeInv, U!Size

LEMMA StepEncodeInv == LaneInv /\ EncodeInv /\ [RecoverNext]_allVars => EncodeInv'
<1> SUFFICES ASSUME LaneInv, EncodeInv, [RecoverNext]_allVars PROVE EncodeInv'
  OBVIOUS
<1>1. CASE WPrimeRows
  BY <1>1, RowsKeepEncodeInv
<1>2. CASE BeginUseHint
  <2>1. /\ pass = "done" /\ pass' = "w1" /\ hints' \in Hints /\ hm' = hints'[0]
        /\ UNCHANGED <<r, hintRow, hintSrc, dst, w1>>
    BY <1>2 DEF BeginUseHint
  <2>2. hintRow' = 0 /\ hintSrc' = 0 /\ dst' = 0 /\ Rows \in Nat /\ Rows >= 1
    BY <2>1, SizeIs DEF EncodeInv
  <2>3. \E s \in 0 .. 7 : AtTurn(s)'
    <3>1. hintSrc' = 32 * 0 /\ dst' = 192 * hintRow' + 24 * 0
      BY <2>2
    <3> QED BY <3>1 DEF AtTurn
  <2>4. \A x \in 0 .. 255 : hm'[x] = hints'[hintRow'][x + hintSrc']
    BY <2>1, <2>2
  <2>5. 0 .. dst' - 1 = {}
    BY <2>2
  <2> QED BY <2>1, <2>2, <2>3, <2>4, <2>5 DEF EncodeInv, RowsComplete, U!Size
<1>3. CASE UseHintTurn
  BY <1>3, TurnKeepsEncodeInv
<1>4. CASE UNCHANGED allVars
  <2>1. UNCHANGED <<pass, r, hints, hintRow, hintSrc, hm, dst, w1>>
    BY <1>4 DEF allVars, vars, hintVars
  <2>2. \A k : TheRow(k)' = TheRow(k)
    BY <2>1 DEF TheRow
  <2> QED BY <2>1, <2>2 DEF EncodeInv, RowsComplete, AtTurn, U!Size
<1> QED BY <1>1, <1>2, <1>3, <1>4 DEF RecoverNext

(* What useHintSwar has written is w1Encode of the rows, hints applied, up *)
(* to where it is, and all of it at the end, for every modulus, number of  *)
(* rows, key, masks and raw buffer; no store passes the buffer.            *)
THEOREM RowsAreEncoded == RecoverSpec => []W1IsEncoded
<1>1. ASSUME LaneInv, EncodeInv, pass = "w1" PROVE U!PrefixIsEncoded
  <2>1. hintRow \in 0 .. Rows /\ Rows \in Nat /\ U!Size = 192 * Rows /\ DOMAIN w1 = 0 .. U!Size + 31
    BY <1>1, SizeIs DEF EncodeInv
  <2>2. PICK s \in 0 .. 7 : AtTurn(s)
    BY <1>1 DEF EncodeInv
  <2>3. dst = 192 * hintRow + 24 * s /\ (hintRow = Rows => s = 0) /\ dst \in Nat
    BY <2>1, <2>2 DEF AtTurn
  <2>4. ASSUME NEW n \in 0 .. dst - 1, n < U!Size PROVE w1[n] = U!EncodedByte(n)
    <3>1. n \div 192 \in 0 .. Rows - 1
      BY <2>1, <2>3, <2>4
    <3>2. Hinted[n \div 192] = TheRow(n \div 192)
      BY <1>1, <3>1, RowsAreRows
    <3>3. w1[n] = EncodedByteOf(TheRow(n \div 192), n)
      BY <1>1 DEF EncodeInv
    <3> QED BY <3>2, <3>3, EncodedByteIs
  <2>5. hintRow < Rows => dst + 31 \in DOMAIN w1
    BY <2>1, <2>3
  <2>6. hintRow = Rows => dst = U!Size
    BY <2>1, <2>3
  <2> QED BY <2>4, <2>5, <2>6 DEF U!PrefixIsEncoded
<1>2. RecoverSpec => [](LaneInv /\ EncodeInv)
  BY InitLaneInv, StepLaneInv, InitEncodeInv, StepEncodeInv, PTL DEF RecoverSpec
<1>3. LaneInv /\ EncodeInv => W1IsEncoded
  BY <1>1 DEF W1IsEncoded
<1> QED BY <1>2, <1>3, PTL
-----------------------------------------------------------------------------
(* Numbers that leave the same remainder by Q.                             *)
Same(a, b) == \E n \in Int : a = b + Q * n

LEMMA SameRefl ==
  ASSUME NEW a \in Int
  PROVE  Same(a, a)
<1>1. a = a + Q * 0 /\ 0 \in Int
  BY QNat
<1> QED BY ONLY <1>1 DEF Same

LEMMA SameEqual ==
  ASSUME NEW a \in Int, NEW b, a = b
  PROVE  Same(a, b)
  BY SameRefl

LEMMA SameSym ==
  ASSUME NEW a \in Int, NEW b \in Int, Same(a, b)
  PROVE  Same(b, a)
<1>1. PICK n \in Int : a = b + Q * n
  BY DEF Same
<1>2. b = a + Q * (- n) /\ - n \in Int
  BY <1>1, QNat
<1> QED BY ONLY <1>2 DEF Same

LEMMA SameTrans ==
  ASSUME NEW a \in Int, NEW b \in Int, NEW c \in Int, Same(a, b), Same(b, c)
  PROVE  Same(a, c)
<1>1. PICK n \in Int : a = b + Q * n
  BY DEF Same
<1>2. PICK k \in Int : b = c + Q * k
  BY DEF Same
<1>3. a = c + Q * (n + k) /\ n + k \in Int
  BY <1>1, <1>2, QNat
<1> QED BY ONLY <1>3 DEF Same

LEMMA SamePlus ==
  ASSUME NEW a \in Int, NEW b \in Int, NEW c \in Int, NEW d \in Int, Same(a, b), Same(c, d)
  PROVE  Same(a + c, b + d) /\ Same(a - c, b - d)
<1>1. PICK n \in Int : a = b + Q * n
  BY DEF Same
<1>2. PICK k \in Int : c = d + Q * k
  BY DEF Same
<1>3. a + c = (b + d) + Q * (n + k) /\ n + k \in Int
  BY <1>1, <1>2, QNat
<1>4. a - c = (b - d) + Q * (n - k) /\ n - k \in Int
  BY <1>1, <1>2, QNat
<1> QED BY ONLY <1>3, <1>4 DEF Same

LEMMA SameTimes ==
  ASSUME NEW a \in Int, NEW b \in Int, NEW c \in Int, Same(a, b)
  PROVE  Same(c * a, c * b) /\ Same(a * c, b * c)
<1>1. PICK n \in Int : a = b + Q * n
  BY DEF Same
<1>2. c * (b + Q * n) = c * b + Q * (c * n) /\ (b + Q * n) * c = b * c + Q * (c * n) /\ c * n \in Int
  BY QNat
<1> QED BY <1>1, <1>2 DEF Same

LEMMA SameProduct ==
  ASSUME NEW a \in Int, NEW b \in Int, NEW c \in Int, NEW d \in Int, Same(a, b), Same(c, d)
  PROVE  Same(a * c, b * d)
<1>1. a * c \in Int /\ b * c \in Int /\ b * d \in Int
  OBVIOUS
<1>2. Same(a * c, b * c)
  BY SameTimes
<1>3. Same(b * c, b * d)
  BY SameTimes
<1> QED BY ONLY <1>1, <1>2, <1>3, SameTrans

LEMMA SameMod ==
  ASSUME NEW a \in Int
  PROVE  a % Q \in 0 .. Q - 1 /\ Same(a % Q, a) /\ Same(a, a % Q)
<1>1. a % Q \in 0 .. Q - 1 /\ a = (a % Q) + Q * (a \div Q) /\ a \div Q \in Int
  BY QNat
<1>2. a % Q \in Int
  BY <1>1, QNat
<1>3. Same(a, a % Q)
  BY ONLY <1>1 DEF Same
<1> QED BY <1>1, <1>2, <1>3, SameSym

LEMMA SameMultiple ==
  ASSUME NEW a \in Int, a % Q = 0
  PROVE  Same(a, 0)
  BY SameMod

LEMMA SameCanonical ==
  ASSUME NEW a \in 0 .. Q - 1, NEW b \in 0 .. Q - 1, Same(a, b)
  PROVE  a = b
<1>1. PICK n \in Int : a = b + Q * n
  BY DEF Same
<1>2. CASE n >= 1
  <2>1. Q * n >= Q
    BY <1>2, QNat
  <2> QED BY <1>1, <2>1, QNat
<1>3. CASE n <= -1
  <2>1. Q * n <= -Q
    BY <1>3, QNat
  <2> QED BY <1>1, <2>1, QNat
<1>4. CASE n = 0
  BY <1>1, <1>4, QNat
<1> QED BY <1>2, <1>3, <1>4

LEMMA SameResidues ==
  ASSUME NEW a \in Int, NEW b \in Int, Same(a, b)
  PROVE  a % Q = b % Q
<1>1. a % Q \in 0 .. Q - 1 /\ b % Q \in 0 .. Q - 1 /\ a % Q \in Int /\ b % Q \in Int
  BY SameMod, QNat
<1>2. Same(a % Q, a) /\ Same(b, b % Q)
  BY SameMod
<1>3. Same(a % Q, b) /\ Same(a % Q, b % Q)
  BY <1>1, <1>2, SameTrans
<1> QED BY ONLY <1>1, <1>3, SameCanonical

LEMMA SameMulmod ==
  ASSUME NEW x \in Int, NEW s \in Int
  PROVE  Mulmod(x, s) \in Int /\ Same(Mulmod(x, s), x * s)
<1>1. x % Q \in Int /\ (x % Q) * s \in Int /\ x * s \in Int /\ Mulmod(x, s) \in Int
  BY QNat DEF Mulmod
<1>2. Same((x % Q) * s, x * s)
  BY <1>1, SameMod, SameTimes
<1>3. Same(Mulmod(x, s), (x % Q) * s)
  BY <1>1, SameMod DEF Mulmod
<1> QED BY <1>1, <1>2, <1>3, SameTrans

-----------------------------------------------------------------------------
(* Induction over the numbers, from the library's minima of well-founded   *)
(* relations, and a sequence of nine values, each made from the one before.*)
LEMMA Induction ==
  ASSUME NEW S, 0 \in S, \A n \in Nat : n \in S => n + 1 \in S
  PROVE  Nat \subseteq S
<1> SUFFICES ASSUME Nat \ S # {} PROVE FALSE
  OBVIOUS
<1>1. PICK x \in Nat \ S : \A n \in Nat \ S : ~ <<n, x>> \in OpToRel(<, Nat)
  BY NatLessThanWellFounded, WFMin, Zenon
<1>2. \A n \in Nat \ S : <<n, x>> \in OpToRel(<, Nat) <=> n < x
  BY DEF OpToRel
<1>3. \A n \in Nat \ S : ~ n < x
  BY <1>1, <1>2, Zenon
<1>4. x - 1 \in Nat /\ (x - 1) + 1 = x
  OBVIOUS
<1>5. x - 1 \in S
  BY <1>3, <1>4
<1> QED BY <1>4, <1>5

Iterates(s, V, c, G, n) == s \in [0 .. n -> V] /\ s[0] = c /\ \A k \in 1 .. n : s[k] = G[k - 1][s[k - 1]]

LEMMA Iteration ==
  ASSUME NEW V, NEW c \in V, NEW G, \A k \in Nat : \A v \in V : G[k][v] \in V, NEW n \in Nat
  PROVE  \E s : Iterates(s, V, c, G, n)
<1> DEFINE T == {a \in Nat : \E s : Iterates(s, V, c, G, a)}
<1>1. 0 \in T
  <2>1. Iterates([k \in 0 .. 0 |-> c], V, c, G, 0)
    BY DEF Iterates
  <2> QED BY <2>1
<1>2. ASSUME NEW a \in Nat, a \in T PROVE a + 1 \in T
  <2>1. PICK s : Iterates(s, V, c, G, a)
    BY <1>2
  <2> DEFINE new == G[a][s[a]]
             u   == [k \in 0 .. a + 1 |-> IF k = a + 1 THEN new ELSE s[k]]
  <2>2. new \in V
    BY <2>1 DEF Iterates
  <2>3. u \in [0 .. a + 1 -> V] /\ u[0] = c
    BY <2>1, <2>2 DEF Iterates
  <2>4. ASSUME NEW k \in 1 .. a + 1 PROVE u[k] = G[k - 1][u[k - 1]]
    <3>1. CASE k = a + 1
      <4>1. u[k] = new /\ u[k - 1] = s[a] /\ k - 1 = a
        BY <3>1
      <4> QED BY <4>1
    <3>2. CASE k # a + 1
      <4>1. k \in 1 .. a /\ u[k] = s[k] /\ u[k - 1] = s[k - 1]
        BY <3>2
      <4> QED BY <2>1, <4>1 DEF Iterates
    <3> QED BY <3>1, <3>2
  <2> HIDE DEF u
  <2>5. Iterates(u, V, c, G, a + 1)
    BY <2>3, <2>4 DEF Iterates
  <2> QED BY <2>5
<1> HIDE DEF T
<1>3. n \in T
  BY <1>1, <1>2, Induction
<1> QED BY <1>3 DEF T

-----------------------------------------------------------------------------
(* The runs of coefficients of f and their values at x.                    *)
Ints    == [0 .. 255 -> Int]
Size(e) == <<1, 2, 4, 8, 16, 32, 64, 128, 256>>[e + 1]

LEMMA RunSizes ==
  /\ Size(0) = 1 /\ Size(8) = 256
  /\ \A e \in 0 .. 7 : /\ Size(e) \in {1, 2, 4, 8, 16, 32, 64, 128}
                       /\ Size(e + 1) = 2 * Size(e)
                       /\ Size(e) * Size(7 - e) = 128
  BY DEF Size

LEMMA PowersAre ==
  ASSUME NEW x \in Int
  PROVE  /\ Powers(x)[0] = x
         /\ \A e \in 1 .. 7 : Powers(x)[e] = (Powers(x)[e - 1] * Powers(x)[e - 1]) % Q
         /\ \A e \in 0 .. 7 : Powers(x)[e] \in Int
<1> DEFINE G     == [k \in Nat |-> [v \in Int |-> (v * v) % Q]]
           Is(f) == f = [e \in 0 .. 7 |-> IF e = 0 THEN x ELSE (f[e - 1] * f[e - 1]) % Q]
           p     == CHOOSE f : Is(f)
<1>1. \A k \in Nat : \A v \in Int : G[k][v] = (v * v) % Q /\ (v * v) % Q \in Int
  BY QNat
<1> HIDE DEF G
<1>2. PICK s : Iterates(s, Int, x, G, 7)
  <2>1. \A k \in Nat : \A v \in Int : G[k][v] \in Int
    BY ONLY <1>1
  <2>2. 7 \in Nat
    OBVIOUS
  <2> QED BY ONLY <2>1, <2>2, x \in Int, Iteration
<1>3. s \in [0 .. 7 -> Int] /\ s[0] = x /\ \A k \in 1 .. 7 : s[k] = (s[k - 1] * s[k - 1]) % Q
  <2>1. s \in [0 .. 7 -> Int] /\ s[0] = x /\ \A k \in 1 .. 7 : s[k] = G[k - 1][s[k - 1]]
    BY <1>2 DEF Iterates
  <2>2. \A k \in 1 .. 7 : s[k - 1] \in Int /\ k - 1 \in Nat
    BY <2>1
  <2> QED BY <1>1, <2>1, <2>2
<1>4. Is(s)
  BY <1>3
<1>5. Is(p)
  BY <1>4
<1>6. Powers(x) = p
  BY DEF Powers
<1> HIDE DEF p
<1>7. p[0] = x /\ \A e \in 1 .. 7 : p[e] = (p[e - 1] * p[e - 1]) % Q
  BY <1>5
<1> HIDE DEF Is
<1> DEFINE T == {e \in Nat : e <= 7 => p[e] \in Int}
<1>8. 0 \in T
  BY <1>7
<1>9. ASSUME NEW e \in Nat, e \in T PROVE e + 1 \in T
  <2> SUFFICES ASSUME e + 1 <= 7 PROVE p[e + 1] \in Int
    OBVIOUS
  <2>1. p[e] \in Int /\ e + 1 \in 1 .. 7 /\ (e + 1) - 1 = e
    BY <1>9
  <2>2. p[e + 1] = (p[e] * p[e]) % Q
    BY <1>7, <2>1
  <2> QED BY <1>1, <2>1, <2>2
<1> HIDE DEF T
<1>10. Nat \subseteq T
  BY <1>8, <1>9, Induction
<1>11. \A e \in 0 .. 7 : p[e] \in Int
  BY <1>10 DEF T
<1> QED BY <1>6, <1>7, <1>11

LEMMA PairedIs ==
  ASSUME NEW f \in Ints, NEW y \in Int
  PROVE  /\ Paired(f, y) \in Ints
         /\ \A i \in 0 .. 127 : Paired(f, y)[i] = (f[2 * i] + y * f[2 * i + 1]) % Q
<1>1. \A i \in 0 .. 127 : 2 * i \in 0 .. 255 /\ 2 * i + 1 \in 0 .. 255 /\ i \in 0 .. 255 /\ i < 128
  OBVIOUS
<1>2. \A i \in 0 .. 255 : f[i] \in Int
  BY DEF Ints
<1>3. \A i \in 0 .. 127 : (f[2 * i] + y * f[2 * i + 1]) % Q \in Int
  <2> TAKE i \in 0 .. 127
  <2>1. f[2 * i] \in Int /\ f[2 * i + 1] \in Int
    BY <1>1, <1>2
  <2>2. f[2 * i] + y * f[2 * i + 1] \in Int
    BY ONLY <2>1, y \in Int
  <2> QED BY ONLY <2>2, SameMod, QNat
<1>4. \A i \in 0 .. 127 : Paired(f, y)[i] = (f[2 * i] + y * f[2 * i + 1]) % Q
  BY <1>1 DEF Paired
<1>5. \A i \in 0 .. 255 : i < 128 => i \in 0 .. 127
  OBVIOUS
<1>6. Paired(f, y) \in Ints
  BY <1>3, <1>5 DEF Paired, Ints
<1> QED BY <1>4, <1>6

LEMMA RunsAre ==
  ASSUME NEW f \in Ints, NEW x \in Int
  PROVE  /\ Runs(f, x)[0] = f
         /\ \A e \in 0 .. 7 : Runs(f, x)[e + 1] = Paired(Runs(f, x)[e], Powers(x)[e])
         /\ \A e \in 0 .. 8 : Runs(f, x)[e] \in Ints
<1> DEFINE pw(e) == IF e \in 0 .. 7 THEN Powers(x)[e] ELSE 0
           G     == [k \in Nat |-> [v \in Ints |-> Paired(v, pw(k))]]
           Is(g) == g = [e \in 0 .. 8 |-> IF e = 0 THEN f ELSE Paired(g[e - 1], Powers(x)[e - 1])]
           p     == CHOOSE g : Is(g)
<1>1. \A k \in Nat : pw(k) \in Int
  BY PowersAre
<1>2. \A k \in 0 .. 7 : pw(k) = Powers(x)[k]
  OBVIOUS
<1> HIDE DEF pw
<1>3. \A k \in Nat : \A v \in Ints : G[k][v] = Paired(v, pw(k)) /\ Paired(v, pw(k)) \in Ints
  BY <1>1, PairedIs
<1> HIDE DEF G
<1>4. PICK s : Iterates(s, Ints, f, G, 8)
  <2>1. \A k \in Nat : \A v \in Ints : G[k][v] \in Ints
    BY ONLY <1>3
  <2>2. 8 \in Nat
    OBVIOUS
  <2> QED BY ONLY <2>1, <2>2, f \in Ints, Iteration
<1>5. s \in [0 .. 8 -> Ints] /\ s[0] = f /\ \A k \in 1 .. 8 : s[k] = Paired(s[k - 1], Powers(x)[k - 1])
  <2>1. s \in [0 .. 8 -> Ints] /\ s[0] = f /\ \A k \in 1 .. 8 : s[k] = G[k - 1][s[k - 1]]
    BY <1>4 DEF Iterates
  <2>2. \A k \in 1 .. 8 : s[k - 1] \in Ints /\ k - 1 \in Nat /\ k - 1 \in 0 .. 7
    BY <2>1
  <2> QED BY <1>2, <1>3, <2>1, <2>2
<1>6. Is(s)
  BY <1>5
<1>7. Is(p)
  BY <1>6
<1>8. Runs(f, x) = p
  BY DEF Runs
<1> HIDE DEF p
<1>9. p[0] = f /\ \A e \in 1 .. 8 : p[e] = Paired(p[e - 1], Powers(x)[e - 1])
  BY <1>7
<1> HIDE DEF Is
<1>10. \A e \in 0 .. 7 : p[e + 1] = Paired(p[e], Powers(x)[e])
  <2> TAKE e \in 0 .. 7
  <2>1. e + 1 \in 1 .. 8 /\ (e + 1) - 1 = e
    OBVIOUS
  <2> QED BY <1>9, <2>1
<1> DEFINE T == {e \in Nat : e <= 8 => p[e] \in Ints}
<1>11. 0 \in T
  BY <1>9
<1>12. ASSUME NEW e \in Nat, e \in T PROVE e + 1 \in T
  <2> SUFFICES ASSUME e + 1 <= 8 PROVE p[e + 1] \in Ints
    OBVIOUS
  <2>1. p[e] \in Ints /\ e \in 0 .. 7
    BY <1>12
  <2>2. p[e + 1] = Paired(p[e], Powers(x)[e]) /\ Powers(x)[e] \in Int
    BY <1>10, <2>1, PowersAre
  <2> QED BY <2>1, <2>2, PairedIs
<1> HIDE DEF T
<1>13. Nat \subseteq T
  BY <1>11, <1>12, Induction
<1>14. \A e \in 0 .. 8 : p[e] \in Ints
  BY <1>13 DEF T
<1> QED BY <1>8, <1>9, <1>10, <1>14

(* A run's value is made of those of its halves. *)
LEMMA RunStep ==
  ASSUME NEW f \in Ints, NEW x \in Int, NEW e \in 0 .. 7, NEW i \in 0 .. 127
  PROVE  /\ Runs(f, x)[e][2 * i] \in Int /\ Runs(f, x)[e][2 * i + 1] \in Int
         /\ Powers(x)[e] \in Int
         /\ Runs(f, x)[e + 1][i] \in 0 .. Q - 1
         /\ Same(Runs(f, x)[e + 1][i], Runs(f, x)[e][2 * i] + Powers(x)[e] * Runs(f, x)[e][2 * i + 1])
<1> DEFINE g == Runs(f, x)[e]
           p == Powers(x)[e]
<1>1. g \in Ints /\ p \in Int /\ Runs(f, x)[e + 1] = Paired(g, p)
  BY RunsAre, PowersAre
<1>2. 2 * i \in 0 .. 255 /\ 2 * i + 1 \in 0 .. 255
  OBVIOUS
<1>3. g[2 * i] \in Int /\ g[2 * i + 1] \in Int
  BY ONLY <1>1, <1>2 DEF Ints
<1> HIDE DEF g, p
<1> DEFINE v == g[2 * i] + p * g[2 * i + 1]
<1>4. v \in Int
  BY ONLY <1>1, <1>3
<1>5. Runs(f, x)[e + 1][i] = v % Q
  BY ONLY <1>1, i \in 0 .. 127, PairedIs
<1>6. v % Q \in 0 .. Q - 1 /\ Same(v % Q, v)
  BY ONLY <1>4, SameMod
<1> QED BY <1>1, <1>3, <1>5, <1>6 DEF g, p

AddsUp(f, x, e, i) ==
  /\ Runs(f, x)[e][2 * i] \in Int /\ Runs(f, x)[e][2 * i + 1] \in Int
  /\ Powers(x)[e] \in Int /\ Runs(f, x)[e + 1][i] \in Int
  /\ Same(Runs(f, x)[e + 1][i], Runs(f, x)[e][2 * i] + Powers(x)[e] * Runs(f, x)[e][2 * i + 1])

LEMMA RunAddsUp ==
  ASSUME NEW f \in Ints, NEW x \in Int, NEW e \in 0 .. 7, NEW i \in 0 .. 127
  PROVE  AddsUp(f, x, e, i)
<1>1. \A k \in 0 .. Q - 1 : k \in Int
  BY QNat
<1> QED BY <1>1, RunStep DEF AddsUp

(* Run i of g is a combination of runs a and b of f. *)
Combines(g, i, f, a, c, b, d, s) == \A o \in 0 .. s - 1 : Same(g[i * s + o], c * f[a * s + o] + d * f[b * s + o])
Fits(a, s) == a \in Nat /\ (a + 1) * s <= 256

LEMMA FitsHalves ==
  ASSUME NEW e \in 0 .. 7, NEW a, Fits(a, Size(e + 1))
  PROVE  a \in 0 .. 127 /\ Fits(2 * a, Size(e)) /\ Fits(2 * a + 1, Size(e))
<1> DEFINE s == Size(e)
<1>1. s \in Nat /\ s >= 1 /\ Size(e + 1) = 2 * s
  BY RunSizes
<1> HIDE DEF s
<1>2. a \in Nat /\ (a + 1) * (2 * s) <= 256
  BY <1>1 DEF Fits
<1>3. (a + 1) * (2 * s) = (2 * a + 2) * s /\ (2 * a + 2) * s = (2 * a + 1) * s + s
  BY ONLY <1>1, <1>2
<1>4. (2 * a + 1) * s \in Int /\ (2 * a + 2) * s \in Int
  BY ONLY <1>1, <1>2
<1>5. (2 * a + 2) * s >= 2 * a + 2
  <2>1. (2 * a + 2) * (s - 1) >= 0 /\ (2 * a + 2) * (s - 1) = (2 * a + 2) * s - (2 * a + 2)
    BY ONLY <1>1, <1>2
  <2> QED BY ONLY <1>2, <1>4, <2>1
<1>6. a \in 0 .. 127 /\ ((2 * a) + 1) * s <= 256 /\ ((2 * a + 1) + 1) * s <= 256
  <2>1. (2 * a + 1) + 1 = 2 * a + 2
    BY ONLY <1>2
  <2> QED BY ONLY <1>1, <1>2, <1>3, <1>4, <1>5, <2>1
<1> QED BY <1>2, <1>6 DEF Fits, s

LEMMA RunLinear ==
  ASSUME NEW f \in Ints, NEW g \in Ints, NEW x \in Int, NEW c \in Int, NEW d \in Int,
         NEW m \in 0 .. 8, NEW i0, NEW a0, NEW b0,
         Fits(i0, Size(m)), Fits(a0, Size(m)), Fits(b0, Size(m)),
         Combines(g, i0, f, a0, c, b0, d, Size(m))
  PROVE  Same(Runs(g, x)[m][i0], c * Runs(f, x)[m][a0] + d * Runs(f, x)[m][b0])
<1> DEFINE F(e) == Runs(f, x)[e]
           H(e) == Runs(g, x)[e]
           P(e) == \A i \in Nat, a \in Nat, b \in Nat :
                     (/\ Fits(i, Size(e)) /\ Fits(a, Size(e)) /\ Fits(b, Size(e))
                      /\ Combines(g, i, f, a, c, b, d, Size(e)))
                     => Same(H(e)[i], c * F(e)[a] + d * F(e)[b])
           T == {e \in Nat : e <= 8 => P(e)}
<1>1. 0 \in T
  <2> SUFFICES ASSUME NEW i \in Nat, NEW a \in Nat, NEW b \in Nat,
                      Combines(g, i, f, a, c, b, d, Size(0))
               PROVE  Same(H(0)[i], c * F(0)[a] + d * F(0)[b])
    OBVIOUS
  <2>1. Size(0) = 1 /\ 0 \in 0 .. 1 - 1 /\ i * 1 + 0 = i /\ a * 1 + 0 = a /\ b * 1 + 0 = b
    BY RunSizes
  <2>2. Same(g[i], c * f[a] + d * f[b])
    BY <2>1 DEF Combines
  <2> QED BY <2>2, RunsAre
<1>2. ASSUME NEW e \in Nat, e \in T PROVE e + 1 \in T
  <2> SUFFICES ASSUME e + 1 <= 8, NEW i \in Nat, NEW a \in Nat, NEW b \in Nat,
                      Fits(i, Size(e + 1)), Fits(a, Size(e + 1)), Fits(b, Size(e + 1)),
                      Combines(g, i, f, a, c, b, d, Size(e + 1))
               PROVE  Same(H(e + 1)[i], c * F(e + 1)[a] + d * F(e + 1)[b])
    OBVIOUS
  <2>0. e \in 0 .. 7 /\ P(e)
    BY <1>2
  <2> DEFINE s == Size(e)
             p == Powers(x)[e]
  <2>1. s \in Nat /\ s >= 1 /\ Size(e + 1) = 2 * s
    BY <2>0, RunSizes
  <2>2. i \in 0 .. 127 /\ a \in 0 .. 127 /\ b \in 0 .. 127
    BY <2>0, FitsHalves
  <2>3. ASSUME NEW j \in {0, 1}
        PROVE  Same(H(e)[2 * i + j], c * F(e)[2 * a + j] + d * F(e)[2 * b + j])
    <3>1. Fits(2 * i + j, s) /\ Fits(2 * a + j, s) /\ Fits(2 * b + j, s)
      <4>0. e \in 0 .. 7 /\ Fits(i, Size(e + 1)) /\ Fits(a, Size(e + 1)) /\ Fits(b, Size(e + 1))
        BY <2>0
      <4>1. /\ Fits(2 * i, s) /\ Fits(2 * i + 1, s) /\ Fits(2 * a, s) /\ Fits(2 * a + 1, s)
            /\ Fits(2 * b, s) /\ Fits(2 * b + 1, s)
        BY ONLY <4>0, FitsHalves DEF s
      <4>2. 2 * i + 0 = 2 * i /\ 2 * a + 0 = 2 * a /\ 2 * b + 0 = 2 * b
        OBVIOUS
      <4> HIDE DEF s
      <4> QED BY ONLY <4>1, <4>2, j \in {0, 1}
    <3>2. Combines(g, 2 * i + j, f, 2 * a + j, c, 2 * b + j, d, s)
      <4> SUFFICES ASSUME NEW o \in 0 .. s - 1
                   PROVE  Same(g[(2 * i + j) * s + o],
                               c * f[(2 * a + j) * s + o] + d * f[(2 * b + j) * s + o])
        BY DEF Combines
      <4> DEFINE u == j * s + o
      <4> HIDE DEF s
      <4>1. u \in 0 .. 2 * s - 1
        BY <2>1
      <4>2. \A k \in Nat : (2 * k + j) * s + o = k * (2 * s) + u
        <5> TAKE k \in Nat
        <5>1. (2 * k + j) * s = k * (2 * s) + j * s /\ k * (2 * s) \in Int /\ j * s \in Int
          BY ONLY <2>1, k \in Nat, j \in {0, 1}
        <5> QED BY ONLY <5>1, o \in 0 .. s - 1, <2>1
      <4> HIDE DEF u
      <4>3. Same(g[i * (2 * s) + u], c * f[a * (2 * s) + u] + d * f[b * (2 * s) + u])
        <5>1. Combines(g, i, f, a, c, b, d, 2 * s)
          BY <2>1
        <5> QED BY ONLY <5>1, <4>1 DEF Combines
      <4> QED BY <4>2, <4>3
    <3>3. 2 * i + j \in Nat /\ 2 * a + j \in Nat /\ 2 * b + j \in Nat
      OBVIOUS
    <3> HIDE DEF F, H
    <3> QED BY <2>0, <3>1, <3>2, <3>3
  <2>4. /\ p \in Int
        /\ H(e)[2 * i] \in Int /\ H(e)[2 * i + 1] \in Int /\ F(e)[2 * a] \in Int
        /\ F(e)[2 * a + 1] \in Int /\ F(e)[2 * b] \in Int /\ F(e)[2 * b + 1] \in Int
        /\ H(e + 1)[i] \in Int /\ F(e + 1)[a] \in Int /\ F(e + 1)[b] \in Int
        /\ Same(H(e + 1)[i], H(e)[2 * i] + p * H(e)[2 * i + 1])
        /\ Same(F(e + 1)[a], F(e)[2 * a] + p * F(e)[2 * a + 1])
        /\ Same(F(e + 1)[b], F(e)[2 * b] + p * F(e)[2 * b + 1])
    <3>0. e \in 0 .. 7 /\ i \in 0 .. 127 /\ a \in 0 .. 127 /\ b \in 0 .. 127
          /\ f \in Ints /\ g \in Ints /\ x \in Int
      BY <2>0, <2>2
    <3>1. \A k \in 0 .. Q - 1 : k \in Int
      BY ONLY QNat
    <3>2. /\ p \in Int /\ H(e)[2 * i] \in Int /\ H(e)[2 * i + 1] \in Int /\ H(e + 1)[i] \in Int
          /\ Same(H(e + 1)[i], H(e)[2 * i] + p * H(e)[2 * i + 1])
      BY ONLY <3>0, <3>1, RunStep, Zenon
    <3>3. /\ F(e)[2 * a] \in Int /\ F(e)[2 * a + 1] \in Int /\ F(e + 1)[a] \in Int
          /\ Same(F(e + 1)[a], F(e)[2 * a] + p * F(e)[2 * a + 1])
      BY ONLY <3>0, <3>1, RunStep, Zenon
    <3>4. /\ F(e)[2 * b] \in Int /\ F(e)[2 * b + 1] \in Int /\ F(e + 1)[b] \in Int
          /\ Same(F(e + 1)[b], F(e)[2 * b] + p * F(e)[2 * b + 1])
      BY ONLY <3>0, <3>1, RunStep, Zenon
    <3> QED BY ONLY <3>2, <3>3, <3>4
  <2>5. /\ Same(H(e)[2 * i], c * F(e)[2 * a] + d * F(e)[2 * b])
        /\ Same(H(e)[2 * i + 1], c * F(e)[2 * a + 1] + d * F(e)[2 * b + 1])
    <3>1. 2 * i + 0 = 2 * i /\ 2 * a + 0 = 2 * a /\ 2 * b + 0 = 2 * b
      OBVIOUS
    <3> HIDE DEF F, H
    <3> QED BY <2>3, <3>1
  <2> DEFINE h0 == H(e)[2 * i]
             h1 == H(e)[2 * i + 1]
             u0 == F(e)[2 * a]
             u1 == F(e)[2 * a + 1]
             v0 == F(e)[2 * b]
             v1 == F(e)[2 * b + 1]
             hh == H(e + 1)[i]
             uu == F(e + 1)[a]
             vv == F(e + 1)[b]
  <2>6. /\ p \in Int /\ h0 \in Int /\ h1 \in Int /\ u0 \in Int /\ u1 \in Int /\ v0 \in Int /\ v1 \in Int
        /\ hh \in Int /\ uu \in Int /\ vv \in Int
        /\ Same(hh, h0 + p * h1) /\ Same(uu, u0 + p * u1) /\ Same(vv, v0 + p * v1)
        /\ Same(h0, c * u0 + d * v0) /\ Same(h1, c * u1 + d * v1)
    BY <2>4, <2>5
  <2> HIDE DEF F, H, p, s, h0, h1, u0, u1, v0, v1, hh, uu, vv
  <2>7. /\ c * u0 + d * v0 \in Int /\ c * u1 + d * v1 \in Int /\ p * h1 \in Int
        /\ p * (c * u1 + d * v1) \in Int /\ h0 + p * h1 \in Int
        /\ u0 + p * u1 \in Int /\ v0 + p * v1 \in Int
        /\ c * (u0 + p * u1) \in Int /\ d * (v0 + p * v1) \in Int
        /\ c * uu \in Int /\ d * vv \in Int
    BY ONLY <2>6, c \in Int, d \in Int
  <2>8. Same(p * h1, p * (c * u1 + d * v1))
    BY ONLY <2>6, <2>7, SameTimes
  <2>9. Same(h0 + p * h1, (c * u0 + d * v0) + p * (c * u1 + d * v1))
    BY ONLY <2>6, <2>7, <2>8, SamePlus
  <2>10. (c * u0 + d * v0) + p * (c * u1 + d * v1) = c * (u0 + p * u1) + d * (v0 + p * v1)
    BY ONLY <2>6, c \in Int, d \in Int
  <2>11. Same(c * uu, c * (u0 + p * u1)) /\ Same(d * vv, d * (v0 + p * v1))
    BY ONLY <2>6, <2>7, c \in Int, d \in Int, SameTimes
  <2>12. Same(c * uu + d * vv, c * (u0 + p * u1) + d * (v0 + p * v1))
    BY ONLY <2>7, <2>11, SamePlus
  <2>13. c * uu + d * vv \in Int /\ c * (u0 + p * u1) + d * (v0 + p * v1) \in Int
    BY ONLY <2>7
  <2>14. Same(c * (u0 + p * u1) + d * (v0 + p * v1), c * uu + d * vv)
    BY ONLY <2>12, <2>13, SameSym
  <2>15. Same(hh, c * (u0 + p * u1) + d * (v0 + p * v1))
    BY ONLY <2>6, <2>7, <2>9, <2>10, <2>13, SameTrans
  <2>16. Same(hh, c * uu + d * vv)
    BY ONLY <2>6, <2>13, <2>14, <2>15, SameTrans
  <2> QED BY <2>16 DEF hh, uu, vv
<1> HIDE DEF P
<1>3. m \in T
  <2> HIDE DEF T
  <2>1. Nat \subseteq T
    BY <1>1, <1>2, Induction
  <2> QED BY <2>1
<1>4. P(m)
  BY <1>3
<1>5. i0 \in Nat /\ a0 \in Nat /\ b0 \in Nat
  BY DEF Fits
<1> QED BY <1>4, <1>5 DEF P

-----------------------------------------------------------------------------
(* Where coefficient j is among the runs of 2^e, and what run number n is  *)
(* the place o of.                                                         *)
LEMMA Positions ==
  ASSUME NEW e \in 0 .. 7, NEW j \in 0 .. 255
  PROVE  /\ j \div Size(e + 1) \in Nat /\ j \div Size(e + 1) < Size(7 - e)
         /\ j \div Size(e) \in Nat
         /\ (j \div Size(e)) % 2 = 0 => j \div Size(e) = 2 * (j \div Size(e + 1))
         /\ (j \div Size(e)) % 2 # 0 => j \div Size(e) = 2 * (j \div Size(e + 1)) + 1
         /\ Fits(j \div Size(e + 1), Size(e + 1))
<1> DEFINE P(a, b, c) ==
      /\ j \div b \in Nat /\ j \div b < c /\ j \div a \in Nat
      /\ (j \div a) % 2 = 0 => j \div a = 2 * (j \div b)
      /\ (j \div a) % 2 # 0 => j \div a = 2 * (j \div b) + 1
      /\ ((j \div b) + 1) * b <= 256
<1>1. P(1, 2, 128)
  OBVIOUS
<1>2. P(2, 4, 64)
  OBVIOUS
<1>3. P(4, 8, 32)
  OBVIOUS
<1>4. P(8, 16, 16)
  OBVIOUS
<1>5. P(16, 32, 8)
  OBVIOUS
<1>6. P(32, 64, 4)
  OBVIOUS
<1>7. P(64, 128, 2)
  OBVIOUS
<1>8. P(128, 256, 1)
  OBVIOUS
<1> HIDE DEF P
<1>9. P(Size(e), Size(e + 1), Size(7 - e))
  <2>1. CASE e = 0
    BY <1>1, <2>1 DEF Size
  <2>2. CASE e = 1
    BY <1>2, <2>2 DEF Size
  <2>3. CASE e = 2
    BY <1>3, <2>3 DEF Size
  <2>4. CASE e = 3
    BY <1>4, <2>4 DEF Size
  <2>5. CASE e = 4
    BY <1>5, <2>5 DEF Size
  <2>6. CASE e = 5
    BY <1>6, <2>6 DEF Size
  <2>7. CASE e = 6
    BY <1>7, <2>7 DEF Size
  <2>8. CASE e = 7
    BY <1>8, <2>8 DEF Size
  <2> QED BY <2>1, <2>2, <2>3, <2>4, <2>5, <2>6, <2>7, <2>8
<1> QED BY ONLY <1>9 DEF P, Fits

LEMMA PlaceInRun ==
  ASSUME NEW e \in 0 .. 7, NEW k \in Nat, NEW c \in {0, 1}, NEW o \in 0 .. Size(e) - 1
  PROVE  /\ ((2 * k + c) * Size(e) + o) \div Size(e) = 2 * k + c
         /\ ((2 * k + c) * Size(e) + o) \div Size(e + 1) = k
<1> DEFINE P(a, b) == o \in 0 .. a - 1 =>
             /\ ((2 * k + c) * a + o) \div a = 2 * k + c
             /\ ((2 * k + c) * a + o) \div b = k
<1>0. c = 0 \/ c = 1
  OBVIOUS
<1>1. P(1, 2)
  BY <1>0
<1>2. P(2, 4)
  BY <1>0
<1>3. P(4, 8)
  BY <1>0
<1>4. P(8, 16)
  BY <1>0
<1>5. P(16, 32)
  BY <1>0
<1>6. P(32, 64)
  BY <1>0
<1>7. P(64, 128)
  BY <1>0
<1>8. P(128, 256)
  BY <1>0
<1> HIDE DEF P
<1>9. P(Size(e), Size(e + 1))
  <2>1. CASE e = 0
    BY <1>1, <2>1 DEF Size
  <2>2. CASE e = 1
    BY <1>2, <2>2 DEF Size
  <2>3. CASE e = 2
    BY <1>3, <2>3 DEF Size
  <2>4. CASE e = 3
    BY <1>4, <2>4 DEF Size
  <2>5. CASE e = 4
    BY <1>5, <2>5 DEF Size
  <2>6. CASE e = 5
    BY <1>6, <2>6 DEF Size
  <2>7. CASE e = 6
    BY <1>7, <2>7 DEF Size
  <2>8. CASE e = 7
    BY <1>8, <2>8 DEF Size
  <2> QED BY <2>1, <2>2, <2>3, <2>4, <2>5, <2>6, <2>7, <2>8
<1> QED BY <1>9 DEF P

(* One layer of the transform, and one of the inverse, on coefficients.    *)
Twiddle(e, n) == FwT[Size(7 - e) + n \div Size(e + 1)]
Untwiddle(e, n) == InvT[Size(7 - e) + n \div Size(e + 1)]

Stage(e, f) ==
  [n \in 0 .. 255 |->
     IF (n \div Size(e)) % 2 = 0 THEN f[n] + Twiddle(e, n) * f[n + Size(e)]
     ELSE f[n - Size(e)] - Twiddle(e, n) * f[n]]

InvStage(e, f) ==
  [n \in 0 .. 255 |->
     IF (n \div Size(e)) % 2 = 0 THEN f[n] + f[n + Size(e)]
     ELSE Untwiddle(e, n) * (f[n - Size(e)] - f[n])]

LEMMA TableInts ==
  \A j \in 0 .. 255 : FwT[j] \in Int /\ InvT[j] \in Int
  BY TableInt

LEMMA TwiddlesInt ==
  ASSUME NEW e \in 0 .. 7, NEW b \in Nat, Fits(b, Size(e + 1))
  PROVE  /\ Size(7 - e) + b \in 0 .. 255
         /\ FwT[Size(7 - e) + b] \in Int /\ InvT[Size(7 - e) + b] \in Int
<1>1. Size(7 - e) + b \in 0 .. 255
  <2> DEFINE P(s, u) == (b + 1) * s <= 256 => u + b \in 0 .. 255
  <2>1. P(2, 128) /\ P(4, 64) /\ P(8, 32) /\ P(16, 16) /\ P(32, 8) /\ P(64, 4) /\ P(128, 2) /\ P(256, 1)
    OBVIOUS
  <2> HIDE DEF P
  <2>2. P(Size(e + 1), Size(7 - e))
    <3>1. \/ Size(e + 1) = 2 /\ Size(7 - e) = 128
          \/ Size(e + 1) = 4 /\ Size(7 - e) = 64
          \/ Size(e + 1) = 8 /\ Size(7 - e) = 32
          \/ Size(e + 1) = 16 /\ Size(7 - e) = 16
          \/ Size(e + 1) = 32 /\ Size(7 - e) = 8
          \/ Size(e + 1) = 64 /\ Size(7 - e) = 4
          \/ Size(e + 1) = 128 /\ Size(7 - e) = 2
          \/ Size(e + 1) = 256 /\ Size(7 - e) = 1
      BY DEF Size
    <3> QED BY ONLY <2>1, <3>1
  <2> QED BY ONLY <2>2, Fits(b, Size(e + 1)) DEF P, Fits
<1> QED BY ONLY <1>1, TableInts

LEMMA PartnerInside ==
  ASSUME NEW e \in 0 .. 7, NEW n \in 0 .. 255
  PROVE  /\ (n \div Size(e)) % 2 = 0 => n + Size(e) \in 0 .. 255
         /\ (n \div Size(e)) % 2 # 0 => n - Size(e) \in 0 .. 255
         /\ n \div Size(e + 1) \in Nat /\ Fits(n \div Size(e + 1), Size(e + 1))
<1> DEFINE P(s) == /\ (n \div s) % 2 = 0 => n + s \in 0 .. 255
                   /\ (n \div s) % 2 # 0 => n - s \in 0 .. 255
<1>1. P(1) /\ P(2) /\ P(4)
  OBVIOUS
<1>2. P(8) /\ P(16)
  OBVIOUS
<1>3. P(32) /\ P(64) /\ P(128)
  OBVIOUS
<1> HIDE DEF P
<1>4. P(Size(e))
  BY <1>1, <1>2, <1>3, RunSizes
<1> QED BY <1>4, Positions DEF P

LEMMA StagesInts ==
  ASSUME NEW e \in 0 .. 7, NEW f \in Ints
  PROVE  Stage(e, f) \in Ints /\ InvStage(e, f) \in Ints
<1>1. ASSUME NEW n \in 0 .. 255
      PROVE  /\ IF (n \div Size(e)) % 2 = 0 THEN f[n] + Twiddle(e, n) * f[n + Size(e)] \in Int
                ELSE f[n - Size(e)] - Twiddle(e, n) * f[n] \in Int
             /\ IF (n \div Size(e)) % 2 = 0 THEN f[n] + f[n + Size(e)] \in Int
                ELSE Untwiddle(e, n) * (f[n - Size(e)] - f[n]) \in Int
  <2>1. f[n] \in Int
    BY DEF Ints
  <2>2. Twiddle(e, n) \in Int /\ Untwiddle(e, n) \in Int
    BY PartnerInside, TwiddlesInt DEF Twiddle, Untwiddle
  <2>3. (n \div Size(e)) % 2 = 0 => f[n + Size(e)] \in Int
    BY PartnerInside DEF Ints
  <2>4. (n \div Size(e)) % 2 # 0 => f[n - Size(e)] \in Int
    BY PartnerInside DEF Ints
  <2> DEFINE x == f[n]  y == f[n + Size(e)]  z == f[n - Size(e)]  u == Twiddle(e, n)  v == Untwiddle(e, n)
             c == (n \div Size(e)) % 2 = 0
  <2>5. x \in Int /\ u \in Int /\ v \in Int /\ (c => y \in Int) /\ (~ c => z \in Int)
    BY <2>1, <2>2, <2>3, <2>4
  <2> HIDE DEF x, y, z, u, v, c
  <2>6. (c => x + u * y \in Int /\ x + y \in Int) /\ (~ c => z - u * x \in Int /\ v * (z - x) \in Int)
    BY <2>5
  <2> QED BY <2>6 DEF x, y, z, u, v, c
<1>2. Stage(e, f) \in Ints
  BY <1>1 DEF Stage, Ints
<1>3. InvStage(e, f) \in Ints
  BY <1>1 DEF InvStage, Ints
<1> QED BY <1>2, <1>3

(* A layer combines the two runs of a pair. *)
AreHalves(n, m, e, b) ==
  /\ n \in 0 .. 255 /\ m \in 0 .. 255
  /\ m = n + Size(e) /\ n = m - Size(e)
  /\ (n \div Size(e)) % 2 = 0 /\ ~ (m \div Size(e)) % 2 = 0
  /\ n \div Size(e + 1) = b /\ m \div Size(e + 1) = b

LEMMA RunPlaces ==
  ASSUME NEW e \in 0 .. 7, NEW b \in Nat, Fits(b, Size(e + 1)), NEW o \in 0 .. Size(e) - 1
  PROVE  AreHalves((2 * b) * Size(e) + o, (2 * b + 1) * Size(e) + o, e, b)
<1> DEFINE s == Size(e)
           n == (2 * b) * s + o
           m == (2 * b + 1) * s + o
<1>1. s \in Nat /\ s >= 1 /\ o \in 0 .. s - 1
  BY RunSizes
<1>2. (2 * b + 1) * s + s <= 256
  <2>1. Fits(2 * b + 1, Size(e))
    BY FitsHalves
  <2>2. ((2 * b + 1) + 1) * s <= 256
    BY <2>1 DEF Fits
  <2> HIDE DEF s
  <2>3. ((2 * b + 1) + 1) * s = (2 * b + 1) * s + s
    BY <1>1
  <2> QED BY <2>2, <2>3
<1>3. (2 * b + 0) * Size(e) + o = n /\ 2 * b + 0 = 2 * b
  OBVIOUS
<1>4. n \div s = 2 * b /\ n \div Size(e + 1) = b
  <2> HIDE DEF n, s
  <2>1. ((2 * b + 0) * Size(e) + o) \div Size(e) = 2 * b + 0 /\ ((2 * b + 0) * Size(e) + o) \div Size(e + 1) = b
    BY ONLY e \in 0 .. 7, b \in Nat, 0 \in {0, 1}, o \in 0 .. Size(e) - 1, PlaceInRun
  <2> QED BY ONLY <1>3, <2>1 DEF s
<1>5. m \div s = 2 * b + 1 /\ m \div Size(e + 1) = b
  BY ONLY e \in 0 .. 7, b \in Nat, 1 \in {0, 1}, o \in 0 .. Size(e) - 1, PlaceInRun
<1> HIDE DEF s
<1>6. (2 * b + 1) * s = (2 * b) * s + s /\ (2 * b) * s \in Nat
  BY <1>1
<1>7. n \in 0 .. 255 /\ m \in 0 .. 255 /\ m = n + s /\ n = m - s
  BY <1>1, <1>2, <1>6
<1> HIDE DEF n, m
<1>8. (n \div s) % 2 = 0 /\ ~ (m \div s) % 2 = 0
  BY <1>4, <1>5
<1>9. AreHalves(n, m, e, b)
  BY ONLY <1>4, <1>5, <1>7, <1>8 DEF s, AreHalves
<1> QED BY <1>9 DEF n, m, s

LEMMA StageCombines ==
  ASSUME NEW e \in 0 .. 7, NEW f \in Ints, NEW b \in Nat, Fits(b, Size(e + 1))
  PROVE  LET z == FwT[Size(7 - e) + b]
         IN  /\ Combines(Stage(e, f), 2 * b, f, 2 * b, 1, 2 * b + 1, z, Size(e))
             /\ Combines(Stage(e, f), 2 * b + 1, f, 2 * b, 1, 2 * b + 1, - z, Size(e))
<1> DEFINE z == FwT[Size(7 - e) + b]
           g == Stage(e, f)
           s == Size(e)
<1>1. ASSUME NEW o \in 0 .. s - 1
      PROVE  /\ Same(g[(2 * b) * s + o], 1 * f[(2 * b) * s + o] + z * f[(2 * b + 1) * s + o])
             /\ Same(g[(2 * b + 1) * s + o], 1 * f[(2 * b) * s + o] + (- z) * f[(2 * b + 1) * s + o])
  <2> DEFINE n == (2 * b) * s + o
             m == (2 * b + 1) * s + o
  <2>0. AreHalves(n, m, e, b)
    BY RunPlaces
  <2> HIDE DEF n, m
  <2>1. /\ n \in 0 .. 255 /\ m \in 0 .. 255
        /\ m = n + s /\ n = m - s
        /\ (n \div s) % 2 = 0 /\ ~ (m \div s) % 2 = 0
        /\ n \div Size(e + 1) = b /\ m \div Size(e + 1) = b
    BY <2>0 DEF AreHalves
  <2>2. Twiddle(e, n) = z /\ Twiddle(e, m) = z /\ z \in Int
    BY <2>1, TwiddlesInt DEF Twiddle
  <2>3. g[n] = f[n] + z * f[m] /\ g[m] = f[n] - z * f[m]
    BY <2>1, <2>2 DEF Stage
  <2>4. f[n] \in Int /\ f[m] \in Int
    BY <2>1 DEF Ints
  <2> DEFINE x == f[n]  y == f[m]
  <2> HIDE DEF z, g, s
  <2>5. x \in Int /\ y \in Int /\ z \in Int /\ g[n] = x + z * y /\ g[m] = x - z * y
    BY <2>2, <2>3, <2>4
  <2> HIDE DEF x, y
  <2>6. g[n] = 1 * x + z * y /\ g[m] = 1 * x + (- z) * y /\ g[n] \in Int /\ g[m] \in Int
    BY <2>5
  <2>7. Same(g[n], 1 * x + z * y) /\ Same(g[m], 1 * x + (- z) * y)
    BY ONLY <2>6, SameEqual
  <2> QED BY <2>7 DEF x, y, n, m
<1> QED BY <1>1 DEF Combines

LEMMA InvStageCombines ==
  ASSUME NEW e \in 0 .. 7, NEW f \in Ints, NEW b \in Nat, Fits(b, Size(e + 1))
  PROVE  LET z == InvT[Size(7 - e) + b]
         IN  /\ Combines(InvStage(e, f), 2 * b, f, 2 * b, 1, 2 * b + 1, 1, Size(e))
             /\ Combines(InvStage(e, f), 2 * b + 1, f, 2 * b, z, 2 * b + 1, - z, Size(e))
<1> DEFINE z == InvT[Size(7 - e) + b]
           g == InvStage(e, f)
           s == Size(e)
<1>1. ASSUME NEW o \in 0 .. s - 1
      PROVE  /\ Same(g[(2 * b) * s + o], 1 * f[(2 * b) * s + o] + 1 * f[(2 * b + 1) * s + o])
             /\ Same(g[(2 * b + 1) * s + o], z * f[(2 * b) * s + o] + (- z) * f[(2 * b + 1) * s + o])
  <2> DEFINE n == (2 * b) * s + o
             m == (2 * b + 1) * s + o
  <2>0. AreHalves(n, m, e, b)
    BY RunPlaces
  <2> HIDE DEF n, m
  <2>1. /\ n \in 0 .. 255 /\ m \in 0 .. 255
        /\ m = n + s /\ n = m - s
        /\ (n \div s) % 2 = 0 /\ ~ (m \div s) % 2 = 0
        /\ n \div Size(e + 1) = b /\ m \div Size(e + 1) = b
    BY <2>0 DEF AreHalves
  <2>2. Untwiddle(e, n) = z /\ Untwiddle(e, m) = z /\ z \in Int
    BY <2>1, TwiddlesInt DEF Untwiddle
  <2>3. g[n] = f[n] + f[m] /\ g[m] = z * (f[n] - f[m])
    BY <2>1, <2>2 DEF InvStage
  <2>4. f[n] \in Int /\ f[m] \in Int
    BY <2>1 DEF Ints
  <2> DEFINE x == f[n]  y == f[m]
  <2> HIDE DEF z, g, s
  <2>5. x \in Int /\ y \in Int /\ z \in Int /\ g[n] = x + y /\ g[m] = z * (x - y)
    BY <2>2, <2>3, <2>4
  <2> HIDE DEF x, y
  <2>6. g[n] = 1 * x + 1 * y /\ g[m] = z * x + (- z) * y /\ g[n] \in Int /\ g[m] \in Int
    BY <2>5
  <2>7. Same(g[n], 1 * x + 1 * y) /\ Same(g[m], z * x + (- z) * y)
    BY ONLY <2>6, SameEqual
  <2> QED BY <2>7 DEF x, y, n, m
<1> QED BY <1>1 DEF Combines

-----------------------------------------------------------------------------
(* The powers of a point are, up to the sign, the entries of the table that *)
(* the layers multiply with.                                               *)
Lower    == 0 .. 127
Psi      == FwT[128]
Upper(k) == FwT[128 + k]

LEMMA RootSquares ==
  ASSUME NEW k \in Lower
  PROVE  /\ FwT[2 * k] \in Int /\ FwT[2 * k + 1] \in Int /\ FwT[k] \in Int
         /\ Upper(k) \in Int /\ Psi \in Int
         /\ Same(FwT[2 * k] * FwT[2 * k], FwT[k])
         /\ Same(FwT[2 * k + 1] * FwT[2 * k + 1], - FwT[k])
         /\ Same(Upper(k), FwT[k] * Psi)
<1>0. k \in 0 .. 127
  BY DEF Lower
<1>1. /\ (FwT[2 * k] * FwT[2 * k]) % Q = FwT[k]
      /\ (FwT[2 * k + 1] * FwT[2 * k + 1] + FwT[k]) % Q = 0
      /\ FwT[128 + k] = (FwT[k] * FwT[128]) % Q
  <2>1. \A n \in 0 .. 127 :
          /\ (FwT[2 * n] * FwT[2 * n]) % Q = FwT[n]
          /\ (FwT[2 * n + 1] * FwT[2 * n + 1] + FwT[n]) % Q = 0
          /\ FwT[128 + n] = (FwT[n] * FwT[128]) % Q
    BY ONLY RootAssumption
  <2> QED BY ONLY <1>0, <2>1
<1>2. /\ FwT[2 * k] \in Int /\ FwT[2 * k + 1] \in Int /\ FwT[k] \in Int
      /\ FwT[128 + k] \in Int /\ FwT[128] \in Int
  <2>1. 2 * k \in 0 .. 255 /\ 2 * k + 1 \in 0 .. 255 /\ k \in 0 .. 255 /\ 128 + k \in 0 .. 255
        /\ 128 \in 0 .. 255
    BY ONLY <1>0
  <2> QED BY ONLY <2>1, TableInts
<1> DEFINE a == FwT[2 * k]  b == FwT[2 * k + 1]  c == FwT[k]  d == FwT[128 + k]  p == FwT[128]
<1>3. /\ a \in Int /\ b \in Int /\ c \in Int /\ d \in Int /\ p \in Int
      /\ (a * a) % Q = c /\ (b * b + c) % Q = 0 /\ d = (c * p) % Q
  BY <1>1, <1>2
<1> HIDE DEF a, b, c, d, p
<1>4. a * a \in Int /\ b * b + c \in Int /\ c * p \in Int /\ - c \in Int
  BY ONLY <1>3
<1>5. Same(a * a, c) /\ Same(d, c * p)
  BY ONLY <1>3, <1>4, SameMod
<1>6. Same(b * b + c, 0)
  BY ONLY <1>3, <1>4, SameMultiple
<1>7. Same(c, c)
  BY ONLY <1>3, SameRefl
<1>8. Same((b * b + c) - c, 0 - c)
  BY ONLY <1>3, <1>4, <1>6, <1>7, 0 \in Int, SamePlus
<1>9. (b * b + c) - c = b * b /\ 0 - c = - c
  BY ONLY <1>3
<1>10. Same(b * b, - c)
  BY ONLY <1>8, <1>9
<1> QED BY <1>2, <1>5, <1>10 DEF a, b, c, d, p, Upper, Psi

(* x or its opposite *)
Signed(even, x) == IF even THEN x ELSE - x

LEMMA PointIs ==
  ASSUME NEW j \in 0 .. 255
  PROVE  /\ Point(j) \in Int
         /\ Same(Point(j), Signed(j % 2 = 0, Upper(j \div 2)))
<1> DEFINE k == j \div 2
           t == FwT[j]  p == Psi  c == FwT[k]  d == Upper(k)
           y == Signed(j % 2 = 0, c)
<1>1. k \in 0 .. 127 /\ (j % 2 = 0 => j = 2 * k) /\ (j % 2 # 0 => j = 2 * k + 1)
  OBVIOUS
<1> HIDE DEF k
<1>2. t \in Int /\ p \in Int /\ c \in Int /\ d \in Int /\ y \in Int /\ Same(d, c * p)
  <2>1. t \in Int
    BY ONLY j \in 0 .. 255, TableInts DEF t
  <2>2. p \in Int /\ c \in Int /\ d \in Int /\ Same(d, c * p)
    <3>1. k \in Lower
      BY ONLY <1>1 DEF Lower
    <3> QED BY ONLY <3>1, RootSquares, Zenon
  <2>3. y \in Int
    <3> HIDE DEF c
    <3> QED BY <2>2 DEF Signed
  <2> QED BY ONLY <2>1, <2>2, <2>3
<1>3. Same(t * t, y)
  <2>1. CASE j % 2 = 0
    <3>1. j = 2 * k
      BY <1>1, <2>1
    <3>2. k \in Lower
      BY ONLY <1>1 DEF Lower
    <3>3. Same(t * t, c)
      BY ONLY <3>1, <3>2, RootSquares, Zenon DEF t, c
    <3> QED BY ONLY <2>1, <3>3 DEF Signed
  <2>2. CASE j % 2 # 0
    <3>1. j = 2 * k + 1
      BY <1>1, <2>2
    <3>2. k \in Lower
      BY ONLY <1>1 DEF Lower
    <3>3. Same(t * t, - c)
      BY ONLY <3>1, <3>2, RootSquares, Zenon DEF t, c
    <3> QED BY ONLY <2>2, <3>3 DEF Signed
  <2> QED BY <2>1, <2>2
<1>4. Point(j) = (((t * t) % Q) * p) % Q
  BY DEF Point, Psi
<1>5. y * p = Signed(j % 2 = 0, c * p)
  <2> HIDE DEF c, p
  <2> QED BY <1>2 DEF Signed
<1> HIDE DEF t, p, c, d, y
<1>6. t * t \in Int /\ c * p \in Int /\ y * p \in Int
  BY <1>2
<1>7. (t * t) % Q \in Int /\ Same((t * t) % Q, t * t)
  BY <1>6, SameMod, QNat
<1>8. Same((t * t) % Q, y)
  BY ONLY <1>2, <1>3, <1>6, <1>7, SameTrans
<1>9. ((t * t) % Q) * p \in Int /\ Same(((t * t) % Q) * p, y * p)
  BY ONLY <1>2, <1>7, <1>8, SameTimes
<1>10. (((t * t) % Q) * p) % Q \in Int /\ Same((((t * t) % Q) * p) % Q, ((t * t) % Q) * p)
  <2> DEFINE x == ((t * t) % Q) * p
  <2>1. x \in Int
    BY ONLY <1>9
  <2> HIDE DEF x
  <2>2. x % Q \in Int /\ Same(x % Q, x)
    BY ONLY <2>1, SameMod, QNat
  <2> QED BY <2>2 DEF x
<1>11. Same(Point(j), y * p) /\ Point(j) \in Int
  BY ONLY <1>4, <1>6, <1>9, <1>10, SameTrans
<1>12. Same(y * p, Signed(j % 2 = 0, d)) /\ Signed(j % 2 = 0, d) \in Int
  <2>1. Same(c * p, d)
    BY ONLY <1>2, <1>6, SameSym
  <2>2. Same(0 - c * p, 0 - d)
    BY ONLY <1>2, <1>6, <2>1, SameRefl, SamePlus, 0 \in Int
  <2>3. 0 - c * p = - (c * p) /\ 0 - d = - d
    BY ONLY <1>2, <1>6
  <2> QED BY <1>2, <1>5, <2>1, <2>2, <2>3 DEF Signed
<1>13. Same(Point(j), Signed(j % 2 = 0, d))
  BY ONLY <1>6, <1>11, <1>12, SameTrans
<1> QED BY <1>11, <1>13 DEF d, k

IsEven(e, j) == (j \div Size(e)) % 2 = 0

LEMMA PowerIs ==
  ASSUME NEW j \in 0 .. 255
  PROVE  \A e \in 0 .. 7 : Same(Powers(Point(j))[e], Signed(IsEven(e, j), Twiddle(e, j)))
<1> DEFINE P(e) == Powers(Point(j))[e]
           R(e) == Same(P(e), Signed(IsEven(e, j), Twiddle(e, j)))
           T == {e \in Nat : e <= 7 => R(e)}
<1>1. /\ P(0) = Point(j)
      /\ \A e \in 0 .. 6 : P(e + 1) = (P(e) * P(e)) % Q
      /\ \A e \in 0 .. 7 : P(e) \in Int
  <2>1. Point(j) \in Int
    BY PointIs
  <2>2. /\ Powers(Point(j))[0] = Point(j)
        /\ \A e \in 1 .. 7 : Powers(Point(j))[e] = (Powers(Point(j))[e - 1] * Powers(Point(j))[e - 1]) % Q
        /\ \A e \in 0 .. 7 : Powers(Point(j))[e] \in Int
    BY ONLY <2>1, PowersAre
  <2>3. ASSUME NEW e \in 0 .. 6 PROVE P(e + 1) = (P(e) * P(e)) % Q
    <3>1. e + 1 \in 1 .. 7 /\ (e + 1) - 1 = e
      OBVIOUS
    <3> QED BY <2>2, <3>1
  <2> QED BY <2>2, <2>3
<1>2. 0 \in T
  <2>1. Size(0) = 1 /\ Size(7) = 128 /\ Size(1) = 2 /\ j \div 1 = j /\ 7 - 0 = 7 /\ 0 + 1 = 1
    BY DEF Size
  <2>2. Twiddle(0, j) = Upper(j \div 2)
    BY <2>1 DEF Twiddle, Upper, Size
  <2>3. IsEven(0, j) = (j % 2 = 0)
    BY ONLY <2>1 DEF IsEven
  <2>4. Same(Point(j), Signed(j % 2 = 0, Upper(j \div 2)))
    BY PointIs
  <2>5. R(0)
    BY ONLY <1>1, <2>2, <2>3, <2>4
  <2> QED BY <2>5
<1> HIDE DEF P
<1>3. ASSUME NEW e \in Nat, e \in T PROVE e + 1 \in T
  <2> SUFFICES ASSUME e + 1 <= 7 PROVE R(e + 1)
    OBVIOUS
  <2>1. e \in 0 .. 6 /\ e \in 0 .. 7 /\ e + 1 \in 0 .. 7 /\ R(e)
    BY <1>3
  <2> DEFINE p == P(e)
             x == Twiddle(e, j)
             y == Twiddle(e + 1, j)
             k == Size(6 - e) + j \div Size(e + 2)
  <2>2. p \in Int /\ P(e + 1) = (p * p) % Q /\ x \in Int /\ y \in Int
    BY <1>1, <2>1, Positions, TwiddlesInt DEF Twiddle
  <2>3. k \in 0 .. 127 /\ y = FwT[k] /\ x = FwT[IF IsEven(e + 1, j) THEN 2 * k ELSE 2 * k + 1]
    <3>1. /\ j \div Size(e + 2) \in Nat /\ j \div Size(e + 2) < Size(6 - e)
          /\ (j \div Size(e + 1)) % 2 = 0 => j \div Size(e + 1) = 2 * (j \div Size(e + 2))
          /\ (j \div Size(e + 1)) % 2 # 0 => j \div Size(e + 1) = 2 * (j \div Size(e + 2)) + 1
      <4>1. (e + 1) + 1 = e + 2 /\ 7 - (e + 1) = 6 - e
        BY <2>1
      <4> QED BY <2>1, <4>1, Positions
    <3>2. Size(7 - e) = 2 * Size(6 - e) /\ Size(6 - e) \in {1, 2, 4, 8, 16, 32, 64}
      BY <2>1 DEF Size
    <3>3. (e + 1) + 1 = e + 2 /\ 7 - (e + 1) = 6 - e
      BY <2>1
    <3> DEFINE b == j \div Size(e + 2)  u == Size(6 - e)
    <3>4. y = FwT[k]
      BY <3>3 DEF Twiddle
    <3>5. x = FwT[2 * u + j \div Size(e + 1)]
      BY <3>2 DEF Twiddle
    <3> HIDE DEF b, u, x
    <3>6. u + b \in 0 .. 127
      BY <3>1, <3>2 DEF b, u
    <3>7. 2 * u + 2 * b = 2 * (u + b) /\ 2 * u + (2 * b + 1) = 2 * (u + b) + 1
      BY <3>1, <3>2 DEF b, u
    <3>8. x = FwT[IF IsEven(e + 1, j) THEN 2 * (u + b) ELSE 2 * (u + b) + 1]
      BY <3>1, <3>5, <3>7 DEF IsEven, b
    <3> QED BY <3>4, <3>6, <3>8 DEF b, u
  <2>4. Same(x * x, Signed(IsEven(e + 1, j), y))
    <3> HIDE DEF k, x, y
    <3>1. CASE IsEven(e + 1, j)
      <4>1. x = FwT[2 * k] /\ y = FwT[k]
        BY <2>3, <3>1
      <4>2. k \in Lower
        BY ONLY <2>3 DEF Lower
      <4>3. Same(x * x, y)
        BY ONLY <4>1, <4>2, RootSquares, Zenon
      <4> QED BY ONLY <3>1, <4>3 DEF Signed
    <3>2. CASE ~ IsEven(e + 1, j)
      <4>1. x = FwT[2 * k + 1] /\ y = FwT[k]
        BY <2>3, <3>2
      <4>2. k \in Lower
        BY ONLY <2>3 DEF Lower
      <4>3. Same(x * x, - y)
        BY ONLY <4>1, <4>2, RootSquares, Zenon
      <4> QED BY ONLY <3>2, <4>3 DEF Signed
    <3> QED BY <3>1, <3>2
  <2> DEFINE z == Signed(IsEven(e, j), x)
             v == Signed(IsEven(e + 1, j), y)
  <2>5. Same(p, z)
    BY <2>1
  <2>6. z \in Int /\ z * z = x * x /\ v \in Int
    <3> HIDE DEF x, y
    <3> QED BY <2>2 DEF Signed
  <2> HIDE DEF p, x, y, z, v
  <2>7. p * p \in Int /\ z * z \in Int /\ x * x \in Int
    BY ONLY <2>2, <2>6
  <2>8. Same(p * p, z * z)
    BY ONLY <2>2, <2>5, <2>6, SameProduct
  <2>9. (p * p) % Q \in Int /\ Same((p * p) % Q, p * p)
    BY ONLY <2>7, SameMod, QNat
  <2>10. Same(p * p, v)
    BY ONLY <2>4, <2>6, <2>7, <2>8, SameTrans DEF v
  <2>11. Same((p * p) % Q, v)
    BY ONLY <2>6, <2>7, <2>9, <2>10, SameTrans
  <2> QED BY <2>2, <2>11 DEF v, y
<1> HIDE DEF R, T
<1>4. Nat \subseteq T
  BY <1>2, <1>3, Induction
<1>5. \A e \in 0 .. 7 : R(e)
  BY <1>4 DEF T
<1> QED BY <1>5 DEF R, P

LEMMA UntwiddleInverts ==
  ASSUME NEW e \in 0 .. 7, NEW j \in 0 .. 255
  PROVE  /\ Twiddle(e, j) \in Int /\ Untwiddle(e, j) \in Int
         /\ Same(Twiddle(e, j) * Untwiddle(e, j), 1)
<1> DEFINE k == Size(7 - e) + j \div Size(e + 1)
<1>1. k \in 0 .. 255 /\ FwT[k] \in Int /\ InvT[k] \in Int
  BY Positions, TwiddlesInt
<1> HIDE DEF k
<1>2. (FwT[k] * InvT[k]) % Q = 1
  BY ONLY <1>1, NttAssumption, Zenon
<1>3. FwT[k] * InvT[k] \in Int
  BY ONLY <1>1
<1>4. Same(FwT[k] * InvT[k], 1)
  BY ONLY <1>2, <1>3, SameMod
<1> QED BY <1>1, <1>4 DEF k, Twiddle, Untwiddle

-----------------------------------------------------------------------------
(* A layer moves the value of a run to that of one of its halves; a layer   *)
(* of the inverse moves it back, doubled.                                  *)
LEMMA RunsInt ==
  ASSUME NEW f \in Ints, NEW x \in Int, NEW e \in 0 .. 8, NEW b, Fits(b, Size(e))
  PROVE  Runs(f, x)[e][b] \in Int
<1>1. Runs(f, x)[e] \in Ints
  BY RunsAre
<1>2. b \in 0 .. 255
  <2>1. Size(e) \in Nat /\ Size(e) >= 1
    <3>1. Size(e) \in {1, 2, 4, 8, 16, 32, 64, 128, 256}
      BY DEF Size
    <3> QED BY <3>1
  <2>2. b \in Nat /\ (b + 1) * Size(e) <= 256
    BY DEF Fits
  <2> DEFINE s == Size(e)
  <2> HIDE DEF s
  <2>3. (b + 1) * (s - 1) >= 0 /\ (b + 1) * (s - 1) = (b + 1) * s - (b + 1) /\ (b + 1) * s \in Nat
    BY <2>1, <2>2 DEF s
  <2> QED BY <2>2, <2>3 DEF s
<1> QED BY <1>1, <1>2 DEF Ints

LEMMA HalvesOf ==
  ASSUME NEW e \in 0 .. 7, NEW j \in 0 .. 255, NEW b, b = j \div Size(e + 1)
  PROVE  /\ b \in 0 .. 127 /\ Fits(b, Size(e + 1))
         /\ Fits(2 * b, Size(e)) /\ Fits(2 * b + 1, Size(e))
         /\ j \div Size(e) = IF IsEven(e, j) THEN 2 * b ELSE 2 * b + 1
<1>1. Fits(b, Size(e + 1)) /\ j \div Size(e) = IF IsEven(e, j) THEN 2 * b ELSE 2 * b + 1
  BY Positions DEF IsEven
<1> QED BY <1>1, FitsHalves

LEMMA StageRuns ==
  ASSUME NEW f \in Ints, NEW e \in 0 .. 7, NEW j \in 0 .. 255
  PROVE  Same(Runs(f, Point(j))[e + 1][j \div Size(e + 1)],
              Runs(Stage(e, f), Point(j))[e][j \div Size(e)])
<1> DEFINE x == Point(j)
           b == j \div Size(e + 1)
           i == j \div Size(e)
           g == Stage(e, f)
           z == Twiddle(e, j)
           sz == Signed(IsEven(e, j), z)
           p == Powers(x)[e]
           F0 == Runs(f, x)[e][2 * b]
           F1 == Runs(f, x)[e][2 * b + 1]
           Up  == Runs(f, x)[e + 1][b]
           G  == Runs(g, x)[e][i]
<1>1. /\ b \in 0 .. 127 /\ Fits(b, Size(e + 1))
      /\ Fits(2 * b, Size(e)) /\ Fits(2 * b + 1, Size(e))
      /\ i = IF IsEven(e, j) THEN 2 * b ELSE 2 * b + 1
  BY HalvesOf
<1>2. x \in Int /\ Same(p, sz) /\ z \in Int /\ g \in Ints
  BY PointIs, PowerIs, UntwiddleInverts, StagesInts
<1>3. /\ F0 \in Int /\ F1 \in Int /\ p \in Int /\ Up \in Int
      /\ Same(Up, F0 + p * F1)
  <2>1. \A k \in 0 .. Q - 1 : k \in Int
    BY QNat
  <2> HIDE DEF x, b
  <2>2. b \in 0 .. 127 /\ x \in Int
    BY ONLY <1>1, <1>2
  <2>3. AddsUp(f, x, e, b)
    BY ONLY <2>2, e \in 0 .. 7, f \in Ints, RunAddsUp
  <2> QED BY ONLY <2>3 DEF AddsUp
<1>4. sz \in Int
  <2> HIDE DEF z
  <2> QED BY <1>2 DEF Signed
<1>5. G \in Int
  <2>1. Fits(i, Size(e))
    BY <1>1
  <2> HIDE DEF x, i, g
  <2> QED BY <1>2, <2>1, RunsInt
<1>6. Same(G, 1 * F0 + sz * F1)
  <2>1. Combines(g, i, f, 2 * b, 1, 2 * b + 1, sz, Size(e))
    <3>1. /\ Combines(g, 2 * b, f, 2 * b, 1, 2 * b + 1, z, Size(e))
          /\ Combines(g, 2 * b + 1, f, 2 * b, 1, 2 * b + 1, - z, Size(e))
      <4>1. b \in Nat
        BY <1>1
      <4> QED BY <1>1, <4>1, StageCombines DEF Twiddle
    <3> HIDE DEF z, g, b, i
    <3> QED BY <1>1, <3>1 DEF Signed
  <2>2. Fits(i, Size(e))
    BY <1>1
  <2>3. e \in 0 .. 8 /\ 1 \in Int
    OBVIOUS
  <2> HIDE DEF x, b, i, g, z, sz
  <2>4. Same(Runs(g, x)[e][i], 1 * Runs(f, x)[e][2 * b] + sz * Runs(f, x)[e][2 * b + 1])
    BY ONLY <1>1, <1>2, <1>4, <2>1, <2>2, <2>3, f \in Ints, RunLinear
  <2> QED BY <2>4
<1> HIDE DEF x, b, i, g, z, sz, p, F0, F1, Up, G
<1>7. p * F1 \in Int /\ sz * F1 \in Int /\ 1 * F0 = F0 /\ F0 + p * F1 \in Int /\ F0 + sz * F1 \in Int
  BY <1>3, <1>4
<1>8. Same(p * F1, sz * F1)
  BY ONLY <1>2, <1>3, <1>4, SameTimes
<1>9. Same(F0 + p * F1, F0 + sz * F1)
  BY ONLY <1>3, <1>7, <1>8, SameRefl, SamePlus
<1>10. Same(Up, F0 + sz * F1)
  BY ONLY <1>3, <1>7, <1>9, SameTrans
<1>11. Same(F0 + sz * F1, G)
  BY ONLY <1>5, <1>6, <1>7, SameSym
<1>12. Same(Up, G)
  BY ONLY <1>3, <1>5, <1>7, <1>10, <1>11, SameTrans
<1> QED BY <1>12 DEF x, b, i, g, Up, G

LEMMA InvStageRuns ==
  ASSUME NEW f \in Ints, NEW e \in 0 .. 7, NEW j \in 0 .. 255
  PROVE  Same(Runs(InvStage(e, f), Point(j))[e + 1][j \div Size(e + 1)],
              2 * Runs(f, Point(j))[e][j \div Size(e)])
<1> DEFINE x == Point(j)
           b == j \div Size(e + 1)
           i == j \div Size(e)
           g == InvStage(e, f)
           t == Twiddle(e, j)
           z == Untwiddle(e, j)
           even == IsEven(e, j)
           st == Signed(even, t)
           p == Powers(x)[e]
           F0 == Runs(f, x)[e][2 * b]
           F1 == Runs(f, x)[e][2 * b + 1]
           G0 == Runs(g, x)[e][2 * b]
           G1 == Runs(g, x)[e][2 * b + 1]
           Up  == Runs(g, x)[e + 1][b]
           I  == Runs(f, x)[e][i]
<1>1. /\ b \in 0 .. 127 /\ Fits(b, Size(e + 1))
      /\ Fits(2 * b, Size(e)) /\ Fits(2 * b + 1, Size(e))
      /\ i = IF even THEN 2 * b ELSE 2 * b + 1
  BY HalvesOf
<1>2. x \in Int /\ Same(p, st) /\ z \in Int /\ t \in Int /\ g \in Ints /\ Same(t * z, 1)
  BY PointIs, PowerIs, UntwiddleInverts, StagesInts
<1>3. /\ G0 \in Int /\ G1 \in Int /\ p \in Int /\ Up \in Int
      /\ Same(Up, G0 + p * G1)
  <2>1. \A k \in 0 .. Q - 1 : k \in Int
    BY QNat
  <2> HIDE DEF x, b, g
  <2>2. b \in 0 .. 127 /\ x \in Int /\ g \in Ints
    BY ONLY <1>1, <1>2
  <2>3. AddsUp(g, x, e, b)
    BY ONLY <2>2, e \in 0 .. 7, f \in Ints, RunAddsUp
  <2> QED BY ONLY <2>3 DEF AddsUp
<1>4. F0 \in Int /\ F1 \in Int /\ I = IF even THEN F0 ELSE F1
  <2> HIDE DEF x, b, i, even
  <2>1. F0 \in Int /\ F1 \in Int
    BY <1>1, <1>2, RunsInt
  <2> QED BY <1>1, <2>1
<1>5. Same(G0, 1 * F0 + 1 * F1) /\ Same(G1, z * F0 + (- z) * F1)
  <2>1. /\ Combines(g, 2 * b, f, 2 * b, 1, 2 * b + 1, 1, Size(e))
        /\ Combines(g, 2 * b + 1, f, 2 * b, z, 2 * b + 1, - z, Size(e))
    <3>1. b \in Nat
      BY <1>1
    <3> QED BY <1>1, <3>1, InvStageCombines DEF Untwiddle
  <2>2. e \in 0 .. 8 /\ 1 \in Int /\ z \in Int /\ - z \in Int
    BY <1>2
  <2> HIDE DEF x, b, g, z
  <2>3. Same(Runs(g, x)[e][2 * b], 1 * Runs(f, x)[e][2 * b] + 1 * Runs(f, x)[e][2 * b + 1])
    BY ONLY <1>1, <1>2, <2>1, <2>2, f \in Ints, RunLinear
  <2>4. Same(Runs(g, x)[e][2 * b + 1], z * Runs(f, x)[e][2 * b] + (- z) * Runs(f, x)[e][2 * b + 1])
    BY ONLY <1>1, <1>2, <2>1, <2>2, f \in Ints, RunLinear
  <2> QED BY <2>3, <2>4
<1> HIDE DEF x, b, i, g, t, z, even, p, F0, F1, G0, G1, Up, I
<1> DEFINE s == F0 + F1
           d == F0 - F1
           sd == Signed(even, d)
<1>6. /\ 1 * F0 + 1 * F1 = s /\ z * F0 + (- z) * F1 = z * d /\ s \in Int /\ d \in Int
      /\ z * d \in Int
  BY ONLY <1>2, <1>4
<1>7. st \in Int /\ sd \in Int /\ s + sd = 2 * I
  BY <1>2, <1>4 DEF Signed
<1>8. Same(G0, s) /\ Same(G1, z * d)
  BY ONLY <1>5, <1>6
<1>9. st * (z * d) = (t * z) * sd
  <2>1. t * (z * d) = (t * z) * d /\ (- t) * (z * d) = (t * z) * (- d)
    BY ONLY <1>2, <1>6
  <2> QED BY ONLY <2>1 DEF Signed
<1> HIDE DEF s, d, sd, st
<1>10. p * G1 \in Int /\ st * (z * d) \in Int /\ (t * z) \in Int /\ (t * z) * sd \in Int
  BY ONLY <1>2, <1>3, <1>6, <1>7
<1>11. Same(p * G1, st * (z * d))
  BY ONLY <1>2, <1>3, <1>6, <1>7, <1>8, SameProduct
<1>12. Same((t * z) * sd, 1 * sd) /\ 1 * sd = sd
  <2> DEFINE w == t * z
  <2> HIDE DEF w
  <2>1. w \in Int /\ Same(w, 1) /\ sd \in Int /\ 1 \in Int
    BY <1>2, <1>7, <1>10 DEF w
  <2>2. Same(w * sd, 1 * sd)
    BY ONLY <2>1, SameTimes
  <2> QED BY <1>7, <2>2 DEF w
<1>13. Same(p * G1, sd)
  BY ONLY <1>7, <1>9, <1>10, <1>11, <1>12, SameTrans
<1>14. Same(G0 + p * G1, s + sd)
  BY ONLY <1>3, <1>6, <1>7, <1>8, <1>10, <1>13, SamePlus
<1>15. G0 + p * G1 \in Int /\ s + sd \in Int
  BY ONLY <1>3, <1>6, <1>7, <1>10
<1>16. Same(Up, 2 * I)
  BY ONLY <1>3, <1>7, <1>14, <1>15, SameTrans
<1> QED BY <1>16 DEF x, b, i, g, Up, I

-----------------------------------------------------------------------------
(* The eight layers of the transform of f, and those of the inverse.       *)
Nested(G, c) == LET s[k \in 0 .. 8] == IF k = 0 THEN c ELSE G[k - 1][s[k - 1]] IN s

LEMMA NestedIs ==
  ASSUME NEW V, NEW c \in V, NEW G, \A k \in 0 .. 7 : \A v \in V : G[k][v] \in V
  PROVE  /\ Nested(G, c)[0] = c
         /\ \A k \in 0 .. 7 : Nested(G, c)[k + 1] = G[k][Nested(G, c)[k]]
         /\ \A k \in 0 .. 8 : Nested(G, c)[k] \in V
<1> DEFINE H     == [k \in Nat |-> [v \in V |-> IF k \in 0 .. 7 THEN G[k][v] ELSE v]]
           Is(s) == s = [k \in 0 .. 8 |-> IF k = 0 THEN c ELSE G[k - 1][s[k - 1]]]
           p     == CHOOSE s : Is(s)
<1>1. /\ \A k \in Nat : \A v \in V : H[k][v] \in V
      /\ \A k \in 0 .. 7 : \A v \in V : H[k][v] = G[k][v]
  OBVIOUS
<1> HIDE DEF H
<1>2. PICK s : Iterates(s, V, c, H, 8)
  <2>1. 8 \in Nat
    OBVIOUS
  <2>2. \A k \in Nat : \A v \in V : H[k][v] \in V
    BY ONLY <1>1
  <2> QED BY ONLY <2>1, <2>2, c \in V, Iteration
<1>3. s \in [0 .. 8 -> V] /\ s[0] = c /\ \A k \in 1 .. 8 : s[k] = G[k - 1][s[k - 1]]
  <2>1. s \in [0 .. 8 -> V] /\ s[0] = c /\ \A k \in 1 .. 8 : s[k] = H[k - 1][s[k - 1]]
    BY <1>2 DEF Iterates
  <2>2. \A k \in 1 .. 8 : s[k - 1] \in V /\ k - 1 \in 0 .. 7
    BY <2>1
  <2> QED BY <1>1, <2>1, <2>2
<1>4. Is(s)
  BY <1>3
<1>5. Is(p)
  BY <1>4
<1>6. Nested(G, c) = p
  BY DEF Nested
<1> HIDE DEF p
<1>7. p[0] = c /\ \A k \in 1 .. 8 : p[k] = G[k - 1][p[k - 1]]
  BY <1>5
<1> HIDE DEF Is
<1>8. \A k \in 0 .. 7 : p[k + 1] = G[k][p[k]]
  <2> TAKE k \in 0 .. 7
  <2>1. k + 1 \in 1 .. 8 /\ (k + 1) - 1 = k
    OBVIOUS
  <2> QED BY <1>7, <2>1
<1> DEFINE T == {k \in Nat : k <= 8 => p[k] \in V}
<1>9. 0 \in T
  BY <1>7
<1>10. ASSUME NEW k \in Nat, k \in T PROVE k + 1 \in T
  <2> SUFFICES ASSUME k + 1 <= 8 PROVE p[k + 1] \in V
    OBVIOUS
  <2>1. p[k] \in V /\ k \in 0 .. 7
    BY <1>10
  <2> QED BY <1>8, <2>1
<1> HIDE DEF T
<1>11. Nat \subseteq T
  BY <1>9, <1>10, Induction
<1>12. \A k \in 0 .. 8 : p[k] \in V
  BY <1>11 DEF T
<1> QED BY <1>6, <1>7, <1>8, <1>12

Tower(f)    == Nested([k \in 0 .. 7 |-> [g \in Ints |-> Stage(7 - k, g)]], f)
InvTower(f) == Nested([k \in 0 .. 7 |-> [g \in Ints |-> InvStage(k, g)]], f)

LEMMA TowerIs ==
  ASSUME NEW f \in Ints
  PROVE  /\ Tower(f)[0] = f
         /\ \A k \in 0 .. 7 : Tower(f)[k + 1] = Stage(7 - k, Tower(f)[k])
         /\ \A k \in 0 .. 8 : Tower(f)[k] \in Ints
<1> DEFINE G == [k \in 0 .. 7 |-> [g \in Ints |-> Stage(7 - k, g)]]
<1>1. \A k \in 0 .. 7 : \A g \in Ints : G[k][g] = Stage(7 - k, g)
  OBVIOUS
<1>2. \A k \in 0 .. 7 : \A g \in Ints : Stage(7 - k, g) \in Ints
  <2>1. \A k \in 0 .. 7 : 7 - k \in 0 .. 7
    OBVIOUS
  <2> QED BY <2>1, StagesInts
<1>3. Tower(f) = Nested(G, f)
  BY DEF Tower
<1> HIDE DEF G
<1>4. \A k \in 0 .. 7 : \A g \in Ints : G[k][g] \in Ints
  BY <1>1, <1>2
<1>5. /\ Nested(G, f)[0] = f
      /\ \A k \in 0 .. 7 : Nested(G, f)[k + 1] = G[k][Nested(G, f)[k]]
      /\ \A k \in 0 .. 8 : Nested(G, f)[k] \in Ints
  BY ONLY <1>4, f \in Ints, NestedIs
<1>6. \A k \in 0 .. 7 : k \in 0 .. 8
  OBVIOUS
<1> QED BY <1>1, <1>3, <1>5, <1>6

LEMMA InvTowerIs ==
  ASSUME NEW f \in Ints
  PROVE  /\ InvTower(f)[0] = f
         /\ \A k \in 0 .. 7 : InvTower(f)[k + 1] = InvStage(k, InvTower(f)[k])
         /\ \A k \in 0 .. 8 : InvTower(f)[k] \in Ints
<1> DEFINE G == [k \in 0 .. 7 |-> [g \in Ints |-> InvStage(k, g)]]
<1>1. \A k \in 0 .. 7 : \A g \in Ints : G[k][g] = InvStage(k, g)
  OBVIOUS
<1>2. \A k \in 0 .. 7 : \A g \in Ints : InvStage(k, g) \in Ints
  BY StagesInts
<1>3. InvTower(f) = Nested(G, f)
  BY DEF InvTower
<1> HIDE DEF G
<1>4. \A k \in 0 .. 7 : \A g \in Ints : G[k][g] \in Ints
  BY <1>1, <1>2
<1>5. /\ Nested(G, f)[0] = f
      /\ \A k \in 0 .. 7 : Nested(G, f)[k + 1] = G[k][Nested(G, f)[k]]
      /\ \A k \in 0 .. 8 : Nested(G, f)[k] \in Ints
  BY ONLY <1>4, f \in Ints, NestedIs
<1>6. \A k \in 0 .. 7 : k \in 0 .. 8
  OBVIOUS
<1> QED BY <1>1, <1>3, <1>5, <1>6

LEMMA RunInside ==
  ASSUME NEW j \in 0 .. 255, NEW e \in 0 .. 8
  PROVE  Fits(j \div Size(e), Size(e))
<1> DEFINE P(s) == j \div s \in Nat /\ ((j \div s) + 1) * s <= 256
<1>1. P(1) /\ P(2) /\ P(4) /\ P(8) /\ P(16) /\ P(32) /\ P(64) /\ P(128) /\ P(256)
  OBVIOUS
<1> HIDE DEF P
<1>2. Size(e) \in {1, 2, 4, 8, 16, 32, 64, 128, 256}
  BY DEF Size
<1>3. P(Size(e))
  BY <1>1, <1>2
<1> QED BY <1>3 DEF P, Fits

(* What the eight layers leave at j is the value at the j-th point. *)
LEMMA TowerValue ==
  ASSUME NEW f \in Ints, NEW j \in 0 .. 255
  PROVE  /\ Tower(f)[8][j] \in Int /\ Runs(f, Point(j))[8][0] \in Int
         /\ Same(Tower(f)[8][j], Runs(f, Point(j))[8][0])
<1> DEFINE x == Point(j)
           V(k) == Runs(Tower(f)[k], x)[8 - k][j \div Size(8 - k)]
           T == {k \in Nat : k <= 8 => V(k) \in Int /\ Same(V(k), V(0))}
<1>1. x \in Int /\ \A k \in 0 .. 8 : Tower(f)[k] \in Ints
  BY PointIs, TowerIs
<1>2. \A k \in 0 .. 8 : V(k) \in Int
  <2> TAKE k \in 0 .. 8
  <2> DEFINE e == 8 - k
             b == j \div Size(e)
             t == Tower(f)[k]
  <2>1. e \in 0 .. 8 /\ t \in Ints
    BY <1>1
  <2>2. Fits(b, Size(e))
    BY <2>1, RunInside
  <2> HIDE DEF e, b, x, t
  <2>3. Runs(t, x)[e][b] \in Int
    BY ONLY <1>1, <2>1, <2>2, RunsInt
  <2> QED BY <2>3 DEF e, b, t
<1>3. 0 \in T
  <2>1. V(0) \in Int
    BY <1>2
  <2> HIDE DEF V
  <2> QED BY <2>1, SameRefl
<1>4. ASSUME NEW k \in Nat, k \in T PROVE k + 1 \in T
  <2> SUFFICES ASSUME k + 1 <= 8 PROVE V(k + 1) \in Int /\ Same(V(k + 1), V(0))
    OBVIOUS
  <2>1. k \in 0 .. 7 /\ k \in 0 .. 8 /\ k + 1 \in 0 .. 8 /\ 0 \in 0 .. 8
    BY <1>4
  <2>2. Same(V(k), V(0)) /\ V(k) \in Int /\ V(k + 1) \in Int /\ V(0) \in Int
    <3> HIDE DEF V
    <3> QED BY <1>2, <1>4, <2>1
  <2>3. Same(V(k), V(k + 1))
    <3> DEFINE e == 7 - k
               g == Tower(f)[k]
    <3>1. e \in 0 .. 7 /\ 8 - k = e + 1 /\ 8 - (k + 1) = e
      BY <2>1
    <3>2. g \in Ints /\ Tower(f)[k + 1] = Stage(e, g)
      BY <2>1, TowerIs
    <3> HIDE DEF e, g
    <3>3. Same(Runs(g, Point(j))[e + 1][j \div Size(e + 1)], Runs(Stage(e, g), Point(j))[e][j \div Size(e)])
      BY ONLY <3>1, <3>2, j \in 0 .. 255, StageRuns
    <3> QED BY <3>1, <3>2, <3>3 DEF g
  <2> HIDE DEF V
  <2>4. Same(V(k + 1), V(k))
    BY ONLY <2>2, <2>3, SameSym
  <2> QED BY ONLY <2>2, <2>4, SameTrans
<1>5. V(8) \in Int /\ Same(V(8), V(0)) /\ V(0) \in Int
  <2> HIDE DEF V, T
  <2>1. Nat \subseteq T
    BY <1>3, <1>4, Induction
  <2>2. 8 \in T
    BY <2>1
  <2> QED BY <1>2, <2>2 DEF T
<1>6. V(8) = Tower(f)[8][j]
  <2>1. 8 - 8 = 0 /\ Size(0) = 1 /\ j \div 1 = j
    BY RunSizes
  <2>2. Runs(Tower(f)[8], x)[0] = Tower(f)[8]
    BY <1>1, RunsAre
  <2> QED BY <2>1, <2>2
<1>7. V(0) = Runs(f, Point(j))[8][0]
  <2>1. 8 - 0 = 8 /\ Size(8) = 256 /\ j \div 256 = 0
    BY RunSizes
  <2> QED BY <2>1, TowerIs
<1> HIDE DEF V
<1> QED BY <1>5, <1>6, <1>7

(* The layers of the inverse, scaled, have the values of what they are     *)
(* given: they undo the transform.                                         *)
LEMMA InvTowerValue ==
  ASSUME NEW f \in Ints, NEW j \in 0 .. 255
  PROVE  /\ Runs(InvTower(f)[8], Point(j))[8][0] \in Int
         /\ Same(Runs(InvTower(f)[8], Point(j))[8][0], 256 * f[j])
<1> DEFINE x == Point(j)
           V(k) == Runs(InvTower(f)[k], x)[k][j \div Size(k)]
           T == {k \in Nat : k <= 8 => Same(V(k), Size(k) * f[j])}
<1>1. x \in Int /\ (\A k \in 0 .. 8 : InvTower(f)[k] \in Ints) /\ f[j] \in Int
  BY PointIs, InvTowerIs DEF Ints
<1>2. \A k \in 0 .. 8 : V(k) \in Int
  BY <1>1, RunInside, RunsInt
<1>3. 0 \in T
  <2>1. Size(0) = 1 /\ j \div 1 = j
    BY RunSizes
  <2>2. V(0) = f[j]
    <3>1. Runs(f, x)[0] = f
      BY <1>1, RunsAre
    <3> QED BY <2>1, <3>1, InvTowerIs
  <2>3. Size(0) * f[j] = f[j]
    BY <1>1, <2>1
  <2> HIDE DEF V
  <2> QED BY <1>1, <2>2, <2>3, SameRefl
<1>4. ASSUME NEW k \in Nat, k \in T PROVE k + 1 \in T
  <2> SUFFICES ASSUME k + 1 <= 8 PROVE Same(V(k + 1), Size(k + 1) * f[j])
    OBVIOUS
  <2>1. k \in 0 .. 7 /\ k \in 0 .. 8 /\ k + 1 \in 0 .. 8
    BY <1>4
  <2>2. Same(V(k), Size(k) * f[j]) /\ V(k) \in Int /\ V(k + 1) \in Int
    <3> HIDE DEF V
    <3> QED BY <1>2, <1>4, <2>1
  <2>3. Same(V(k + 1), 2 * V(k))
    <3> DEFINE g == InvTower(f)[k]
    <3>1. g \in Ints /\ InvTower(f)[k + 1] = InvStage(k, g)
      BY <2>1, InvTowerIs
    <3> HIDE DEF g
    <3>2. Same(Runs(InvStage(k, g), Point(j))[k + 1][j \div Size(k + 1)], 2 * Runs(g, Point(j))[k][j \div Size(k)])
      BY ONLY <2>1, <3>1, j \in 0 .. 255, InvStageRuns
    <3> QED BY <3>1, <3>2 DEF g
  <2>4. Size(k + 1) = 2 * Size(k) /\ Size(k) \in Nat
    BY <2>1, RunSizes
  <2> HIDE DEF V
  <2> DEFINE v == V(k)  w == V(k + 1)  s == Size(k)  y == f[j]
  <2>5. /\ v \in Int /\ w \in Int /\ s \in Int /\ y \in Int /\ Same(v, s * y) /\ Same(w, 2 * v)
        /\ Size(k + 1) * f[j] = (2 * s) * y
    BY <1>1, <2>2, <2>3, <2>4
  <2> HIDE DEF v, w, s, y
  <2>6. s * y \in Int /\ 2 * v \in Int /\ 2 * (s * y) \in Int /\ (2 * s) * y = 2 * (s * y)
    BY ONLY <2>5
  <2>7. Same(2 * v, 2 * (s * y))
    BY ONLY <2>5, <2>6, 2 \in Int, SameTimes
  <2>8. Same(w, 2 * (s * y))
    BY ONLY <2>5, <2>6, <2>7, SameTrans
  <2> QED BY <2>5, <2>6, <2>8 DEF w
<1>5. Same(V(8), Size(8) * f[j]) /\ V(8) \in Int
  <2> HIDE DEF V, T
  <2>1. Nat \subseteq T
    BY <1>3, <1>4, Induction
  <2>2. 8 \in T
    BY <2>1
  <2> QED BY <1>2, <2>2 DEF T
<1>6. Size(8) = 256 /\ j \div 256 = 0
  BY RunSizes
<1> QED BY <1>5, <1>6

LEMMA ScaledValue ==
  ASSUME NEW f \in Ints, NEW g \in Ints, NEW j \in 0 .. 255,
         \A n \in 0 .. 255 : Same(g[n], NINV * InvTower(f)[8][n])
  PROVE  Runs(g, Point(j))[8][0] \in Int /\ Same(Runs(g, Point(j))[8][0], f[j])
<1> DEFINE x == Point(j)
           u == InvTower(f)[8]
           v == Runs(u, x)[8][0]
           w == Runs(g, x)[8][0]
           y == f[j]
<1>1. x \in Int /\ u \in Ints /\ y \in Int
  <2>1. x \in Int
    BY ONLY j \in 0 .. 255, PointIs
  <2>2. u \in Ints
    <3>1. \A k \in 0 .. 8 : InvTower(f)[k] \in Ints
      BY ONLY f \in Ints, InvTowerIs
    <3> QED BY ONLY <3>1
  <2>3. y \in Int
    BY ONLY f \in Ints, j \in 0 .. 255 DEF Ints
  <2> QED BY ONLY <2>1, <2>2, <2>3
<1>2. NINV \in Int /\ (256 * NINV) % Q = 1
  <2>1. NINV \in 0 .. Q - 1 /\ (256 * NINV) % Q = 1
    BY InvNttAssumption, Zenon
  <2> QED BY ONLY <2>1, QNat
<1>3. Same(256 * NINV, 1) /\ 256 * NINV \in Int
  <2>1. 256 * NINV \in Int
    BY ONLY <1>2
  <2> QED BY ONLY <1>2, <2>1, SameMod
<1>4. v \in Int /\ Same(v, 256 * y)
  BY InvTowerValue
<1>5. w \in Int
  <2>1. Fits(0, Size(8)) /\ 8 \in 0 .. 8
    BY ONLY RunSizes DEF Fits
  <2> HIDE DEF x
  <2> QED BY ONLY <1>1, <2>1, g \in Ints, RunsInt
<1>6. Same(w, NINV * v + 0 * v)
  <2>1. Fits(0, Size(8)) /\ 8 \in 0 .. 8 /\ 0 \in Int
    BY ONLY RunSizes DEF Fits
  <2>2. Combines(g, 0, u, 0, NINV, 0, 0, Size(8))
    <3> SUFFICES ASSUME NEW o \in 0 .. Size(8) - 1
                 PROVE  Same(g[0 * Size(8) + o], NINV * u[0 * Size(8) + o] + 0 * u[0 * Size(8) + o])
      BY DEF Combines
    <3>1. 0 * Size(8) + o = o /\ o \in 0 .. 255
      BY ONLY o \in 0 .. Size(8) - 1, RunSizes
    <3>2. u[o] \in Int
      BY <1>1, <3>1 DEF Ints
    <3> HIDE DEF u
    <3> DEFINE a == u[o]
    <3>3. NINV * a + 0 * a = NINV * a
      <4> HIDE DEF a
      <4> QED BY ONLY <1>2, <3>2 DEF a
    <3>4. Same(g[o], NINV * a)
      BY <3>1 DEF u
    <3> QED BY ONLY <3>1, <3>3, <3>4
  <2> HIDE DEF x, u
  <2> QED BY ONLY <1>1, <1>2, <2>1, <2>2, g \in Ints, RunLinear
<1> HIDE DEF x, u, v, w, y
<1>7. /\ NINV * v + 0 * v = NINV * v /\ NINV * v \in Int /\ NINV * (256 * y) \in Int /\ 256 * y \in Int
      /\ NINV * (256 * y) = (256 * NINV) * y /\ 1 * y = y
  BY ONLY <1>1, <1>2, <1>4
<1>8. Same(NINV * v, NINV * (256 * y))
  BY ONLY <1>2, <1>4, <1>7, SameTimes
<1>9. Same((256 * NINV) * y, y)
  <2> DEFINE k == 256 * NINV
  <2> HIDE DEF k
  <2>1. Same(k * y, 1 * y)
    <3>1. k \in Int /\ Same(k, 1) /\ y \in Int /\ 1 \in Int
      BY ONLY <1>1, <1>3 DEF k
    <3> QED BY ONLY <3>1, SameTimes
  <2> QED BY <1>7, <2>1 DEF k
<1>10. Same(NINV * v, y)
  BY ONLY <1>1, <1>7, <1>8, <1>9, SameTrans
<1>11. Same(w, y)
  BY ONLY <1>1, <1>5, <1>6, <1>7, <1>10, SameTrans
<1> QED BY <1>5, <1>11 DEF w, x, y

-----------------------------------------------------------------------------
(* What the lazy lanes stand for: a layer on lanes that are congruent to    *)
(* coefficients leaves lanes congruent to the layer on the coefficients.   *)
LEMMA SameOffset ==
  ASSUME NEW a \in Int, NEW b \in Int, NEW o \in Int, Same(a, b), Same(o, 0)
  PROVE  Same(a + o, b) /\ Same(a - o, b)
<1>1. Same(a + o, b + 0) /\ Same(a - o, b - 0)
  BY ONLY a \in Int, b \in Int, o \in Int, Same(a, b), Same(o, 0), 0 \in Int, SamePlus
<1>2. b + 0 = b /\ b - 0 = b
  OBVIOUS
<1> QED BY ONLY <1>1, <1>2

LEMMA MultiplesAreZero ==
  ASSUME NEW k \in Int
  PROVE  k * Q \in Int /\ Same(k * Q, 0)
<1>1. k * Q = 0 + Q * k /\ k * Q \in Int
  BY QNat
<1> QED BY ONLY <1>1, k \in Int DEF Same

LEMMA SlackIsZero ==
  ASSUME SlackOK, NEW l \in Lanes
  PROVE  slack[l] \in Int /\ Same(slack[l], 0)
<1>1. slack[l] = 0 * Q \/ slack[l] = 1 * Q
  BY QNat DEF SlackOK
<1>2. 0 \in Int /\ 1 \in Int
  OBVIOUS
<1> QED BY ONLY <1>1, <1>2, MultiplesAreZero

LEMMA SameMulmods ==
  ASSUME NEW y \in Int, NEW f \in Int, NEW s \in Int, Same(y, f)
  PROVE  Mulmod(y, s) \in Int /\ Same(Mulmod(y, s), s * f)
<1>1. y * s \in Int /\ f * s \in Int /\ f * s = s * f
  OBVIOUS
<1>2. Mulmod(y, s) \in Int /\ Same(Mulmod(y, s), y * s)
  BY ONLY y \in Int, s \in Int, SameMulmod
<1>3. Same(y * s, f * s)
  BY ONLY y \in Int, f \in Int, s \in Int, Same(y, f), SameTimes
<1>4. Same(Mulmod(y, s), f * s)
  BY ONLY <1>1, <1>2, <1>3, SameTrans
<1> QED BY ONLY <1>1, <1>2, <1>4

LEMMA LanesForward ==
  ASSUME NEW u \in Int, NEW y \in Int, NEW s \in Int, NEW f0 \in Int, NEW f1 \in Int, NEW o \in Int,
         Same(u, f0), Same(y, f1), Same(o, 0)
  PROVE  /\ u + (Mulmod(y, s) + o) \in Int /\ u + 2 * Q - (Mulmod(y, s) + o) \in Int
         /\ Same(u + (Mulmod(y, s) + o), f0 + s * f1)
         /\ Same(u + 2 * Q - (Mulmod(y, s) + o), f0 - s * f1)
<1> DEFINE v == Mulmod(y, s)
           g == s * f1
           q == 2 * Q
<1>1. v \in Int /\ Same(v, g)
  BY ONLY y \in Int, f1 \in Int, s \in Int, Same(y, f1), SameMulmods
<1>2. g \in Int /\ q \in Int /\ Same(q, 0)
  BY ONLY s \in Int, f1 \in Int, 2 \in Int, MultiplesAreZero
<1> HIDE DEF v, g, q
<1>3. v + o \in Int /\ u + q \in Int
  BY <1>1, <1>2
<1>4. Same(v + o, g)
  BY ONLY <1>1, <1>2, o \in Int, Same(o, 0), SameOffset
<1>5. Same(u + q, f0)
  BY ONLY <1>2, u \in Int, f0 \in Int, Same(u, f0), SameOffset
<1>6. Same(u + (v + o), f0 + g) /\ Same((u + q) - (v + o), f0 - g)
  BY ONLY <1>2, <1>3, <1>4, <1>5, u \in Int, f0 \in Int, Same(u, f0), SamePlus
<1>7. (u + q) - (v + o) = u + q - (v + o)
  BY ONLY <1>3, u \in Int, <1>2
<1>8. u + (v + o) \in Int /\ u + q - (v + o) \in Int
  BY ONLY <1>2, <1>3, u \in Int
<1> QED BY <1>6, <1>7, <1>8 DEF v, g, q

LEMMA LanesInverse ==
  ASSUME NEW u \in Int, NEW v \in Int, NEW s \in Int, NEW f0 \in Int, NEW f1 \in Int, NEW q \in Int,
         Same(u, f0), Same(v, f1), Same(q, 0)
  PROVE  /\ Same(u + v, f0 + f1)
         /\ Mulmod(u + q - v, s) \in Int
         /\ Same(Mulmod(u + q - v, s), s * (f0 - f1))
<1>1. Same(u + v, f0 + f1)
  BY ONLY u \in Int, v \in Int, f0 \in Int, f1 \in Int, Same(u, f0), Same(v, f1), SamePlus
<1>2. Same(u + q, f0) /\ u + q \in Int
  BY ONLY u \in Int, f0 \in Int, q \in Int, Same(u, f0), Same(q, 0), SameOffset
<1>3. Same((u + q) - v, f0 - f1)
  BY ONLY <1>2, v \in Int, f0 \in Int, f1 \in Int, Same(v, f1), SamePlus
<1>4. (u + q) - v \in Int /\ f0 - f1 \in Int
  BY ONLY <1>2, v \in Int, f0 \in Int, f1 \in Int
<1>5. /\ Mulmod((u + q) - v, s) \in Int
      /\ Same(Mulmod((u + q) - v, s), s * (f0 - f1))
  BY ONLY <1>3, <1>4, s \in Int, SameMulmods
<1> QED BY ONLY <1>1, <1>5

(* The coefficient in lane l of word w. *)
At(w, l) == 4 * w + (l - 1)

LEMMA AtIs ==
  ASSUME NEW w \in Words, NEW l \in Lanes
  PROVE  At(w, l) \in 0 .. 255 /\ At(w, l) \div 4 = w /\ (At(w, l) % 4) + 1 = l
  BY DEF At, Words, Lanes

(* Words t apart are coefficients 2^e apart, with the same table entry. *)
Strided(t, e) == \/ t = 1 /\ e = 2
                 \/ t = 2 /\ e = 3
                 \/ t = 4 /\ e = 4
                 \/ t = 8 /\ e = 5
                 \/ t = 16 /\ e = 6
                 \/ t = 32 /\ e = 7

LEMMA StridedIs ==
  ASSUME NEW t, NEW e, Strided(t, e), NEW w \in Words, NEW l \in Lanes
  PROVE  /\ e \in 0 .. 7 /\ t \in Strides
         /\ IsLow(w, t) <=> (At(w, l) \div Size(e)) % 2 = 0
         /\ TwiddleIndex(w, t) = Size(7 - e) + At(w, l) \div Size(e + 1)
         /\ At(w + t, l) = At(w, l) + Size(e) /\ At(w - t, l) = At(w, l) - Size(e)
<1> DEFINE n == At(w, l)
           P(a, b, c, d) == /\ (w \div a) % 2 = 0 <=> (n \div b) % 2 = 0
                            /\ (32 \div a) + w \div (2 * a) = c + n \div d
                            /\ 4 * (w + a) + (l - 1) = n + b /\ 4 * (w - a) + (l - 1) = n - b
<1>1. P(1, 4, 32, 8)
  BY DEF At, Words, Lanes
<1>2. P(2, 8, 16, 16)
  BY DEF At, Words, Lanes
<1>3. P(4, 16, 8, 32)
  BY DEF At, Words, Lanes
<1>4. P(8, 32, 4, 64)
  BY DEF At, Words, Lanes
<1>5. P(16, 64, 2, 128)
  BY DEF At, Words, Lanes
<1>6. P(32, 128, 1, 256)
  BY DEF At, Words, Lanes
<1> HIDE DEF P
<1>7. /\ e \in 0 .. 7 /\ t \in Strides
      /\ P(t, Size(e), Size(7 - e), Size(e + 1))
  <2>1. Strided(t, e)
    OBVIOUS
  <2> QED BY ONLY <1>1, <1>2, <1>3, <1>4, <1>5, <1>6, <2>1 DEF Strided, Strides, Size
<1> QED BY <1>7 DEF P, IsLow, TwiddleIndex, At

StandsFor(m, w, l, f) == m[w][l] \in Int /\ Same(m[w][l], f[At(w, l)])

LEMMA ForwardLayerValue ==
  ASSUME SlackOK, NEW f \in Ints, NEW t, NEW e, Strided(t, e),
         NEW m, NEW octet, octet \subseteq Words, NEW w \in octet, NEW l \in Lanes,
         Partner(w, t) \in Words, StandsFor(m, w, l, f), StandsFor(m, Partner(w, t), l, f)
  PROVE  StandsFor(ForwardLayer(m, octet, t, slack), w, l, Stage(e, f))
<1> DEFINE n == At(w, l)
           s == Twiddle(e, n)
           o == slack[l]
<1>1. w \in Words /\ e \in 0 .. 7 /\ n \in 0 .. 255 /\ (IsLow(w, t) <=> (n \div Size(e)) % 2 = 0)
      /\ FwT[TwiddleIndex(w, t)] = s
      /\ At(w + t, l) = n + Size(e) /\ At(w - t, l) = n - Size(e)
  BY StridedIs, AtIs DEF Twiddle
<1>2. s \in Int
  BY <1>1, UntwiddleInverts
<1>3. o \in Int /\ Same(o, 0)
  BY SlackIsZero
<1>4. \A j \in 0 .. 255 : f[j] \in Int
  BY DEF Ints
<1>5. Stage(e, f)[n] = IF (n \div Size(e)) % 2 = 0 THEN f[n] + s * f[n + Size(e)] ELSE f[n - Size(e)] - s * f[n]
  BY <1>1 DEF Stage
<1>6. ForwardLayer(m, octet, t, slack)[w] =
        IF IsLow(w, t) THEN Plus(m[w], Twiddled(m[w + t], s, slack))
        ELSE Minus(m[w - t], 2 * Q, Twiddled(m[w], s, slack))
  <2> HIDE DEF s
  <2> QED BY <1>1 DEF ForwardLayer
<1> HIDE DEF n, s, o
<1>7. CASE IsLow(w, t)
  <2>1. ForwardLayer(m, octet, t, slack)[w][l] = m[w][l] + (Mulmod(m[w + t][l], s) + o)
    BY <1>6, <1>7 DEF Plus, Twiddled, o
  <2>2. Stage(e, f)[n] = f[n] + s * f[n + Size(e)]
    BY <1>1, <1>5, <1>7
  <2>3. Partner(w, t) = w + t
    BY <1>7 DEF Partner
  <2> DEFINE u == m[w][l]  y == m[w + t][l]  f0 == f[n]  f1 == f[n + Size(e)]
  <2>4. u \in Int /\ y \in Int /\ Same(u, f0) /\ Same(y, f1)
    BY <1>1, <2>3 DEF StandsFor, n
  <2>5. f0 \in Int /\ f1 \in Int
    <3>1. n + Size(e) \in 0 .. 255
      <4>1. At(w + t, l) \in 0 .. 255
        BY <2>3, AtIs
      <4> QED BY <1>1, <4>1
    <3> QED BY <1>1, <1>4, <3>1
  <2> HIDE DEF u, y, f0, f1
  <2>6. Same(u + (Mulmod(y, s) + o), f0 + s * f1) /\ u + (Mulmod(y, s) + o) \in Int
    BY ONLY <1>2, <1>3, <2>4, <2>5, LanesForward
  <2> QED BY <2>1, <2>2, <2>6 DEF u, y, f0, f1, n, StandsFor
<1>8. CASE ~ IsLow(w, t)
  <2>1. ForwardLayer(m, octet, t, slack)[w][l] = m[w - t][l] + 2 * Q - (Mulmod(m[w][l], s) + o)
    BY <1>6, <1>8 DEF Minus, Twiddled, o
  <2>2. Stage(e, f)[n] = f[n - Size(e)] - s * f[n]
    BY <1>1, <1>5, <1>8
  <2>3. Partner(w, t) = w - t
    BY <1>8 DEF Partner
  <2> DEFINE u == m[w - t][l]  y == m[w][l]  f0 == f[n - Size(e)]  f1 == f[n]
  <2>4. u \in Int /\ y \in Int /\ Same(u, f0) /\ Same(y, f1)
    BY <1>1, <2>3 DEF StandsFor, n
  <2>5. f0 \in Int /\ f1 \in Int
    <3>1. n - Size(e) \in 0 .. 255
      <4>1. At(w - t, l) \in 0 .. 255
        BY <2>3, AtIs
      <4> QED BY <1>1, <4>1
    <3> QED BY <1>1, <1>4, <3>1
  <2> HIDE DEF u, y, f0, f1
  <2>6. Same(u + 2 * Q - (Mulmod(y, s) + o), f0 - s * f1) /\ u + 2 * Q - (Mulmod(y, s) + o) \in Int
    BY ONLY <1>2, <1>3, <2>4, <2>5, LanesForward
  <2> QED BY <2>1, <2>2, <2>6 DEF u, y, f0, f1, n, StandsFor
<1> QED BY <1>7, <1>8 DEF n

(* Layers 7 and 8, inside a word. *)
LEMMA LanesInWord ==
  ASSUME NEW u \in Int, NEW y \in Int, NEW s \in Int, NEW f0 \in Int, NEW f1 \in Int,
         Same(u, f0), Same(y, f1)
  PROVE  /\ Mulmod(y, s) \in Int
         /\ Same(u + Mulmod(y, s), f0 + s * f1)
         /\ Same(u + 2 * Q - Mulmod(y, s), f0 - s * f1)
<1>1. Mulmod(y, s) \in Int
  BY ONLY y \in Int, s \in Int, SameMulmod
<1>2. 0 \in Int /\ Same(0, 0) /\ Mulmod(y, s) + 0 = Mulmod(y, s)
  BY ONLY <1>1, SameRefl
<1>3. /\ Same(u + (Mulmod(y, s) + 0), f0 + s * f1)
      /\ Same(u + 2 * Q - (Mulmod(y, s) + 0), f0 - s * f1)
  BY ONLY <1>2, u \in Int, y \in Int, s \in Int, f0 \in Int, f1 \in Int, Same(u, f0), Same(y, f1), LanesForward
<1> QED BY ONLY <1>1, <1>2, <1>3

LEMMA StagesInWord ==
  ASSUME NEW f \in Ints, NEW w \in Words
  PROVE  /\ Stage(1, f)[4 * w] = f[4 * w] + FwT[64 + w] * f[4 * w + 2]
         /\ Stage(1, f)[4 * w + 1] = f[4 * w + 1] + FwT[64 + w] * f[4 * w + 3]
         /\ Stage(1, f)[4 * w + 2] = f[4 * w] - FwT[64 + w] * f[4 * w + 2]
         /\ Stage(1, f)[4 * w + 3] = f[4 * w + 1] - FwT[64 + w] * f[4 * w + 3]
         /\ Stage(0, f)[4 * w] = f[4 * w] + FwT[128 + 2 * w] * f[4 * w + 1]
         /\ Stage(0, f)[4 * w + 1] = f[4 * w] - FwT[128 + 2 * w] * f[4 * w + 1]
         /\ Stage(0, f)[4 * w + 2] = f[4 * w + 2] + FwT[129 + 2 * w] * f[4 * w + 3]
         /\ Stage(0, f)[4 * w + 3] = f[4 * w + 2] - FwT[129 + 2 * w] * f[4 * w + 3]
         /\ InvStage(0, f)[4 * w] = f[4 * w] + f[4 * w + 1]
         /\ InvStage(0, f)[4 * w + 1] = InvT[128 + 2 * w] * (f[4 * w] - f[4 * w + 1])
         /\ InvStage(0, f)[4 * w + 2] = f[4 * w + 2] + f[4 * w + 3]
         /\ InvStage(0, f)[4 * w + 3] = InvT[129 + 2 * w] * (f[4 * w + 2] - f[4 * w + 3])
         /\ InvStage(1, f)[4 * w] = f[4 * w] + f[4 * w + 2]
         /\ InvStage(1, f)[4 * w + 1] = f[4 * w + 1] + f[4 * w + 3]
         /\ InvStage(1, f)[4 * w + 2] = InvT[64 + w] * (f[4 * w] - f[4 * w + 2])
         /\ InvStage(1, f)[4 * w + 3] = InvT[64 + w] * (f[4 * w + 1] - f[4 * w + 3])
<1> DEFINE a == 4 * w  b == 4 * w + 1  c == 4 * w + 2  d == 4 * w + 3
<1>1. Size(0) = 1 /\ Size(1) = 2 /\ Size(2) = 4 /\ Size(7) = 128 /\ Size(6) = 64
      /\ 7 - 0 = 7 /\ 7 - 1 = 6 /\ 0 + 1 = 1 /\ 1 + 1 = 2
  BY ONLY TRUE DEF Size
<1>2. /\ a \in 0 .. 255 /\ b \in 0 .. 255 /\ c \in 0 .. 255 /\ d \in 0 .. 255
      /\ a + 1 = b /\ b - 1 = a /\ c + 1 = d /\ d - 1 = c
      /\ a + 2 = c /\ b + 2 = d /\ c - 2 = a /\ d - 2 = b
  BY ONLY w \in Words DEF Words
<1>3. /\ (a \div 1) % 2 = 0 /\ (b \div 1) % 2 = 1 /\ (c \div 1) % 2 = 0 /\ (d \div 1) % 2 = 1
      /\ (a \div 2) % 2 = 0 /\ (b \div 2) % 2 = 0 /\ (c \div 2) % 2 = 1 /\ (d \div 2) % 2 = 1
  BY ONLY w \in Words DEF Words
<1>4. /\ 128 + a \div 2 = 128 + 2 * w /\ 128 + b \div 2 = 128 + 2 * w
      /\ 128 + c \div 2 = 129 + 2 * w /\ 128 + d \div 2 = 129 + 2 * w
      /\ 64 + a \div 4 = 64 + w /\ 64 + b \div 4 = 64 + w /\ 64 + c \div 4 = 64 + w /\ 64 + d \div 4 = 64 + w
  BY ONLY w \in Words DEF Words
<1>5. \A n \in 0 .. 255 :
        /\ Stage(0, f)[n] = IF (n \div 1) % 2 = 0 THEN f[n] + FwT[128 + n \div 2] * f[n + 1]
                            ELSE f[n - 1] - FwT[128 + n \div 2] * f[n]
        /\ Stage(1, f)[n] = IF (n \div 2) % 2 = 0 THEN f[n] + FwT[64 + n \div 4] * f[n + 2]
                            ELSE f[n - 2] - FwT[64 + n \div 4] * f[n]
        /\ InvStage(0, f)[n] = IF (n \div 1) % 2 = 0 THEN f[n] + f[n + 1]
                               ELSE InvT[128 + n \div 2] * (f[n - 1] - f[n])
        /\ InvStage(1, f)[n] = IF (n \div 2) % 2 = 0 THEN f[n] + f[n + 2]
                               ELSE InvT[64 + n \div 4] * (f[n - 2] - f[n])
  <2>1. ASSUME NEW n \in 0 .. 255
        PROVE  Stage(0, f)[n] = IF (n \div 1) % 2 = 0 THEN f[n] + FwT[128 + n \div 2] * f[n + 1]
                                ELSE f[n - 1] - FwT[128 + n \div 2] * f[n]
    BY ONLY <1>1, n \in 0 .. 255, Zenon DEF Stage, Twiddle
  <2>2. ASSUME NEW n \in 0 .. 255
        PROVE  Stage(1, f)[n] = IF (n \div 2) % 2 = 0 THEN f[n] + FwT[64 + n \div 4] * f[n + 2]
                                ELSE f[n - 2] - FwT[64 + n \div 4] * f[n]
    BY ONLY <1>1, n \in 0 .. 255, Zenon DEF Stage, Twiddle
  <2>3. ASSUME NEW n \in 0 .. 255
        PROVE  InvStage(0, f)[n] = IF (n \div 1) % 2 = 0 THEN f[n] + f[n + 1]
                                   ELSE InvT[128 + n \div 2] * (f[n - 1] - f[n])
    BY ONLY <1>1, n \in 0 .. 255, Zenon DEF InvStage, Untwiddle
  <2>4. ASSUME NEW n \in 0 .. 255
        PROVE  InvStage(1, f)[n] = IF (n \div 2) % 2 = 0 THEN f[n] + f[n + 2]
                                   ELSE InvT[64 + n \div 4] * (f[n - 2] - f[n])
    BY ONLY <1>1, n \in 0 .. 255, Zenon DEF InvStage, Untwiddle
  <2> QED BY ONLY <2>1, <2>2, <2>3, <2>4, Zenon
<1> HIDE DEF a, b, c, d
<1>6. /\ Stage(0, f)[a] = f[a] + FwT[128 + 2 * w] * f[b]
      /\ Stage(1, f)[a] = f[a] + FwT[64 + w] * f[c]
      /\ InvStage(0, f)[a] = f[a] + f[b]
      /\ InvStage(1, f)[a] = f[a] + f[c]
  <2>1. Stage(0, f)[a] = f[a] + FwT[128 + 2 * w] * f[b]
    <3>1. Stage(0, f)[a] = IF (a \div 1) % 2 = 0 THEN f[a] + FwT[128 + a \div 2] * f[a + 1]
                                   ELSE f[a - 1] - FwT[128 + a \div 2] * f[a]
      BY ONLY <1>2, <1>5, Zenon
    <3> QED BY ONLY <3>1, <1>2, <1>3, <1>4
  <2>2. Stage(1, f)[a] = f[a] + FwT[64 + w] * f[c]
    <3>1. Stage(1, f)[a] = IF (a \div 2) % 2 = 0 THEN f[a] + FwT[64 + a \div 4] * f[a + 2]
                                   ELSE f[a - 2] - FwT[64 + a \div 4] * f[a]
      BY ONLY <1>2, <1>5, Zenon
    <3> QED BY ONLY <3>1, <1>2, <1>3, <1>4
  <2>3. InvStage(0, f)[a] = f[a] + f[b]
    <3>1. InvStage(0, f)[a] = IF (a \div 1) % 2 = 0 THEN f[a] + f[a + 1]
                                      ELSE InvT[128 + a \div 2] * (f[a - 1] - f[a])
      BY ONLY <1>2, <1>5, Zenon
    <3> QED BY ONLY <3>1, <1>2, <1>3, <1>4
  <2>4. InvStage(1, f)[a] = f[a] + f[c]
    <3>1. InvStage(1, f)[a] = IF (a \div 2) % 2 = 0 THEN f[a] + f[a + 2]
                                      ELSE InvT[64 + a \div 4] * (f[a - 2] - f[a])
      BY ONLY <1>2, <1>5, Zenon
    <3> QED BY ONLY <3>1, <1>2, <1>3, <1>4
  <2> QED BY ONLY <2>1, <2>2, <2>3, <2>4
<1>7. /\ Stage(0, f)[b] = f[a] - FwT[128 + 2 * w] * f[b]
      /\ Stage(1, f)[b] = f[b] + FwT[64 + w] * f[d]
      /\ InvStage(0, f)[b] = InvT[128 + 2 * w] * (f[a] - f[b])
      /\ InvStage(1, f)[b] = f[b] + f[d]
  <2>1. Stage(0, f)[b] = f[a] - FwT[128 + 2 * w] * f[b]
    <3>1. Stage(0, f)[b] = IF (b \div 1) % 2 = 0 THEN f[b] + FwT[128 + b \div 2] * f[b + 1]
                                   ELSE f[b - 1] - FwT[128 + b \div 2] * f[b]
      BY ONLY <1>2, <1>5, Zenon
    <3> QED BY ONLY <3>1, <1>2, <1>3, <1>4
  <2>2. Stage(1, f)[b] = f[b] + FwT[64 + w] * f[d]
    <3>1. Stage(1, f)[b] = IF (b \div 2) % 2 = 0 THEN f[b] + FwT[64 + b \div 4] * f[b + 2]
                                   ELSE f[b - 2] - FwT[64 + b \div 4] * f[b]
      BY ONLY <1>2, <1>5, Zenon
    <3> QED BY ONLY <3>1, <1>2, <1>3, <1>4
  <2>3. InvStage(0, f)[b] = InvT[128 + 2 * w] * (f[a] - f[b])
    <3>1. InvStage(0, f)[b] = IF (b \div 1) % 2 = 0 THEN f[b] + f[b + 1]
                                      ELSE InvT[128 + b \div 2] * (f[b - 1] - f[b])
      BY ONLY <1>2, <1>5, Zenon
    <3> QED BY ONLY <3>1, <1>2, <1>3, <1>4
  <2>4. InvStage(1, f)[b] = f[b] + f[d]
    <3>1. InvStage(1, f)[b] = IF (b \div 2) % 2 = 0 THEN f[b] + f[b + 2]
                                      ELSE InvT[64 + b \div 4] * (f[b - 2] - f[b])
      BY ONLY <1>2, <1>5, Zenon
    <3> QED BY ONLY <3>1, <1>2, <1>3, <1>4
  <2> QED BY ONLY <2>1, <2>2, <2>3, <2>4
<1>8. /\ Stage(0, f)[c] = f[c] + FwT[129 + 2 * w] * f[d]
      /\ Stage(1, f)[c] = f[a] - FwT[64 + w] * f[c]
      /\ InvStage(0, f)[c] = f[c] + f[d]
      /\ InvStage(1, f)[c] = InvT[64 + w] * (f[a] - f[c])
  <2>1. Stage(0, f)[c] = f[c] + FwT[129 + 2 * w] * f[d]
    <3>1. Stage(0, f)[c] = IF (c \div 1) % 2 = 0 THEN f[c] + FwT[128 + c \div 2] * f[c + 1]
                                   ELSE f[c - 1] - FwT[128 + c \div 2] * f[c]
      BY ONLY <1>2, <1>5, Zenon
    <3> QED BY ONLY <3>1, <1>2, <1>3, <1>4
  <2>2. Stage(1, f)[c] = f[a] - FwT[64 + w] * f[c]
    <3>1. Stage(1, f)[c] = IF (c \div 2) % 2 = 0 THEN f[c] + FwT[64 + c \div 4] * f[c + 2]
                                   ELSE f[c - 2] - FwT[64 + c \div 4] * f[c]
      BY ONLY <1>2, <1>5, Zenon
    <3> QED BY ONLY <3>1, <1>2, <1>3, <1>4
  <2>3. InvStage(0, f)[c] = f[c] + f[d]
    <3>1. InvStage(0, f)[c] = IF (c \div 1) % 2 = 0 THEN f[c] + f[c + 1]
                                      ELSE InvT[128 + c \div 2] * (f[c - 1] - f[c])
      BY ONLY <1>2, <1>5, Zenon
    <3> QED BY ONLY <3>1, <1>2, <1>3, <1>4
  <2>4. InvStage(1, f)[c] = InvT[64 + w] * (f[a] - f[c])
    <3>1. InvStage(1, f)[c] = IF (c \div 2) % 2 = 0 THEN f[c] + f[c + 2]
                                      ELSE InvT[64 + c \div 4] * (f[c - 2] - f[c])
      BY ONLY <1>2, <1>5, Zenon
    <3> QED BY ONLY <3>1, <1>2, <1>3, <1>4
  <2> QED BY ONLY <2>1, <2>2, <2>3, <2>4
<1>9. /\ Stage(0, f)[d] = f[c] - FwT[129 + 2 * w] * f[d]
      /\ Stage(1, f)[d] = f[b] - FwT[64 + w] * f[d]
      /\ InvStage(0, f)[d] = InvT[129 + 2 * w] * (f[c] - f[d])
      /\ InvStage(1, f)[d] = InvT[64 + w] * (f[b] - f[d])
  <2>1. Stage(0, f)[d] = f[c] - FwT[129 + 2 * w] * f[d]
    <3>1. Stage(0, f)[d] = IF (d \div 1) % 2 = 0 THEN f[d] + FwT[128 + d \div 2] * f[d + 1]
                                   ELSE f[d - 1] - FwT[128 + d \div 2] * f[d]
      BY ONLY <1>2, <1>5, Zenon
    <3> QED BY ONLY <3>1, <1>2, <1>3, <1>4
  <2>2. Stage(1, f)[d] = f[b] - FwT[64 + w] * f[d]
    <3>1. Stage(1, f)[d] = IF (d \div 2) % 2 = 0 THEN f[d] + FwT[64 + d \div 4] * f[d + 2]
                                   ELSE f[d - 2] - FwT[64 + d \div 4] * f[d]
      BY ONLY <1>2, <1>5, Zenon
    <3> QED BY ONLY <3>1, <1>2, <1>3, <1>4
  <2>3. InvStage(0, f)[d] = InvT[129 + 2 * w] * (f[c] - f[d])
    <3>1. InvStage(0, f)[d] = IF (d \div 1) % 2 = 0 THEN f[d] + f[d + 1]
                                      ELSE InvT[128 + d \div 2] * (f[d - 1] - f[d])
      BY ONLY <1>2, <1>5, Zenon
    <3> QED BY ONLY <3>1, <1>2, <1>3, <1>4
  <2>4. InvStage(1, f)[d] = InvT[64 + w] * (f[b] - f[d])
    <3>1. InvStage(1, f)[d] = IF (d \div 2) % 2 = 0 THEN f[d] + f[d + 2]
                                      ELSE InvT[64 + d \div 4] * (f[d - 2] - f[d])
      BY ONLY <1>2, <1>5, Zenon
    <3> QED BY ONLY <3>1, <1>2, <1>3, <1>4
  <2> QED BY ONLY <2>1, <2>2, <2>3, <2>4
<1> QED BY <1>6, <1>7, <1>8, <1>9 DEF a, b, c, d

LEMMA LanesAt ==
  ASSUME NEW w \in Words
  PROVE  At(w, 1) = 4 * w /\ At(w, 2) = 4 * w + 1 /\ At(w, 3) = 4 * w + 2 /\ At(w, 4) = 4 * w + 3
  BY DEF At, Words

WordStandsFor(x, w, f) == \A l \in Lanes : x[l] \in Int /\ Same(x[l], f[At(w, l)])

(* The four lanes of a word. *)
LEMMA WordLanes ==
  ASSUME NEW w \in Words, NEW x, NEW f
  PROVE  WordStandsFor(x, w, f) <=>
           /\ x[1] \in Int /\ Same(x[1], f[4 * w]) /\ x[2] \in Int /\ Same(x[2], f[4 * w + 1])
           /\ x[3] \in Int /\ Same(x[3], f[4 * w + 2]) /\ x[4] \in Int /\ Same(x[4], f[4 * w + 3])
<1>1. \A l : l \in Lanes <=> l = 1 \/ l = 2 \/ l = 3 \/ l = 4
  BY DEF Lanes
<1>2. WordStandsFor(x, w, f) <=> /\ x[1] \in Int /\ Same(x[1], f[At(w, 1)])
                                 /\ x[2] \in Int /\ Same(x[2], f[At(w, 2)])
                                 /\ x[3] \in Int /\ Same(x[3], f[At(w, 3)])
                                 /\ x[4] \in Int /\ Same(x[4], f[At(w, 4)])
  BY ONLY <1>1, Zenon DEF WordStandsFor
<1> QED BY <1>2, LanesAt

LEMMA WordInts ==
  ASSUME NEW f \in Ints, NEW w \in Words
  PROVE  f[4 * w] \in Int /\ f[4 * w + 1] \in Int /\ f[4 * w + 2] \in Int /\ f[4 * w + 3] \in Int
<1>1. 4 * w \in 0 .. 255 /\ 4 * w + 1 \in 0 .. 255 /\ 4 * w + 2 \in 0 .. 255 /\ 4 * w + 3 \in 0 .. 255
  BY ONLY w \in Words DEF Words
<1> QED BY ONLY <1>1, f \in Ints DEF Ints

LEMMA ForwardWordValue ==
  ASSUME NEW f \in Ints, NEW w \in Words, NEW x, WordStandsFor(x, w, f)
  PROVE  WordStandsFor(ForwardWord(x, w), w, Stage(0, Stage(1, f)))
<1> DEFINE g == Stage(1, f)
           h == Stage(0, g)
           za == FwT[64 + w]  zb == FwT[128 + 2 * w]  zc == FwT[129 + 2 * w]
           v2 == Mulmod(x[3], za)
           v3 == Mulmod(x[4], za)
           l0 == x[1] + v2
           l2 == x[1] + 2 * Q - v2
           m1 == x[2] + v3
           m3 == x[2] + 2 * Q - v3
           ya == Mulmod(m1, zb)
           yb == Mulmod(m3, zc)
           f0 == f[4 * w]  f1 == f[4 * w + 1]  f2 == f[4 * w + 2]  f3 == f[4 * w + 3]
           g0 == g[4 * w]  g1 == g[4 * w + 1]  g2 == g[4 * w + 2]  g3 == g[4 * w + 3]
<1>1. za \in Int /\ zb \in Int /\ zc \in Int
  <2>1. 64 + w \in 0 .. 255 /\ 128 + 2 * w \in 0 .. 255 /\ 129 + 2 * w \in 0 .. 255
    BY DEF Words
  <2> QED BY ONLY <2>1, TableInt
<1>2. g \in Ints
  BY ONLY f \in Ints, 1 \in 0 .. 7, StagesInts
<1>3. /\ f0 \in Int /\ f1 \in Int /\ f2 \in Int /\ f3 \in Int
      /\ g0 \in Int /\ g1 \in Int /\ g2 \in Int /\ g3 \in Int
  BY ONLY <1>2, f \in Ints, w \in Words, WordInts
<1>4. /\ g0 = f0 + za * f2 /\ g1 = f1 + za * f3 /\ g2 = f0 - za * f2 /\ g3 = f1 - za * f3
  BY ONLY f \in Ints, w \in Words, StagesInWord
<1>5. /\ h[4 * w] = g0 + zb * g1 /\ h[4 * w + 1] = g0 - zb * g1
      /\ h[4 * w + 2] = g2 + zc * g3 /\ h[4 * w + 3] = g2 - zc * g3
  <2> HIDE DEF g
  <2> QED BY ONLY <1>2, w \in Words, StagesInWord
<1>6. /\ x[1] \in Int /\ Same(x[1], f0) /\ x[2] \in Int /\ Same(x[2], f1)
      /\ x[3] \in Int /\ Same(x[3], f2) /\ x[4] \in Int /\ Same(x[4], f3)
  BY ONLY WordStandsFor(x, w, f), w \in Words, WordLanes
<1>7. ForwardWord(x, w) = <<l0 + ya, l0 + 2 * Q - ya, l2 + yb, l2 + 2 * Q - yb>>
  BY DEF ForwardWord
<1> HIDE DEF h, za, zb, zc, f0, f1, f2, f3, g0, g1, g2, g3
<1>8. v2 \in Int /\ Same(x[1] + v2, f0 + za * f2) /\ Same(x[1] + 2 * Q - v2, f0 - za * f2)
  BY ONLY <1>1, <1>3, <1>6, LanesInWord
<1>9. v3 \in Int /\ Same(x[2] + v3, f1 + za * f3) /\ Same(x[2] + 2 * Q - v3, f1 - za * f3)
  BY ONLY <1>1, <1>3, <1>6, LanesInWord
<1> HIDE DEF v2, v3
<1>10. l0 \in Int /\ l2 \in Int /\ m1 \in Int /\ m3 \in Int
  BY ONLY <1>6, <1>8, <1>9, QNat
<1>11. Same(l0, g0) /\ Same(l2, g2) /\ Same(m1, g1) /\ Same(m3, g3)
  BY ONLY <1>4, <1>8, <1>9
<1> HIDE DEF l0, l2, m1, m3
<1>12. ya \in Int /\ Same(l0 + ya, g0 + zb * g1) /\ Same(l0 + 2 * Q - ya, g0 - zb * g1)
  BY ONLY <1>1, <1>3, <1>10, <1>11, LanesInWord
<1>13. yb \in Int /\ Same(l2 + yb, g2 + zc * g3) /\ Same(l2 + 2 * Q - yb, g2 - zc * g3)
  BY ONLY <1>1, <1>3, <1>10, <1>11, LanesInWord
<1> HIDE DEF ya, yb
<1>14. l0 + ya \in Int /\ l0 + 2 * Q - ya \in Int /\ l2 + yb \in Int /\ l2 + 2 * Q - yb \in Int
  BY ONLY <1>10, <1>12, <1>13, QNat
<1> DEFINE y == ForwardWord(x, w)
<1>15. y[1] = l0 + ya /\ y[2] = l0 + 2 * Q - ya /\ y[3] = l2 + yb /\ y[4] = l2 + 2 * Q - yb
  BY ONLY <1>7
<1> HIDE DEF y
<1>16. /\ y[1] \in Int /\ Same(y[1], h[4 * w]) /\ y[2] \in Int /\ Same(y[2], h[4 * w + 1])
       /\ y[3] \in Int /\ Same(y[3], h[4 * w + 2]) /\ y[4] \in Int /\ Same(y[4], h[4 * w + 3])
  BY ONLY <1>5, <1>12, <1>13, <1>14, <1>15
<1>17. WordStandsFor(y, w, h)
  BY ONLY <1>16, w \in Words, WordLanes
<1> QED BY <1>17 DEF y, h

LEMMA OffsetsAreZero ==
  /\ ACCQ30 \in Int /\ Same(ACCQ30, 0) /\ ACCQ31 \in Int /\ Same(ACCQ31, 0)
  /\ KQ28 \in Int /\ Same(KQ28, 0)
<1>1. ACCQ30 \in Int /\ ACCQ31 \in Int /\ ACCQ30 % Q = 0 /\ ACCQ31 % Q = 0
  <2>1. ACCQ30 \in Nat /\ ACCQ31 \in Nat /\ ACCQ30 % Q = 0 /\ ACCQ31 % Q = 0
    BY InvNttAssumption, Zenon
  <2> QED BY ONLY <2>1
<1>2. KQ28 \in Int /\ KQ28 % Q = 0
  <2>1. KQ28 \in Nat /\ KQ28 % Q = 0
    BY OffsetAssumption, Zenon
  <2> QED BY ONLY <2>1
<1> QED BY ONLY <1>1, <1>2, SameMultiple

(* Layers 1 and 2 of the inverse, inside a word. *)
LEMMA EntryWordValue ==
  ASSUME NEW f \in Ints, NEW w \in Words, NEW x, WordStandsFor(x, w, f)
  PROVE  WordStandsFor(EntryWord(x, w), w, InvStage(1, InvStage(0, f)))
<1> DEFINE g == InvStage(0, f)
           h == InvStage(1, g)
           za == InvT[64 + w]  zb == InvT[128 + 2 * w]  zc == InvT[129 + 2 * w]
           s01 == x[1] + x[2]
           s23 == x[3] + x[4]
           d01 == Mulmod(x[1] + ACCQ30 - x[2], zb)
           d23 == Mulmod(x[3] + ACCQ30 - x[4], zc)
           y3 == Mulmod(s01 + ACCQ31 - s23, za)
           y4 == Mulmod(d01 + 2 * Q - d23, za)
           f0 == f[4 * w]  f1 == f[4 * w + 1]  f2 == f[4 * w + 2]  f3 == f[4 * w + 3]
           g0 == g[4 * w]  g1 == g[4 * w + 1]  g2 == g[4 * w + 2]  g3 == g[4 * w + 3]
<1>1. za \in Int /\ zb \in Int /\ zc \in Int
  <2>1. 64 + w \in 0 .. 255 /\ 128 + 2 * w \in 0 .. 255 /\ 129 + 2 * w \in 0 .. 255
    BY DEF Words
  <2> QED BY ONLY <2>1, TableInt
<1>2. g \in Ints
  BY ONLY f \in Ints, 0 \in 0 .. 7, StagesInts
<1>3. /\ f0 \in Int /\ f1 \in Int /\ f2 \in Int /\ f3 \in Int
      /\ g0 \in Int /\ g1 \in Int /\ g2 \in Int /\ g3 \in Int
  BY ONLY <1>2, f \in Ints, w \in Words, WordInts
<1>4. /\ g0 = f0 + f1 /\ g1 = zb * (f0 - f1) /\ g2 = f2 + f3 /\ g3 = zc * (f2 - f3)
  BY ONLY f \in Ints, w \in Words, StagesInWord
<1>5. /\ h[4 * w] = g0 + g2 /\ h[4 * w + 1] = g1 + g3
      /\ h[4 * w + 2] = za * (g0 - g2) /\ h[4 * w + 3] = za * (g1 - g3)
  <2> HIDE DEF g
  <2> QED BY ONLY <1>2, w \in Words, StagesInWord
<1>6. /\ x[1] \in Int /\ Same(x[1], f0) /\ x[2] \in Int /\ Same(x[2], f1)
      /\ x[3] \in Int /\ Same(x[3], f2) /\ x[4] \in Int /\ Same(x[4], f3)
  BY ONLY WordStandsFor(x, w, f), w \in Words, WordLanes
<1>7. EntryWord(x, w) = <<(s01 + s23) % Q, d01 + d23, y3, y4>>
  BY DEF EntryWord
<1> HIDE DEF h, za, zb, zc, f0, f1, f2, f3, g0, g1, g2, g3
<1>8. Same(x[1] + x[2], f0 + f1) /\ d01 \in Int /\ Same(d01, zb * (f0 - f1))
  BY ONLY <1>1, <1>3, <1>6, OffsetsAreZero, LanesInverse
<1>9. Same(x[3] + x[4], f2 + f3) /\ d23 \in Int /\ Same(d23, zc * (f2 - f3))
  BY ONLY <1>1, <1>3, <1>6, OffsetsAreZero, LanesInverse
<1> HIDE DEF d01, d23
<1>10. s01 \in Int /\ s23 \in Int /\ Same(s01, g0) /\ Same(s23, g2) /\ Same(d01, g1) /\ Same(d23, g3)
  BY ONLY <1>4, <1>6, <1>8, <1>9
<1> HIDE DEF s01, s23
<1>11. Same(s01 + s23, g0 + g2) /\ y3 \in Int /\ Same(y3, za * (g0 - g2))
  BY ONLY <1>1, <1>3, <1>10, OffsetsAreZero, LanesInverse
<1>12. Same(d01 + d23, g1 + g3) /\ y4 \in Int /\ Same(y4, za * (g1 - g3))
  <2>1. 2 * Q \in Int /\ Same(2 * Q, 0)
    BY ONLY 2 \in Int, MultiplesAreZero
  <2> QED BY ONLY <1>1, <1>3, <1>8, <1>9, <1>10, <2>1, LanesInverse
<1> HIDE DEF y3, y4
<1>13. (s01 + s23) % Q \in Int /\ Same((s01 + s23) % Q, g0 + g2) /\ d01 + d23 \in Int
  <2> DEFINE v == s01 + s23
  <2>1. v \in Int /\ g0 + g2 \in Int /\ d01 + d23 \in Int
    BY ONLY <1>3, <1>8, <1>9, <1>10
  <2>2. Same(v, g0 + g2)
    BY <1>11
  <2> HIDE DEF v
  <2>3. v % Q \in Int /\ Same(v % Q, v)
    BY ONLY <2>1, SameMod, QNat
  <2>4. Same(v % Q, g0 + g2)
    BY ONLY <2>1, <2>2, <2>3, SameTrans
  <2> QED BY <2>1, <2>3, <2>4 DEF v
<1> DEFINE y == EntryWord(x, w)
<1>14. y[1] = (s01 + s23) % Q /\ y[2] = d01 + d23 /\ y[3] = y3 /\ y[4] = y4
  BY ONLY <1>7
<1> HIDE DEF y
<1>15. /\ y[1] \in Int /\ Same(y[1], h[4 * w]) /\ y[2] \in Int /\ Same(y[2], h[4 * w + 1])
       /\ y[3] \in Int /\ Same(y[3], h[4 * w + 2]) /\ y[4] \in Int /\ Same(y[4], h[4 * w + 3])
  BY ONLY <1>5, <1>11, <1>12, <1>13, <1>14
<1>16. WordStandsFor(y, w, h)
  BY ONLY <1>15, w \in Words, WordLanes
<1> QED BY <1>16 DEF y, h

LEMMA InverseLayerValue ==
  ASSUME SlackOK, NEW f \in Ints, NEW t, NEW e, Strided(t, e),
         NEW m, NEW quad, quad \subseteq Words, NEW w \in quad, NEW l \in Lanes,
         Partner(w, t) \in Words, StandsFor(m, w, l, f), StandsFor(m, Partner(w, t), l, f)
  PROVE  StandsFor(InverseLayer(m, quad, t, slack), w, l, InvStage(e, f))
<1> DEFINE n == At(w, l)
           s == Untwiddle(e, n)
           o == slack[l]
           q == Offset(t)
<1>1. w \in Words /\ e \in 0 .. 7 /\ n \in 0 .. 255 /\ (IsLow(w, t) <=> (n \div Size(e)) % 2 = 0)
      /\ InvT[TwiddleIndex(w, t)] = s
      /\ At(w + t, l) = n + Size(e) /\ At(w - t, l) = n - Size(e)
  BY StridedIs, AtIs DEF Untwiddle
<1>2. s \in Int
  BY <1>1, UntwiddleInverts
<1>3. o \in Int /\ Same(o, 0)
  BY SlackIsZero
<1>4. \A j \in 0 .. 255 : f[j] \in Int
  BY DEF Ints
<1>5. InvStage(e, f)[n] = IF (n \div Size(e)) % 2 = 0 THEN f[n] + f[n + Size(e)] ELSE s * (f[n - Size(e)] - f[n])
  BY <1>1 DEF InvStage
<1>6. InverseLayer(m, quad, t, slack)[w] =
        IF IsLow(w, t) THEN Plus(m[w], m[w + t])
        ELSE Twiddled(Minus(m[w - t], q, m[w]), s, slack)
  <2> HIDE DEF s
  <2> QED BY <1>1 DEF InverseLayer
<1>7. q \in Int /\ Same(q, 0)
  <2>1. 4 * t \in Int
    <3>1. Strided(t, e)
      OBVIOUS
    <3> QED BY ONLY <3>1 DEF Strided
  <2>2. q = (4 * t) * Q
    BY DEF Offset
  <2> HIDE DEF q
  <2> QED BY ONLY <2>1, <2>2, MultiplesAreZero
<1> HIDE DEF n, s, o, q
<1>8. CASE IsLow(w, t)
  <2>1. InverseLayer(m, quad, t, slack)[w][l] = m[w][l] + m[w + t][l]
    BY <1>6, <1>8 DEF Plus
  <2>2. InvStage(e, f)[n] = f[n] + f[n + Size(e)]
    BY <1>1, <1>5, <1>8
  <2>3. Partner(w, t) = w + t
    BY <1>8 DEF Partner
  <2> DEFINE u == m[w][l]  y == m[w + t][l]  f0 == f[n]  f1 == f[n + Size(e)]
  <2>4. u \in Int /\ y \in Int /\ Same(u, f0) /\ Same(y, f1)
    BY <1>1, <2>3 DEF StandsFor, n
  <2>5. f0 \in Int /\ f1 \in Int
    <3>1. n + Size(e) \in 0 .. 255
      <4>1. At(w + t, l) \in 0 .. 255
        BY <2>3, AtIs
      <4> QED BY <1>1, <4>1
    <3> QED BY <1>1, <1>4, <3>1
  <2> HIDE DEF u, y, f0, f1
  <2>6. Same(u + y, f0 + f1)
    BY ONLY <2>4, <2>5, SamePlus
  <2>7. u + y \in Int
    BY ONLY <2>4
  <2> QED BY <2>1, <2>2, <2>6, <2>7 DEF u, y, f0, f1, n, StandsFor
<1>9. CASE ~ IsLow(w, t)
  <2>1. InverseLayer(m, quad, t, slack)[w][l] = Mulmod(m[w - t][l] + q - m[w][l], s) + o
    BY <1>6, <1>9 DEF Minus, Twiddled, o
  <2>2. InvStage(e, f)[n] = s * (f[n - Size(e)] - f[n])
    BY <1>1, <1>5, <1>9
  <2>3. Partner(w, t) = w - t
    BY <1>9 DEF Partner
  <2> DEFINE u == m[w - t][l]  y == m[w][l]  f0 == f[n - Size(e)]  f1 == f[n]
             v == Mulmod(u + q - y, s)
  <2>4. u \in Int /\ y \in Int /\ Same(u, f0) /\ Same(y, f1)
    BY <1>1, <2>3 DEF StandsFor, n
  <2>5. f0 \in Int /\ f1 \in Int
    <3>1. n - Size(e) \in 0 .. 255
      <4>1. At(w - t, l) \in 0 .. 255
        BY <2>3, AtIs
      <4> QED BY <1>1, <4>1
    <3> QED BY <1>1, <1>4, <3>1
  <2> HIDE DEF u, y, f0, f1
  <2>6. v \in Int /\ Same(v, s * (f0 - f1))
    BY ONLY <1>2, <1>7, <2>4, <2>5, LanesInverse
  <2>7. s * (f0 - f1) \in Int
    BY ONLY <1>2, <2>5
  <2>8. InverseLayer(m, quad, t, slack)[w][l] = v + o
    BY <2>1 DEF u, y
  <2> HIDE DEF v
  <2>9. Same(v + o, s * (f0 - f1)) /\ v + o \in Int
    BY ONLY <1>3, <2>6, <2>7, SameOffset
  <2> QED BY <2>2, <2>8, <2>9 DEF f0, f1, n, StandsFor
<1> QED BY <1>8, <1>9 DEF n

(* The last layer is also divided by 256. *)
LEMMA LastLayerValue ==
  ASSUME NEW f \in Ints,
         NEW m, NEW quad, quad \subseteq Words, NEW w \in quad, NEW l \in Lanes,
         Partner(w, 32) \in Words, StandsFor(m, w, l, f), StandsFor(m, Partner(w, 32), l, f)
  PROVE  /\ LastLayer(m, quad)[w][l] \in Int
         /\ Same(LastLayer(m, quad)[w][l], NINV * InvStage(7, f)[At(w, l)])
<1> DEFINE n == At(w, l)
           s == InvT[1]
           q == LastOffset(w)
           y == LastLayer(m, quad)[w][l]
<1>1. w \in Words /\ n \in 0 .. 255 /\ (w < 32 <=> (n \div 128) % 2 = 0) /\ n \div 256 = 0
      /\ At(w + 32, l) = n + 128 /\ At(w - 32, l) = n - 128 /\ (w < 32 <=> IsLow(w, 32))
  BY AtIs DEF At, IsLow, Words, Lanes
<1>2. s \in Int /\ NINV \in Int /\ S8P \in Int /\ Same(S8P, s * NINV)
  <2>1. s \in Int
    BY ONLY TableInt, 1 \in 0 .. 255
  <2>2. NINV \in Int /\ S8P \in Int
    BY ONLY ConstantsInt
  <2>3. s * NINV \in Int
    BY ONLY <2>1, <2>2
  <2>4. Same(S8P, s * NINV)
    BY ONLY <2>3, SameMod DEF S8P
  <2> QED BY ONLY <2>1, <2>2, <2>4
<1>3. \A j \in 0 .. 255 : f[j] \in Int
  BY DEF Ints
<1>4. InvStage(7, f)[n] = IF (n \div 128) % 2 = 0 THEN f[n] + f[n + 128] ELSE s * (f[n - 128] - f[n])
  <2>1. Size(7) = 128 /\ Size(7 + 1) = 256 /\ Size(7 - 7) = 1
    BY ONLY TRUE DEF Size
  <2>2. Untwiddle(7, n) = s
    BY <1>1, <2>1 DEF Untwiddle
  <2> HIDE DEF n, s
  <2> QED BY <1>1, <2>1, <2>2 DEF InvStage
<1>5. y = IF w < 32 THEN Mulmod(m[w][l] + m[w + 32][l], NINV)
          ELSE Mulmod(m[w - 32][l] + q - m[w][l], S8P)
  BY DEF LastLayer
<1>6. q \in Int /\ Same(q, 0)
  <2>1. q = 128 * Q \/ q = 2 * Q
    BY DEF LastOffset
  <2> HIDE DEF q
  <2> QED BY ONLY <2>1, 128 \in Int, 2 \in Int, MultiplesAreZero
<1> HIDE DEF n, s, q, y
<1>7. CASE w < 32
  <2>1. Partner(w, 32) = w + 32
    BY <1>1, <1>7 DEF Partner
  <2> DEFINE u == m[w][l]  v == m[w + 32][l]  f0 == f[n]  f1 == f[n + 128]
  <2>2. u \in Int /\ v \in Int /\ Same(u, f0) /\ Same(v, f1)
    BY <1>1, <2>1 DEF StandsFor, n
  <2>3. f0 \in Int /\ f1 \in Int
    <3>1. n + 128 \in 0 .. 255
      <4>1. At(w + 32, l) \in 0 .. 255
        BY <2>1, AtIs
      <4> QED BY <1>1, <4>1
    <3> QED BY <1>1, <1>3, <3>1
  <2>4. y = Mulmod(u + v, NINV) /\ InvStage(7, f)[n] = f0 + f1
    BY <1>1, <1>4, <1>5, <1>7
  <2> HIDE DEF u, v, f0, f1
  <2>5. Same(u + v, f0 + f1) /\ u + v \in Int /\ f0 + f1 \in Int
    BY ONLY <2>2, <2>3, SamePlus
  <2>6. Mulmod(u + v, NINV) \in Int /\ Same(Mulmod(u + v, NINV), NINV * (f0 + f1))
    BY ONLY <1>2, <2>5, SameMulmods
  <2> QED BY <2>4, <2>6 DEF y, n
<1>8. CASE ~ (w < 32)
  <2>1. Partner(w, 32) = w - 32
    BY <1>1, <1>8 DEF Partner
  <2> DEFINE u == m[w - 32][l]  v == m[w][l]  f0 == f[n - 128]  f1 == f[n]  d == f0 - f1
  <2>2. u \in Int /\ v \in Int /\ Same(u, f0) /\ Same(v, f1)
    BY <1>1, <2>1 DEF StandsFor, n
  <2>3. f0 \in Int /\ f1 \in Int
    <3>1. n - 128 \in 0 .. 255
      <4>1. At(w - 32, l) \in 0 .. 255
        BY <2>1, AtIs
      <4> QED BY <1>1, <4>1
    <3> QED BY <1>1, <1>3, <3>1
  <2>4. y = Mulmod(u + q - v, S8P) /\ InvStage(7, f)[n] = s * (f0 - f1)
    BY <1>1, <1>4, <1>5, <1>8
  <2> HIDE DEF u, v, f0, f1
  <2>5. Mulmod(u + q - v, S8P) \in Int /\ Same(Mulmod(u + q - v, S8P), S8P * d)
    BY ONLY <1>2, <1>6, <2>2, <2>3, LanesInverse
  <2>6. d \in Int
    BY ONLY <2>3
  <2>7. InvStage(7, f)[n] = s * d
    BY <2>4
  <2> HIDE DEF d
  <2>8. S8P * d \in Int /\ (s * NINV) * d \in Int /\ (s * NINV) * d = NINV * (s * d) /\ s * NINV \in Int
    BY ONLY <1>2, <2>6
  <2>9. Same(S8P * d, (s * NINV) * d)
    <3> DEFINE a == s * NINV
    <3> HIDE DEF a
    <3>1. a \in Int /\ Same(S8P, a)
      BY <1>2, <2>8 DEF a
    <3>2. Same(S8P * d, a * d)
      BY ONLY <1>2, <2>6, <3>1, SameTimes
    <3> QED BY <3>2 DEF a
  <2>10. Same(Mulmod(u + q - v, S8P), NINV * (s * d))
    BY ONLY <2>5, <2>8, <2>9, SameTrans
  <2> QED BY <2>4, <2>5, <2>7, <2>10 DEF y, n
<1> QED BY <1>7, <1>8 DEF y, n

-----------------------------------------------------------------------------
(* What the memories stand for.  The transform of polynomial k, the sum of *)
(* the first pass over row i, the whole sum, and the row.                  *)
Fw(in, k) == Tower(Coefficients(in[k]))[8]

Half(in, i) ==
  [n \in 0 .. 255 |-> Coefficient(A[i][0], n) * Fw(in, 2)[n] + Coefficient(A[i][1], n) * Fw(in, 3)[n]]

Target(in, i) ==
  [n \in 0 .. 255 |->
     (Half(in, i)[n] - Coefficient(T1[i], n) * Fw(in, 1)[n])
       + (Coefficient(A[i][2], n) * Fw(in, 4)[n] + Coefficient(A[i][3], n) * Fw(in, 5)[n])]

Scaled(in, i) == [n \in 0 .. 255 |-> NINV * InvTower(Target(in, i))[8][n]]

After(in, i, d) == IF d = 6 THEN Scaled(in, i) ELSE InvTower(Target(in, i))[d + 2]

PolyStands(in) ==
  \A k \in 1 .. 5 : \A w \in Words : \A l \in Lanes :
    StandsFor(poly[k], w, l, Tower(Coefficients(in[k]))[LayersDone(k, w)])

AccStands(in) ==
  /\ pass = "mac1" => \A w \in Words : \A l \in Lanes :
       w < 4 * block => StandsFor(acc, w, l, Half(in, Row))
  /\ pass = "mac2" => \A w \in Words : \A l \in Lanes :
       StandsFor(acc, w, l, IF w < 4 * block THEN Target(in, Row) ELSE Half(in, Row))
  /\ pass = "entry" => \A w \in Words : \A l \in Lanes :
       StandsFor(acc, w, l, InvTower(Target(in, Row))[IF w < block THEN 2 ELSE 0])
  /\ pass \in {"34", "56", "78"} => \A w \in Words : \A l \in Lanes :
       StandsFor(acc, w, l, After(in, Row, InverseDone(w)))

RowsStand(in) ==
  \A i \in 1 .. Len(r) : \A w \in Words : \A l \in Lanes : StandsFor(r[i], w, l, Scaled(in, i))

Values(in) ==
  /\ in \in Inputs /\ input = in
  /\ PolyStands(in) /\ AccStands(in) /\ RowsStand(in)

LEMMA CoefficientAt ==
  ASSUME NEW m, NEW w \in Words, NEW l \in Lanes
  PROVE  Coefficient(m, At(w, l)) = m[w][l] /\ Coefficients(m)[At(w, l)] = m[w][l]
<1>1. At(w, l) \in 0 .. 255 /\ At(w, l) \div 4 = w /\ (At(w, l) % 4) + 1 = l
  BY ONLY w \in Words, l \in Lanes, AtIs
<1>2. Coefficient(m, At(w, l)) = m[w][l]
  BY ONLY <1>1 DEF Coefficient
<1>3. Coefficients(m)[At(w, l)] = Coefficient(m, At(w, l))
  BY ONLY <1>1 DEF Coefficients
<1> QED BY ONLY <1>2, <1>3

(* Every coefficient is in a lane. *)
LEMMA PlaceOf ==
  ASSUME NEW n \in 0 .. 255
  PROVE  n \div 4 \in Words /\ (n % 4) + 1 \in Lanes /\ At(n \div 4, (n % 4) + 1) = n
  BY DEF At, Words, Lanes

LEMMA CoefficientsInts ==
  ASSUME NEW m, \A w \in Words : \A l \in Lanes : m[w][l] \in Int
  PROVE  Coefficients(m) \in Ints /\ \A n \in 0 .. 255 : Coefficient(m, n) \in Int
<1>1. ASSUME NEW n \in 0 .. 255 PROVE Coefficient(m, n) \in Int
  <2>1. n \div 4 \in Words /\ (n % 4) + 1 \in Lanes
    BY PlaceOf
  <2> QED BY <2>1 DEF Coefficient
<1> QED BY <1>1 DEF Coefficients, Ints

LEMMA InputInts ==
  ASSUME NEW in \in Inputs, NEW k \in 1 .. 5
  PROVE  /\ Coefficients(in[k]) \in Ints
         /\ \A w \in Words : \A l \in Lanes : in[k][w][l] \in Int
         /\ Fw(in, k) \in Ints
<1>1. IsMemory(in[k], Q)
  BY RowProductAssumption, Zenon
<1>2. \A w \in Words : \A l \in Lanes : in[k][w][l] \in Int
  BY <1>1 DEF IsMemory
<1>3. Coefficients(in[k]) \in Ints
  BY ONLY <1>2, CoefficientsInts
<1>4. Fw(in, k) \in Ints
  BY ONLY <1>3, TowerIs, 8 \in 0 .. 8 DEF Fw
<1> QED BY <1>2, <1>3, <1>4

LEMMA KeyInts ==
  ASSUME NEW i \in 1 .. Rows, NEW n \in 0 .. 255
  PROVE  /\ Coefficient(T1[i], n) \in Int
         /\ Coefficient(A[i][0], n) \in Int /\ Coefficient(A[i][1], n) \in Int
         /\ Coefficient(A[i][2], n) \in Int /\ Coefficient(A[i][3], n) \in Int
<1>1. n \div 4 \in Words /\ (n % 4) + 1 \in Lanes
  BY PlaceOf
<1>2. PKBound \in Int
  BY ConstantsInt, QNat
<1>3. /\ T1[i][n \div 4][(n % 4) + 1] \in 0 .. PKBound - 1
      /\ \A k \in 0 .. 3 : A[i][k][n \div 4][(n % 4) + 1] \in 0 .. PKBound - 1
  BY ONLY <1>1, i \in 1 .. Rows, KeyLanes
<1> QED BY <1>2, <1>3 DEF Coefficient

LEMMA TargetInts ==
  ASSUME NEW in \in Inputs, NEW i \in 1 .. Rows
  PROVE  Half(in, i) \in Ints /\ Target(in, i) \in Ints /\ Scaled(in, i) \in Ints
<1>1. Fw(in, 1) \in Ints /\ Fw(in, 2) \in Ints /\ Fw(in, 3) \in Ints /\ Fw(in, 4) \in Ints /\ Fw(in, 5) \in Ints
  BY InputInts
<1>2. ASSUME NEW n \in 0 .. 255
      PROVE  Half(in, i)[n] \in Int /\ Target(in, i)[n] \in Int
  <2> DEFINE a == Coefficient(A[i][0], n)  b == Coefficient(A[i][1], n)
             c == Coefficient(A[i][2], n)  d == Coefficient(A[i][3], n)
             t == Coefficient(T1[i], n)
             x1 == Fw(in, 1)[n]  x2 == Fw(in, 2)[n]  x3 == Fw(in, 3)[n]
             x4 == Fw(in, 4)[n]  x5 == Fw(in, 5)[n]
             h == Half(in, i)[n]
  <2>1. a \in Int /\ b \in Int /\ c \in Int /\ d \in Int /\ t \in Int
    BY KeyInts
  <2>2. x1 \in Int /\ x2 \in Int /\ x3 \in Int /\ x4 \in Int /\ x5 \in Int
    BY ONLY <1>1, n \in 0 .. 255 DEF Ints
  <2>3. Half(in, i)[n] = a * x2 + b * x3
    BY DEF Half
  <2>4. Target(in, i)[n] = (h - t * x1) + (c * x4 + d * x5)
    BY DEF Target
  <2> HIDE DEF a, b, c, d, t, x1, x2, x3, x4, x5
  <2>5. a * x2 \in Int /\ b * x3 \in Int /\ t * x1 \in Int /\ c * x4 \in Int /\ d * x5 \in Int
    BY ONLY <2>1, <2>2
  <2>6. h \in Int
    BY <2>3, <2>5
  <2> HIDE DEF h
  <2>7. (h - t * x1) + (c * x4 + d * x5) \in Int
    BY ONLY <2>5, <2>6
  <2> QED BY <2>4, <2>6, <2>7 DEF h
<1>3. Half(in, i) \in Ints /\ Target(in, i) \in Ints
  <2>1. DOMAIN Half(in, i) = 0 .. 255 /\ Half(in, i) = [n \in 0 .. 255 |-> Half(in, i)[n]]
    BY DEF Half
  <2>2. DOMAIN Target(in, i) = 0 .. 255 /\ Target(in, i) = [n \in 0 .. 255 |-> Target(in, i)[n]]
    BY DEF Target
  <2> QED BY <1>2, <2>1, <2>2 DEF Ints
<1>4. Scaled(in, i) \in Ints
  <2>1. InvTower(Target(in, i))[8] \in Ints
    BY ONLY <1>3, InvTowerIs, 8 \in 0 .. 8
  <2> DEFINE g == InvTower(Target(in, i))[8]
  <2>2. \A n \in 0 .. 255 : g[n] \in Int
    BY ONLY <2>1 DEF Ints
  <2>3. NINV \in Int
    BY ONLY ConstantsInt
  <2>4. \A n \in 0 .. 255 : NINV * g[n] \in Int
    <3> DEFINE c == NINV
    <3> TAKE n \in 0 .. 255
    <3> DEFINE v == g[n]
    <3>1. v \in Int /\ c \in Int
      BY ONLY <2>2, <2>3, n \in 0 .. 255
    <3> HIDE DEF v, c
    <3>2. c * v \in Int
      BY ONLY <3>1
    <3> QED BY ONLY <3>2 DEF v, c
  <2>5. Scaled(in, i) = [n \in 0 .. 255 |-> NINV * g[n]]
    BY DEF Scaled
  <2> HIDE DEF g
  <2> QED BY ONLY <2>4, <2>5 DEF Ints
<1> QED BY <1>3, <1>4

LEMMA InitValues == RecoverInit => \E in : Values(in)
<1> SUFFICES ASSUME RecoverInit PROVE Values(input)
  BY Zenon
<1>1. input \in Inputs /\ pass = "A" /\ which = 1 /\ block = 0 /\ layer = 1
      /\ poly = input /\ r = <<>>
  BY DEF RecoverInit, Init
<1>2. \A k \in 1 .. 5 : \A w \in Words : LayersDone(k, w) = 0
  <2>1. \A w \in Words : w % 8 \in 0 .. 7
    BY DEF Words
  <2> QED BY <1>1, <2>1 DEF LayersDone
<1>3. ASSUME NEW k \in 1 .. 5, NEW w \in Words, NEW l \in Lanes
      PROVE  StandsFor(poly[k], w, l, Tower(Coefficients(input[k]))[LayersDone(k, w)])
  <2>1. Coefficients(input[k]) \in Ints /\ input[k][w][l] \in Int
    BY <1>1, InputInts
  <2>2. Tower(Coefficients(input[k]))[0] = Coefficients(input[k])
    BY ONLY <2>1, TowerIs
  <2>3. Coefficients(input[k])[At(w, l)] = input[k][w][l]
    BY ONLY w \in Words, l \in Lanes, CoefficientAt
  <2>4. Same(input[k][w][l], Coefficients(input[k])[At(w, l)])
    BY ONLY <2>1, <2>3, SameEqual
  <2> QED BY <1>1, <1>2, <2>1, <2>2, <2>4 DEF StandsFor
<1>4. RowsStand(input)
  <2>1. Len(r) = 0
    BY <1>1
  <2> QED BY <2>1 DEF RowsStand
<1>5. AccStands(input)
  BY <1>1 DEF AccStands
<1> QED BY <1>1, <1>3, <1>4, <1>5 DEF Values, PolyStands

-----------------------------------------------------------------------------
(* A layer of the forward transform is a stage of Tower.                   *)
LEMMA ForwardStands ==
  ASSUME NEW in \in Inputs, Memory, PolyStands(in), which \in 1 .. 5,
         NEW octet, octet \subseteq Words, NEW t, NEW e, Strided(t, e), NEW d \in 0 .. 7, d = 7 - e,
         \A w \in octet : Partner(w, t) \in octet,
         \A k \in 1 .. 5 : \A w \in Words : (k = which /\ w \in octet) =>
           LayersDone(k, w) = d /\ LayersDone(k, w)' = d + 1,
         \A k \in 1 .. 5 : \A w \in Words :
           (k # which \/ w \notin octet) => LayersDone(k, w)' = LayersDone(k, w),
         poly' = [poly EXCEPT ![which] = ForwardLayer(@, octet, t, slack)]
  PROVE  PolyStands(in)'
<1> DEFINE p == poly[which]
           y == ForwardLayer(p, octet, t, slack)
           C(k) == Coefficients(in[k])
<1>1. DOMAIN poly = 1 .. 5
  BY DEF Memory
<1>2. poly'[which] = y /\ \A k \in 1 .. 5 : k # which => poly'[k] = poly[k]
  BY <1>1
<1>3. \A k \in 1 .. 5 : \A w \in Words : \A l \in Lanes :
        StandsFor(poly[k], w, l, Tower(C(k))[LayersDone(k, w)])
  BY DEF PolyStands
<1>4. ASSUME NEW w \in octet, NEW l \in Lanes
      PROVE  StandsFor(y, w, l, Tower(C(which))[d + 1])
  <2> DEFINE f == Tower(C(which))[d]
             v == Partner(w, t)
  <2>1. C(which) \in Ints
    BY InputInts
  <2>2. f \in Ints /\ Tower(C(which))[d + 1] = Stage(e, f)
    <3>1. Tower(C(which))[d + 1] = Stage(7 - d, Tower(C(which))[d]) /\ Tower(C(which))[d] \in Ints
      <4>1. d \in 0 .. 8
        OBVIOUS
      <4> HIDE DEF C
      <4> QED BY ONLY <2>1, <4>1, d \in 0 .. 7, TowerIs
    <3>2. 7 - d = e
      <4>1. e \in Int
        <5>1. Strided(t, e)
          OBVIOUS
        <5> QED BY ONLY <5>1 DEF Strided
      <4> QED BY ONLY <4>1, d = 7 - e
    <3> QED BY <3>1, <3>2
  <2>3. v \in octet /\ v \in Words /\ w \in Words
    OBVIOUS
  <2>4. LayersDone(which, w) = d /\ LayersDone(which, v) = d
    BY <2>3
  <2>5. StandsFor(p, w, l, f) /\ StandsFor(p, v, l, f)
    BY <1>3, <2>3, <2>4
  <2> HIDE DEF f, p, C
  <2>6. SlackOK
    BY DEF Memory
  <2>7. StandsFor(y, w, l, Stage(e, f))
    BY <2>2, <2>3, <2>5, <2>6, ForwardLayerValue
  <2> QED BY <2>2, <2>7
<1>5. ASSUME NEW k \in 1 .. 5, NEW w \in Words, NEW l \in Lanes
      PROVE  StandsFor(poly'[k], w, l, Tower(C(k))[LayersDone(k, w)'])
  <2> HIDE DEF y, C
  <2>1. CASE k = which /\ w \in octet
    BY <1>2, <1>4, <2>1
  <2>2. CASE k = which /\ w \notin octet
    <3>1. y[w] = p[w]
      BY <2>2, ForwardLayerElsewhere DEF y
    <3>2. poly'[k][w] = poly[k][w]
      BY <1>2, <2>2, <3>1
    <3>3. StandsFor(poly[k], w, l, Tower(C(k))[LayersDone(k, w)'])
      BY <1>3, <2>2
    <3> QED BY <3>2, <3>3 DEF StandsFor
  <2>3. CASE k # which
    BY <1>2, <1>3, <2>3
  <2> QED BY <2>1, <2>2, <2>3
<1> QED BY <1>5 DEF PolyStands

LEMMA ValuesPassA ==
  ASSUME LaneInv, PassA, NEW in, Values(in)
  PROVE  Values(in)'
<1>1. pass = "A" /\ block \in 0 .. 7 /\ layer \in 1 .. 3 /\ which \in 1 .. 5
  BY DEF PassA, LaneInv, Control
<1>2. UNCHANGED <<input, slack, which, acc, r>>
  BY DEF PassA
<1>3. \/ layer < 3 /\ layer' = layer + 1 /\ block' = block /\ pass' = "A"
      \/ layer = 3 /\ layer' = 1 /\ block < 7 /\ block' = block + 1 /\ pass' = "A"
      \/ layer = 3 /\ layer' = 1 /\ block = 7 /\ block' = 0 /\ pass' = "B"
  BY <1>1 DEF PassA, Advance
<1> DEFINE t == StrideA[layer]
           e == 8 - layer
           d == layer - 1
<1>4. t \in {8, 16, 32} /\ Strided(t, e) /\ d \in 0 .. 7 /\ d = 7 - e
  BY <1>1 DEF StrideA, Strided
<1>5. \A k \in 1 .. 5 : \A w \in Words : (k = which /\ w \in OctetA(block)) =>
        LayersDone(k, w) = d /\ LayersDone(k, w)' = d + 1
  BY <1>1, <1>2, <1>3 DEF LayersDone, OctetA, Words
<1>6. \A k \in 1 .. 5 : \A w \in Words :
        (k # which \/ w \notin OctetA(block)) => LayersDone(k, w)' = LayersDone(k, w)
  BY <1>1, <1>2, <1>3 DEF LayersDone, OctetA, Words
<1>7. poly' = [poly EXCEPT ![which] = ForwardLayer(@, OctetA(block), t, slack)]
  BY DEF PassA
<1>8. in \in Inputs /\ input = in /\ PolyStands(in) /\ RowsStand(in)
  BY DEF Values
<1> HIDE DEF t, e, d
<1>9. OctetA(block) \subseteq Words /\ \A w \in OctetA(block) : Partner(w, t) \in OctetA(block)
  BY <1>1, <1>4, OctetsClosed
<1>10. Memory
  BY DEF LaneInv
<1>11. PolyStands(in)'
  BY ONLY <1>1, <1>4, <1>5, <1>6, <1>7, <1>8, <1>9, <1>10, ForwardStands
<1>12. RowsStand(in)'
  BY <1>2, <1>8 DEF RowsStand
<1>13. AccStands(in)'
  BY <1>3 DEF AccStands
<1> QED BY <1>2, <1>8, <1>11, <1>12, <1>13 DEF Values

LEMMA ValuesPassB ==
  ASSUME LaneInv, PassB, NEW in, Values(in)
  PROVE  Values(in)'
<1>1. pass = "B" /\ block \in 0 .. 7 /\ layer \in 1 .. 3 /\ which \in 1 .. 5
  BY DEF PassB, LaneInv, Control
<1>2. UNCHANGED <<input, slack, which, acc, r>>
  BY DEF PassB
<1>3. \/ layer < 3 /\ layer' = layer + 1 /\ block' = block /\ pass' = "B"
      \/ layer = 3 /\ layer' = 1 /\ block < 7 /\ block' = block + 1 /\ pass' = "B"
      \/ layer = 3 /\ layer' = 1 /\ block = 7 /\ block' = 0 /\ pass' = "C"
  BY <1>1 DEF PassB, Advance
<1> DEFINE t == StrideB[layer]
           e == 5 - layer
           d == layer + 2
<1>4. t \in {1, 2, 4} /\ Strided(t, e) /\ d \in 0 .. 7 /\ d = 7 - e
  BY <1>1 DEF StrideB, Strided
<1>5. \A k \in 1 .. 5 : \A w \in Words : (k = which /\ w \in OctetB(block)) =>
        LayersDone(k, w) = d /\ LayersDone(k, w)' = d + 1
  BY <1>1, <1>2, <1>3 DEF LayersDone, OctetB, Words
<1>6. \A k \in 1 .. 5 : \A w \in Words :
        (k # which \/ w \notin OctetB(block)) => LayersDone(k, w)' = LayersDone(k, w)
  BY <1>1, <1>2, <1>3 DEF LayersDone, OctetB, Words
<1>7. poly' = [poly EXCEPT ![which] = ForwardLayer(@, OctetB(block), t, slack)]
  BY DEF PassB
<1>8. in \in Inputs /\ input = in /\ PolyStands(in) /\ RowsStand(in)
  BY DEF Values
<1> HIDE DEF t, e, d
<1>9. OctetB(block) \subseteq Words /\ \A w \in OctetB(block) : Partner(w, t) \in OctetB(block)
  BY <1>1, <1>4, OctetsClosed
<1>10. Memory
  BY DEF LaneInv
<1>11. PolyStands(in)'
  BY ONLY <1>1, <1>4, <1>5, <1>6, <1>7, <1>8, <1>9, <1>10, ForwardStands
<1>12. RowsStand(in)'
  BY <1>2, <1>8 DEF RowsStand
<1>13. AccStands(in)'
  BY <1>3 DEF AccStands
<1> QED BY <1>2, <1>8, <1>11, <1>12, <1>13 DEF Values

LEMMA ValuesPassC ==
  ASSUME LaneInv, PassC, NEW in, Values(in)
  PROVE  Values(in)'
<1>1. pass = "C" /\ block \in 0 .. 63 /\ layer = 1 /\ which \in 1 .. 5
  BY DEF PassC, LaneInv, Control
<1>2. UNCHANGED <<input, slack, acc, r>>
      /\ poly' = [poly EXCEPT ![which][block] = ForwardWord(@, block)]
  BY DEF PassC
<1>3. \/ layer' = 1 /\ block < 63 /\ block' = block + 1 /\ pass' = "C" /\ which' = which
      \/ layer' = 1 /\ block = 63 /\ block' = 0 /\ which < 5 /\ pass' = "A" /\ which' = which + 1
      \/ layer' = 1 /\ block = 63 /\ block' = 0 /\ which = 5 /\ pass' = "mac1" /\ which' = which
  BY <1>1 DEF PassC, Advance
<1>4. \A k \in 1 .. 5 : \A w \in Words : (k = which /\ w = block) =>
        LayersDone(k, w) = 6 /\ LayersDone(k, w)' = 8
  BY <1>1, <1>3 DEF LayersDone, Words
<1>5. \A k \in 1 .. 5 : \A w \in Words : (k # which \/ w # block) => LayersDone(k, w)' = LayersDone(k, w)
  BY <1>1, <1>3 DEF LayersDone, Words
<1>6. block \in Words /\ DOMAIN poly = 1 .. 5 /\ \A k \in 1 .. 5 : DOMAIN poly[k] = Words
  BY <1>1 DEF LaneInv, Memory, Words
<1>7. /\ poly'[which][block] = ForwardWord(poly[which][block], block)
      /\ \A k \in 1 .. 5 : \A w \in Words : (k # which \/ w # block) => poly'[k][w] = poly[k][w]
  BY <1>1, <1>2, <1>6
<1>8. in \in Inputs /\ input = in /\ PolyStands(in) /\ RowsStand(in)
  BY DEF Values
<1> DEFINE f == Tower(Coefficients(in[which]))[6]
           x == poly[which][block]
<1>9. f \in Ints /\ Tower(Coefficients(in[which]))[8] = Stage(0, Stage(1, f))
  <2> DEFINE g == Coefficients(in[which])
  <2>1. g \in Ints
    BY <1>1, <1>8, InputInts
  <2> HIDE DEF g
  <2>2. Tower(g)[6 + 1] = Stage(7 - 6, Tower(g)[6]) /\ Tower(g)[7 + 1] = Stage(7 - 7, Tower(g)[7])
        /\ Tower(g)[6] \in Ints
    BY ONLY <2>1, TowerIs, 6 \in 0 .. 7, 7 \in 0 .. 7, 6 \in 0 .. 8
  <2>3. 6 + 1 = 7 /\ 7 + 1 = 8 /\ 7 - 6 = 1 /\ 7 - 7 = 0
    OBVIOUS
  <2>4. Tower(g)[8] = Stage(0, Stage(1, Tower(g)[6])) /\ Tower(g)[6] \in Ints
    BY ONLY <2>2, <2>3
  <2> QED BY <2>4 DEF g
<1>10. WordStandsFor(x, block, f)
  <2> SUFFICES ASSUME NEW l \in Lanes PROVE x[l] \in Int /\ Same(x[l], f[At(block, l)])
    BY DEF WordStandsFor
  <2>1. StandsFor(poly[which], block, l, Tower(Coefficients(in[which]))[LayersDone(which, block)])
    BY <1>1, <1>6, <1>8 DEF PolyStands
  <2>2. LayersDone(which, block) = 6
    BY <1>1, <1>4, <1>6
  <2> QED BY <2>1, <2>2 DEF StandsFor
<1> HIDE DEF f, x
<1>11. WordStandsFor(ForwardWord(x, block), block, Stage(0, Stage(1, f)))
  BY ONLY <1>6, <1>9, <1>10, ForwardWordValue
<1>12. ASSUME NEW k \in 1 .. 5, NEW w \in Words, NEW l \in Lanes
       PROVE  StandsFor(poly'[k], w, l, Tower(Coefficients(in[k]))[LayersDone(k, w)'])
  <2>1. CASE k = which /\ w = block
    <3>1. LayersDone(k, w)' = 8
      BY <1>4, <2>1
    <3>2. poly'[k][w] = ForwardWord(x, block)
      BY <1>7, <2>1 DEF x
    <3>3. /\ ForwardWord(x, block)[l] \in Int
          /\ Same(ForwardWord(x, block)[l], Tower(Coefficients(in[which]))[8][At(block, l)])
      BY <1>9, <1>11 DEF WordStandsFor
    <3> QED BY <2>1, <3>1, <3>2, <3>3 DEF StandsFor
  <2>2. CASE ~ (k = which /\ w = block)
    <3>1. poly'[k][w] = poly[k][w] /\ LayersDone(k, w)' = LayersDone(k, w)
      BY <1>5, <1>7, <2>2
    <3>2. StandsFor(poly[k], w, l, Tower(Coefficients(in[k]))[LayersDone(k, w)])
      BY <1>8 DEF PolyStands
    <3> QED BY <3>1, <3>2 DEF StandsFor
  <2> QED BY <2>1, <2>2
<1>13. PolyStands(in)'
  BY <1>12 DEF PolyStands
<1>14. RowsStand(in)'
  BY <1>2, <1>8 DEF RowsStand
<1>15. AccStands(in)'
  <2>1. pass' \in {"A", "C", "mac1"} /\ (pass' = "mac1" => block' = 0)
    BY <1>3
  <2>2. \A w \in Words : ~ (w < 4 * 0)
    BY DEF Words
  <2> QED BY <2>1, <2>2 DEF AccStands
<1> QED BY <1>2, <1>8, <1>13, <1>14, <1>15 DEF Values

-----------------------------------------------------------------------------
(* The product with the key. *)
LEMMA ForwardDone ==
  ASSUME NEW in \in Inputs, PolyStands(in), pass \notin {"A", "B", "C"},
         NEW k \in 1 .. 5, NEW w \in Words, NEW l \in Lanes
  PROVE  /\ poly[k][w][l] \in Int /\ Fw(in, k)[At(w, l)] \in Int
         /\ Same(poly[k][w][l], Fw(in, k)[At(w, l)])
<1>1. LayersDone(k, w) = 8
  BY DEF LayersDone
<1>2. StandsFor(poly[k], w, l, Tower(Coefficients(in[k]))[8])
  BY <1>1 DEF PolyStands
<1>3. Fw(in, k) \in Ints
  BY InputInts
<1>4. Fw(in, k)[At(w, l)] \in Int
  BY ONLY <1>3, AtIs, w \in Words, l \in Lanes DEF Ints
<1> QED BY <1>2, <1>4 DEF StandsFor, Fw

LEMMA PolyStandsKept ==
  ASSUME NEW in, PolyStands(in), pass \notin {"A", "B", "C"}, pass' \notin {"A", "B", "C"}, poly' = poly
  PROVE  PolyStands(in)'
<1>1. \A k \in 1 .. 5 : \A w \in Words : LayersDone(k, w) = 8 /\ LayersDone(k, w)' = 8
  BY DEF LayersDone
<1> QED BY <1>1 DEF PolyStands

(* Sums of two products. *)
LEMMA SameProducts ==
  ASSUME NEW a \in Int, NEW b \in Int, NEW x \in Int, NEW y \in Int, NEW f \in Int, NEW g \in Int,
         Same(x, f), Same(y, g)
  PROVE  /\ a * x + b * y \in Int /\ a * f + b * g \in Int
         /\ Same(a * x + b * y, a * f + b * g)
<1> DEFINE p == a * x  q == b * y  u == a * f  v == b * g
<1>1. p \in Int /\ q \in Int /\ u \in Int /\ v \in Int
  OBVIOUS
<1>2. Same(p, u) /\ Same(q, v)
  BY ONLY a \in Int, b \in Int, x \in Int, y \in Int, f \in Int, g \in Int, Same(x, f), Same(y, g), SameTimes
<1> HIDE DEF p, q, u, v
<1>3. Same(p + q, u + v)
  BY ONLY <1>1, <1>2, SamePlus
<1>4. p + q \in Int /\ u + v \in Int
  BY ONLY <1>1
<1> QED BY <1>3, <1>4 DEF p, q, u, v

LEMMA HalfValue ==
  ASSUME NEW in \in Inputs, PolyStands(in), pass \notin {"A", "B", "C"}, Row \in 1 .. Rows,
         NEW w \in Words, NEW l \in Lanes
  PROVE  Columns(0, 1, w)[l] \in Int /\ Same(Columns(0, 1, w)[l], Half(in, Row)[At(w, l)])
<1> DEFINE n == At(w, l)
           a == A[Row][0][w][l]  b == A[Row][1][w][l]
           x == poly[2][w][l]    y == poly[3][w][l]
           f == Fw(in, 2)[n]     g == Fw(in, 3)[n]
<1>1. n \in 0 .. 255
  BY AtIs
<1>2. a = Coefficient(A[Row][0], n) /\ b = Coefficient(A[Row][1], n)
  BY CoefficientAt
<1>3. a \in Int /\ b \in Int
  BY <1>1, <1>2, KeyInts
<1>4. x \in Int /\ f \in Int /\ Same(x, f) /\ y \in Int /\ g \in Int /\ Same(y, g)
  BY ForwardDone
<1>5. Columns(0, 1, w)[l] = a * x + b * y
  BY DEF Columns
<1>6. Half(in, Row)[n] = a * f + b * g
  BY <1>1, <1>2 DEF Half
<1> HIDE DEF n, a, b, x, y, f, g
<1>7. a * x + b * y \in Int /\ Same(a * x + b * y, a * f + b * g)
  BY ONLY <1>3, <1>4, SameProducts
<1> QED BY <1>5, <1>6, <1>7 DEF n

(* The second pass takes c t1 away from a multiple of Q. *)
LEMMA TargetValue ==
  ASSUME NEW in \in Inputs, PolyStands(in), pass \notin {"A", "B", "C"}, Row \in 1 .. Rows,
         NEW w \in Words, NEW l \in Lanes, NEW v \in Int, Same(v, Half(in, Row)[At(w, l)])
  PROVE  /\ (v + MinusCT1(w)[l]) + Columns(2, 3, w)[l] \in Int
         /\ Same((v + MinusCT1(w)[l]) + Columns(2, 3, w)[l], Target(in, Row)[At(w, l)])
<1> DEFINE n == At(w, l)
           a == A[Row][2][w][l]  b == A[Row][3][w][l]  t == T1[Row][w][l]
           x == poly[4][w][l]    y == poly[5][w][l]    z == poly[1][w][l]
           f == Fw(in, 4)[n]     g == Fw(in, 5)[n]     c == Fw(in, 1)[n]
           h == Half(in, Row)[n]
<1>1. n \in 0 .. 255
  BY AtIs
<1>2. a = Coefficient(A[Row][2], n) /\ b = Coefficient(A[Row][3], n) /\ t = Coefficient(T1[Row], n)
  BY CoefficientAt
<1>3. a \in Int /\ b \in Int /\ t \in Int
  BY <1>1, <1>2, KeyInts
<1>4. /\ x \in Int /\ f \in Int /\ Same(x, f) /\ y \in Int /\ g \in Int /\ Same(y, g)
      /\ z \in Int /\ c \in Int /\ Same(z, c)
  BY ForwardDone
<1>5. Columns(2, 3, w)[l] = a * x + b * y /\ MinusCT1(w)[l] = KQ28 - t * z
  BY DEF Columns, MinusCT1
<1>6. Target(in, Row)[n] = (h - t * c) + (a * f + b * g)
  BY <1>1, <1>2 DEF Target
<1>7. h \in Int
  <2>1. Half(in, Row) \in Ints
    BY ONLY in \in Inputs, Row \in 1 .. Rows, TargetInts
  <2> QED BY ONLY <1>1, <2>1 DEF Ints
<1> HIDE DEF a, b, t, x, y, z, f, g, c
<1> DEFINE p == a * x + b * y  q == a * f + b * g  u == t * z  o == t * c
<1>8. p \in Int /\ q \in Int /\ Same(p, q)
  BY ONLY <1>3, <1>4, SameProducts
<1>9. u \in Int /\ o \in Int /\ Same(u, o)
  BY ONLY <1>3, <1>4, SameTimes
<1>10. Same(v, h)
  OBVIOUS
<1> HIDE DEF n, h, p, q, u, o
<1>11. v + KQ28 \in Int /\ Same(v + KQ28, h)
  BY ONLY <1>7, <1>10, v \in Int, OffsetsAreZero, SameOffset
<1>12. Same((v + KQ28) - u, h - o) /\ (v + KQ28) - u \in Int /\ h - o \in Int
  <2> DEFINE k == v + KQ28
  <2>1. k \in Int /\ Same(k, h)
    BY <1>11
  <2> HIDE DEF k
  <2>2. Same(k - u, h - o)
    BY ONLY <1>7, <1>9, <2>1, SamePlus
  <2>3. k - u \in Int /\ h - o \in Int
    BY ONLY <1>7, <1>9, <2>1
  <2> QED BY <2>2, <2>3 DEF k
<1>13. v + (KQ28 - u) = (v + KQ28) - u
  BY ONLY v \in Int, <1>9, OffsetsAreZero
<1> DEFINE s == (v + KQ28) - u  d == h - o
<1>14. s \in Int /\ d \in Int /\ Same(s, d)
  BY ONLY <1>12
<1> HIDE DEF s, d
<1>15. Same(s + p, d + q) /\ s + p \in Int
  BY ONLY <1>8, <1>14, SamePlus
<1>16. (v + MinusCT1(w)[l]) + Columns(2, 3, w)[l] = s + p
  BY <1>5, <1>13 DEF s, p, u
<1>17. Target(in, Row)[n] = d + q
  BY <1>6 DEF d, q, o
<1> QED BY <1>15, <1>16, <1>17 DEF n

LEMMA ValuesMacFirst ==
  ASSUME LaneInv, MacFirst, NEW in, Values(in)
  PROVE  Values(in)'
<1>1. pass = "mac1" /\ block \in 0 .. 15 /\ layer = 1
  BY DEF MacFirst, LaneInv, Control
<1>2. UNCHANGED <<input, slack, which, poly, r>>
      /\ acc' = [w \in Words |-> IF w \in Turn THEN Columns(0, 1, w) ELSE acc[w]]
  BY DEF MacFirst
<1>3. \/ layer' = 1 /\ block < 15 /\ block' = block + 1 /\ pass' = "mac1"
      \/ layer' = 1 /\ block = 15 /\ block' = 0 /\ pass' = "mac2"
  BY <1>1 DEF MacFirst, Advance
<1>4. Row \in 1 .. Rows
  BY <1>1, RowInRange DEF LaneInv
<1>5. in \in Inputs /\ input = in /\ PolyStands(in) /\ RowsStand(in)
      /\ \A w \in Words : \A l \in Lanes : w < 4 * block => StandsFor(acc, w, l, Half(in, Row))
  BY <1>1 DEF Values, AccStands
<1>6. ASSUME NEW w \in Words, NEW l \in Lanes, w < 4 * block + 4
      PROVE  StandsFor(acc', w, l, Half(in, Row))
  <2>1. CASE w \in Turn
    <3>1. Columns(0, 1, w)[l] \in Int /\ Same(Columns(0, 1, w)[l], Half(in, Row)[At(w, l)])
      BY <1>1, <1>4, <1>5, HalfValue
    <3>2. acc'[w] = Columns(0, 1, w)
      BY <1>2, <2>1
    <3> QED BY <3>1, <3>2 DEF StandsFor
  <2>2. CASE w \notin Turn
    <3>1. w < 4 * block
      BY <1>1, <1>6, <2>2 DEF Turn, Words
    <3>2. StandsFor(acc, w, l, Half(in, Row)) /\ acc'[w] = acc[w]
      BY <1>2, <1>5, <2>2, <3>1
    <3> QED BY <3>2 DEF StandsFor
  <2> QED BY <2>1, <2>2
<1>7. Row' = Row
  BY <1>2 DEF Row
<1>8. AccStands(in)'
  <2>1. CASE pass' = "mac1"
    <3>1. 4 * block' = 4 * block + 4
      BY <1>1, <1>3, <2>1
    <3> QED BY <1>6, <1>7, <2>1, <3>1 DEF AccStands
  <2>2. CASE pass' = "mac2"
    <3>1. \A w \in Words : ~ (w < 4 * block') /\ w < 4 * block + 4
      BY <1>1, <1>3, <2>2 DEF Words
    <3> QED BY <1>6, <1>7, <2>2, <3>1 DEF AccStands
  <2> QED BY <1>3, <2>1, <2>2
<1>9. PolyStands(in)'
  <2>1. pass \notin {"A", "B", "C"} /\ pass' \notin {"A", "B", "C"}
    BY <1>1, <1>3
  <2> QED BY <1>2, <1>5, <2>1, PolyStandsKept
<1>10. RowsStand(in)'
  BY <1>2, <1>5 DEF RowsStand
<1> QED BY <1>2, <1>5, <1>8, <1>9, <1>10 DEF Values

LEMMA ValuesMacSecond ==
  ASSUME LaneInv, MacSecond, NEW in, Values(in)
  PROVE  Values(in)'
<1>1. pass = "mac2" /\ block \in 0 .. 15 /\ layer = 1
  BY DEF MacSecond, LaneInv, Control
<1>2. UNCHANGED <<input, slack, which, poly, r>>
      /\ acc' = [w \in Words |-> IF w \in Turn
                   THEN Plus(Plus(acc[w], MinusCT1(w)), Columns(2, 3, w)) ELSE acc[w]]
  BY DEF MacSecond
<1>3. \/ layer' = 1 /\ block < 15 /\ block' = block + 1 /\ pass' = "mac2"
      \/ layer' = 1 /\ block = 15 /\ block' = 0 /\ pass' = "entry"
  BY <1>1 DEF MacSecond, Advance
<1>4. Row \in 1 .. Rows
  BY <1>1, RowInRange DEF LaneInv
<1>5. in \in Inputs /\ input = in /\ PolyStands(in) /\ RowsStand(in)
      /\ \A w \in Words : \A l \in Lanes :
           StandsFor(acc, w, l, IF w < 4 * block THEN Target(in, Row) ELSE Half(in, Row))
  BY <1>1 DEF Values, AccStands
<1>6. ASSUME NEW w \in Words, NEW l \in Lanes
      PROVE  StandsFor(acc', w, l, IF w < 4 * block + 4 THEN Target(in, Row) ELSE Half(in, Row))
  <2>1. CASE w \in Turn
    <3>1. ~ (w < 4 * block) /\ w < 4 * block + 4
      BY <1>1, <2>1 DEF Turn
    <3>2. acc[w][l] \in Int /\ Same(acc[w][l], Half(in, Row)[At(w, l)])
      BY <1>5, <3>1 DEF StandsFor
    <3>3. acc'[w][l] = (acc[w][l] + MinusCT1(w)[l]) + Columns(2, 3, w)[l]
      BY <1>2, <2>1 DEF Plus
    <3> DEFINE v == acc[w][l]
    <3>4. pass \notin {"A", "B", "C"}
      BY <1>1
    <3> HIDE DEF v
    <3>5. v \in Int /\ Same(v, Half(in, Row)[At(w, l)])
      BY <3>2 DEF v
    <3>6. /\ (v + MinusCT1(w)[l]) + Columns(2, 3, w)[l] \in Int
          /\ Same((v + MinusCT1(w)[l]) + Columns(2, 3, w)[l], Target(in, Row)[At(w, l)])
      BY ONLY <1>4, <1>5, <3>4, <3>5, w \in Words, l \in Lanes, TargetValue
    <3> QED BY <3>1, <3>3, <3>6 DEF v, StandsFor
  <2>2. CASE w \notin Turn
    <3>1. w < 4 * block <=> w < 4 * block + 4
      BY <1>1, <2>2 DEF Turn, Words
    <3>2. StandsFor(acc, w, l, IF w < 4 * block + 4 THEN Target(in, Row) ELSE Half(in, Row))
      BY <1>5, <3>1
    <3>3. acc'[w] = acc[w]
      BY <1>2, <2>2
    <3> QED BY <3>2, <3>3 DEF StandsFor
  <2> QED BY <2>1, <2>2
<1>7. Row' = Row
  BY <1>2 DEF Row
<1>8. AccStands(in)'
  <2>1. CASE pass' = "mac2"
    <3>1. 4 * block' = 4 * block + 4
      BY <1>1, <1>3, <2>1
    <3> QED BY <1>6, <1>7, <2>1, <3>1 DEF AccStands
  <2>2. CASE pass' = "entry"
    <3>1. \A w \in Words : ~ (w < block') /\ w < 4 * block + 4
      BY <1>1, <1>3, <2>2 DEF Words
    <3>2. InvTower(Target(in, Row))[0] = Target(in, Row)
      <4>1. Target(in, Row) \in Ints
        BY <1>4, <1>5, TargetInts
      <4> QED BY ONLY <4>1, InvTowerIs
    <3>3. \A w \in Words : \A l \in Lanes :
            StandsFor(acc', w, l, InvTower(Target(in, Row))[IF w < block' THEN 2 ELSE 0])
      BY <1>6, <3>1, <3>2
    <3> QED BY <1>7, <2>2, <3>3 DEF AccStands
  <2> QED BY <1>3, <2>1, <2>2
<1>9. PolyStands(in)'
  <2>1. pass \notin {"A", "B", "C"} /\ pass' \notin {"A", "B", "C"}
    BY <1>1, <1>3
  <2> QED BY <1>2, <1>5, <2>1, PolyStandsKept
<1>10. RowsStand(in)'
  BY <1>2, <1>5 DEF RowsStand
<1> QED BY <1>2, <1>5, <1>8, <1>9, <1>10 DEF Values

-----------------------------------------------------------------------------
(* The inverse transform of the row. *)
LEMMA InverseStages ==
  ASSUME NEW in \in Inputs, NEW i \in 1 .. Rows, NEW k \in 0 .. 7
  PROVE  /\ InvTower(Target(in, i))[k] \in Ints
         /\ InvTower(Target(in, i))[k + 1] = InvStage(k, InvTower(Target(in, i))[k])
<1>1. Target(in, i) \in Ints
  BY TargetInts
<1>2. k \in 0 .. 8
  OBVIOUS
<1> QED BY ONLY <1>1, <1>2, k \in 0 .. 7, InvTowerIs

LEMMA ValuesEntry ==
  ASSUME LaneInv, Entry, NEW in, Values(in)
  PROVE  Values(in)'
<1>1. pass = "entry" /\ block \in 0 .. 63 /\ layer = 1
  BY DEF Entry, LaneInv, Control
<1>2. UNCHANGED <<input, slack, which, poly, r>>
      /\ acc' = [acc EXCEPT ![block] = EntryWord(@, block)]
  BY DEF Entry
<1>3. \/ layer' = 1 /\ block < 63 /\ block' = block + 1 /\ pass' = "entry"
      \/ layer' = 1 /\ block = 63 /\ block' = 0 /\ pass' = "34"
  BY <1>1 DEF Entry, Advance
<1>4. Row \in 1 .. Rows
  BY <1>1, RowInRange DEF LaneInv
<1> DEFINE g == InvTower(Target(in, Row))
<1>5. in \in Inputs /\ input = in /\ PolyStands(in) /\ RowsStand(in)
      /\ \A w \in Words : \A l \in Lanes : StandsFor(acc, w, l, g[IF w < block THEN 2 ELSE 0])
  BY <1>1 DEF Values, AccStands
<1>6. block \in Words /\ DOMAIN acc = Words
  BY <1>1 DEF LaneInv, Memory, Words
<1>7. g[0] \in Ints /\ g[2] = InvStage(1, InvStage(0, g[0]))
  <2>1. g[0] \in Ints /\ g[0 + 1] = InvStage(0, g[0])
    BY ONLY <1>4, <1>5, 0 \in 0 .. 7, InverseStages
  <2>2. g[1 + 1] = InvStage(1, g[1])
    BY ONLY <1>4, <1>5, 1 \in 0 .. 7, InverseStages
  <2>3. 0 + 1 = 1 /\ 1 + 1 = 2
    OBVIOUS
  <2> QED BY ONLY <2>1, <2>2, <2>3
<1> HIDE DEF g
<1>8. WordStandsFor(EntryWord(acc[block], block), block, g[2])
  <2> DEFINE x == acc[block]  f == g[0]
  <2>1. WordStandsFor(x, block, f)
    <3>1. ~ (block < block)
      BY <1>1
    <3>2. \A l \in Lanes : StandsFor(acc, block, l, g[0])
      BY <1>5, <1>6, <3>1
    <3> QED BY <3>2 DEF WordStandsFor, StandsFor
  <2>2. f \in Ints
    BY <1>7
  <2> HIDE DEF x, f
  <2>3. WordStandsFor(EntryWord(x, block), block, InvStage(1, InvStage(0, f)))
    BY ONLY <1>6, <2>1, <2>2, EntryWordValue
  <2> QED BY <1>7, <2>3 DEF x, f
<1>9. ASSUME NEW w \in Words, NEW l \in Lanes
      PROVE  StandsFor(acc', w, l, g[IF w <= block THEN 2 ELSE 0])
  <2>1. CASE w = block
    <3>1. acc'[w] = EntryWord(acc[block], block) /\ w <= block
      BY <1>1, <1>2, <1>6, <2>1
    <3> QED BY <1>8, <2>1, <3>1 DEF WordStandsFor, StandsFor
  <2>2. CASE w # block
    <3>1. (w < block <=> w <= block) /\ acc'[w] = acc[w]
      BY <1>1, <1>2, <1>6, <2>2 DEF Words
    <3>2. StandsFor(acc, w, l, g[IF w <= block THEN 2 ELSE 0])
      BY <1>5, <3>1
    <3> QED BY <3>1, <3>2 DEF StandsFor
  <2> QED BY <2>1, <2>2
<1>10. Row' = Row
  BY <1>2 DEF Row
<1>11. AccStands(in)'
  <2>1. CASE pass' = "entry"
    <3>1. \A w \in Words : w < block' <=> w <= block
      BY <1>1, <1>3, <2>1 DEF Words
    <3>2. \A w \in Words : \A l \in Lanes :
            StandsFor(acc', w, l, InvTower(Target(in, Row))[IF w < block' THEN 2 ELSE 0])
      BY <1>9, <3>1 DEF g
    <3> QED BY <1>10, <2>1, <3>2 DEF AccStands
  <2>2. CASE pass' = "34"
    <3>1. \A w \in Words : InverseDone(w)' = 0 /\ w <= block
      BY <1>3, <2>2 DEF InverseDone, BlockOf, Words
    <3>2. After(in, Row, 0) = g[2]
      BY DEF After, g
    <3>3. \A w \in Words : \A l \in Lanes : StandsFor(acc', w, l, After(in, Row, InverseDone(w)'))
      BY <1>9, <3>1, <3>2
    <3> QED BY <1>10, <2>2, <3>3 DEF AccStands
  <2> QED BY <1>3, <2>1, <2>2
<1>12. PolyStands(in)'
  <2>1. pass \notin {"A", "B", "C"} /\ pass' \notin {"A", "B", "C"}
    BY <1>1, <1>3
  <2> QED BY <1>2, <1>5, <2>1, PolyStandsKept
<1>13. RowsStand(in)'
  BY <1>2, <1>5 DEF RowsStand
<1> QED BY <1>2, <1>5, <1>11, <1>12, <1>13 DEF Values

(* A layer of a quad is a stage of InvTower. *)
LEMMA InverseStands ==
  ASSUME NEW in \in Inputs, NEW i \in 1 .. Rows, SlackOK,
         NEW quad, quad \subseteq Words, NEW t, NEW d \in 0 .. 4, Strided(t, d + 2),
         \A w \in quad : Partner(w, t) \in quad,
         \A w \in quad : \A l \in Lanes : StandsFor(acc, w, l, After(in, i, d))
  PROVE  \A w \in quad : \A l \in Lanes :
           StandsFor(InverseLayer(acc, quad, t, slack), w, l, After(in, i, d + 1))
<1> SUFFICES ASSUME NEW w \in quad, NEW l \in Lanes
             PROVE  StandsFor(InverseLayer(acc, quad, t, slack), w, l, After(in, i, d + 1))
  OBVIOUS
<1> DEFINE f == InvTower(Target(in, i))[d + 2]
           e == d + 2
<1>1. After(in, i, d) = f /\ After(in, i, d + 1) = InvTower(Target(in, i))[e + 1] /\ e \in 0 .. 7
  <2>1. d # 6 /\ d + 1 # 6 /\ (d + 1) + 2 = e + 1 /\ e \in 0 .. 7
    OBVIOUS
  <2> QED BY <2>1 DEF After
<1>2. f \in Ints /\ InvTower(Target(in, i))[e + 1] = InvStage(e, f)
  BY <1>1, InverseStages
<1>3. Partner(w, t) \in quad /\ Partner(w, t) \in Words
  OBVIOUS
<1>4. StandsFor(acc, w, l, f) /\ StandsFor(acc, Partner(w, t), l, f)
  BY <1>1, <1>3
<1>5. Strided(t, e)
  OBVIOUS
<1> HIDE DEF f, e
<1>6. StandsFor(InverseLayer(acc, quad, t, slack), w, l, InvStage(e, f))
  BY ONLY <1>2, <1>3, <1>4, <1>5, SlackOK, quad \subseteq Words, w \in quad, l \in Lanes, InverseLayerValue
<1> QED BY <1>1, <1>2, <1>6

LEMMA LastStands ==
  ASSUME NEW in \in Inputs, NEW i \in 1 .. Rows, NEW quad, quad \subseteq Words,
         \A w \in quad : Partner(w, 32) \in quad,
         \A w \in quad : \A l \in Lanes : StandsFor(acc, w, l, After(in, i, 5))
  PROVE  \A w \in quad : \A l \in Lanes : StandsFor(LastLayer(acc, quad), w, l, After(in, i, 6))
<1> SUFFICES ASSUME NEW w \in quad, NEW l \in Lanes
             PROVE  StandsFor(LastLayer(acc, quad), w, l, After(in, i, 6))
  OBVIOUS
<1> DEFINE f == InvTower(Target(in, i))[7]
<1>1. After(in, i, 5) = f /\ After(in, i, 6) = Scaled(in, i)
  BY DEF After
<1>2. f \in Ints /\ InvTower(Target(in, i))[8] = InvStage(7, f)
  <2>1. f \in Ints /\ InvTower(Target(in, i))[7 + 1] = InvStage(7, f)
    BY ONLY in \in Inputs, i \in 1 .. Rows, 7 \in 0 .. 7, InverseStages
  <2>2. 7 + 1 = 8
    OBVIOUS
  <2> QED BY ONLY <2>1, <2>2
<1>3. Partner(w, 32) \in quad /\ Partner(w, 32) \in Words /\ w \in Words
  OBVIOUS
<1>4. StandsFor(acc, w, l, f) /\ StandsFor(acc, Partner(w, 32), l, f)
  BY <1>1, <1>3
<1>5. At(w, l) \in 0 .. 255
  BY <1>3, AtIs
<1>6. Scaled(in, i)[At(w, l)] = NINV * InvStage(7, f)[At(w, l)]
  BY <1>2, <1>5 DEF Scaled
<1> HIDE DEF f
<1>7. /\ LastLayer(acc, quad)[w][l] \in Int
      /\ Same(LastLayer(acc, quad)[w][l], NINV * InvStage(7, f)[At(w, l)])
  BY ONLY <1>2, <1>3, <1>4, quad \subseteq Words, w \in quad, l \in Lanes, LastLayerValue
<1> QED BY <1>1, <1>6, <1>7 DEF StandsFor

LEMMA QuadStands ==
  ASSUME NEW in, NEW i, NEW quad, NEW d,
         \A w \in Words : \A l \in Lanes : StandsFor(acc, w, l, After(in, i, InverseDone(w))),
         \A w \in quad : \A l \in Lanes : StandsFor(acc', w, l, After(in, i, d + 1)),
         \A w \in Words \ quad : acc'[w] = acc[w]
  PROVE  \A w \in Words : \A l \in Lanes :
           StandsFor(acc', w, l, After(in, i, IF w \in quad THEN d + 1 ELSE InverseDone(w)))
<1> SUFFICES ASSUME NEW w \in Words, NEW l \in Lanes
             PROVE  StandsFor(acc', w, l, After(in, i, IF w \in quad THEN d + 1 ELSE InverseDone(w)))
  OBVIOUS
<1>1. CASE w \in quad
  BY <1>1
<1>2. CASE w \notin quad
  <2>1. StandsFor(acc, w, l, After(in, i, InverseDone(w))) /\ acc'[w] = acc[w]
    BY <1>2
  <2> QED BY <1>2, <2>1 DEF StandsFor
<1> QED BY <1>1, <1>2

LEMMA ValuesLayers34 ==
  ASSUME LaneInv, Layers34, NEW in, Values(in)
  PROVE  Values(in)'
<1>1. pass = "34" /\ block \in 0 .. 15 /\ layer \in 1 .. 2
  BY DEF Layers34, LaneInv, Control
<1> DEFINE t == <<1, 2>>[layer]
           quad == Quad34(block)
           d == layer - 1
<1>2. UNCHANGED <<input, slack, which, poly, r>> /\ acc' = InverseLayer(acc, quad, t, slack)
  BY DEF Layers34
<1>3. \/ layer = 1 /\ layer' = 2 /\ block' = block /\ pass' = "34"
      \/ layer = 2 /\ layer' = 1 /\ block < 15 /\ block' = block + 1 /\ pass' = "34"
      \/ layer = 2 /\ layer' = 1 /\ block = 15 /\ block' = 0 /\ pass' = "56"
  BY <1>1 DEF Layers34, Advance
<1>4. Strided(t, d + 2) /\ t \in {1, 2} /\ d \in 0 .. 4
  BY <1>1 DEF Strided
<1>5. \A w \in Words : w \in quad <=> BlockOf(w) = block
  BY <1>1, BlockIsQuad
<1>6. \A w \in quad : InverseDone(w) = d
  BY <1>1, <1>5, QuadsClosed DEF InverseDone
<1>7. \A w \in Words : InverseDone(w)' = IF w \in quad THEN d + 1 ELSE InverseDone(w)
  BY <1>1, <1>3 DEF InverseDone, BlockOf, Quad34, Words
<1>8. in \in Inputs /\ input = in /\ PolyStands(in) /\ RowsStand(in)
      /\ \A w \in Words : \A l \in Lanes : StandsFor(acc, w, l, After(in, Row, InverseDone(w)))
  BY <1>1 DEF Values, AccStands
<1>9. Row \in 1 .. Rows
  BY <1>1, RowInRange DEF LaneInv
<1> HIDE DEF t, quad, d
<1>10. quad \subseteq Words /\ \A w \in quad : Partner(w, t) \in quad
  BY <1>1, <1>4, QuadsClosed DEF quad
<1>11. \A w \in quad : \A l \in Lanes : StandsFor(acc, w, l, After(in, Row, d))
  BY <1>6, <1>8, <1>10
<1>12. SlackOK
  BY DEF LaneInv, Memory
<1>13. \A w \in quad : \A l \in Lanes : StandsFor(acc', w, l, After(in, Row, d + 1))
  <2>1. \A w \in quad : \A l \in Lanes :
          StandsFor(InverseLayer(acc, quad, t, slack), w, l, After(in, Row, d + 1))
    BY ONLY <1>4, <1>8, <1>9, <1>10, <1>11, <1>12, InverseStands
  <2> QED BY <1>2, <2>1
<1>14. \A w \in Words \ quad : acc'[w] = acc[w]
  BY <1>2, InverseLayerElsewhere
<1>15. Row' = Row /\ pass' \in {"34", "56", "78"}
  BY <1>2, <1>3 DEF Row
<1>16. AccStands(in)'
  <2>1. \A w \in Words : \A l \in Lanes :
          StandsFor(acc', w, l, After(in, Row, IF w \in quad THEN d + 1 ELSE InverseDone(w)))
    BY ONLY <1>8, <1>13, <1>14, QuadStands
  <2>2. \A w \in Words : \A l \in Lanes : StandsFor(acc', w, l, After(in, Row, InverseDone(w)'))
    BY <1>7, <2>1
  <2> QED BY <1>15, <2>2 DEF AccStands
<1>17. PolyStands(in)'
  <2>1. pass \notin {"A", "B", "C"} /\ pass' \notin {"A", "B", "C"}
    BY <1>1, <1>3
  <2> QED BY <1>2, <1>8, <2>1, PolyStandsKept
<1>18. RowsStand(in)'
  BY <1>2, <1>8 DEF RowsStand
<1> QED BY <1>2, <1>8, <1>16, <1>17, <1>18 DEF Values

LEMMA ValuesLayers56 ==
  ASSUME LaneInv, Layers56, NEW in, Values(in)
  PROVE  Values(in)'
<1>1. pass = "56" /\ block \in 0 .. 15 /\ layer \in 1 .. 2
  BY DEF Layers56, LaneInv, Control
<1> DEFINE t == <<4, 8>>[layer]
           quad == Quad56(block)
           d == layer + 1
<1>2. UNCHANGED <<input, slack, which, poly, r>> /\ acc' = InverseLayer(acc, quad, t, slack)
  BY DEF Layers56
<1>3. \/ layer = 1 /\ layer' = 2 /\ block' = block /\ pass' = "56"
      \/ layer = 2 /\ layer' = 1 /\ block < 15 /\ block' = block + 1 /\ pass' = "56"
      \/ layer = 2 /\ layer' = 1 /\ block = 15 /\ block' = 0 /\ pass' = "78"
  BY <1>1 DEF Layers56, Advance
<1>4. Strided(t, d + 2) /\ t \in {4, 8} /\ d \in 0 .. 4
  BY <1>1 DEF Strided
<1>5. \A w \in Words : w \in quad <=> BlockOf(w) = block
  BY <1>1, BlockIsQuad
<1>6. \A w \in quad : InverseDone(w) = d
  BY <1>1, <1>5, QuadsClosed DEF InverseDone
<1>7. \A w \in Words : InverseDone(w)' = IF w \in quad THEN d + 1 ELSE InverseDone(w)
  BY <1>1, <1>3 DEF InverseDone, BlockOf, Quad56, Words
<1>8. in \in Inputs /\ input = in /\ PolyStands(in) /\ RowsStand(in)
      /\ \A w \in Words : \A l \in Lanes : StandsFor(acc, w, l, After(in, Row, InverseDone(w)))
  BY <1>1 DEF Values, AccStands
<1>9. Row \in 1 .. Rows
  BY <1>1, RowInRange DEF LaneInv
<1> HIDE DEF t, quad, d
<1>10. quad \subseteq Words /\ \A w \in quad : Partner(w, t) \in quad
  BY <1>1, <1>4, QuadsClosed DEF quad
<1>11. \A w \in quad : \A l \in Lanes : StandsFor(acc, w, l, After(in, Row, d))
  BY <1>6, <1>8, <1>10
<1>12. SlackOK
  BY DEF LaneInv, Memory
<1>13. \A w \in quad : \A l \in Lanes : StandsFor(acc', w, l, After(in, Row, d + 1))
  <2>1. \A w \in quad : \A l \in Lanes :
          StandsFor(InverseLayer(acc, quad, t, slack), w, l, After(in, Row, d + 1))
    BY ONLY <1>4, <1>8, <1>9, <1>10, <1>11, <1>12, InverseStands
  <2> QED BY <1>2, <2>1
<1>14. \A w \in Words \ quad : acc'[w] = acc[w]
  BY <1>2, InverseLayerElsewhere
<1>15. Row' = Row /\ pass' \in {"34", "56", "78"}
  BY <1>2, <1>3 DEF Row
<1>16. AccStands(in)'
  <2>1. \A w \in Words : \A l \in Lanes :
          StandsFor(acc', w, l, After(in, Row, IF w \in quad THEN d + 1 ELSE InverseDone(w)))
    BY ONLY <1>8, <1>13, <1>14, QuadStands
  <2>2. \A w \in Words : \A l \in Lanes : StandsFor(acc', w, l, After(in, Row, InverseDone(w)'))
    BY <1>7, <2>1
  <2> QED BY <1>15, <2>2 DEF AccStands
<1>17. PolyStands(in)'
  <2>1. pass \notin {"A", "B", "C"} /\ pass' \notin {"A", "B", "C"}
    BY <1>1, <1>3
  <2> QED BY <1>2, <1>8, <2>1, PolyStandsKept
<1>18. RowsStand(in)'
  BY <1>2, <1>8 DEF RowsStand
<1> QED BY <1>2, <1>8, <1>16, <1>17, <1>18 DEF Values

LEMMA ValuesLayers78 ==
  ASSUME LaneInv, Layers78, NEW in, Values(in)
  PROVE  Values(in)'
<1>1. pass = "78" /\ block \in 0 .. 15 /\ layer \in 1 .. 2
  BY DEF Layers78, LaneInv, Control
<1> DEFINE quad == Quad78(block)
           d == layer + 3
<1>2. UNCHANGED <<input, slack, which, poly>>
      /\ acc' = (IF layer = 1 THEN InverseLayer(acc, quad, 16, slack) ELSE LastLayer(acc, quad))
      /\ r' = (IF block = 15 /\ layer = 2 THEN Append(r, acc') ELSE r)
  BY DEF Layers78
<1>3. \/ layer = 1 /\ layer' = 2 /\ block' = block /\ pass' = "78"
      \/ layer = 2 /\ layer' = 1 /\ block < 15 /\ block' = block + 1 /\ pass' = "78"
      \/ layer = 2 /\ layer' = 1 /\ block = 15 /\ block' = 0
         /\ pass' = IF Row < Rows THEN "mac1" ELSE "done"
  BY <1>1 DEF Layers78, Advance
<1>4. (layer = 1 => d = 4) /\ (layer = 2 => d = 5) /\ Strided(16, 4 + 2)
  BY <1>1 DEF Strided
<1>5. \A w \in Words : w \in quad <=> BlockOf(w) = block
  BY <1>1, BlockIsQuad
<1>6. \A w \in quad : InverseDone(w) = d
  BY <1>1, <1>5, QuadsClosed DEF InverseDone
<1>7. pass' = "78" => \A w \in Words : InverseDone(w)' = IF w \in quad THEN d + 1 ELSE InverseDone(w)
  BY <1>1, <1>3 DEF InverseDone, BlockOf, Quad78, Words
<1>8. (block = 15 /\ layer = 2) => \A w \in Words : w \notin quad => InverseDone(w) = 6
  BY <1>1 DEF InverseDone, BlockOf, Quad78, Words
<1>9. in \in Inputs /\ input = in /\ PolyStands(in) /\ RowsStand(in)
      /\ \A w \in Words : \A l \in Lanes : StandsFor(acc, w, l, After(in, Row, InverseDone(w)))
  BY <1>1 DEF Values, AccStands
<1>10. Row \in 1 .. Rows
  BY <1>1, RowInRange DEF LaneInv
<1> HIDE DEF quad, d
<1>11. quad \subseteq Words /\ \A w \in quad : Partner(w, 16) \in quad /\ Partner(w, 32) \in quad
  BY <1>1, QuadsClosed DEF quad
<1>12. SlackOK
  BY DEF LaneInv, Memory
<1>13. \A w \in quad : \A l \in Lanes : StandsFor(acc', w, l, After(in, Row, d + 1))
  <2>1. CASE layer = 1
    <3>1. \A w \in quad : \A l \in Lanes : StandsFor(acc, w, l, After(in, Row, 4))
      BY <1>4, <1>6, <1>9, <1>11, <2>1
    <3>2. \A w \in quad : Partner(w, 16) \in quad
      BY <1>11
    <3>3. \A w \in quad : \A l \in Lanes :
            StandsFor(InverseLayer(acc, quad, 16, slack), w, l, After(in, Row, 4 + 1))
      BY ONLY <1>4, <1>9, <1>10, <1>11, <1>12, <3>1, <3>2, 4 \in 0 .. 4, InverseStands
    <3> QED BY <1>2, <1>4, <2>1, <3>3
  <2>2. CASE layer = 2
    <3>1. \A w \in quad : \A l \in Lanes : StandsFor(acc, w, l, After(in, Row, 5))
      BY <1>4, <1>6, <1>9, <1>11, <2>2
    <3>2. \A w \in quad : Partner(w, 32) \in quad
      BY <1>11
    <3>3. \A w \in quad : \A l \in Lanes : StandsFor(LastLayer(acc, quad), w, l, After(in, Row, 6))
      BY ONLY <1>9, <1>10, <1>11, <3>1, <3>2, LastStands
    <3>4. d + 1 = 6 /\ acc' = LastLayer(acc, quad)
      BY <1>2, <1>4, <2>2
    <3> QED BY <3>3, <3>4
  <2> QED BY <1>1, <2>1, <2>2
<1>14. \A w \in Words \ quad : acc'[w] = acc[w]
  BY <1>2, InverseLayerElsewhere, LastLayerElsewhere
<1>15. \A w \in Words : \A l \in Lanes :
         StandsFor(acc', w, l, After(in, Row, IF w \in quad THEN d + 1 ELSE InverseDone(w)))
  BY ONLY <1>9, <1>13, <1>14, QuadStands
<1>16. ASSUME block = 15, layer = 2
       PROVE  \A w \in Words : \A l \in Lanes : StandsFor(acc', w, l, Scaled(in, Row))
  <2>1. \A w \in Words : (IF w \in quad THEN d + 1 ELSE InverseDone(w)) = 6
    BY <1>4, <1>8, <1>16
  <2>2. After(in, Row, 6) = Scaled(in, Row)
    BY DEF After
  <2> QED BY <1>15, <2>1, <2>2
<1>17. AccStands(in)'
  <2>1. CASE pass' = "78"
    <3>1. ~ (block = 15 /\ layer = 2)
      BY <1>3, <2>1
    <3>2. Row' = Row
      BY <1>2, <3>1 DEF Row
    <3>3. \A w \in Words : \A l \in Lanes : StandsFor(acc', w, l, After(in, Row, InverseDone(w)'))
      BY <1>7, <1>15, <2>1
    <3> QED BY <2>1, <3>2, <3>3 DEF AccStands
  <2>2. CASE pass' # "78"
    <3>1. pass' \in {"mac1", "done"} /\ (pass' = "mac1" => block' = 0)
      BY <1>3, <2>2
    <3>2. \A w \in Words : ~ (w < 4 * 0)
      BY DEF Words
    <3> QED BY <3>1, <3>2 DEF AccStands
  <2> QED BY <2>1, <2>2
<1>18. PolyStands(in)'
  <2>1. pass \notin {"A", "B", "C"} /\ pass' \notin {"A", "B", "C"}
    BY <1>1, <1>3
  <2> QED BY <1>2, <1>9, <2>1, PolyStandsKept
<1>19. RowsStand(in)'
  <2>1. CASE block = 15 /\ layer = 2
    <3>1. PICK S : r \in Seq(S)
      BY DEF LaneInv, RowsInv
    <3> DEFINE T == S \cup {acc'}
    <3>2. r \in Seq(T) /\ acc' \in T
      BY <3>1, SeqMonotonic
    <3> HIDE DEF T
    <3>3. r' = Append(r, acc')
      BY <1>2, <2>1
    <3>4. /\ Len(r') = Len(r) + 1 /\ Len(r) \in Nat
          /\ \A i \in 1 .. Len(r) : r'[i] = r[i]
          /\ r'[Len(r) + 1] = acc'
      BY <3>2, <3>3, AppendProperties, LenProperties
    <3> SUFFICES ASSUME NEW i \in 1 .. Len(r'), NEW w \in Words, NEW l \in Lanes
                 PROVE  StandsFor(r'[i], w, l, Scaled(in, i))
      BY DEF RowsStand
    <3>5. CASE i = Row
      BY <1>16, <2>1, <3>4, <3>5 DEF Row
    <3>6. CASE i # Row
      <4>1. i \in 1 .. Len(r)
        BY <3>4, <3>6 DEF Row
      <4>2. r'[i] = r[i] /\ StandsFor(r[i], w, l, Scaled(in, i))
        BY <1>9, <3>4, <4>1 DEF RowsStand
      <4> QED BY <4>2
    <3> QED BY <3>5, <3>6
  <2>2. CASE ~ (block = 15 /\ layer = 2)
    BY <1>2, <1>9, <2>2 DEF RowsStand
  <2> QED BY <2>1, <2>2
<1> QED BY <1>2, <1>9, <1>17, <1>18, <1>19 DEF Values

LEMMA StepValues ==
  ASSUME LaneInv, [RecoverNext]_allVars, NEW in, Values(in)
  PROVE  Values(in)'
<1>1. CASE Next
  BY <1>1, ValuesPassA, ValuesPassB, ValuesPassC, ValuesMacFirst, ValuesMacSecond, ValuesEntry,
     ValuesLayers34, ValuesLayers56, ValuesLayers78 DEF Next
<1>2. CASE BeginUseHint
  <2>1. pass = "done" /\ pass' = "w1" /\ UNCHANGED <<input, poly, r>>
    BY <1>2 DEF BeginUseHint
  <2>2. PolyStands(in)'
    BY <2>1, PolyStandsKept DEF Values
  <2>3. AccStands(in)' /\ RowsStand(in)'
    BY <2>1 DEF Values, AccStands, RowsStand
  <2> QED BY <2>1, <2>2, <2>3 DEF Values
<1>3. CASE UNCHANGED vars
  <2>1. UNCHANGED <<input, slack, pass, which, block, layer, poly, acc, r>>
    BY <1>3 DEF vars
  <2>2. PolyStands(in)'
    BY <2>1 DEF Values, PolyStands, LayersDone
  <2>3. AccStands(in)'
    <3>1. \A w \in Words : InverseDone(w)' = InverseDone(w)
      BY <2>1 DEF InverseDone, BlockOf
    <3>2. Row' = Row
      BY <2>1 DEF Row
    <3> QED BY <2>1, <3>1, <3>2 DEF Values, AccStands
  <2>4. RowsStand(in)'
    BY <2>1 DEF Values, RowsStand
  <2> QED BY <2>1, <2>2, <2>3, <2>4 DEF Values
<1> QED BY <1>1, <1>2, <1>3 DEF RecoverNext, WPrimeRows, UseHintTurn, allVars

ValueInv == \E in : Values(in)

LEMMA StepValueInv == LaneInv /\ ValueInv /\ [RecoverNext]_allVars => ValueInv'
<1> SUFFICES ASSUME LaneInv, ValueInv, [RecoverNext]_allVars PROVE ValueInv'
  OBVIOUS
<1>1. PICK in : Values(in)
  BY DEF ValueInv
<1>2. Values(in)'
  BY <1>1, StepValues
<1> QED BY <1>2 DEF ValueInv

-----------------------------------------------------------------------------
(* The values at the points, canonical.                                    *)
LEMMA ValueIs ==
  ASSUME NEW m, Coefficients(m) \in Ints, NEW j \in 0 .. 255
  PROVE  ValueAt(m, Point(j)) \in 0 .. Q - 1 /\ ValueAt(m, Point(j)) = Runs(Coefficients(m), Point(j))[8][0]
<1>1. Point(j) \in Int
  BY PointIs
<1>2. Runs(Coefficients(m), Point(j))[7 + 1][0] \in 0 .. Q - 1
  BY ONLY <1>1, Coefficients(m) \in Ints, 7 \in 0 .. 7, 0 \in 0 .. 127, RunStep
<1>3. 7 + 1 = 8
  OBVIOUS
<1> QED BY <1>2, <1>3 DEF ValueAt

(* The transform of an input, as the value at the point. *)
LEMMA TransformValue ==
  ASSUME NEW in \in Inputs, NEW k \in 1 .. 5, NEW j \in 0 .. 255
  PROVE  /\ ValueAt(in[k], Point(j)) \in 0 .. Q - 1 /\ ValueAt(in[k], Point(j)) \in Int
         /\ Fw(in, k)[j] \in Int /\ Same(Fw(in, k)[j], ValueAt(in[k], Point(j)))
<1>1. Coefficients(in[k]) \in Ints
  BY InputInts
<1>2. ValueAt(in[k], Point(j)) \in 0 .. Q - 1
      /\ ValueAt(in[k], Point(j)) = Runs(Coefficients(in[k]), Point(j))[8][0]
  BY <1>1, ValueIs
<1>3. Fw(in, k)[j] \in Int /\ Same(Fw(in, k)[j], Runs(Coefficients(in[k]), Point(j))[8][0])
  BY <1>1, TowerValue DEF Fw
<1> QED BY <1>2, <1>3, QNat

LEMMA ForwardIsValue ==
  ASSUME NEW in, Values(in), pass \notin {"A", "B", "C"}, NEW k \in 1 .. 5, NEW j \in 0 .. 255
  PROVE  Coefficient(poly[k], j) % Q = ValueAt(input[k], Point(j))
<1> DEFINE w == j \div 4
           l == (j % 4) + 1
           x == Coefficient(poly[k], j)
           y == Fw(in, k)[j]
           v == ValueAt(in[k], Point(j))
<1>1. w \in Words /\ l \in Lanes /\ At(w, l) = j
  BY PlaceOf
<1>2. in \in Inputs /\ input = in /\ PolyStands(in)
  BY DEF Values
<1>3. x \in Int /\ y \in Int /\ Same(x, y)
  <2>1. x = poly[k][w][l]
    BY DEF Coefficient
  <2> HIDE DEF w, l
  <2>2. poly[k][w][l] \in Int /\ Same(poly[k][w][l], Fw(in, k)[At(w, l)]) /\ Fw(in, k)[At(w, l)] \in Int
    BY <1>1, <1>2, ForwardDone
  <2> QED BY <1>1, <2>1, <2>2
<1>4. v \in 0 .. Q - 1 /\ v \in Int /\ Same(y, v)
  BY <1>2, TransformValue
<1> HIDE DEF x, y, v
<1>5. x % Q = v % Q
  <2>1. Same(x, v)
    BY ONLY <1>3, <1>4, SameTrans
  <2> QED BY ONLY <1>3, <1>4, <2>1, SameResidues
<1>6. v % Q = v
  BY <1>4, QNat
<1> QED BY <1>2, <1>5, <1>6 DEF x, v

(* The lazy lanes, when the products begin, are congruent to the values of *)
(* the polynomials at the odd powers of psi in bit-reversed order, for     *)
(* every modulus, every table of roots and every slack.                    *)
THEOREM ForwardTransforms == RecoverSpec => []ForwardIsNtt
<1>1. ValueInv => ForwardIsNtt
  <2> SUFFICES ASSUME ValueInv, pass = "mac1", NEW k \in 1 .. 5, NEW j \in 0 .. 255
               PROVE  Coefficient(poly[k], j) % Q = ValueAt(input[k], Point(j))
    BY DEF ForwardIsNtt
  <2>1. PICK in : Values(in)
    BY DEF ValueInv
  <2>2. pass \notin {"A", "B", "C"}
    OBVIOUS
  <2> QED BY ONLY <2>1, <2>2, k \in 1 .. 5, j \in 0 .. 255, ForwardIsValue
<1>2. RecoverInit => ValueInv
  BY InitValues DEF ValueInv
<1> QED BY <1>1, <1>2, InitLaneInv, StepLaneInv, StepValueInv, PTL DEF RecoverSpec

LEMMA SameResidue ==
  ASSUME NEW a \in Int, NEW x \in Int, NEW v \in Int, Same(x, v)
  PROVE  /\ a * x \in Int /\ (a * v) % Q \in Int
         /\ Same(a * x, (a * v) % Q)
<1> DEFINE p == a * x  q == a * v
<1>1. p \in Int /\ q \in Int /\ Same(p, q)
  BY ONLY a \in Int, x \in Int, v \in Int, Same(x, v), SameTimes
<1> HIDE DEF p, q
<1>2. q % Q \in Int /\ Same(q, q % Q)
  BY ONLY <1>1, SameMod, QNat
<1>3. Same(p, q % Q)
  BY ONLY <1>1, <1>2, SameTrans
<1> QED BY <1>1, <1>2, <1>3 DEF p, q

LEMMA SameSums ==
  ASSUME NEW p0 \in Int, NEW p1 \in Int, NEW p2 \in Int, NEW p3 \in Int, NEW pc \in Int,
         NEW x0 \in Int, NEW x1 \in Int, NEW x2 \in Int, NEW x3 \in Int, NEW xc \in Int,
         Same(p0, x0), Same(p1, x1), Same(p2, x2), Same(p3, x3), Same(pc, xc)
  PROVE  Same(((p0 + p1) - pc) + (p2 + p3), x0 + x1 + x2 + x3 + Q - xc)
<1> DEFINE h == p0 + p1  k == x0 + x1  s == p2 + p3  y == x2 + x3
<1>1. h \in Int /\ k \in Int /\ Same(h, k) /\ s \in Int /\ y \in Int /\ Same(s, y)
  BY ONLY p0 \in Int, p1 \in Int, p2 \in Int, p3 \in Int, x0 \in Int, x1 \in Int, x2 \in Int, x3 \in Int,
     Same(p0, x0), Same(p1, x1), Same(p2, x2), Same(p3, x3), SamePlus
<1> HIDE DEF h, k, s, y
<1> DEFINE d == h - pc  e == k - xc
<1>2. d \in Int /\ e \in Int /\ Same(d, e)
  BY ONLY <1>1, pc \in Int, xc \in Int, Same(pc, xc), SamePlus
<1> HIDE DEF d, e
<1> DEFINE a == d + s  b == e + y
<1>3. a \in Int /\ b \in Int /\ Same(a, b)
  BY ONLY <1>1, <1>2, SamePlus
<1> HIDE DEF a, b
<1>4. Same(a, b + Q) /\ b + Q \in Int
  <2>1. 1 \in Int /\ 1 * Q = Q /\ Q \in Int
    BY QNat
  <2>2. Q \in Int /\ Same(Q, 0)
    BY ONLY <2>1, MultiplesAreZero
  <2>3. Same(b, a)
    BY ONLY <1>3, SameSym
  <2>4. Same(b + Q, a) /\ b + Q \in Int
    BY ONLY <1>3, <2>2, <2>3, SameOffset
  <2> QED BY ONLY <1>3, <2>4, SameSym
<1>5. b + Q = x0 + x1 + x2 + x3 + Q - xc
  BY QNat DEF b, e, k, y
<1> QED BY <1>4, <1>5 DEF a, d, h, s

LEMMA RowIsValue ==
  ASSUME NEW in, Values(in), NEW i \in 1 .. Rows, i \in 1 .. Len(r), NEW j \in 0 .. 255
  PROVE  LET az(k) == (Coefficient(A[i][k], j) * ValueAt(input[k + 2], Point(j))) % Q
             ct1   == (Coefficient(T1[i], j) * ValueAt(input[1], Point(j))) % Q
         IN  ValueAt(r[i], Point(j)) = (az(0) + az(1) + az(2) + az(3) + Q - ct1) % Q
<1> DEFINE g == Coefficients(r[i])
           a(k) == Coefficient(A[i][k], j)
           t == Coefficient(T1[i], j)
           v(k) == ValueAt(in[k], Point(j))
           f(k) == Fw(in, k)[j]
<1>1. in \in Inputs /\ input = in /\ RowsStand(in)
  BY DEF Values
<1>2. g \in Ints /\ \A n \in 0 .. 255 : Same(g[n], NINV * InvTower(Target(in, i))[8][n])
  <2>1. \A w \in Words : \A l \in Lanes : r[i][w][l] \in Int /\ Same(r[i][w][l], Scaled(in, i)[At(w, l)])
    BY <1>1 DEF RowsStand, StandsFor
  <2>2. g \in Ints
    BY ONLY <2>1, CoefficientsInts
  <2>3. ASSUME NEW n \in 0 .. 255 PROVE Same(g[n], NINV * InvTower(Target(in, i))[8][n])
    <3> DEFINE w == n \div 4  l == (n % 4) + 1
    <3>1. w \in Words /\ l \in Lanes /\ At(w, l) = n
      BY PlaceOf
    <3>2. g[n] = r[i][w][l]
      BY DEF Coefficients, Coefficient
    <3>3. Scaled(in, i)[n] = NINV * InvTower(Target(in, i))[8][n]
      BY DEF Scaled
    <3> HIDE DEF w, l, g
    <3>4. Same(r[i][w][l], Scaled(in, i)[n])
      BY <2>1, <3>1
    <3> QED BY <3>2, <3>3, <3>4
  <2> QED BY <2>2, <2>3
<1>3. Target(in, i) \in Ints
  BY <1>1, TargetInts
<1> DEFINE y == Target(in, i)[j]
           x == ValueAt(r[i], Point(j))
<1>4. x \in 0 .. Q - 1 /\ x \in Int /\ Same(x, y) /\ y \in Int
  <2>1. x \in 0 .. Q - 1 /\ x = Runs(g, Point(j))[8][0]
    BY <1>2, ValueIs
  <2>2. Runs(g, Point(j))[8][0] \in Int /\ Same(Runs(g, Point(j))[8][0], y)
    <3> HIDE DEF g
    <3> QED BY ONLY <1>2, <1>3, j \in 0 .. 255, ScaledValue
  <2>3. y \in Int
    BY ONLY <1>3, j \in 0 .. 255 DEF Ints
  <2> HIDE DEF x, y, g
  <2> QED BY <2>1, <2>2, <2>3
<1>5. a(0) \in Int /\ a(1) \in Int /\ a(2) \in Int /\ a(3) \in Int /\ t \in Int
  BY KeyInts
<1>6. \A k \in 1 .. 5 : v(k) \in Int /\ f(k) \in Int /\ Same(f(k), v(k))
  BY <1>1, TransformValue
<1>7. y = ((a(0) * f(2) + a(1) * f(3)) - t * f(1)) + (a(2) * f(4) + a(3) * f(5))
  BY DEF Target, Half
<1> HIDE DEF a, t, v, f, x, y, g
<1> DEFINE p0 == a(0) * f(2)  p1 == a(1) * f(3)  p2 == a(2) * f(4)  p3 == a(3) * f(5)  pc == t * f(1)
           x0 == (a(0) * v(2)) % Q  x1 == (a(1) * v(3)) % Q  x2 == (a(2) * v(4)) % Q
           x3 == (a(3) * v(5)) % Q  xc == (t * v(1)) % Q
<1>8. /\ v(1) \in Int /\ f(1) \in Int /\ Same(f(1), v(1)) /\ v(2) \in Int /\ f(2) \in Int /\ Same(f(2), v(2))
      /\ v(3) \in Int /\ f(3) \in Int /\ Same(f(3), v(3)) /\ v(4) \in Int /\ f(4) \in Int /\ Same(f(4), v(4))
      /\ v(5) \in Int /\ f(5) \in Int /\ Same(f(5), v(5))
  BY <1>6
<1>9. p0 \in Int /\ x0 \in Int /\ Same(p0, x0) /\ p1 \in Int /\ x1 \in Int /\ Same(p1, x1)
  BY ONLY <1>5, <1>8, SameResidue
<1>10. p2 \in Int /\ x2 \in Int /\ Same(p2, x2) /\ p3 \in Int /\ x3 \in Int /\ Same(p3, x3)
  BY ONLY <1>5, <1>8, SameResidue
<1>11. pc \in Int /\ xc \in Int /\ Same(pc, xc)
  BY ONLY <1>5, <1>8, SameResidue
<1>12. y = ((p0 + p1) - pc) + (p2 + p3)
  BY <1>7
<1> DEFINE az(k) == (Coefficient(A[i][k], j) * ValueAt(input[k + 2], Point(j))) % Q
           ct1   == (Coefficient(T1[i], j) * ValueAt(input[1], Point(j))) % Q
<1>13. az(0) = x0 /\ az(1) = x1 /\ az(2) = x2 /\ az(3) = x3 /\ ct1 = xc
  <2>1. 0 + 2 = 2 /\ 1 + 2 = 3 /\ 2 + 2 = 4 /\ 3 + 2 = 5
    OBVIOUS
  <2> QED BY ONLY <1>1, <2>1, Zenon DEF a, v, t, az, ct1, x0, x1, x2, x3, xc
<1> HIDE DEF az, ct1
<1> HIDE DEF p0, p1, p2, p3, pc, x0, x1, x2, x3, xc
<1> DEFINE z == x0 + x1 + x2 + x3 + Q - xc
<1>14. z \in Int /\ Same(y, z)
  <2>1. Same(((p0 + p1) - pc) + (p2 + p3), z)
    BY ONLY <1>9, <1>10, <1>11, SameSums
  <2>2. z \in Int
    BY <1>9, <1>10, <1>11, QNat
  <2> HIDE DEF z
  <2> QED BY <1>12, <2>1, <2>2
<1> HIDE DEF z
<1>15. x % Q = z % Q
  <2>1. Same(x, z)
    BY ONLY <1>4, <1>14, SameTrans
  <2> QED BY ONLY <1>4, <1>14, <2>1, SameResidues
<1>16. x % Q = x
  BY <1>4, QNat
<1>17. x = (az(0) + az(1) + az(2) + az(3) + Q - ct1) % Q
  BY ONLY <1>13, <1>15, <1>16 DEF z
<1> QED BY <1>17 DEF az, ct1, x

(* A finished row is canonical and is the inverse transform of the row of  *)
(* A times the transforms of z, less t1 times that of c (FIPS 204,         *)
(* Algorithm 8), for every modulus, table of roots, key, offsets within    *)
(* the assumptions and slack: neither the lazy lanes nor the dirt in the   *)
(* accumulator reach the row.                                              *)
THEOREM RowsAreAlgorithm8 == RecoverSpec => []RowIsAlgorithm8
<1>1. LaneInv /\ EncodeInv /\ ValueInv => RowIsAlgorithm8
  <2> SUFFICES ASSUME LaneInv, EncodeInv, ValueInv, pass = "done", NEW i \in 1 .. Rows
               PROVE  /\ \A w \in Words : \A l \in Lanes : r[i][w][l] \in Canonical
                      /\ \A j \in 0 .. 255 :
                           LET az(k) == (Coefficient(A[i][k], j) * ValueAt(input[k + 2], Point(j))) % Q
                               ct1   == (Coefficient(T1[i], j) * ValueAt(input[1], Point(j))) % Q
                           IN  ValueAt(r[i], Point(j)) = (az(0) + az(1) + az(2) + az(3) + Q - ct1) % Q
    BY DEF RowIsAlgorithm8
  <2>1. i \in 1 .. Len(r)
    BY DEF EncodeInv, RowsComplete
  <2>2. PICK in : Values(in)
    BY DEF ValueInv
  <2>3. \A w \in Words : \A l \in Lanes : r[i][w][l] \in Canonical
    BY <2>1 DEF LaneInv, RowsInv, RowsCanonical
  <2>4. \A j \in 0 .. 255 :
          LET az(k) == (Coefficient(A[i][k], j) * ValueAt(input[k + 2], Point(j))) % Q
              ct1   == (Coefficient(T1[i], j) * ValueAt(input[1], Point(j))) % Q
          IN  ValueAt(r[i], Point(j)) = (az(0) + az(1) + az(2) + az(3) + Q - ct1) % Q
    BY ONLY <2>1, <2>2, i \in 1 .. Rows, RowIsValue
  <2> QED BY <2>3, <2>4
<1>2. RecoverInit => ValueInv
  BY InitValues DEF ValueInv
<1>3. RecoverSpec => [](LaneInv /\ EncodeInv /\ ValueInv)
  BY <1>2, InitLaneInv, StepLaneInv, InitEncodeInv, StepEncodeInv, StepValueInv, PTL DEF RecoverSpec
<1> QED BY <1>1, <1>3, PTL
=============================================================================
