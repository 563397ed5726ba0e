----------------------------- MODULE HintProofs -----------------------------
(***************************************************************************)
(* Proofs about the decoders of a signature.  The hints: for any number of *)
(* polynomials and index bytes the accumulated flag of unpackHFast         *)
(* decides exactly the predicate of Algorithm 21, the scan stays inside    *)
(* the index bytes whatever the counters say, and the oracle differs on    *)
(* repeated indices alone.  z: unpackZPacked is BitUnpack, with the norm   *)
(* bound of every coefficient in its one answer.                           *)
(***************************************************************************)
EXTENDS UnpackZ, WellFoundedInduction, TLAPS

(* The rows as the scan sees them: with every cut clamped to Omega. *)
ScanStart(r) == IF r = 0 THEN 0 ELSE Clamp(Counter(r - 1))
ScanRow(r)   == ScanStart(r) .. Clamp(Counter(r)) - 1
RowBad(r)    == \E x \in ScanRow(r) : x - 1 \in ScanRow(r) /\ y[x] < y[x - 1] + 1
HeaderBad    == CountersBad \/ PaddingBad
RowsBad      == \E r \in 0 .. i - 1 : RowBad(r)
PartBad      == \E x \in kIdx .. j - 1 : x - 1 \in kIdx .. j - 1 /\ y[x] < y[x - 1] + 1

RowsDone ==
  /\ kIdx = ScanStart(i)
  /\ \A r \in 0 .. i - 1 : masks[r] = {y[x] : x \in ScanRow(r)}
  /\ ~ CountersBad => \A r \in 0 .. i - 1 : Counter(r) <= Counter(i - 1)

(* The loop invariant.  The last conjunct of RowsDone is the only induction *)
(* over the counters: the code compares neighbours, Algorithm 21 bounds     *)
(* each of them by Omega.                                                   *)
AtRow  == RowsDone /\ (bad <=> HeaderBad \/ RowsBad)
AtScan ==
  /\ RowsDone
  /\ i < K
  /\ cut = Clamp(Counter(i))
  /\ kIdx <= j /\ (j <= cut \/ j = kIdx)
  /\ prevP = IF j = kIdx THEN 0 ELSE y[j - 1] + 1
  /\ m = {y[x] : x \in kIdx .. j - 1}
  /\ bad <=> HeaderBad \/ RowsBad \/ PartBad

(* The rows are right whenever the counters are, whatever else is not.     *)
MasksAreRows == ~ CountersBad => \A r \in Rows : masks[r] = RowSet(r)

LInv ==
  /\ TypeOK
  /\ pc = "checks" => i = 0 /\ kIdx = 0 /\ ok = FALSE
  /\ pc \in {"row", "scan"} => len >= Size
  /\ pc = "row" => AtRow
  /\ pc = "scan" => AtScan
  /\ (pc = "done" /\ len >= Size) => MasksAreRows
  /\ DecodesAsAlgorithm21

LEMMA Sizes ==
  K \in Nat /\ K >= 1 /\ Omega \in Nat /\ Omega >= 1 /\ Size \in Nat /\ Size = Omega + K
  /\ MaxByte \in Nat /\ Word \in Nat /\ Word >= 1
  BY HintAssumption DEF Size

LEMMA CounterType ==
  ASSUME TypeOK, NEW r \in Rows
  PROVE  Counter(r) \in 0 .. MaxByte
  BY Sizes DEF TypeOK, Encodings, Bytes, Counter, Rows

LEMMA ClampType ==
  ASSUME NEW n \in Nat
  PROVE  Clamp(n) \in 0 .. Omega /\ (n <= Omega => Clamp(n) = n)
  BY Sizes DEF Clamp

(* The word-wise shift trick looks at every index byte past the last cut. *)
LEMMA PaddingIsTail ==
  ASSUME TypeOK
  PROVE  PaddingBad <=> \E x \in Counter(K - 1) .. Omega - 1 : y[x] # 0
<1>1. Counter(K - 1) \in Nat
  BY Sizes, CounterType DEF Rows
<1>2. ASSUME NEW w \in 0 .. (Omega - 1) \div Word, NEW k \in 0 .. Word - 1,
             w * Word + k < Omega, k >= Dropped(w), y[w * Word + k] # 0
      PROVE  \E x \in Counter(K - 1) .. Omega - 1 : y[x] # 0
  <2>1. w \in Nat /\ k \in Nat /\ w * Word \in Nat
    BY Sizes
  <2>2. w * Word + k \in Counter(K - 1) .. Omega - 1
    BY <1>1, <1>2, <2>1, Sizes DEF Dropped
  <2>3. QED
    BY <1>2, <2>2
<1>3. ASSUME NEW x \in Counter(K - 1) .. Omega - 1, y[x] # 0
      PROVE  PaddingBad
  <2> DEFINE w == x \div Word
  <2> DEFINE k == x % Word
  <2>1. x \in Nat /\ x <= Omega - 1
    BY <1>1, <1>3
  <2>2. w \in Nat /\ k \in 0 .. Word - 1 /\ x = w * Word + k
    BY <2>1, Sizes
  <2>3. w <= (Omega - 1) \div Word
    BY <2>1, Sizes
  <2>4. w \in 0 .. (Omega - 1) \div Word
    BY <2>1, <2>2, <2>3, Sizes
  <2>5. k >= Dropped(w)
    BY <1>1, <1>3, <2>2, Sizes DEF Dropped
  <2>6. QED
    BY <1>3, <2>1, <2>2, <2>4, <2>5, Sizes DEF PaddingBad
<1>4. QED
  BY <1>2, <1>3 DEF PaddingBad

LEMMA InitLInv == Init => LInv
<1> SUFFICES ASSUME Init PROVE LInv
  OBVIOUS
<1>1. TypeOK
  <2>1. masks \in [Rows -> SUBSET Bytes] /\ m \subseteq Bytes
    BY DEF Init
  <2>2. /\ i \in 0 .. K /\ j \in 0 .. Omega /\ kIdx \in 0 .. Omega
        /\ cut \in 0 .. Omega /\ prevP \in 0 .. MaxByte + 1 /\ weight \in Nat
    BY Sizes DEF Init
  <2>3. QED
    BY <2>1, <2>2 DEF Init, TypeOK
<1>2. QED
  BY <1>1 DEF Init, LInv, DecodesAsAlgorithm21

LEMMA ScanStartType ==
  ASSUME TypeOK, NEW r \in 0 .. K
  PROVE  ScanStart(r) \in 0 .. Omega
<1>1. CASE r = 0
  BY <1>1, Sizes DEF ScanStart
<1>2. CASE r # 0
  <2>1. r - 1 \in Rows
    BY <1>2, Sizes DEF Rows
  <2>2. Counter(r - 1) \in Nat
    BY <2>1, CounterType
  <2>3. QED
    BY <1>2, <2>2, ClampType DEF ScanStart
<1>3. QED
  BY <1>1, <1>2

(* The rows scanned so far are not touched by a step that keeps i, masks   *)
(* and kIdx.                                                               *)
LEMMA RowsDoneStable ==
  ASSUME UNCHANGED <<y, i, kIdx, masks>>
  PROVE  (RowsDone' <=> RowsDone) /\ (HeaderBad' <=> HeaderBad) /\ (RowsBad' <=> RowsBad)
  BY DEF RowsDone, HeaderBad, RowsBad, RowBad, ScanRow, ScanStart, Clamp, Counter,
         CountersBad, PaddingBad, Dropped

LEMMA StepType == LInv /\ [Next]_vars => TypeOK'
<1> SUFFICES ASSUME LInv, [Next]_vars PROVE TypeOK'
  OBVIOUS
<1> USE Sizes
<1>1. TypeOK
  BY DEF LInv
<1>2. CASE TooShort \/ Checks
  BY <1>1, <1>2 DEF TooShort, Checks, TypeOK, input
<1>3. CASE BeginRow
  <2>1. i \in Rows
    BY <1>1, <1>3 DEF BeginRow, TypeOK, Rows
  <2>2. cut' \in 0 .. Omega
    BY <1>1, <1>3, <2>1, CounterType, ClampType DEF BeginRow
  <2>3. QED
    BY <1>1, <1>3, <2>2 DEF BeginRow, TypeOK, input
<1>4. CASE ScanIndex
  <2>1. j \in 0 .. Size - 1 /\ j + 1 \in 0 .. Omega
    BY <1>1, <1>4 DEF ScanIndex, TypeOK
  <2>2. y[j] \in Bytes /\ y[j] + 1 \in 0 .. MaxByte + 1
    BY <1>1, <2>1 DEF TypeOK, Encodings, Bytes
  <2>3. m' \subseteq Bytes /\ bad' \in BOOLEAN
    BY <1>1, <1>4, <2>2 DEF ScanIndex, TypeOK
  <2>4. QED
    BY <1>1, <1>4, <2>1, <2>2, <2>3 DEF ScanIndex, TypeOK, input
<1>5. CASE EndRow
  <2>1. i < K
    BY <1>5 DEF EndRow, LInv, AtScan
  <2>2. masks' \in [Rows -> SUBSET Bytes]
    BY <1>1, <1>5 DEF EndRow, TypeOK
  <2>3. i' \in 0 .. K
    BY <1>1, <1>5, <2>1 DEF EndRow, TypeOK
  <2>4. QED
    BY <1>1, <1>5, <2>2, <2>3 DEF EndRow, TypeOK, input
<1>6. CASE Finish
  <2>1. Counter(K - 1) \in Nat
    BY <1>1, CounterType DEF Rows
  <2>2. QED
    BY <1>1, <1>6, <2>1 DEF Finish, TypeOK, input
<1>7. CASE UNCHANGED vars
  BY <1>1, <1>7 DEF vars, TypeOK
<1>8. QED
  BY <1>2, <1>3, <1>4, <1>5, <1>6, <1>7 DEF Next

(* With the header in order, the clamp is the identity and the scanned     *)
(* rows are the rows of the encoding.                                      *)
LEMMA ClampIsIdentity ==
  ASSUME TypeOK, AtRow, i = K, ~ CountersBad
  PROVE  /\ \A r \in Rows : Counter(r) <= Omega /\ ScanStart(r) = RowStart(r)
         /\ \A r \in Rows : ScanRow(r) = RowBytes(r)
<1> USE Sizes
<1>1. \A r \in Rows : Counter(r) \in Nat
  BY CounterType
<1>2. \A r \in Rows : Counter(r) <= Counter(K - 1)
  BY DEF AtRow, RowsDone, Rows
<1>3. Counter(K - 1) <= Omega
  BY <1>1 DEF CountersBad, Rows
<1>4. \A r \in Rows : Counter(r) <= Omega /\ Clamp(Counter(r)) = Counter(r)
  BY <1>1, <1>2, <1>3, ClampType DEF Rows
<1>5. \A r \in Rows : ScanStart(r) = RowStart(r)
  BY <1>4 DEF ScanStart, RowStart, Rows
<1>6. \A r \in Rows : RowStart(r) \in Nat
  BY <1>1 DEF RowStart, Rows
<1>7. ASSUME NEW r \in Rows PROVE ScanRow(r) = RowBytes(r)
  <2>1. Counter(r) \in Nat /\ Counter(r) <= Omega /\ RowStart(r) \in Nat
    BY <1>1, <1>4, <1>6
  <2>2. ScanRow(r) = RowStart(r) .. Counter(r) - 1
    BY <1>4, <1>5 DEF ScanRow
  <2>3. QED
    BY <2>1, <2>2 DEF RowBytes
<1>8. QED
  BY <1>4, <1>5, <1>7

LEMMA FlagDecides ==
  ASSUME TypeOK, AtRow, i = K
  PROVE  (~ bad <=> WellFormed) /\ (~ bad => ~ CountersBad) /\ MasksAreRows
<1> USE Sizes
<1>1. \A r \in Rows : Counter(r) \in Nat
  BY CounterType
<1>2. bad <=> CountersBad \/ PaddingBad \/ \E r \in Rows : RowBad(r)
  BY DEF AtRow, HeaderBad, RowsBad, Rows
<1>3. CASE CountersBad
  <2>1. ~ WellFormed
    <3>1. CASE \E r \in 1 .. K - 1 : Counter(r - 1) > Counter(r)
      <4>1. PICK r \in 1 .. K - 1 : Counter(r - 1) > Counter(r)
        BY <3>1
      <4>2. r \in Rows /\ r - 1 \in Rows /\ RowStart(r) = Counter(r - 1)
        BY <4>1 DEF Rows, RowStart
      <4>3. ~ RowStart(r) <= Counter(r)
        BY <1>1, <4>1, <4>2
      <4>4. QED
        BY <4>2, <4>3 DEF WellFormed
    <3>2. CASE Counter(K - 1) > Omega
      BY <1>1, <3>2 DEF WellFormed, Rows
    <3>3. QED
      BY <1>3, <3>1, <3>2 DEF CountersBad
  <2>2. QED
    BY <1>2, <1>3, <2>1 DEF MasksAreRows
<1>4. CASE ~ CountersBad
  <2>1. \A r \in Rows : Counter(r) <= Omega /\ RowStart(r) <= Counter(r)
    BY <1>1, <1>4, ClampIsIdentity DEF CountersBad, RowStart, Rows
  <2>2. \A r \in Rows : ScanRow(r) = RowBytes(r)
    BY <1>4, ClampIsIdentity
  <2>3. \A x \in 0 .. Omega - 1 : y[x] \in Nat
    BY DEF TypeOK, Encodings, Bytes
  <2>4. ASSUME NEW r \in Rows
        PROVE  RowBad(r) <=> ~ \A x \in RowBytes(r) : x - 1 \in RowBytes(r) => y[x - 1] < y[x]
    <3>1. \A x \in RowBytes(r) : y[x] \in Nat
      BY <2>3 DEF RowBytes
    <3>2. QED
      BY <2>2, <3>1 DEF RowBad
  <2>5. ~ PaddingBad <=> \A x \in Counter(K - 1) .. Omega - 1 : y[x] = 0
    BY PaddingIsTail
  <2>6. ~ bad <=> WellFormed
    BY <1>2, <1>4, <2>1, <2>4, <2>5 DEF WellFormed
  <2>7. \A r \in Rows : masks[r] = RowSet(r)
    <3>1. \A r \in Rows : masks[r] = {y[x] : x \in ScanRow(r)}
      BY DEF AtRow, RowsDone, Rows
    <3>2. QED
      BY <2>2, <3>1 DEF RowSet
  <2>8. QED
    BY <1>4, <2>6, <2>7 DEF MasksAreRows
<1>5. QED
  BY <1>3, <1>4

LEMMA StepLInv == LInv /\ [Next]_vars => LInv'
<1> SUFFICES ASSUME LInv, [Next]_vars PROVE LInv'
  OBVIOUS
<1> USE Sizes
<1>1. TypeOK /\ TypeOK'
  BY StepType DEF LInv
<1>2. CASE TooShort
  <2>1. pc' = "done" /\ ok' = FALSE /\ len' < Size
    BY <1>2 DEF TooShort, LInv, input
  <2>2. Size' = Size /\ ~ len' >= Size' /\ ok' = FALSE
    BY <1>1, <2>1, HintAssumption DEF TypeOK, Size
  <2>3. DecodesAsAlgorithm21'
    BY <1>1, <2>2, HintAssumption DEF DecodesAsAlgorithm21, TypeOK
  <2>4. QED
    BY <1>1, <2>1, <2>2, <2>3 DEF LInv
<1>3. CASE Checks
  <2>1. i' = 0 /\ kIdx' = 0 /\ len' >= Size /\ pc' = "row" /\ UNCHANGED <<y, i, kIdx, masks>>
    BY <1>3 DEF Checks, LInv, input
  <2>2. bad' <=> HeaderBad'
    BY <1>3 DEF Checks, HeaderBad, CountersBad, PaddingBad, Counter, Dropped, input
  <2>3. ~ \E r \in 0 .. 0 - 1 : TRUE
    OBVIOUS
  <2>4. AtRow'
    BY <2>1, <2>2, <2>3 DEF AtRow, RowsDone, RowsBad, ScanStart
  <2>5. QED
    BY <1>1, <2>1, <2>4 DEF LInv, DecodesAsAlgorithm21
<1>4. CASE BeginRow
  <2>1. AtRow /\ pc' = "scan" /\ UNCHANGED <<len, y, i, kIdx, masks, bad>> /\ len >= Size /\ i < K
        /\ j' = kIdx /\ prevP' = 0 /\ m' = {} /\ cut' = Clamp(Counter(i))
    BY <1>4 DEF BeginRow, LInv, input
  <2>2. kIdx .. kIdx - 1 = {}
    BY <1>1 DEF TypeOK
  <2>3. Clamp(Counter(i))' = Clamp(Counter(i))
    BY <2>1 DEF Clamp, Counter
  <2>4. ~ PartBad'
    BY <2>1, <2>2 DEF PartBad
  <2>5. kIdx' <= j'
    BY <1>1, <2>1 DEF TypeOK
  <2>6. RowsDone' /\ (bad' <=> HeaderBad' \/ RowsBad' \/ PartBad')
    BY <2>1, <2>4, RowsDoneStable DEF AtRow
  <2>7. AtScan'
    BY <2>1, <2>2, <2>3, <2>5, <2>6 DEF AtScan
  <2>8. QED
    BY <1>1, <2>1, <2>7 DEF LInv, DecodesAsAlgorithm21
<1>5. CASE ScanIndex
  <2>1. AtScan /\ pc' = "scan" /\ UNCHANGED <<len, y, i, kIdx, masks, cut>> /\ len >= Size
        /\ j < cut /\ j' = j + 1 /\ prevP' = y[j] + 1 /\ m' = m \cup {y[j]}
        /\ bad' = (bad \/ y[j] < prevP)
    BY <1>5 DEF ScanIndex, LInv, input
  <2>2. j \in Nat /\ kIdx \in Nat /\ kIdx <= j /\ cut \in Nat /\ y[j] \in Nat
    BY <1>1, <2>1 DEF TypeOK, AtScan, Encodings, Bytes
  <2>3. kIdx .. j' - 1 = (kIdx .. j - 1) \cup {j}
    BY <2>1, <2>2
  <2>4. m' = {y[x] : x \in kIdx .. j' - 1}
    BY <2>1, <2>3 DEF AtScan
  <2>5. PartBad' <=> PartBad \/ y[j] < prevP
    <3>1. CASE j = kIdx
      <4>1. prevP = 0 /\ kIdx .. j' - 1 = {j} /\ kIdx .. j - 1 = {}
        BY <2>1, <2>2, <3>1 DEF AtScan
      <4>2. ~ PartBad /\ ~ PartBad' /\ ~ y[j] < prevP
        BY <2>1, <2>2, <4>1 DEF PartBad
      <4>3. QED
        BY <4>2
    <3>2. CASE j # kIdx
      <4>1. prevP = y[j - 1] + 1 /\ j - 1 \in kIdx .. j - 1 /\ j \notin kIdx .. j - 1
        BY <2>1, <2>2, <3>2 DEF AtScan
      <4>2. \A x \in kIdx .. j - 1 : x - 1 \in kIdx .. j' - 1 <=> x - 1 \in kIdx .. j - 1
        BY <2>1, <2>2
      <4>3. PartBad' <=> \E x \in kIdx .. j' - 1 : x - 1 \in kIdx .. j' - 1 /\ y[x] < y[x - 1] + 1
        BY <2>1 DEF PartBad
      <4>4. QED
        BY <2>3, <4>1, <4>2, <4>3 DEF PartBad
    <3>3. QED
      BY <3>1, <3>2
  <2>6. Clamp(Counter(i))' = Clamp(Counter(i))
    BY <2>1 DEF Clamp, Counter
  <2>7. kIdx' <= j' /\ j' <= cut' /\ prevP' = (IF j' = kIdx' THEN 0 ELSE y'[j' - 1] + 1)
    BY <2>1, <2>2
  <2>8. bad' <=> HeaderBad \/ RowsBad \/ PartBad'
    BY <2>1, <2>5 DEF AtScan
  <2>9. AtScan'
    BY <2>1, <2>4, <2>6, <2>7, <2>8, RowsDoneStable DEF AtScan
  <2>10. QED
    BY <1>1, <2>1, <2>9 DEF LInv, DecodesAsAlgorithm21
<1>6. CASE EndRow
  <2>1. AtScan /\ pc' = "row" /\ UNCHANGED <<len, y, bad>> /\ len >= Size
        /\ j >= cut /\ masks' = [masks EXCEPT ![i] = m] /\ kIdx' = cut /\ i' = i + 1
    <3>1. pc = "scan" /\ pc' = "row" /\ UNCHANGED <<len, y, bad>>
          /\ j >= cut /\ masks' = [masks EXCEPT ![i] = m] /\ kIdx' = cut /\ i' = i + 1
      BY <1>6 DEF EndRow, input
    <3>2. (pc \in {"row", "scan"} => len >= Size) /\ (pc = "scan" => AtScan)
      BY DEF LInv
    <3> QED BY ONLY <3>1, <3>2
  <2>2. i \in Rows /\ cut = Clamp(Counter(i)) /\ kIdx = ScanStart(i)
        /\ kIdx \in Nat /\ j \in Nat /\ cut \in Nat /\ (j = cut \/ j = kIdx)
    BY <1>1, <2>1 DEF AtScan, RowsDone, TypeOK, Rows
  <2>3. kIdx .. j - 1 = ScanRow(i)
    BY <2>1, <2>2 DEF ScanRow
  <2>4. \A r \in Rows : /\ Counter(r)' = Counter(r) /\ ScanRow(r)' = ScanRow(r)
                        /\ RowBad(r)' <=> RowBad(r)
    BY <2>1 DEF Counter, ScanRow, ScanStart, Clamp, RowBad
  <2>5. HeaderBad' <=> HeaderBad
    BY <2>1 DEF HeaderBad, CountersBad, PaddingBad, Dropped, Counter
  <2>6. (CountersBad' <=> CountersBad)
    BY <2>1 DEF CountersBad, Counter
  <2>7. 0 .. i' - 1 = (0 .. i - 1) \cup {i} /\ i \notin 0 .. i - 1 /\ 0 .. i' - 1 \subseteq Rows
    BY <2>1, <2>2 DEF Rows
  <2>8. PartBad <=> RowBad(i)
    BY <2>3 DEF PartBad, RowBad
  <2>9. RowsBad' <=> RowsBad \/ RowBad(i)
    BY <2>4, <2>7 DEF RowsBad
  <2>10. \A r \in 0 .. i' - 1 : masks'[r] = {y[x] : x \in ScanRow(r)}
    <3>1. masks'[i] = {y[x] : x \in ScanRow(i)}
      BY <1>1, <2>1, <2>2, <2>3 DEF AtScan, TypeOK
    <3>2. \A r \in 0 .. i - 1 : masks'[r] = {y[x] : x \in ScanRow(r)}
      BY <1>1, <2>1, <2>2, <2>7 DEF AtScan, RowsDone, TypeOK
    <3>3. QED
      BY <2>7, <3>1, <3>2
  <2>11. ~ CountersBad => \A r \in 0 .. i' - 1 : Counter(r) <= Counter(i' - 1)
    <3>1. SUFFICES ASSUME ~ CountersBad, NEW r \in 0 .. i - 1
                   PROVE  Counter(r) <= Counter(i)
      BY <1>1, <2>1, <2>2, <2>7, CounterType
    <3>2. Counter(r) <= Counter(i - 1)
      BY <2>1, <3>1 DEF AtScan, RowsDone
    <3>3. i \in 1 .. K - 1 /\ i - 1 \in Rows /\ r \in Rows
      BY <2>2, <3>1 DEF Rows
    <3>4. Counter(i - 1) <= Counter(i)
      BY <1>1, <2>2, <3>1, <3>3, CounterType DEF CountersBad
    <3>5. Counter(r) \in Nat /\ Counter(i - 1) \in Nat /\ Counter(i) \in Nat
      BY <1>1, <2>2, <3>3, CounterType
    <3>6. QED
      BY <3>2, <3>4, <3>5
  <2>12. kIdx' = ScanStart(i)'
    <3>1. i' # 0 /\ i' - 1 = i
      BY <2>1, <2>2 DEF Rows
    <3>2. ScanStart(i)' = Clamp(Counter(i))
      BY <2>1, <3>1 DEF ScanStart, Clamp, Counter
    <3>3. QED
      BY <2>1, <2>2, <3>2
  <2>13. RowsDone'
    <3>1. \A r \in 0 .. i' - 1 : masks'[r] = {y'[x] : x \in ScanRow(r)'}
      BY <2>1, <2>4, <2>7, <2>10
    <3>2. i' - 1 = i
      BY <2>1, <2>2 DEF Rows
    <3>3. Counter(i - 1)' = Counter(i' - 1)
      BY <2>1 DEF Counter
    <3>4. ~ CountersBad' => \A r \in 0 .. i' - 1 : Counter(r)' <= Counter(i - 1)'
      BY <2>4, <2>6, <2>7, <2>11, <3>3
    <3>5. QED
      BY <2>12, <3>1, <3>4 DEF RowsDone
  <2>14. AtRow'
    BY <2>1, <2>5, <2>8, <2>9, <2>13 DEF AtRow, AtScan
  <2>15. QED
    BY <1>1, <2>1, <2>14 DEF LInv, DecodesAsAlgorithm21
<1>7. CASE Finish
  <2>1. AtRow /\ i = K /\ pc' = "done" /\ ok' = ~ bad /\ UNCHANGED <<len, y, masks>> /\ len >= Size
    BY <1>7 DEF Finish, LInv, input
  <2>2. (~ bad <=> WellFormed) /\ (~ bad => ~ CountersBad) /\ MasksAreRows
    BY <1>1, <2>1, FlagDecides
  <2>3. /\ WellFormed' <=> WellFormed
        /\ CountersBad' <=> CountersBad
        /\ \A r \in Rows : RowSet(r)' = RowSet(r)
    BY <2>1 DEF WellFormed, CountersBad, RowSet, RowBytes, RowStart, Counter
  <2>4. DecodesAsAlgorithm21' /\ MasksAreRows'
    BY <2>1, <2>2, <2>3 DEF DecodesAsAlgorithm21, MasksAreRows
  <2>5. QED
    BY <1>1, <2>1, <2>4 DEF LInv
<1>8. CASE UNCHANGED vars
  <2>1. (AtRow' <=> AtRow) /\ (AtScan' <=> AtScan)
    BY <1>8, RowsDoneStable DEF vars, AtRow, AtScan, PartBad, Clamp, Counter
  <2>2. /\ WellFormed' <=> WellFormed
        /\ CountersBad' <=> CountersBad
        /\ \A r \in Rows : RowSet(r)' = RowSet(r)
    BY <1>8 DEF vars, WellFormed, CountersBad, RowSet, RowBytes, RowStart, Counter
  <2>3. QED
    BY <1>1, <1>8, <2>1, <2>2 DEF vars, LInv, DecodesAsAlgorithm21, MasksAreRows
<1>9. QED
  BY <1>2, <1>3, <1>4, <1>5, <1>6, <1>7, <1>8 DEF Next

-----------------------------------------------------------------------------
(* The Python oracle. *)

(* Induction over the numbers, from the library's minima of well-founded   *)
(* relations.                                                              *)
LEMMA Induction ==
  ASSUME NEW S, 0 \in S, \A n \in Nat : n \in S => n + 1 \in S
  PROVE  Nat \subseteq S
<1> SUFFICES ASSUME Nat \ S # {} PROVE FALSE
  OBVIOUS
<1>1. PICK x \in Nat \ S : \A n \in Nat \ S : ~ <<n, x>> \in OpToRel(<, Nat)
  BY NatLessThanWellFounded, WFMin, Zenon
<1>2. \A n \in Nat \ S : <<n, x>> \in OpToRel(<, Nat) <=> n < x
  BY DEF OpToRel
<1>3. \A n \in Nat \ S : ~ n < x
  BY <1>1, <1>2, Zenon
<1>4. x - 1 \in Nat /\ (x - 1) + 1 = x
  OBVIOUS
<1>5. x - 1 \in S
  BY <1>3, <1>4
<1> QED BY <1>4, <1>5

(* Counters that do not decrease are bounded by the last one.              *)
LEMMA LastCounterBounds ==
  ASSUME TypeOK, \A r \in Rows : RowStart(r) <= Counter(r)
  PROVE  \A r \in Rows : Counter(r) <= Counter(K - 1)
<1> DEFINE S == {n \in Nat : n < K => Counter((K - 1) - n) <= Counter(K - 1)}
<1>1. 0 \in S
  BY Sizes, CounterType DEF Rows
<1>2. ASSUME NEW n \in Nat, n \in S PROVE n + 1 \in S
  <2> SUFFICES ASSUME n + 1 < K PROVE Counter((K - 1) - (n + 1)) <= Counter(K - 1)
    OBVIOUS
  <2> DEFINE r == (K - 1) - n
  <2>1. r \in Rows /\ r # 0 /\ r - 1 \in Rows /\ K - 1 \in Rows /\ r - 1 = (K - 1) - (n + 1)
    BY Sizes DEF Rows
  <2>2. Counter((K - 1) - n) <= Counter(K - 1)
    <3>1. n < K
      BY Sizes
    <3> QED BY <1>2, <3>1
  <2>2a. Counter(r) <= Counter(K - 1)
    BY <2>2
  <2> HIDE DEF r
  <2>3. Counter(r - 1) <= Counter(r)
    BY <2>1 DEF RowStart
  <2>4. Counter(r - 1) \in Int /\ Counter(r) \in Int /\ Counter(K - 1) \in Int
    BY <2>1, Sizes, CounterType
  <2>5. Counter(r - 1) <= Counter(K - 1)
    BY <2>2a, <2>3, <2>4
  <2> QED BY <2>1, <2>5
<1> HIDE DEF S
<1>3. Nat \subseteq S
  BY <1>1, <1>2, Induction
<1>4. ASSUME NEW r \in Rows PROVE Counter(r) <= Counter(K - 1)
  <2>1. (K - 1) - r \in Nat /\ (K - 1) - r < K /\ (K - 1) - ((K - 1) - r) = r
    BY Sizes DEF Rows
  <2>2. (K - 1) - r \in S
    BY <1>3, <2>1
  <2> QED BY <2>1, <2>2 DEF S
<1> QED BY <1>4

(* What separates the oracle's test from Algorithm 21's.                   *)
LEMMA OraclePlusStrict ==
  ASSUME TypeOK
  PROVE  WellFormed <=> OracleAccepts /\ ~ HasRepeat
<1>1. \A x \in 0 .. Omega - 1 : y[x] \in Int
  BY Sizes DEF TypeOK, Encodings, Bytes
<1>2. \A r \in Rows : \A x \in RowBytes(r) : x \in 0 .. Omega - 1
  BY DEF RowBytes
<1>3. ASSUME NEW r \in Rows, NEW x \in RowBytes(r), x - 1 \in RowBytes(r)
      PROVE  y[x - 1] < y[x] <=> ~ y[x] < y[x - 1] /\ y[x] # y[x - 1]
  BY <1>1, <1>2, <1>3
<1>4. WellFormed => OracleAccepts /\ ~ HasRepeat
  <2> SUFFICES ASSUME WellFormed PROVE OracleAccepts /\ ~ HasRepeat
    OBVIOUS
  <2>1. K - 1 \in Rows
    BY Sizes DEF Rows
  <2>2. OracleAccepts
    BY <1>3, <2>1 DEF WellFormed, OracleAccepts
  <2>3. ~ HasRepeat
    BY <1>3 DEF WellFormed, HasRepeat
  <2> QED BY <2>2, <2>3
<1>5. OracleAccepts /\ ~ HasRepeat => WellFormed
  <2> SUFFICES ASSUME OracleAccepts, ~ HasRepeat PROVE WellFormed
    OBVIOUS
  <2>1. ASSUME NEW r \in Rows PROVE RowStart(r) <= Counter(r) /\ Counter(r) <= Omega
    <3>1. RowStart(r) <= Counter(r) /\ Counter(K - 1) <= Omega
      BY DEF OracleAccepts
    <3>2. Counter(r) <= Counter(K - 1)
      BY LastCounterBounds DEF OracleAccepts
    <3>3. Counter(r) \in Int /\ Counter(K - 1) \in Int /\ Omega \in Int
      BY Sizes, CounterType DEF Rows
    <3> QED BY <3>1, <3>2, <3>3
  <2>2. ASSUME NEW r \in Rows, NEW x \in RowBytes(r), x - 1 \in RowBytes(r)
        PROVE  y[x - 1] < y[x]
    BY <1>3, <2>2 DEF OracleAccepts, HasRepeat
  <2> QED BY <2>1, <2>2 DEF OracleAccepts, WellFormed
<1> QED BY <1>4, <1>5

(* What the oracle accepts it returns row by row.                          *)
LEMMA OracleRows ==
  ASSUME TypeOK, OracleAccepts
  PROVE  ~ CountersBad /\ \A r \in Rows : RowSet(r) = OracleHints(r)
<1>1. \A r \in Rows : RowStart(r) <= Counter(r) /\ Counter(r) \in Nat
  BY Sizes, CounterType DEF OracleAccepts
<1>2. \A r \in 1 .. K - 1 : r \in Rows /\ r - 1 \in Rows /\ RowStart(r) = Counter(r - 1)
  BY Sizes DEF Rows, RowStart
<1>3. K - 1 \in Rows /\ Counter(K - 1) <= Omega
  BY Sizes DEF Rows, OracleAccepts
<1>4. ~ CountersBad
  BY <1>1, <1>2, <1>3, Sizes DEF CountersBad
<1>5. ASSUME NEW r \in Rows PROVE RowSet(r) = OracleHints(r)
  <2>1. Counter(r) <= Counter(K - 1)
    BY LastCounterBounds DEF OracleAccepts
  <2>2. Counter(r) \in Nat /\ Counter(K - 1) \in Nat /\ Counter(r) <= Omega
    BY <1>1, <1>3, <2>1, Sizes
  <2>3. RowStart(r) \in Nat
    BY <1>1, Sizes DEF RowStart, Rows
  <2>4. RowBytes(r) = RowStart(r) .. Counter(r) - 1
    BY <2>2, <2>3, Sizes DEF RowBytes
  <2> QED BY <2>4 DEF RowSet, OracleHints
<1> QED BY <1>4, <1>5

-----------------------------------------------------------------------------
(* z: powers, digits and fields. *)

(* Functions by recursion over the numbers.                                *)
Maps(G, V)            == \A k \in Nat : \A v \in V : G[k][v] \in V
Solves(s, V, c, n, G) == s \in [0 .. n -> V] /\ s[0] = c /\ \A k \in 1 .. n : s[k] = G[k - 1][s[k - 1]]

Follows(f, V, c, n, G) == f[0] = c /\ \A k \in 1 .. n : f[k - 1] \in V => f[k] = G[k - 1][f[k - 1]]
Agree(f, s, n)         == \A k \in 0 .. n : f[k] = s[k]

LEMMA Recursion ==
  ASSUME NEW V, NEW c \in V, NEW n \in Nat, NEW G, Maps(G, V)
  PROVE  \E s : Solves(s, V, c, n, G)
<1> DEFINE T == {a \in Nat : \E s : Solves(s, V, c, a, G)}
<1>1. 0 \in T
  <2>1. Solves([k \in 0 .. 0 |-> c], V, c, 0, G)
    BY DEF Solves
  <2> QED BY <2>1
<1>2. ASSUME NEW a \in Nat, a \in T PROVE a + 1 \in T
  <2>1. PICK s : Solves(s, V, c, a, G)
    BY <1>2
  <2> DEFINE new == G[a][s[a]]
             r == [k \in 0 .. a + 1 |-> IF k = a + 1 THEN new ELSE s[k]]
  <2>2. new \in V
    BY <2>1 DEF Solves, Maps
  <2>3. r \in [0 .. a + 1 -> V]
    BY <2>1, <2>2 DEF Solves
  <2>4. r[0] = c
    BY <2>1 DEF Solves
  <2>5. ASSUME NEW k \in 1 .. a + 1 PROVE r[k] = G[k - 1][r[k - 1]]
    <3>1. CASE k = a + 1
      <4>1. r[k] = new /\ r[k - 1] = s[a] /\ k - 1 = a
        BY <3>1
      <4> QED BY <4>1
    <3>2. CASE k # a + 1
      <4>1. k \in 1 .. a /\ r[k] = s[k] /\ r[k - 1] = s[k - 1]
        BY <3>2
      <4> QED BY <2>1, <4>1 DEF Solves
    <3> QED BY <3>1, <3>2
  <2> HIDE DEF r
  <2>6. Solves(r, V, c, a + 1, G)
    BY <2>3, <2>4, <2>5 DEF Solves
  <2> QED BY <2>6
<1> HIDE DEF T
<1>3. n \in T
  BY <1>1, <1>2, Induction
<1> QED BY <1>3 DEF T

(* What follows the equations takes the values of the solution.            *)
LEMMA RecursionUnique ==
  ASSUME NEW V, NEW c \in V, NEW n \in Nat, NEW G, NEW s, Solves(s, V, c, n, G),
         NEW f, Follows(f, V, c, n, G)
  PROVE  Agree(f, s, n)
<1> DEFINE T == {k \in Nat : k <= n => f[k] = s[k]}
<1>1. 0 \in T
  BY DEF Solves, Follows
<1>2. ASSUME NEW k \in Nat, k \in T PROVE k + 1 \in T
  <2> SUFFICES ASSUME k + 1 <= n PROVE f[k + 1] = s[k + 1]
    OBVIOUS
  <2>1. f[k] = s[k] /\ k + 1 \in 1 .. n /\ (k + 1) - 1 = k
    BY <1>2
  <2>2. s[k] \in V
    BY <2>1 DEF Solves
  <2> QED BY <2>1, <2>2 DEF Solves, Follows
<1> HIDE DEF T
<1>3. Nat \subseteq T
  BY <1>1, <1>2, Induction
<1>4. \A k \in 0 .. n : k \in T
  BY <1>3
<1> QED BY <1>4 DEF T, Agree

LEMMA PowerStep ==
  ASSUME NEW n \in Nat
  PROVE  /\ Power(0) = 1
         /\ Power(n) \in Nat
         /\ Power(n + 1) = 2 * Power(n)
<1> DEFINE G == [k \in Nat |-> [v \in Nat |-> 2 * v]]
           one == 1
<1>1. \A k \in Nat : \A v \in Nat : G[k][v] = 2 * v
  OBVIOUS
<1>2. Maps(G, Nat) /\ one \in Nat /\ n + 1 \in Nat
  BY DEF Maps
<1> HIDE DEF G, one
<1>3. PICK s : Solves(s, Nat, one, n + 1, G)
  BY <1>2, Recursion, Zenon
<1>4. s \in [0 .. n + 1 -> Nat] /\ s[0] = 1 /\ \A k \in 1 .. n + 1 : s[k] = 2 * s[k - 1]
  <2>1. s \in [0 .. n + 1 -> Nat] /\ s[0] = one /\ \A k \in 1 .. n + 1 : s[k] = G[k - 1][s[k - 1]]
    BY <1>3 DEF Solves
  <2>2. \A k \in 1 .. n + 1 : s[k - 1] \in Nat /\ k - 1 \in Nat
    BY <2>1
  <2> QED BY <1>1, <2>1, <2>2 DEF one
<1>5. ASSUME NEW a \in 0 .. n + 1 PROVE Power(a) = s[a]
  <2> DEFINE Is(f) == f = [k \in 0 .. a |-> IF k = 0 THEN 1 ELSE 2 * f[k - 1]]
             f == CHOOSE g : Is(g)
             r == [k \in 0 .. a |-> s[k]]
  <2>1. Is(r)
    <3>1. \A k \in 0 .. a : r[k] = IF k = 0 THEN 1 ELSE 2 * r[k - 1]
      BY <1>4
    <3> QED BY <3>1
  <2>2. Is(f)
    BY <2>1
  <2>3. Power(a) = f[a]
    BY DEF Power
  <2>4. f[0] = one /\ \A k \in 1 .. a : f[k] = 2 * f[k - 1]
    <3> HIDE DEF f
    <3> QED BY <2>2 DEF one
  <2> HIDE DEF f
  <2>5. Follows(f, Nat, one, a, G)
    <3> SUFFICES ASSUME NEW k \in 1 .. a, f[k - 1] \in Nat PROVE f[k] = G[k - 1][f[k - 1]]
      BY <2>4 DEF Follows
    <3>1. k - 1 \in Nat
      OBVIOUS
    <3> QED BY <1>1, <2>4, <3>1
  <2>6. Solves(r, Nat, one, a, G)
    <3>1. r \in [0 .. a -> Nat] /\ r[0] = one /\ \A k \in 1 .. a : r[k] = s[k] /\ r[k - 1] = s[k - 1]
      BY <1>4 DEF one
    <3>2. \A k \in 1 .. a : s[k] = G[k - 1][s[k - 1]]
      BY <1>3 DEF Solves
    <3> HIDE DEF r
    <3> QED BY <3>1, <3>2 DEF Solves
  <2> HIDE DEF r
  <2>7. Agree(f, r, a)
    <3>1. a \in Nat
      OBVIOUS
    <3> QED BY ONLY <1>2, <2>5, <2>6, <3>1, RecursionUnique
  <2>8. a \in 0 .. a
    OBVIOUS
  <2> QED BY <2>3, <2>7, <2>8 DEF Agree, r
<1>6. n \in 0 .. n + 1 /\ n + 1 \in 1 .. n + 1 /\ (n + 1) - 1 = n /\ n + 1 \in 0 .. n + 1 /\ 0 \in 0 .. n + 1
  OBVIOUS
<1> QED BY <1>4, <1>5, <1>6

(* The partial sums of a number's digits.                                  *)
Sums(s, d, w, n) == /\ s \in [0 .. n -> Nat] /\ s[0] = 0
                    /\ \A k \in 0 .. n - 1 : s[k + 1] = s[k] + d[k] * Power(w * k)
                    /\ Number(d, w, n) = s[n]

LEMMA NumberSums ==
  ASSUME NEW n \in Nat, NEW w \in Nat, NEW d, \A k \in 0 .. n - 1 : d[k] \in Nat
  PROVE  \E s : Sums(s, d, w, n)
<1> DEFINE add == [k \in Nat |-> IF k < n THEN d[k] * Power(w * k) ELSE 0]
           G == [k \in Nat |-> [v \in Nat |-> v + add[k]]]
           zero == 0
<1>1. \A k \in Nat : add[k] \in Nat /\ (k < n => add[k] = d[k] * Power(w * k))
  <2> TAKE k \in Nat
  <2>1. w * k \in Nat
    OBVIOUS
  <2>2. Power(w * k) \in Nat
    BY <2>1, PowerStep
  <2>3. k < n => d[k] \in Nat
    OBVIOUS
  <2>4. k < n => d[k] * Power(w * k) \in Nat
    BY <2>2, <2>3
  <2> QED BY <2>4
<1> HIDE DEF add
<1>2. \A k \in Nat : \A v \in Nat : G[k][v] = v + add[k]
  OBVIOUS
<1>3. Maps(G, Nat) /\ zero \in Nat
  BY <1>1 DEF Maps
<1> HIDE DEF G, zero
<1>4. PICK s : Solves(s, Nat, zero, n, G)
  BY <1>3, Recursion, Zenon
<1>5. s \in [0 .. n -> Nat] /\ s[0] = 0 /\ \A k \in 1 .. n : s[k] = s[k - 1] + add[k - 1]
  <2>1. s \in [0 .. n -> Nat] /\ s[0] = zero /\ \A k \in 1 .. n : s[k] = G[k - 1][s[k - 1]]
    BY <1>4 DEF Solves
  <2>2. \A k \in 1 .. n : s[k - 1] \in Nat /\ k - 1 \in Nat
    BY <2>1
  <2> QED BY <1>2, <2>1, <2>2 DEF zero
<1>6. \A k \in 1 .. n : add[k - 1] = d[k - 1] * Power(w * (k - 1))
  BY <1>1
<1> DEFINE Is(f) == f = [k \in 0 .. n |-> IF k = 0 THEN 0 ELSE f[k - 1] + d[k - 1] * Power(w * (k - 1))]
           f == CHOOSE g : Is(g)
<1>7. Is(s)
  <2>1. \A k \in 0 .. n : s[k] = IF k = 0 THEN 0 ELSE s[k - 1] + d[k - 1] * Power(w * (k - 1))
    <3> TAKE k \in 0 .. n
    <3>1. CASE k = 0
      BY <1>5, <3>1
    <3>2. CASE k # 0
      <4>1. k \in 1 .. n
        BY <3>2
      <4> QED BY <1>5, <1>6, <3>2, <4>1
    <3> QED BY <3>1, <3>2
  <2> QED BY <1>5, <2>1
<1>8. Is(f)
  BY <1>7
<1>9. Number(d, w, n) = f[n]
  BY DEF Number
<1>10. f[0] = zero /\ \A k \in 1 .. n : f[k] = f[k - 1] + d[k - 1] * Power(w * (k - 1))
  <2> HIDE DEF f
  <2> QED BY <1>8 DEF zero
<1> HIDE DEF f
<1>11. Follows(f, Nat, zero, n, G)
  <2> SUFFICES ASSUME NEW k \in 1 .. n, f[k - 1] \in Nat PROVE f[k] = G[k - 1][f[k - 1]]
    BY <1>10 DEF Follows
  <2>1. k - 1 \in Nat
    OBVIOUS
  <2> QED BY <1>2, <1>6, <1>10, <2>1
<1>12. Agree(f, s, n)
  BY <1>3, <1>4, <1>11, RecursionUnique
<1>13. \A k \in 0 .. n - 1 : s[k + 1] = s[k] + d[k] * Power(w * k)
  <2> TAKE k \in 0 .. n - 1
  <2>1. k + 1 \in 1 .. n /\ (k + 1) - 1 = k
    OBVIOUS
  <2> QED BY <1>5, <1>6, <2>1
<1>14. n \in 0 .. n
  OBVIOUS
<1>15. Number(d, w, n) = s[n]
  BY <1>9, <1>12, <1>14 DEF Agree
<1>16. Sums(s, d, w, n)
  BY <1>5, <1>13, <1>15 DEF Sums
<1> QED BY <1>16

(* Division. *)
LEMMA DivMod ==
  ASSUME NEW x \in Nat, NEW n \in Nat, n >= 1
  PROVE  /\ x = n * (x \div n) + (x % n)
         /\ x % n \in 0 .. (n - 1)
         /\ x \div n \in Nat
<1>1. x \div n \in Int /\ x % n \in 0 .. (n - 1) /\ x = n * (x \div n) + (x % n)
  OBVIOUS
<1>2. x \div n >= 0
  <2>1. CASE x \div n <= -1
    <3>1. n * (x \div n) <= -n
      BY <1>1, <2>1
    <3> QED BY <1>1, <3>1
  <2> QED BY <1>1, <2>1
<1> QED BY <1>1, <1>2

LEMMA DivUnique ==
  ASSUME NEW x \in Int, NEW n \in Nat, n >= 1,
         NEW k \in Int, NEW s \in 0 .. (n - 1), x = n * k + s
  PROVE  x % n = s /\ x \div n = k
<1> DEFINE k2 == x \div n
           s2 == x % n
<1>1. x = n * k2 + s2 /\ s2 \in 0 .. (n - 1) /\ k2 \in Int
  OBVIOUS
<1> HIDE DEF k2, s2
<1>2. n * (k - k2) = s2 - s
  BY <1>1
<1>3. s2 - s < n /\ s2 - s > -n
  BY <1>1
<1>4. ~ k - k2 >= 1
  <2> SUFFICES ASSUME k - k2 >= 1 PROVE n * (k - k2) >= n
    BY <1>1, <1>2, <1>3
  <2> QED BY <1>1
<1>5. ~ k2 - k >= 1
  <2> SUFFICES ASSUME k2 - k >= 1 PROVE n * (k2 - k) >= n
    <3>1. n * (k2 - k) = -(n * (k - k2))
      BY <1>1
    <3> QED BY <1>1, <1>2, <1>3, <3>1
  <2> QED BY <1>1
<1>6. k = k2
  BY <1>1, <1>4, <1>5
<1> QED BY <1>1, <1>6 DEF k2, s2

LEMMA PowerPositive ==
  ASSUME NEW n \in Nat
  PROVE  Power(n) \in Nat /\ Power(n) >= 1
<1> DEFINE T == {a \in Nat : Power(a) >= 1}
<1>1. 0 \in T
  BY PowerStep
<1>2. ASSUME NEW a \in Nat, a \in T PROVE a + 1 \in T
  BY <1>2, PowerStep
<1> HIDE DEF T
<1>3. n \in T
  BY <1>1, <1>2, Induction
<1> QED BY <1>3, PowerStep DEF T

LEMMA PowerSum ==
  ASSUME NEW a \in Nat, NEW n \in Nat
  PROVE  Power(a + n) = Power(a) * Power(n)
<1> DEFINE T == {c \in Nat : Power(a + c) = Power(a) * Power(c)}
<1>1. 0 \in T
  BY PowerStep
<1>2. ASSUME NEW c \in Nat, c \in T PROVE c + 1 \in T
  <2>1. Power(c + 1) = 2 * Power(c) /\ Power(c) \in Nat /\ Power(a) \in Nat
    BY PowerStep
  <2>2. Power(a + (c + 1)) = 2 * Power(a + c)
    <3>1. a + c \in Nat /\ a + (c + 1) = (a + c) + 1
      OBVIOUS
    <3> QED BY <3>1, PowerStep
  <2>3. Power(a + c) = Power(a) * Power(c)
    BY <1>2
  <2> QED BY <2>1, <2>2, <2>3
<1> HIDE DEF T
<1>3. n \in T
  BY <1>1, <1>2, Induction
<1> QED BY <1>3 DEF T

LEMMA PowerOfByte == Power(8) = 256
<1>1. Power(1) = 2
  BY PowerStep
<1>2. Power(2) = 4
  BY <1>1, PowerSum
<1>3. Power(4) = 16
  BY <1>2, PowerSum
<1> QED BY <1>3, PowerSum

LEMMA DivDiv ==
  ASSUME NEW x \in Nat, NEW a \in Nat, NEW n \in Nat
  PROVE  x \div Power(a + n) = (x \div Power(a)) \div Power(n)
<1> DEFINE A == Power(a)
           N == Power(n)
           u == x \div A
           r == x % A
           v == u \div N
           t == u % N
<1>1. A \in Nat /\ A >= 1 /\ N \in Nat /\ N >= 1
  BY PowerPositive
<1>2. Power(a + n) = A * N
  BY PowerSum
<1> HIDE DEF A, N
<1>3. x = A * u + r /\ r \in 0 .. (A - 1) /\ u \in Nat
  BY <1>1, DivMod
<1> HIDE DEF u, r
<1>4. u = N * v + t /\ t \in 0 .. (N - 1) /\ v \in Nat
  BY <1>1, <1>3, DivMod
<1> HIDE DEF v, t
<1>5. x = (A * N) * v + (A * t + r)
  BY <1>1, <1>3, <1>4
<1>6. A * t <= A * (N - 1)
  BY <1>1, <1>4
<1>7. A * N \in Nat /\ A * N >= 1 /\ A * (N - 1) = A * N - A
  <2>1. A * N >= A
    BY <1>1
  <2> QED BY <1>1, <2>1
<1>8. A * t + r \in 0 .. (A * N - 1)
  <2>1. A * t \in Nat
    BY <1>1, <1>4
  <2> QED BY <1>1, <1>3, <1>6, <1>7, <2>1
<1>9. x \div (A * N) = v
  BY <1>4, <1>5, <1>7, <1>8, DivUnique
<1> QED BY <1>2, <1>9 DEF A, N, u, v

(* One more bit of a remainder. *)
LEMMA ModSplit ==
  ASSUME NEW x \in Nat, NEW n \in Nat, n >= 1
  PROVE  x % (2 * n) = (x % n) + ((x \div n) % 2) * n
<1> DEFINE u == x \div n
           r == x % n
           v == u \div 2
           t == u % 2
<1>1. x = n * u + r /\ r \in 0 .. (n - 1) /\ u \in Nat
  BY DivMod
<1> HIDE DEF u, r
<1>2. u = 2 * v + t /\ t \in 0 .. 1 /\ v \in Nat
  BY <1>1
<1> HIDE DEF v, t
<1>3. n * u = (2 * n) * v + n * t
  BY <1>1, <1>2
<1>4. n * t = t * n /\ t * n \in Nat /\ t * n <= n
  BY <1>2
<1>5. x = (2 * n) * v + (r + t * n) /\ r + t * n \in 0 .. (2 * n - 1)
  BY <1>1, <1>3, <1>4, <1>2
<1>6. 2 * n \in Nat /\ 2 * n >= 1
  OBVIOUS
<1>7. x % (2 * n) = r + t * n
  <2>1. v \in Int /\ x \in Int
    BY <1>2
  <2> QED BY ONLY <1>5, <1>6, <2>1, DivUnique
<1> QED BY <1>7 DEF r, t, u

LEMMA Times ==
  ASSUME NEW a \in Nat, NEW c \in Nat, NEW n \in Nat, a <= c
  PROVE  a * n \in Nat /\ a * n <= c * n
<1>1. c - a \in Nat
  OBVIOUS
<1>2. (c - a) * n >= 0
  BY <1>1
<1>3. (c - a) * n = c * n - a * n
  OBVIOUS
<1>4. a * n \in Nat /\ c * n \in Nat
  OBVIOUS
<1> QED BY <1>2, <1>3, <1>4

(* The bits of a number from bit a up are its field at a. *)
LEMMA BitsAreField ==
  ASSUME NEW x \in Nat, NEW a \in Nat, NEW n \in Nat, NEW d,
         \A k \in 0 .. n - 1 : d[k] = (x \div Power(a + k)) % 2
  PROVE  Number(d, 1, n) = (x \div Power(a)) % Power(n)
<1> DEFINE u == x \div Power(a)
<1>1. u \in Nat
  BY PowerPositive, DivMod
<1>2. \A k \in 0 .. n - 1 : d[k] = (u \div Power(k)) % 2 /\ d[k] \in Nat
  <2> TAKE k \in 0 .. n - 1
  <2>1. k \in Nat
    OBVIOUS
  <2>2. d[k] = (u \div Power(k)) % 2
    BY <2>1, DivDiv
  <2>3. u \div Power(k) \in Nat
    BY <1>1, <2>1, PowerPositive, DivMod
  <2> QED BY <2>2, <2>3
<1> HIDE DEF u
<1>3. PICK s : Sums(s, d, 1, n)
  <2>1. \A k \in 0 .. n - 1 : d[k] \in Nat
    BY <1>2
  <2>2. n \in Nat /\ 1 \in Nat
    OBVIOUS
  <2> QED BY <2>1, <2>2, NumberSums
<1>3a. /\ s \in [0 .. n -> Nat] /\ s[0] = 0 /\ Number(d, 1, n) = s[n]
       /\ \A k \in 0 .. n - 1 : s[k + 1] = s[k] + d[k] * Power(1 * k)
  BY <1>3 DEF Sums
<1> DEFINE T == {k \in Nat : k <= n => s[k] = u % Power(k)}
<1>4. 0 \in T
  <2>1. u % 1 = 0
    BY <1>1
  <2> QED BY <1>3a, <2>1, PowerStep
<1>5. ASSUME NEW k \in Nat, k \in T PROVE k + 1 \in T
  <2> SUFFICES ASSUME k + 1 <= n PROVE s[k + 1] = u % Power(k + 1)
    OBVIOUS
  <2>1. k \in 0 .. n - 1 /\ s[k] = u % Power(k) /\ 1 * k = k
    BY <1>5
  <2>2. s[k + 1] = s[k] + d[k] * Power(k)
    BY <1>3a, <2>1
  <2>3. Power(k) \in Nat /\ Power(k) >= 1 /\ Power(k + 1) = 2 * Power(k)
    BY PowerPositive, PowerStep
  <2>4. u % (2 * Power(k)) = (u % Power(k)) + ((u \div Power(k)) % 2) * Power(k)
    BY <1>1, <2>3, ModSplit
  <2>5. d[k] = (u \div Power(k)) % 2
    BY ONLY <1>2, <2>1
  <2> QED BY ONLY <2>1, <2>2, <2>3, <2>4, <2>5
<1> HIDE DEF T
<1>6. n \in T
  BY <1>4, <1>5, Induction
<1> QED BY <1>3a, <1>6 DEF T, u

(* A digit of a number: what is below it and what is above. *)
Splits(x, n, v) == \E lo \in 0 .. n - 1, hi \in Nat : x = n * (v + 256 * hi) + lo

LEMMA DigitSplits ==
  ASSUME NEW n \in Nat, NEW d, \A k \in 0 .. n - 1 : d[k] \in 0 .. 255, NEW c \in 0 .. n - 1
  PROVE  Splits(Number(d, 8, n), Power(8 * c), d[c])
<1>0. \A k \in 0 .. n - 1 : d[k] \in Nat /\ d[k] <= 255
  BY ONLY \A k \in 0 .. n - 1 : d[k] \in 0 .. 255
<1>a. PICK s : Sums(s, d, 8, n)
  <2>1. \A k \in 0 .. n - 1 : d[k] \in Nat
    BY <1>0
  <2>2. n \in Nat /\ 8 \in Nat
    OBVIOUS
  <2> QED BY <2>1, <2>2, NumberSums
<1>1. /\ s \in [0 .. n -> Nat] /\ s[0] = 0 /\ Number(d, 8, n) = s[n]
      /\ \A k \in 0 .. n - 1 : s[k + 1] = s[k] + d[k] * Power(8 * k)
  BY <1>a DEF Sums
<1>2. \A k \in Nat : /\ Power(8 * k) \in Nat /\ Power(8 * k) >= 1
                     /\ Power(8 * (k + 1)) = 256 * Power(8 * k)
  <2> TAKE k \in Nat
  <2>1. 8 * k \in Nat /\ 8 * (k + 1) = 8 * k + 8
    OBVIOUS
  <2>2. Power(8 * k + 8) = Power(8 * k) * Power(8)
    BY <2>1, PowerSum
  <2>3. Power(8 * k) \in Nat /\ Power(8 * k) >= 1
    BY <2>1, PowerPositive
  <2> QED BY <2>1, <2>2, <2>3, PowerOfByte
<1> DEFINE T == {k \in Nat : k <= n => s[k] <= Power(8 * k) - 1}
<1>3. 0 \in T
  BY <1>1, PowerStep
<1>4. ASSUME NEW k \in Nat, k \in T PROVE k + 1 \in T
  <2> SUFFICES ASSUME k + 1 <= n PROVE s[k + 1] <= Power(8 * (k + 1)) - 1
    OBVIOUS
  <2> DEFINE P == Power(8 * k)
  <2>1. k \in 0 .. n - 1 /\ s[k] <= P - 1 /\ s[k] \in Nat
    BY <1>1, <1>4
  <2>2. s[k + 1] = s[k] + d[k] * P
    BY <1>1, <2>1
  <2>3. P \in Nat /\ Power(8 * (k + 1)) = 256 * P
    BY <1>2
  <2>4. d[k] \in Nat /\ 255 \in Nat /\ d[k] <= 255
    BY ONLY <1>0, <2>1
  <2> HIDE DEF P
  <2>5. d[k] * P <= 255 * P /\ d[k] * P \in Nat
    BY ONLY <2>3, <2>4, Times
  <2> QED BY <2>1, <2>2, <2>3, <2>5
<1> HIDE DEF T
<1>5. c \in T
  <2>1. c \in Nat
    OBVIOUS
  <2> QED BY <1>3, <1>4, <2>1, Induction
<1>6. s[c] \in 0 .. Power(8 * c) - 1
  <2>1. c \in Nat /\ s[c] \in Nat
    BY <1>1
  <2> QED BY <1>2, <1>5, <2>1 DEF T
<1> DEFINE U == {k \in Nat : (c + 1) + k <= n =>
                               \E hi \in Nat : s[(c + 1) + k] = s[c + 1] + hi * Power(8 * (c + 1))}
<1>7. 0 \in U
  <2>1. s[(c + 1) + 0] = s[c + 1] + 0 * Power(8 * (c + 1))
    <3>1. c + 1 \in 0 .. n /\ c + 1 \in Nat /\ (c + 1) + 0 = c + 1
      OBVIOUS
    <3>2. s[c + 1] \in Nat /\ Power(8 * (c + 1)) \in Nat
      BY <1>1, <1>2, <3>1
    <3> QED BY <3>1, <3>2
  <2> QED BY <2>1
<1>8. ASSUME NEW k \in Nat, k \in U PROVE k + 1 \in U
  <2> SUFFICES ASSUME (c + 1) + (k + 1) <= n
               PROVE  \E hi \in Nat : s[(c + 1) + (k + 1)] = s[c + 1] + hi * Power(8 * (c + 1))
    OBVIOUS
  <2> DEFINE e == (c + 1) + k
             P == Power(8 * (c + 1))
             R == Power(8 * k)
  <2>1. e \in 0 .. n - 1 /\ (c + 1) + (k + 1) = e + 1 /\ c + 1 \in Nat /\ c + 1 \in 0 .. n
    OBVIOUS
  <2>2. PICK hi \in Nat : s[e] = s[c + 1] + hi * P
    <3>1. (c + 1) + k <= n
      OBVIOUS
    <3> QED BY <1>8, <3>1
  <2>3. Power(8 * e) = P * R
    <3>1. 8 * e = 8 * (c + 1) + 8 * k /\ 8 * (c + 1) \in Nat /\ 8 * k \in Nat
      OBVIOUS
    <3>2. Power(8 * (c + 1) + 8 * k) = P * R
      BY <3>1, PowerSum
    <3> QED BY <3>1, <3>2
  <2>4. s[e + 1] = s[e] + d[e] * Power(8 * e)
    BY <1>1, <2>1
  <2>5. P \in Nat /\ R \in Nat /\ d[e] \in Nat /\ s[c + 1] \in Nat
    <3>1. P \in Nat /\ R \in Nat
      BY <1>2, <2>1
    <3>2. d[e] \in Nat
      BY ONLY <1>0, <2>1
    <3>3. s[c + 1] \in Nat
      BY <1>1, <2>1
    <3> QED BY <3>1, <3>2, <3>3
  <2> HIDE DEF e, P, R
  <2>6. s[e + 1] = s[c + 1] + (hi + d[e] * R) * P
    <3>1. d[e] * (P * R) = (d[e] * R) * P
      BY <2>5
    <3>2. d[e] * R \in Nat
      BY ONLY <2>5, Times
    <3>3. (hi + d[e] * R) * P = hi * P + (d[e] * R) * P
      BY <2>5, <3>2
    <3>4. hi * P \in Nat /\ (d[e] * R) * P \in Nat
      BY <2>5, <3>2
    <3> QED BY <2>2, <2>3, <2>4, <2>5, <3>1, <3>3, <3>4
  <2>7. hi + d[e] * R \in Nat
    <3>1. d[e] * R \in Nat
      BY ONLY <2>5, Times
    <3> QED BY <3>1
  <2> QED BY <2>1, <2>6, <2>7 DEF P
<1> HIDE DEF U
<1>9. n - (c + 1) \in U
  <2>1. n - (c + 1) \in Nat
    OBVIOUS
  <2> QED BY <1>7, <1>8, <2>1, Induction
<1>10. PICK hi \in Nat : s[n] = s[c + 1] + hi * Power(8 * (c + 1))
  <2>1. (c + 1) + (n - (c + 1)) = n
    OBVIOUS
  <2> QED BY <1>9, <2>1 DEF U
<1> DEFINE Q == Power(8 * c)
<1>11. s[c + 1] = s[c] + d[c] * Q
  BY <1>1
<1>12. Power(8 * (c + 1)) = 256 * Q /\ Q \in Nat
  <2>1. c \in Nat
    OBVIOUS
  <2> QED BY <1>2, <2>1
<1>13. s[c] \in 0 .. Q - 1 /\ s[c] \in Nat /\ d[c] \in Nat
  <2>1. s[c] \in 0 .. Q - 1
    BY <1>6
  <2>2. d[c] \in Nat
    BY <1>0
  <2> QED BY <1>12, <2>1, <2>2
<1> HIDE DEF Q
<1>14. s[n] = Q * (d[c] + 256 * hi) + s[c]
  BY <1>10, <1>11, <1>12, <1>13
<1> QED BY <1>1, <1>13, <1>14 DEF Q, Splits

(* Bit 8c + t of a number is bit t of its byte c. *)
LEMMA BitOfByte ==
  ASSUME NEW n \in Nat, NEW d, \A k \in 0 .. n - 1 : d[k] \in 0 .. 255,
         NEW c \in 0 .. n - 1, NEW t \in 0 .. 7
  PROVE  /\ Number(d, 8, n) \in Nat
         /\ (Number(d, 8, n) \div Power(8 * c + t)) % 2 = (d[c] \div Power(t)) % 2
<1> DEFINE X == Number(d, 8, n)
           P == Power(8 * c)
           R == Power(t)
           H == Power(7 - t)
<1>1. PICK lo \in 0 .. P - 1, hi \in Nat : X = P * (d[c] + 256 * hi) + lo
  <2>1. Splits(X, P, d[c])
    BY DigitSplits
  <2> HIDE DEF X, P
  <2> QED BY <2>1 DEF Splits
<1>2. P \in Nat /\ P >= 1 /\ R \in Nat /\ R >= 1 /\ H \in Nat
  BY PowerPositive
<1>3. R * (2 * H) = 256
  <2>1. Power((7 - t) + 1) = 2 * H
    BY PowerStep
  <2>0. t \in Nat /\ (7 - t) + 1 \in Nat
    OBVIOUS
  <2>2. Power(t + ((7 - t) + 1)) = R * Power((7 - t) + 1)
    BY <2>0, PowerSum
  <2>3. t + ((7 - t) + 1) = 8
    OBVIOUS
  <2> QED BY <2>1, <2>2, <2>3, PowerOfByte
<1> DEFINE v == d[c]
           z == v + 256 * hi
<1>4. v \in Nat /\ z \in Nat
  <2>1. d[c] \in Nat
    BY ONLY \A k \in 0 .. n - 1 : d[k] \in 0 .. 255, c \in 0 .. n - 1
  <2> QED BY ONLY <2>1, hi \in Nat
<1> HIDE DEF P, R, H, z
<1>5. P * z \in Nat /\ lo \in 0 .. (P - 1)
  BY <1>2, <1>4
<1>6. X = P * z + lo
  BY <1>1 DEF z
<1> HIDE DEF X, v
<1>7. X \in Nat
  BY <1>5, <1>6
<1>8. X \div P = z
  BY ONLY <1>2, <1>4, <1>5, <1>6, <1>7, DivUnique
<1>9. X \div Power(8 * c + t) = (X \div P) \div R
  <2>1. 8 * c \in Nat /\ t \in Nat
    OBVIOUS
  <2> QED BY <1>7, <2>1, DivDiv DEF P, R
<1> DEFINE q == v \div R
           r == v % R
           u == q + 2 * (H * hi)
<1>10. v = R * q + r /\ r \in 0 .. (R - 1) /\ q \in Nat
  BY <1>2, <1>4, DivMod
<1>11. (v \div R) % 2 = q % 2
  OBVIOUS
<1> HIDE DEF q, r
<1>12. H * hi \in Nat
  BY <1>2
<1>13. z = R * u + r
  <2>1. (R * (2 * H)) * hi = R * (2 * (H * hi))
    BY <1>2
  <2>2. R * u = R * q + R * (2 * (H * hi))
    BY <1>2, <1>10, <1>12
  <2>3. R * (2 * (H * hi)) = 256 * hi
    BY <1>3, <2>1
  <2>4. z = v + 256 * hi
    BY DEF z
  <2>5. R * q \in Nat
    BY <1>2, <1>10
  <2> QED BY <1>10, <2>2, <2>3, <2>4, <2>5
<1>14. u \in Nat /\ u % 2 = q % 2
  BY <1>10, <1>12
<1> HIDE DEF u
<1>15. z \div R = u
  BY ONLY <1>2, <1>4, <1>10, <1>13, <1>14, DivUnique
<1> QED BY <1>7, <1>8, <1>9, <1>11, <1>14, <1>15 DEF X, v, R

-----------------------------------------------------------------------------
(* z: the lanes. *)
Offset(x, w) == PolyBytes * x + w * GroupBytes
ZWord(x, w)  == [l \in LaneSet |-> Canonical(Group(Offset(x, w))[l])]
Out(x, w, l) == OutOfNorm(ZWord(x, w)[l])
ZPolys       == 0 .. L - 1

LEMMA ZSizes ==
  /\ L \in Nat /\ L >= 1
  /\ Blocks \in Nat /\ Blocks >= 1
  /\ Quads \in Nat /\ Quads >= 1
  /\ ZLanes \in Nat /\ ZLanes >= 1
  /\ FieldBits \in Nat /\ FieldBits >= 1
  /\ GroupBytes \in Nat /\ 8 * GroupBytes = ZLanes * FieldBits
  /\ Blocks * Quads \in Nat /\ PolyBytes = (Blocks * Quads) * GroupBytes /\ PolyBytes \in Nat
<1>1. /\ L \in Nat /\ L >= 1
      /\ Blocks \in Nat /\ Blocks >= 1
      /\ Quads \in Nat /\ Quads >= 1
      /\ ZLanes \in Nat /\ ZLanes >= 1
      /\ FieldBits \in Nat /\ FieldBits >= 1
  <2>1. \A n \in {L, Blocks, Quads, ZLanes, FieldBits} : n \in Nat /\ n >= 1
    BY UnpackAssumption
  <2> QED BY <2>1
<1> DEFINE bits == ZLanes * FieldBits
<1>2. bits \in Nat
  BY <1>1
<1>3. bits % 8 = 0
  BY UnpackAssumption
<1>4. GroupBytes = bits \div 8
  BY DEF GroupBytes
<1> HIDE DEF bits
<1>5. GroupBytes \in Nat /\ 8 * GroupBytes = bits
  BY <1>2, <1>3, <1>4
<1>6. Blocks * Quads \in Nat
  BY <1>1
<1>7. PolyBytes = (Blocks * Quads) * GroupBytes
  BY DEF PolyBytes
<1>8. PolyBytes \in Nat
  BY <1>5, <1>6, <1>7
<1> QED BY <1>1, <1>5, <1>6, <1>7, <1>8 DEF bits

LEMMA ZRange ==
  /\ ZGamma1 \in Nat /\ ZBeta \in Nat /\ ZQ \in Nat /\ FlagBit \in Nat
  /\ ZBeta < ZGamma1 /\ 2 * ZGamma1 <= ZQ /\ ZQ <= FlagBit
  /\ Power(FieldBits) <= 2 * ZGamma1
  BY UnpackAssumption

LEMMA GroupInside ==
  ASSUME zin \in ZInputs, NEW x \in ZPolys, NEW w \in PolyWords, NEW c \in 0 .. GroupBytes - 1
  PROVE  Offset(x, w) \in Nat /\ zin[Offset(x, w) + c + 1] \in 0 .. 255
<1> DEFINE BQ == Blocks * Quads
           at == PolyBytes * x
           lo == w * GroupBytes
<1>1. x \in Nat /\ x + 1 \in Nat /\ x + 1 <= L /\ L \in Nat /\ w \in Nat /\ w + 1 \in Nat /\ w + 1 <= BQ /\ BQ \in Nat
  BY ZSizes DEF ZPolys, PolyWords
<1>2. PolyBytes = BQ * GroupBytes /\ PolyBytes \in Nat /\ GroupBytes \in Nat
  BY ZSizes
<1> HIDE DEF BQ
<1>3. (w + 1) * GroupBytes <= PolyBytes
  BY ONLY <1>1, <1>2, Times
<1>4. (w + 1) * GroupBytes = lo + GroupBytes /\ lo \in Nat
  BY <1>1, <1>2
<1>5. (x + 1) * PolyBytes <= L * PolyBytes
  BY ONLY <1>1, <1>2, Times
<1>6. (x + 1) * PolyBytes = at + PolyBytes /\ at \in Nat
  BY <1>1, <1>2
<1>7. L * PolyBytes = PolyBytes * L /\ PolyBytes * L \in Nat
  BY <1>1, <1>2
<1>8. Offset(x, w) = at + lo
  BY DEF Offset
<1> HIDE DEF at, lo
<1>9. Offset(x, w) \in Nat
  BY <1>4, <1>6, <1>8
<1>10. Offset(x, w) + c + 1 \in 1 .. PolyBytes * L
  BY <1>2, <1>3, <1>4, <1>5, <1>6, <1>7, <1>8, <1>9
<1> QED BY <1>9, <1>10, UnpackAssumption

(* The code's field is the number BitUnpack makes of the field's bits.     *)
LEMMA FieldIsCoefficient ==
  ASSUME zin \in ZInputs, NEW x \in ZPolys, NEW w \in PolyWords, NEW l \in LaneSet
  PROVE  /\ Group(Offset(x, w))[l] \in 0 .. 2 * ZGamma1 - 1
         /\ ZCoefficient(x, ZLanes * w + l) = ZGamma1 - Group(Offset(x, w))[l]
<1> DEFINE e == [c \in 0 .. GroupBytes - 1 |-> zin[Offset(x, w) + c + 1]]
           X == Number(e, 8, GroupBytes)
           n == ZLanes * w + l
           d == [k \in 0 .. FieldBits - 1 |-> ZBit(x, FieldBits * n + k)]
           a == FieldBits * l
<1>1. Group(Offset(x, w))[l] = (X \div Power(a)) % Power(FieldBits)
  BY DEF Group
<1>2. \A c \in 0 .. GroupBytes - 1 : e[c] \in 0 .. 255
  BY GroupInside
<1>3. w \in Nat /\ l \in Nat /\ l + 1 <= ZLanes /\ x \in Nat
  BY ZSizes DEF PolyWords, LaneSet, ZPolys
<1>4. a \in Nat /\ a + FieldBits <= 8 * GroupBytes /\ n \in Nat
  <2>1. (l + 1) * FieldBits <= ZLanes * FieldBits
    <3>1. l + 1 \in Nat
      BY <1>3
    <3> QED BY <1>3, <3>1, ZSizes, Times
  <2>2. (l + 1) * FieldBits = a + FieldBits /\ a \in Nat
    BY <1>3, ZSizes
  <2>3. ZLanes * w \in Nat
    BY <1>3, ZSizes
  <2> QED BY <1>3, <2>1, <2>2, <2>3, ZSizes
<1>5. FieldBits * n = 8 * (w * GroupBytes) + a
  <2>1. FieldBits * n = (ZLanes * FieldBits) * w + a
    BY <1>3, ZSizes
  <2>2. (8 * GroupBytes) * w = 8 * (w * GroupBytes)
    BY <1>3, ZSizes
  <2> QED BY <2>1, <2>2, ZSizes
<1>6. ZCoefficient(x, n) = ZGamma1 - Number(d, 1, FieldBits)
  BY DEF ZCoefficient
<1>7. Offset(x, w) = PolyBytes * x + w * GroupBytes
  BY DEF Offset
<1>8. PolyBytes * x \in Nat /\ w * GroupBytes \in Nat
  BY <1>3, ZSizes
<1>9. X \in Nat
  <2>1. GroupBytes \in Nat /\ GroupBytes # 0 /\ 0 \in 0 .. GroupBytes - 1 /\ 0 \in 0 .. 7
    BY <1>4, ZSizes
  <2> HIDE DEF e
  <2> QED BY <1>2, <2>1, BitOfByte
<1> HIDE DEF X, n, a
<1>10. ASSUME NEW k \in 0 .. FieldBits - 1
       PROVE  d[k] = (X \div Power(a + k)) % 2
  <2> DEFINE bit == a + k
             c == bit \div 8
             t == bit % 8
  <2>1. bit \in Nat /\ bit < 8 * GroupBytes
    BY <1>4, ZSizes
  <2> HIDE DEF bit
  <2>2. bit = 8 * c + t /\ t \in 0 .. 7 /\ c \in 0 .. GroupBytes - 1
    BY <2>1, ZSizes
  <2>3. FieldBits * n + k = 8 * (w * GroupBytes) + bit
    BY <1>4, <1>5, <1>8, ZSizes DEF bit
  <2> DEFINE here == FieldBits * n + k
  <2> HIDE DEF here, c, t
  <2>4. here = 8 * (w * GroupBytes + c) + t
    BY <1>8, <2>2, <2>3 DEF here
  <2>5. here \div 8 = w * GroupBytes + c /\ here % 8 = t
    <3> DEFINE top == w * GroupBytes + c
    <3>1. top \in Nat
      BY <1>8, <2>2
    <3>2. here = 8 * top + t
      BY <2>4
    <3> HIDE DEF top
    <3>3. here \div 8 = top /\ here % 8 = t
      BY <2>2, <3>1, <3>2
    <3> QED BY <3>3 DEF top
  <2>6. d[k] = ZBit(x, here)
    BY DEF here
  <2>7. ZBit(x, here) = (zin[PolyBytes * x + (w * GroupBytes + c) + 1] \div Power(t)) % 2
    BY <2>5 DEF ZBit
  <2>8. PolyBytes * x + (w * GroupBytes + c) + 1 = Offset(x, w) + c + 1
    BY <1>7, <1>8, <2>2
  <2>9. e[c] = zin[Offset(x, w) + c + 1]
    BY <2>2
  <2> HIDE DEF e, d
  <2>10. (X \div Power(8 * c + t)) % 2 = (e[c] \div Power(t)) % 2
    <3>1. GroupBytes \in Nat
      BY ZSizes
    <3> QED BY ONLY <1>2, <2>2, <3>1, BitOfByte DEF X
  <2> QED BY <2>2, <2>6, <2>7, <2>8, <2>9, <2>10 DEF bit
<1> HIDE DEF d
<1>11. Number(d, 1, FieldBits) = (X \div Power(a)) % Power(FieldBits)
  BY <1>4, <1>9, <1>10, ZSizes, BitsAreField
<1>12. (X \div Power(a)) % Power(FieldBits) \in 0 .. Power(FieldBits) - 1
  <2>1. Power(FieldBits) \in Nat /\ Power(FieldBits) >= 1 /\ Power(a) \in Nat /\ Power(a) >= 1
    BY <1>4, ZSizes, PowerPositive
  <2>2. X \div Power(a) \in Nat
    BY <1>9, <2>1, DivMod
  <2> QED BY <2>1, <2>2, DivMod
<1>13. Power(FieldBits) \in Nat
  BY ZSizes, PowerPositive
<1> QED BY <1>1, <1>6, <1>11, <1>12, <1>13, ZRange DEF n

LEMMA FlaggedIs ==
  ASSUME NEW x \in Nat, x < 2 * FlagBit
  PROVE  Flagged(x) <=> x >= FlagBit
<1>1. FlagBit \in Nat /\ FlagBit >= 1
  BY ZRange
<1>2. CASE x >= FlagBit
  <2>1. x = FlagBit * 1 + (x - FlagBit) /\ x - FlagBit \in 0 .. (FlagBit - 1) /\ 1 \in Int
    BY <1>1, <1>2
  <2>2. x \div FlagBit = 1
    BY <1>1, <2>1, DivUnique
  <2> QED BY <1>2, <2>2 DEF Flagged
<1>3. CASE x < FlagBit
  <2>1. x = FlagBit * 0 + x /\ x \in 0 .. (FlagBit - 1) /\ 0 \in Int
    BY <1>1, <1>3
  <2>2. x \div FlagBit = 0
    BY <1>1, <2>1, DivUnique
  <2> QED BY <1>1, <1>3, <2>2 DEF Flagged
<1> QED BY <1>1, <1>2, <1>3

(* One lane: the residue of gamma1 - v, and the strict norm bound.          *)
LEMMA LaneIs ==
  ASSUME NEW v \in 0 .. 2 * ZGamma1 - 1
  PROVE  /\ Canonical(v) = (ZGamma1 - v) % ZQ
         /\ OutOfNorm(Canonical(v)) <=> ~ (/\ ZGamma1 - v < ZGamma1 - ZBeta
                                           /\ - (ZGamma1 - v) < ZGamma1 - ZBeta)
<1> DEFINE c == ZGamma1 - v
           u == ZQ + ZGamma1 - v
           o == IF c >= 0 THEN c ELSE c + ZQ
           B == ZGamma1 - ZBeta
<1>1. c \in Int /\ c <= ZGamma1 /\ -ZGamma1 < c /\ u = ZQ + c /\ u \in Nat
  BY ZRange
<1>2. o \in 0 .. (ZQ - 1)
  BY <1>1, ZRange
<1>3. Flagged(u + (FlagBit - ZQ)) <=> c >= 0
  <2>1. u + (FlagBit - ZQ) \in Nat /\ u + (FlagBit - ZQ) < 2 * FlagBit
    BY <1>1, ZRange
  <2>2. Flagged(u + (FlagBit - ZQ)) <=> u + (FlagBit - ZQ) >= FlagBit
    BY <2>1, FlaggedIs
  <2> QED BY <1>1, <2>2, ZRange
<1>4. Canonical(v) = o
  BY <1>1, <1>3, ZRange DEF Canonical
<1>5. c % ZQ = o
  <2>1. ZQ >= 1 /\ ZQ \in Nat
    BY ZRange
  <2>2. CASE c >= 0
    <3>1. c = ZQ * 0 + o /\ 0 \in Int
      BY <1>1, <2>1, <2>2
    <3> HIDE DEF o, c
    <3> QED BY <1>1, <1>2, <2>1, <3>1, DivUnique
  <2>3. CASE c < 0
    <3>1. c = ZQ * (-1) + o /\ -1 \in Int
      BY <1>1, <2>1, <2>3
    <3> HIDE DEF o, c
    <3> QED BY <1>1, <1>2, <2>1, <3>1, DivUnique
  <2> QED BY <1>1, <2>2, <2>3
<1>6. Flagged(o + (FlagBit - B)) <=> o >= B
  <2>1. o + (FlagBit - B) \in Nat /\ o + (FlagBit - B) < 2 * FlagBit
    BY <1>2, ZRange
  <2>2. Flagged(o + (FlagBit - B)) <=> o + (FlagBit - B) >= FlagBit
    BY <2>1, FlaggedIs
  <2> QED BY <1>2, <2>2, ZRange
<1>7. Flagged((FlagBit + ZQ - B) - o) <=> o <= ZQ - B
  <2>1. (FlagBit + ZQ - B) - o \in Nat /\ (FlagBit + ZQ - B) - o < 2 * FlagBit
    BY <1>2, ZRange
  <2>2. Flagged((FlagBit + ZQ - B) - o) <=> (FlagBit + ZQ - B) - o >= FlagBit
    BY <2>1, FlaggedIs
  <2> QED BY <1>2, <2>2, ZRange
<1>8. OutOfNorm(o) <=> o >= B /\ o <= ZQ - B
  BY <1>6, <1>7 DEF OutOfNorm
<1>9. (o >= B /\ o <= ZQ - B) <=> ~ (c < B /\ - c < B)
  BY <1>1, <1>2, ZRange
<1> QED BY <1>4, <1>5, <1>8, <1>9

LEMMA ZWordIs ==
  ASSUME zin \in ZInputs, NEW x \in ZPolys, NEW w \in PolyWords, NEW l \in LaneSet
  PROVE  /\ ZWord(x, w)[l] = ZCoefficient(x, ZLanes * w + l) % ZQ
         /\ Out(x, w, l) <=> ~ (/\ ZCoefficient(x, ZLanes * w + l) < ZGamma1 - ZBeta
                                /\ - ZCoefficient(x, ZLanes * w + l) < ZGamma1 - ZBeta)
<1> DEFINE v == Group(Offset(x, w))[l]
<1>1. v \in 0 .. 2 * ZGamma1 - 1 /\ ZCoefficient(x, ZLanes * w + l) = ZGamma1 - v
  BY FieldIsCoefficient
<1>2. ZWord(x, w)[l] = Canonical(v)
  BY DEF ZWord
<1> HIDE DEF v
<1> QED BY <1>1, <1>2, LaneIs DEF Out

(* The words finished: all of the polynomials before p, and those of the   *)
(* turns before b.  The scratch word has the verdicts of polynomial p, the *)
(* result those of the polynomials before it.                              *)
Verdicts(x, n) == {l \in LaneSet : \E w \in PolyWords : w \div Quads < n /\ Out(x, w, l)}

ZInv ==
  /\ zin \in ZInputs
  /\ zpc \in {"poly", "block", "done"}
  /\ p \in 0 .. L
  /\ zp = [x \in ZPolys |-> zp[x]]
  /\ \A x \in 0 .. p - 1, w \in PolyWords : zp[x][w] = ZWord(x, w)
  /\ fail = {l \in LaneSet : \E x \in 0 .. p - 1, w \in PolyWords : Out(x, w, l)}
  /\ zpc = "block" =>
       /\ p < L
       /\ b \in 0 .. Blocks
       /\ \A w \in PolyWords : w \div Quads < b => zp[p][w] = ZWord(p, w)
       /\ scratch = Verdicts(p, b)
  /\ zpc = "done" => p = L /\ (normOk <=> fail = {})

LEMMA InitZInv == DecodeInit => ZInv
<1> SUFFICES ASSUME DecodeInit PROVE ZInv
  OBVIOUS
<1>1. zin \in ZInputs
  <2>1. (CHOOSE z \in ZInputs : TRUE) \in ZInputs
    BY UnpackAssumption
  <2> QED BY <2>1 DEF DecodeInit
<1>2. /\ zpc = "poly" /\ p = 0 /\ fail = {}
      /\ \E d \in Dirt : zp = [x \in 0 .. L - 1 |-> [w \in PolyWords |-> [l \in LaneSet |-> d]]]
  BY DEF DecodeInit, UnpackInit
<1>3. zp = [x \in ZPolys |-> zp[x]]
  BY <1>2 DEF ZPolys
<1>4. 0 .. p - 1 = {}
  BY <1>2
<1> QED BY <1>1, <1>2, <1>3, <1>4, ZSizes DEF ZInv

LEMMA ZWordStable ==
  ASSUME zin' = zin
  PROVE  /\ \A x, w : ZWord(x, w)' = ZWord(x, w)
         /\ \A x, w, l : Out(x, w, l)' = Out(x, w, l)
         /\ \A x, n : Verdicts(x, n)' = Verdicts(x, n)
<1>1. \A x : Group(x)' = Group(x)
  BY DEF Group
<1>2. \A x, w : ZWord(x, w)' = ZWord(x, w)
  BY <1>1 DEF ZWord
<1>3. \A x, w, l : Out(x, w, l)' = Out(x, w, l)
  BY <1>2 DEF Out
<1> QED BY <1>2, <1>3 DEF Verdicts

LEMMA WordOfTurn ==
  ASSUME NEW w \in PolyWords, NEW n \in 0 .. Blocks - 1
  PROVE  /\ w \in Nat /\ w \div Quads \in 0 .. Blocks - 1 /\ w % Quads \in 0 .. Quads - 1
         /\ w \div Quads = n => w = n * Quads + (w % Quads)
<1>1. w \in Nat /\ w < Blocks * Quads
  BY ZSizes DEF PolyWords
<1>2. w = Quads * (w \div Quads) + (w % Quads) /\ w % Quads \in 0 .. (Quads - 1) /\ w \div Quads \in Nat
  BY <1>1, ZSizes, DivMod
<1> DEFINE q == w \div Quads
<1> HIDE DEF q
<1>3. q < Blocks
  <2> SUFFICES ASSUME q >= Blocks PROVE Blocks * Quads <= Quads * q
    <3>1. Quads * q \in Nat
      BY <1>2, ZSizes DEF q
    <3> QED BY <1>1, <1>2, <3>1, ZSizes DEF q
  <2>1. q \in Nat
    BY <1>2 DEF q
  <2>2. Blocks * Quads <= q * Quads
    BY <2>1, ZSizes, Times
  <2> QED BY <2>1, <2>2, ZSizes
<1>4. n * Quads = Quads * n
  BY ZSizes
<1> QED BY <1>1, <1>2, <1>3, <1>4, ZSizes DEF q

LEMMA TurnWord ==
  ASSUME NEW n \in 0 .. Blocks - 1, NEW u \in 0 .. Quads - 1
  PROVE  n * Quads + u \in PolyWords /\ (n * Quads + u) \div Quads = n /\ (n * Quads + u) % Quads = u
<1>1. n \in Nat /\ u \in Nat /\ n * Quads \in Nat /\ n * Quads = Quads * n
  BY ZSizes
<1>2. (n + 1) * Quads <= Blocks * Quads /\ (n + 1) * Quads = n * Quads + Quads
  <2>1. n + 1 \in Nat /\ n + 1 <= Blocks
    BY ZSizes
  <2> QED BY <1>1, <2>1, ZSizes, Times
<1> DEFINE w == n * Quads + u
<1>3. w \in Nat /\ w = Quads * n + u /\ w < Blocks * Quads
  BY <1>1, <1>2, ZSizes
<1> HIDE DEF w
<1>4. w % Quads = u /\ w \div Quads = n
  BY <1>1, <1>3, ZSizes, DivUnique
<1> QED BY <1>3, <1>4, ZSizes DEF w, PolyWords

LEMMA StepZInv == ZInv /\ [DecodeNext]_<<vars, zvars>> => ZInv'
<1> SUFFICES ASSUME ZInv, [DecodeNext]_<<vars, zvars>> PROVE ZInv'
  OBVIOUS
<1>a. zin' = zin
  BY DEF DecodeNext, DecodeZ, UnpackNext, BeginPoly, Turn, EndPoly, FinishZ, zvars
<1>b. /\ \A x, w : ZWord(x, w)' = ZWord(x, w)
      /\ \A x, w, l : Out(x, w, l)' = Out(x, w, l)
      /\ \A x, n : Verdicts(x, n)' = Verdicts(x, n)
  BY <1>a, ZWordStable
<1>1. CASE UNCHANGED zvars
  <2>1. UNCHANGED <<zin, zpc, p, b, scratch, fail, zp, normOk>>
    BY <1>1 DEF zvars
  <2> QED BY <1>b, <2>1 DEF ZInv
<1>2. CASE BeginPoly
  <2>1. /\ p < L /\ scratch' = {} /\ b' = 0 /\ zpc' = "block"
        /\ UNCHANGED <<zin, p, fail, zp, normOk>>
    BY <1>2 DEF BeginPoly
  <2>2. ~ \E w \in PolyWords : w \div Quads < 0
    <3> SUFFICES ASSUME NEW w \in PolyWords PROVE w \div Quads >= 0
      BY ZSizes DEF PolyWords
    <3>1. w \in Nat
      BY ZSizes DEF PolyWords
    <3>2. w \div Quads \in Nat
      BY <3>1, ZSizes, DivMod
    <3> QED BY <3>2
  <2>3. Verdicts(p, 0) = {}
    BY <2>2 DEF Verdicts
  <2>4. \A w \in PolyWords : ~ (w \div Quads < 0)
    BY <2>2
  <2>5. 0 \in 0 .. Blocks /\ p \in 0 .. L
    BY ZSizes DEF ZInv
  <2>6. /\ zin \in ZInputs /\ zp = [x \in ZPolys |-> zp[x]]
        /\ \A x \in 0 .. p - 1, w \in PolyWords : zp[x][w] = ZWord(x, w)
        /\ fail = {l \in LaneSet : \E x \in 0 .. p - 1, w \in PolyWords : Out(x, w, l)}
    BY DEF ZInv
  <2> QED BY <1>b, <2>1, <2>3, <2>4, <2>5, <2>6 DEF ZInv
<1>3. CASE Turn
  <2> DEFINE src == PolyBytes * p + b * Quads * GroupBytes
             word(u) == [l \in LaneSet |-> Canonical(Group(src + u * GroupBytes)[l])]
  <2>1. /\ zpc = "block" /\ b < Blocks
        /\ zp' = [zp EXCEPT ![p] = [w \in PolyWords |-> IF w \div Quads = b THEN word(w % Quads) ELSE @[w]]]
        /\ scratch' = scratch \cup {l \in LaneSet : \E u \in 0 .. Quads - 1 : OutOfNorm(word(u)[l])}
        /\ b' = b + 1
        /\ UNCHANGED <<zin, zpc, p, fail, normOk>>
    BY <1>3 DEF Turn
  <2>2. b \in 0 .. Blocks - 1 /\ p \in ZPolys /\ p \in 0 .. L /\ p < L
    <3>1. p \in 0 .. L /\ p < L /\ b \in 0 .. Blocks
      BY <2>1, Zenon DEF ZInv
    <3>2. b < Blocks /\ L \in Nat /\ Blocks \in Nat
      BY <2>1, ZSizes
    <3> QED BY ONLY <3>1, <3>2 DEF ZPolys
  <2>3. ASSUME NEW u \in 0 .. Quads - 1 PROVE word(u) = ZWord(p, b * Quads + u)
    <3>1. src + u * GroupBytes = Offset(p, b * Quads + u)
      <4>1. p \in Nat /\ b \in Nat /\ u \in Nat
        BY <2>2, ZSizes DEF ZPolys
      <4>2. (b * Quads + u) * GroupBytes = b * Quads * GroupBytes + u * GroupBytes
        BY <4>1, ZSizes
      <4>3. PolyBytes * p \in Nat /\ b * Quads * GroupBytes \in Nat /\ u * GroupBytes \in Nat
        BY <4>1, ZSizes
      <4> QED BY <4>2, <4>3 DEF Offset
    <3> HIDE DEF src
    <3> QED BY <3>1 DEF ZWord
  <2> HIDE DEF word
  <2>4. ASSUME NEW w \in PolyWords
        PROVE  zp'[p][w] = IF w \div Quads = b THEN ZWord(p, w) ELSE zp[p][w]
    <3>1. zp'[p] = [v \in PolyWords |-> IF v \div Quads = b THEN word(v % Quads) ELSE zp[p][v]]
      BY <2>1, <2>2 DEF ZInv
    <3>2. zp'[p][w] = IF w \div Quads = b THEN word(w % Quads) ELSE zp[p][w]
      BY <3>1
    <3>3. w \div Quads = b => w = b * Quads + (w % Quads) /\ w % Quads \in 0 .. Quads - 1
      BY <2>2, WordOfTurn
    <3>4. w \div Quads = b => word(w % Quads) = ZWord(p, w)
      BY <2>3, <3>3
    <3> QED BY <3>2, <3>4
  <2>5. \A w \in PolyWords : w \div Quads \in Nat
    BY <2>2, WordOfTurn
  <2>6. \A w \in PolyWords : w \div Quads < b + 1 => zp'[p][w] = ZWord(p, w)
    <3> TAKE w \in PolyWords
    <3>1. w \div Quads < b => zp[p][w] = ZWord(p, w)
      BY <2>1 DEF ZInv
    <3>2. w \div Quads < b + 1 => w \div Quads < b \/ w \div Quads = b
      BY <2>2, <2>5
    <3> QED BY <2>4, <3>1, <3>2
  <2>7. {l \in LaneSet : \E u \in 0 .. Quads - 1 : OutOfNorm(word(u)[l])}
          = {l \in LaneSet : \E w \in PolyWords : w \div Quads = b /\ Out(p, w, l)}
    <3> SUFFICES ASSUME NEW l \in LaneSet
                 PROVE  (\E u \in 0 .. Quads - 1 : OutOfNorm(word(u)[l]))
                          <=> (\E w \in PolyWords : w \div Quads = b /\ Out(p, w, l))
      OBVIOUS
    <3>1. ASSUME NEW u \in 0 .. Quads - 1, OutOfNorm(word(u)[l])
          PROVE  \E w \in PolyWords : w \div Quads = b /\ Out(p, w, l)
      <4>1. b * Quads + u \in PolyWords /\ (b * Quads + u) \div Quads = b
        BY <2>2, TurnWord
      <4>2. Out(p, b * Quads + u, l)
        BY <2>3, <3>1 DEF Out
      <4> QED BY <4>1, <4>2
    <3>2. ASSUME NEW w \in PolyWords, w \div Quads = b, Out(p, w, l)
          PROVE  \E u \in 0 .. Quads - 1 : OutOfNorm(word(u)[l])
      <4>1. w = b * Quads + (w % Quads) /\ w % Quads \in 0 .. Quads - 1
        BY <2>2, <3>2, WordOfTurn
      <4>2. word(w % Quads) = ZWord(p, w)
        BY <2>3, <4>1
      <4> QED BY <3>2, <4>1, <4>2 DEF Out
    <3> QED BY <3>1, <3>2
  <2>8. scratch' = Verdicts(p, b + 1)
    <3>1. scratch = Verdicts(p, b)
      BY <2>1 DEF ZInv
    <3>2. \A w \in PolyWords : w \div Quads < b + 1 <=> w \div Quads < b \/ w \div Quads = b
      BY <2>2, <2>5
    <3>3. Verdicts(p, b + 1)
            = Verdicts(p, b) \cup {l \in LaneSet : \E w \in PolyWords : w \div Quads = b /\ Out(p, w, l)}
      BY <3>2 DEF Verdicts
    <3> QED BY <2>1, <2>7, <3>1, <3>3
  <2>9. \A x \in 0 .. p - 1, w \in PolyWords : zp'[x][w] = ZWord(x, w)
    <3> TAKE x \in 0 .. p - 1, w \in PolyWords
    <3>1. x \in ZPolys /\ x # p
      BY <2>2, ZSizes DEF ZPolys
    <3>2. zp'[x] = zp[x]
      BY <2>1, <3>1 DEF ZInv
    <3> QED BY <3>2 DEF ZInv
  <2>10. zp' = [x \in ZPolys |-> zp'[x]]
    BY <2>1 DEF ZInv
  <2>11. b + 1 \in 0 .. Blocks
    BY <2>2, ZSizes
  <2>12. zpc' = "block" /\ p' = p /\ fail' = fail /\ b' = b + 1 /\ zin' = zin
    BY <2>1
  <2>13. fail = {l \in LaneSet : \E x \in 0 .. p - 1, w \in PolyWords : Out(x, w, l)} /\ zin \in ZInputs
    BY DEF ZInv
  <2> QED BY <1>b, <2>2, <2>6, <2>8, <2>9, <2>10, <2>11, <2>12, <2>13 DEF ZInv
<1>4. CASE EndPoly
  <2>1. /\ zpc = "block" /\ b >= Blocks
        /\ fail' = fail \cup scratch /\ p' = p + 1 /\ zpc' = "poly"
        /\ UNCHANGED <<zin, b, scratch, zp, normOk>>
    BY <1>4 DEF EndPoly
  <2>2. p < L /\ b = Blocks /\ p \in 0 .. L /\ p + 1 \in 0 .. L
    BY <2>1, ZSizes DEF ZInv
  <2>3. \A w \in PolyWords : w \div Quads < b
    <3> TAKE w \in PolyWords
    <3>1. 0 \in 0 .. Blocks - 1
      BY ZSizes
    <3>2. w \div Quads \in 0 .. Blocks - 1
      BY <3>1, WordOfTurn
    <3> QED BY <2>2, <3>2, ZSizes
  <2>4. \A w \in PolyWords : zp[p][w] = ZWord(p, w)
    BY <2>1, <2>3 DEF ZInv
  <2>5. scratch = {l \in LaneSet : \E w \in PolyWords : Out(p, w, l)}
    <3>1. scratch = Verdicts(p, b)
      BY <2>1 DEF ZInv
    <3> QED BY <2>3, <3>1 DEF Verdicts
  <2>6. \A x : x \in 0 .. (p + 1) - 1 <=> x \in 0 .. p - 1 \/ x = p
    BY <2>2
  <2>7. \A x \in 0 .. (p + 1) - 1, w \in PolyWords : zp[x][w] = ZWord(x, w)
    BY <2>4, <2>6 DEF ZInv
  <2>8. fail' = {l \in LaneSet : \E x \in 0 .. (p + 1) - 1, w \in PolyWords : Out(x, w, l)}
    <3>1. fail = {l \in LaneSet : \E x \in 0 .. p - 1, w \in PolyWords : Out(x, w, l)}
      BY DEF ZInv
    <3> QED BY <2>1, <2>5, <2>6, <3>1
  <2>9. zp = [x \in ZPolys |-> zp[x]] /\ zin \in ZInputs
    BY DEF ZInv
  <2> QED BY <1>b, <2>1, <2>2, <2>7, <2>8, <2>9 DEF ZInv
<1>5. CASE FinishZ
  <2>1. /\ zpc = "poly" /\ p >= L /\ normOk' = (fail = {}) /\ zpc' = "done"
        /\ UNCHANGED <<zin, p, b, scratch, fail, zp>>
    BY <1>5 DEF FinishZ
  <2>2. p = L
    BY <2>1, ZSizes DEF ZInv
  <2> QED BY <1>b, <2>1, <2>2 DEF ZInv
<1> QED BY <1>1, <1>2, <1>3, <1>4, <1>5 DEF DecodeNext, DecodeZ, UnpackNext

-----------------------------------------------------------------------------
(* The theorems are about both decoders in verify()'s order.               *)
LEMMA DecodeIsSpec == DecodeSpec => Spec
<1>1. DecodeInit => Init
  BY DEF DecodeInit
<1>2. [DecodeNext]_<<vars, zvars>> => [Next]_vars
  BY DEF DecodeNext, DecodeZ, vars
<1> QED BY <1>1, <1>2, PTL DEF DecodeSpec, Spec

LEMMA HintInvariant == DecodeSpec => []LInv
  BY DecodeIsSpec, InitLInv, StepLInv, PTL DEF Spec

(* Every variable keeps its type: no index byte is read past Omega. *)
THEOREM HintTypeCorrect == DecodeSpec => []TypeOK
<1>1. LInv => TypeOK
  BY DEF LInv
<1> QED BY HintInvariant, <1>1, PTL

(* Whatever the counters say, the scan reads index bytes only. *)
THEOREM HintScanInBounds == DecodeSpec => []ScanInBounds
<1>1. LInv => ScanInBounds
  BY Sizes DEF LInv, TypeOK, ScanInBounds
<1> QED BY HintInvariant, <1>1, PTL

(* unpackHFast accepts exactly the encodings of Algorithm 21 and returns   *)
(* their rows, for every number of polynomials, index bytes and word size. *)
THEOREM HintDecodes == DecodeSpec => []DecodesAsAlgorithm21
<1>1. LInv => DecodesAsAlgorithm21
  BY DEF LInv
<1> QED BY HintInvariant, <1>1, PTL

(* A difference between the decoder and the oracle of the tests is an      *)
(* index repeated within a row, in every encoding of every size; and the   *)
(* decoder's masks hold the oracle's hints wherever the oracle accepts.    *)
THEOREM HintOracleDiffers == DecodeSpec => []OracleDiffersOnRepeatsOnly
<1>1. LInv => OracleDiffersOnRepeatsOnly
  <2> SUFFICES ASSUME LInv, pc = "done", len >= Size
               PROVE  /\ ok <=> (OracleAccepts /\ ~ HasRepeat)
                      /\ OracleAccepts => \A r \in Rows : masks[r] = OracleHints(r)
    BY DEF OracleDiffersOnRepeatsOnly
  <2>1. TypeOK /\ DecodesAsAlgorithm21 /\ MasksAreRows
    BY DEF LInv
  <2>2. ok <=> (OracleAccepts /\ ~ HasRepeat)
    BY <2>1, OraclePlusStrict DEF DecodesAsAlgorithm21
  <2>3. OracleAccepts => \A r \in Rows : masks[r] = OracleHints(r)
    BY <2>1, OracleRows DEF MasksAreRows
  <2> QED BY <2>2, <2>3
<1> QED BY HintInvariant, <1>1, PTL

(* unpackZPacked is FIPS 204's BitUnpack: coefficient n of polynomial x,   *)
(* read from its bits, stands in lane n % ZLanes of word n \div ZLanes,    *)
(* reduced modulo q, whatever the result's memory and the scratch word     *)
(* held; and the one flag says that every coefficient is within the norm   *)
(* bound.  For any number of polynomials, turns, quads and lanes, any      *)
(* width of a field, modulus, bounds and bytes.                            *)
THEOREM ZDecodesAsBitUnpack == DecodeSpec => []ZIsBitUnpack
<1>1. ZInv => ZIsBitUnpack
  <2> SUFFICES ASSUME ZInv, zpc = "done" PROVE ZIsBitUnpack
    BY DEF ZIsBitUnpack
  <2> DEFINE Numbers == 0 .. Blocks * Quads * ZLanes - 1
             Good(x, n) == /\ ZCoefficient(x, n) < ZGamma1 - ZBeta
                           /\ - ZCoefficient(x, n) < ZGamma1 - ZBeta
  <2>0. ZPolys = 0 .. L - 1
    BY DEF ZPolys
  <2>1. /\ zin \in ZInputs /\ p = L /\ (normOk <=> fail = {})
        /\ \A x \in ZPolys, w \in PolyWords : zp[x][w] = ZWord(x, w)
        /\ fail = {l \in LaneSet : \E x \in ZPolys, w \in PolyWords : Out(x, w, l)}
    BY <2>0 DEF ZInv
  <2>2. ASSUME NEW n \in Numbers
        PROVE  /\ n \div ZLanes \in PolyWords /\ n % ZLanes \in LaneSet
               /\ n = ZLanes * (n \div ZLanes) + (n % ZLanes)
    <3> DEFINE BQ == Blocks * Quads
               q == n \div ZLanes
    <3>1. n \in Nat /\ n < BQ * ZLanes /\ BQ \in Nat /\ BQ * ZLanes \in Nat
      BY ZSizes
    <3>2. n = ZLanes * q + (n % ZLanes) /\ n % ZLanes \in 0 .. (ZLanes - 1) /\ q \in Nat
      BY <3>1, ZSizes, DivMod
    <3> HIDE DEF BQ, q
    <3>3. q < BQ
      <4> SUFFICES ASSUME q >= BQ PROVE BQ * ZLanes <= q * ZLanes
        <5>1. q * ZLanes = ZLanes * q /\ q * ZLanes \in Nat
          BY <3>2, ZSizes
        <5> QED BY <3>1, <3>2, <5>1, ZSizes
      <4> QED BY <3>1, <3>2, ZSizes, Times
    <3> QED BY <3>1, <3>2, <3>3 DEF BQ, q, PolyWords, LaneSet
  <2>3. ASSUME NEW w \in PolyWords, NEW l \in LaneSet
        PROVE  ZLanes * w + l \in Numbers
    <3>1. w \in Nat /\ w + 1 \in Nat /\ w + 1 <= Blocks * Quads /\ l \in Nat /\ l < ZLanes
      BY ZSizes DEF PolyWords, LaneSet
    <3>2. (w + 1) * ZLanes <= (Blocks * Quads) * ZLanes
      BY <3>1, ZSizes, Times
    <3>3. (w + 1) * ZLanes = ZLanes * w + ZLanes /\ ZLanes * w \in Nat
      BY <3>1, ZSizes
    <3>4. (Blocks * Quads) * ZLanes \in Nat
      BY ZSizes
    <3> QED BY <3>1, <3>2, <3>3, <3>4, ZSizes
  <2> HIDE DEF Numbers
  <2>4. ASSUME NEW x \in ZPolys, NEW n \in Numbers
        PROVE  zp[x][n \div ZLanes][n % ZLanes] = ZCoefficient(x, n) % ZQ
    <3>1. ZWord(x, n \div ZLanes)[n % ZLanes] = ZCoefficient(x, n) % ZQ
      BY <2>1, <2>2, ZWordIs
    <3>2. zp[x][n \div ZLanes] = ZWord(x, n \div ZLanes)
      BY <2>1, <2>2
    <3> QED BY <3>1, <3>2
  <2>5. ASSUME NEW x \in ZPolys, NEW w \in PolyWords, NEW l \in LaneSet
        PROVE  Out(x, w, l) <=> ~ Good(x, ZLanes * w + l)
    BY <2>1, ZWordIs
  <2> HIDE DEF Good
  <2>6. normOk <=> \A x \in ZPolys, n \in Numbers : Good(x, n)
    <3>1. ASSUME fail = {}, NEW x \in ZPolys, NEW n \in Numbers PROVE Good(x, n)
      <4>1. ~ Out(x, n \div ZLanes, n % ZLanes)
        BY <2>1, <2>2, <3>1
      <4> QED BY <2>2, <2>5, <4>1
    <3>2. ASSUME \A x \in ZPolys, n \in Numbers : Good(x, n) PROVE fail = {}
      <4>1. \A l \in LaneSet, x \in ZPolys, w \in PolyWords : ~ Out(x, w, l)
        BY <2>3, <2>5, <3>2
      <4> QED BY <2>1, <4>1
    <3> QED BY <2>1, <3>1, <3>2
  <2> QED BY <2>0, <2>4, <2>6 DEF ZIsBitUnpack, Numbers, Good
<1> QED BY InitZInv, StepZInv, <1>1, PTL DEF DecodeSpec

=============================================================================
