------------------------- MODULE SampleInBallProofs -------------------------
(***************************************************************************)
(* Proofs about sampleInBallPacked, for every number of lanes, draws, rate *)
(* and modulus that satisfies SampleAssumption, and for every stream.      *)
(***************************************************************************)
EXTENDS SampleInBall, FiniteSetTheorems, TLAPS

-----------------------------------------------------------------------------
(* The inductive invariant.  A draw is under way exactly while i < N, and  *)
(* the lanes from i on are still zero: without the second part the OR of   *)
(* SwapAndSet could produce a value that is no coefficient.                *)
DrawPending == (pc \in {"absorb", "scan", "refill"}) => i < N

IInv == TypeOK /\ DrawPending /\ UpperLanesZero

LEMMA StartInRange == Start \in 0 .. N - 1
  BY SampleAssumption DEF Start

(* The sign bits form a word of at least one bit per draw. *)
LEMMA SignBitsNat == SignBits \in Nat /\ SignBits >= 1
  BY SampleAssumption DEF SignBits

LEMMA SignValueType ==
  ASSUME NEW w \in [0 .. SignBits - 1 -> {0, 1}]
  PROVE  SignValue(w) \in {1, MinusOne} /\ SignValue(w) # 0
<1>1. 0 \in 0 .. SignBits - 1
  BY SignBitsNat
<1>2. w[0] = 0 \/ w[0] = 1
  BY <1>1
<1>3. Q \in Nat /\ Q >= 3
  BY SampleAssumption
<1>4. CASE w[0] = 0
  BY <1>3, <1>4 DEF SignValue, MinusOne
<1>5. CASE w[0] = 1
  BY <1>3, <1>5 DEF SignValue, MinusOne
<1>6. QED
  BY <1>2, <1>4, <1>5

LEMMA SignWordType ==
  ASSUME NEW b
  PROVE  SignWord(b) \in [0 .. SignBits - 1 -> {0, 1}]
  BY DEF SignWord

LEMMA ShiftRightType ==
  ASSUME NEW w \in [0 .. SignBits - 1 -> {0, 1}]
  PROVE  ShiftRight(w) \in [0 .. SignBits - 1 -> {0, 1}]
  BY SignBitsNat DEF ShiftRight

(* A squeeze appends the block it puts in the buffer. *)
LEMMA SqueezeType ==
  ASSUME TypeOK, NEW b \in Blocks, PermuteAndSqueeze(b)
  PROVE  /\ xof' \in Seq(Blocks)
         /\ st' = Len(xof')
         /\ buf' = b
  BY DEF TypeOK, PermuteAndSqueeze

LEMMA InitInv == Init => IInv
<1> SUFFICES ASSUME Init PROVE IInv
  OBVIOUS
<1>1. N \in Nat /\ Rate \in Nat /\ SignBytes \in 0 .. Rate /\ N >= 1
  BY SampleAssumption
<1>2. buf \in Blocks
  BY <1>1 DEF Init, Blocks, Bytes
<1>3. TypeOK
  BY <1>1, <1>2, StartInRange, SignBitsNat DEF Init, TypeOK, Sentinel, Lanes
<1>4. DrawPending /\ UpperLanesZero
  BY <1>1, StartInRange DEF Init, DrawPending, UpperLanesZero
<1>5. QED
  BY <1>3, <1>4 DEF IInv

(* Draw i only ORs into a zero lane, so it is an assignment. *)
LEMMA DrawEffect ==
  ASSUME IInv, SwapAndSet
  PROVE  /\ i \in Lanes /\ j \in Lanes /\ j <= i
         /\ c' = [[c EXCEPT ![i] = c[j]] EXCEPT ![j] = SignValue(signInt)]
         /\ SignValue(signInt) \in {1, MinusOne} /\ SignValue(signInt) # 0
<1>1. i \in 0 .. N - 1 /\ j \in 0 .. N - 1 /\ j <= i
  BY SampleAssumption, StartInRange DEF IInv, TypeOK, DrawPending, SwapAndSet
<1>2. c[i] = 0
  BY <1>1 DEF IInv, UpperLanesZero, Lanes
<1>3. LaneOr(c[i], c[j]) = c[j]
  BY <1>2 DEF LaneOr
<1>4. signInt \in [0 .. SignBits - 1 -> {0, 1}]
  BY DEF IInv, TypeOK
<1>5. QED
  BY <1>1, <1>3, <1>4, SignValueType DEF SwapAndSet, Lanes

LEMMA StepInv == IInv /\ [Next]_vars => IInv'
<1> SUFFICES ASSUME IInv, [Next]_vars PROVE IInv'
  OBVIOUS
<1> USE SampleAssumption, StartInRange
<1>1. ASSUME NEW b \in Blocks, Absorb(b) PROVE IInv'
  <2>1. PermuteAndSqueeze(b)
    BY <1>1 DEF Absorb
  <2>2. TypeOK'
    BY <1>1, <2>1, SqueezeType, SignWordType DEF Absorb, IInv, TypeOK
  <2>3. QED
    BY <1>1, <2>2 DEF Absorb, IInv, DrawPending, UpperLanesZero
<1>2. ASSUME NEW b \in Blocks, Refill(b) PROVE IInv'
  <2>1. PermuteAndSqueeze(b)
    BY <1>2 DEF Refill
  <2>2. TypeOK'
    BY <1>2, <2>1, SqueezeType DEF Refill, IInv, TypeOK, Sentinel
  <2>3. QED
    BY <1>2, <2>2 DEF Refill, IInv, DrawPending, UpperLanesZero
<1>3. CASE ScanByte
  <2>1. buf[pos] \in Bytes
    BY <1>3 DEF ScanByte, IInv, TypeOK, Blocks
  <2>2. TypeOK'
    BY <1>3, <2>1 DEF ScanByte, IInv, TypeOK, Bytes
  <2>3. QED
    BY <1>3, <2>2 DEF ScanByte, IInv, DrawPending, UpperLanesZero
<1>4. CASE Exhaust
  BY <1>4 DEF Exhaust, IInv, TypeOK, DrawPending, UpperLanesZero
<1>5. CASE SwapAndSet
  <2>1. c' \in [Lanes -> {0, 1, MinusOne}]
    BY DrawEffect, <1>5 DEF IInv, TypeOK
  <2>2. signInt' \in [0 .. SignBits - 1 -> {0, 1}]
    BY <1>5, ShiftRightType DEF SwapAndSet, IInv, TypeOK
  <2>3. TypeOK'
    BY <1>5, <2>1, <2>2, DrawEffect DEF SwapAndSet, IInv, TypeOK, Sentinel, Lanes
  <2>4. UpperLanesZero'
    BY <1>5, DrawEffect DEF SwapAndSet, IInv, TypeOK, UpperLanesZero, Lanes
  <2>5. DrawPending'
    BY <1>5 DEF SwapAndSet, IInv, TypeOK, DrawPending
  <2>6. QED
    BY <2>3, <2>4, <2>5 DEF IInv
<1>6. CASE HelperFails
  BY <1>6 DEF HelperFails, IInv, TypeOK, DrawPending, UpperLanesZero
<1>7. CASE UNCHANGED vars
  BY <1>7 DEF vars, IInv, TypeOK, DrawPending, UpperLanesZero
<1>8. QED
  BY <1>1, <1>2, <1>3, <1>4, <1>5, <1>6, <1>7 DEF Next

(* Every variable keeps its type; in particular every lane is always a     *)
(* coefficient (0, 1 or q - 1), which is what the unmasked OR relies on.   *)
THEOREM SampleTypeCorrect == Spec => []TypeOK
<1>1. IInv => TypeOK
  BY DEF IInv
<1>2. QED
  BY InitInv, StepInv, <1>1, PTL DEF Spec

(* The lanes from the current draw index on are zero at every step, so the *)
(* plain OR of sampleInBallPacked is an assignment.                        *)
THEOREM SampleUpperLanesZero == Spec => []UpperLanesZero
<1>1. IInv => UpperLanesZero
  BY DEF IInv
<1>2. QED
  BY InitInv, StepInv, <1>1, PTL DEF Spec

-----------------------------------------------------------------------------
(* Weight: every draw adds exactly one lane to the non-zero ones. *)
WInv == IInv /\ IsFiniteSet(NonZero) /\ WeightIsDraws

LEMMA InitWeight == Init => WInv
<1> SUFFICES ASSUME Init PROVE WInv
  OBVIOUS
<1>1. NonZero = {}
  BY DEF Init, NonZero
<1>2. IsFiniteSet(NonZero) /\ Cardinality(NonZero) = 0
  BY <1>1, FS_EmptySet
<1>3. i - Start = 0
  BY SampleAssumption, StartInRange DEF Init
<1>4. QED
  BY <1>2, <1>3, InitInv DEF WInv, WeightIsDraws

LEMMA DrawAddsOneLane ==
  ASSUME IInv, SwapAndSet
  PROVE  \E k \in Lanes : k \notin NonZero /\ NonZero' = NonZero \cup {k}
<1>1. i \in Lanes /\ c[i] = 0 /\ c \in [Lanes -> {0, 1, MinusOne}]
  BY DrawEffect DEF IInv, TypeOK, UpperLanesZero, Lanes
<1>2. \A k \in Lanes : c'[k] = IF k = j THEN SignValue(signInt)
                                ELSE IF k = i THEN c[j] ELSE c[k]
  BY <1>1, DrawEffect
<1>3. CASE c[j] = 0
  <2>1. j \in Lanes /\ j \notin NonZero /\ NonZero' = NonZero \cup {j}
    BY <1>1, <1>2, <1>3, DrawEffect DEF NonZero
  <2>2. QED
    BY <2>1
<1>4. CASE c[j] # 0
  <2>1. i \in Lanes /\ i \notin NonZero /\ NonZero' = NonZero \cup {i}
    BY <1>1, <1>2, <1>4, DrawEffect DEF NonZero
  <2>2. QED
    BY <2>1
<1>5. QED
  BY <1>3, <1>4

LEMMA StepWeight == WInv /\ [Next]_vars => WInv'
<1> SUFFICES ASSUME WInv, [Next]_vars PROVE WInv'
  OBVIOUS
<1>1. IInv /\ IInv'
  BY StepInv DEF WInv
<1>2. CASE SwapAndSet
  <2>1. PICK k \in Lanes : k \notin NonZero /\ NonZero' = NonZero \cup {k}
    BY <1>1, <1>2, DrawAddsOneLane
  <2>2. IsFiniteSet(NonZero') /\ Cardinality(NonZero') = Cardinality(NonZero) + 1
    BY <2>1, FS_AddElement DEF WInv
  <2>3. i' = i + 1 /\ i \in Int /\ Start \in Int
    BY <1>1, <1>2, SampleAssumption DEF SwapAndSet, IInv, TypeOK, Start
  <2>4. QED
    BY <1>1, <2>2, <2>3 DEF WInv, WeightIsDraws
<1>3. CASE UNCHANGED <<i, c>>
  BY <1>1, <1>3 DEF WInv, WeightIsDraws, NonZero
<1>4. QED
  BY <1>2, <1>3 DEF Next, vars, Absorb, Refill, ScanByte, Exhaust, HelperFails

(* The polynomial has exactly as many non-zero lanes as draws were made,   *)
(* whatever the stream: the one that is returned has weight tau.           *)
THEOREM SampleWeight == Spec => []WeightIsDraws
<1>1. WInv => WeightIsDraws
  BY DEF WInv
<1>2. QED
  BY InitWeight, StepWeight, <1>1, PTL DEF Spec

-----------------------------------------------------------------------------
(* Stream order.  Besides the property itself the invariant ties the       *)
(* buffer to the last permutation and the read position to the number of   *)
(* bytes read, and says that a refill starts with the buffer used up.      *)
SInv ==
  /\ IInv
  /\ st = 0 => used = <<>> /\ pos = SignBytes
  /\ pc \in {"scan", "refill", "done"} => st >= 1
  /\ pc = "absorb" => st = 0
  /\ pc = "refill" => pos = Rate
  /\ st >= 1 => buf = xof[st] /\ Len(used) = (st - 1) * Rate + pos - SignBytes
  /\ \A k \in 1 .. Len(used) : used[k] = StreamByte(SignBytes + k - 1)

LEMMA DivMod ==
  ASSUME NEW a \in Nat, NEW r \in 0 .. Rate - 1
  PROVE  (a * Rate + r) \div Rate = a /\ (a * Rate + r) % Rate = r
  BY SampleAssumption

LEMMA DivBound ==
  ASSUME NEW a \in Nat, NEW m \in Nat, m < a * Rate
  PROVE  m \div Rate \in 0 .. a - 1
  BY SampleAssumption

(* A further block leaves the bytes of the earlier ones where they are. *)
LEMMA SqueezeKeepsStream ==
  ASSUME TypeOK, NEW b \in Blocks, PermuteAndSqueeze(b),
         NEW m \in Nat, m < st * Rate
  PROVE  StreamByte(m)' = StreamByte(m)
<1>1. st \in Nat /\ st = Len(xof)
  BY DEF TypeOK
<1>2. m \div Rate \in 0 .. st - 1
  BY <1>1, DivBound
<1>3. xof'[(m \div Rate) + 1] = xof[(m \div Rate) + 1]
  BY <1>1, <1>2 DEF TypeOK, PermuteAndSqueeze
<1>4. QED
  BY <1>3 DEF StreamByte

LEMMA InitStream == Init => SInv
<1> SUFFICES ASSUME Init PROVE SInv
  OBVIOUS
<1>1. IInv
  BY InitInv
<1>2. QED
  BY <1>1 DEF Init, SInv

(* The steps that read no byte and fetch no block. *)
LEMMA StreamUntouched ==
  ASSUME SInv, IInv', UNCHANGED <<xof, st, buf, pos, used>>,
         pc' \in {"scan", "refill", "done"} => st >= 1,
         pc' = "absorb" => st = 0,
         pc' = "refill" => pos = Rate
  PROVE  SInv'
  BY DEF SInv, StreamByte

LEMMA StepStream == SInv /\ [Next]_vars => SInv'
<1> SUFFICES ASSUME SInv, [Next]_vars PROVE SInv'
  OBVIOUS
<1>1. IInv /\ TypeOK /\ IInv' /\ TypeOK'
  BY StepInv DEF SInv, IInv
<1>2. N \in Nat /\ Rate \in Nat /\ SignBytes \in Nat /\ Rate >= 1 /\ st \in Nat
  BY <1>1, SampleAssumption DEF TypeOK
<1>3. ASSUME NEW b \in Blocks, Absorb(b) PROVE SInv'
  <2>1. st = 0 /\ used = <<>> /\ pos = SignBytes
    BY <1>3 DEF SInv, Absorb
  <2>2. PermuteAndSqueeze(b) /\ st' = 1 /\ buf' = xof'[st']
    BY <1>3, <2>1 DEF Absorb, PermuteAndSqueeze
  <2>3. used' = <<>> /\ pos' = SignBytes /\ pc' = "scan"
    BY <1>3, <2>1 DEF Absorb
  <2>4. Len(used') = (st' - 1) * Rate + pos' - SignBytes
    BY <1>2, <2>2, <2>3
  <2>5. QED
    BY <1>1, <2>2, <2>3, <2>4 DEF SInv
<1>4. ASSUME NEW b \in Blocks, Refill(b) PROVE SInv'
  <2>1. st >= 1 /\ pos = Rate /\ Len(used) = (st - 1) * Rate + pos - SignBytes
    BY <1>4 DEF SInv, Refill
  <2>2. PermuteAndSqueeze(b) /\ st' = st + 1 /\ buf' = xof'[st']
    BY <1>4 DEF Refill, PermuteAndSqueeze
  <2>3. used' = used /\ pos' = 0 /\ pc' = "scan"
    BY <1>4 DEF Refill
  <2>4. Len(used) = st * Rate - SignBytes
    BY <1>2, <2>1
  <2>5. Len(used') = (st' - 1) * Rate + pos' - SignBytes
    BY <1>2, <2>2, <2>3, <2>4
  <2>6. ASSUME NEW k \in 1 .. Len(used')
        PROVE  used'[k] = StreamByte(SignBytes + k - 1)'
    <3>1. k \in 1 .. Len(used) /\ used'[k] = used[k]
      BY <2>3, <2>6
    <3>2. SignBytes + k - 1 \in Nat /\ SignBytes + k - 1 < st * Rate
      BY <1>1, <1>2, <2>4, <3>1 DEF TypeOK
    <3>3. StreamByte(SignBytes + k - 1)' = StreamByte(SignBytes + k - 1)
      BY <1>1, <2>2, <3>2, SqueezeKeepsStream
    <3>4. QED
      BY <3>1, <3>3 DEF SInv
  <2>7. QED
    BY <1>1, <1>2, <2>2, <2>3, <2>5, <2>6 DEF SInv
<1>5. CASE ScanByte
  <2>1. st >= 1 /\ buf = xof[st] /\ Len(used) = (st - 1) * Rate + pos - SignBytes
    BY <1>5 DEF SInv, ScanByte
  <2>2. pos \in 0 .. Rate - 1
    BY <1>1, <1>2, <1>5 DEF ScanByte, TypeOK
  <2>3. used' = Append(used, buf[pos]) /\ UNCHANGED <<xof, st, buf, pc>> /\ pos' = pos + 1
    BY <1>5 DEF ScanByte
  <2>4. used \in Seq(Bytes) /\ buf[pos] \in Bytes
    BY <1>1, <2>2 DEF TypeOK, Blocks
  <2>5. Len(used') = Len(used) + 1
    BY <2>3, <2>4
  <2>6. StreamByte((st - 1) * Rate + pos) = buf[pos]
    <3>1. ((st - 1) * Rate + pos) \div Rate = st - 1 /\ ((st - 1) * Rate + pos) % Rate = pos
      <4>1. st - 1 \in Nat
        BY <1>2, <2>1
      <4>2. QED
        BY <2>2, <4>1, DivMod
    <3>2. QED
      BY <1>2, <2>1, <3>1 DEF StreamByte
  <2>7. ASSUME NEW k \in 1 .. Len(used')
        PROVE  used'[k] = StreamByte(SignBytes + k - 1)'
    <3>1. StreamByte(SignBytes + k - 1)' = StreamByte(SignBytes + k - 1)
      BY <2>3 DEF StreamByte
    <3>2. CASE k = Len(used) + 1
      <4>1. SignBytes + k - 1 = (st - 1) * Rate + pos
        BY <1>2, <2>1, <2>2, <2>4, <3>2
      <4>2. used'[k] = buf[pos]
        BY <2>3, <2>4, <3>2
      <4>3. QED
        BY <2>6, <3>1, <4>1, <4>2
    <3>3. CASE k \in 1 .. Len(used)
      <4>1. used'[k] = used[k]
        BY <2>3, <2>4, <3>3
      <4>2. QED
        BY <3>1, <3>3, <4>1 DEF SInv
    <3>4. QED
      BY <2>4, <2>5, <3>2, <3>3
  <2>8. Len(used') = (st' - 1) * Rate + pos' - SignBytes
    BY <1>2, <2>1, <2>2, <2>3, <2>4, <2>5
  <2>9. QED
    BY <1>1, <1>2, <1>5, <2>1, <2>3, <2>7, <2>8 DEF SInv, ScanByte
<1>6. CASE Exhaust
  <2>1. pos = Rate
    BY <1>1, <1>2, <1>6 DEF Exhaust, TypeOK
  <2>2. QED
    BY <1>1, <1>6, <2>1, StreamUntouched DEF Exhaust, SInv
<1>7. CASE SwapAndSet
  <2>1. pc' \in {"scan", "done"} /\ pc = "scan"
    BY <1>7 DEF SwapAndSet
  <2>2. QED
    BY <1>1, <1>7, <2>1, StreamUntouched DEF SwapAndSet, SInv
<1>8. CASE HelperFails
  BY <1>1, <1>8, StreamUntouched DEF HelperFails, SInv
<1>9. CASE UNCHANGED vars
  BY <1>1, <1>9, StreamUntouched DEF vars, SInv
<1>10. QED
  BY <1>3, <1>4, <1>5, <1>6, <1>7, <1>8, <1>9 DEF Next

(* The scan consumes the SHAKE256 stream byte by byte, in order, with no   *)
(* gap and no repetition, across any number of refills.                    *)
THEOREM SampleStreamInOrder == Spec => []StreamInOrder
<1>1. SInv => StreamInOrder
  <2>1. SUFFICES ASSUME SInv, used # <<>>
                 PROVE  Len(used) = (st - 1) * Rate + pos - SignBytes
    BY DEF SInv, StreamInOrder
  <2>2. xof \in Seq(Blocks) /\ st = Len(xof)
    BY <2>1 DEF SInv, IInv, TypeOK
  <2>3. st \in Nat
    BY <2>2
  <2>4. QED
    BY <2>1, <2>3 DEF SInv
<1>2. QED
  BY InitStream, StepStream, <1>1, PTL DEF Spec

-----------------------------------------------------------------------------
(* Refinement.  The shifted word still holds the sign bits of the draws to *)
(* come, and an accepted byte is the last one read.                        *)
SignsAligned ==
  xof # <<>> => \A k \in 0 .. SignBits - 1 :
                  k + i - Start < SignBits =>
                    signInt[k] = SignWord(xof[1])[k + i - Start]

RInv ==
  /\ IInv
  /\ pc = "absorb" => xof = <<>> /\ i = Start /\ j = Sentinel
  /\ pc \in {"scan", "refill"} => xof # <<>>
  /\ SignsAligned
  /\ Accepted => used # <<>> /\ used[Len(used)] = j

LEMMA SqueezeKeepsFirst ==
  ASSUME TypeOK, NEW b \in Blocks, PermuteAndSqueeze(b)
  PROVE  /\ xof' # <<>>
         /\ xof = <<>> => xof'[1] = b
         /\ xof # <<>> => xof'[1] = xof[1]
  BY DEF TypeOK, PermuteAndSqueeze

LEMMA InitRefine == Init => RInv /\ Ball!Init
<1> SUFFICES ASSUME Init PROVE RInv /\ Ball!Init
  OBVIOUS
<1>1. ~ Accepted
  BY SampleAssumption, StartInRange DEF Init, Accepted
<1>2. RInv
  BY <1>1, InitInv DEF Init, RInv, SignsAligned
<1>3. Ball!Init
  BY <1>1 DEF Init, Ball!Init, SignsTaken, ReadByDraws, Start, Lanes, Ball!Lanes
<1>4. QED
  BY <1>2, <1>3

LEMMA StepRInv == RInv /\ [Next]_vars => RInv'
<1> SUFFICES ASSUME RInv, [Next]_vars PROVE RInv'
  OBVIOUS
<1> USE SampleAssumption, StartInRange
<1>1. IInv /\ IInv' /\ TypeOK /\ TypeOK'
  BY StepInv DEF RInv, IInv
<1>2. i \in Start .. N /\ Start \in 0 .. N - 1 /\ SignBits \in Nat /\ N \in Nat
  BY <1>1, SignBitsNat DEF TypeOK
<1>3. ASSUME NEW b \in Blocks, Absorb(b) PROVE RInv'
  <2>1. xof = <<>> /\ i' = Start /\ PermuteAndSqueeze(b) /\ signInt' = SignWord(b)
    BY <1>3 DEF Absorb, RInv
  <2>2. xof' # <<>> /\ xof'[1] = b
    BY <1>1, <2>1, SqueezeKeepsFirst
  <2>3. SignsAligned'
    <3>1. SignWord(b)' = SignWord(b)
      BY DEF SignWord
    <3>2. SUFFICES ASSUME NEW k \in 0 .. SignBits - 1
                   PROVE  signInt'[k] = SignWord(xof'[1])[k + i' - Start]
      BY DEF SignsAligned, SignBits, Start, SignWord
    <3>3. k + i' - Start = k
      BY <1>2, <2>1
    <3>4. QED
      BY <2>1, <2>2, <3>3
  <2>4. ~ Accepted'
    BY <1>1, <1>3 DEF Absorb, RInv, Accepted, Sentinel, IInv, DrawPending
  <2>5. QED
    BY <1>1, <1>3, <2>2, <2>3, <2>4 DEF RInv, Absorb
<1>4. ASSUME NEW b \in Blocks, Refill(b) PROVE RInv'
  <2>1. xof # <<>> /\ PermuteAndSqueeze(b) /\ UNCHANGED <<signInt, i>> /\ j' = Sentinel
    BY <1>4 DEF Refill, RInv
  <2>2. xof' # <<>> /\ xof'[1] = xof[1]
    BY <1>1, <2>1, SqueezeKeepsFirst
  <2>3. SignsAligned'
    BY <2>1, <2>2 DEF RInv, SignsAligned, SignWord
  <2>4. ~ Accepted'
    BY <1>2, <1>4, <2>1 DEF Refill, Accepted, Sentinel, RInv, IInv, DrawPending
  <2>5. QED
    BY <1>1, <1>4, <2>2, <2>3, <2>4 DEF RInv, Refill
<1>5. CASE ScanByte
  <2>1. used \in Seq(Bytes) /\ used' = Append(used, buf[pos]) /\ j' = buf[pos]
    BY <1>1, <1>5 DEF ScanByte, TypeOK
  <2>2. used' # <<>> /\ used'[Len(used')] = j'
    BY <2>1
  <2>3. SignsAligned'
    BY <1>5 DEF ScanByte, RInv, SignsAligned
  <2>4. QED
    BY <1>1, <1>5, <2>2, <2>3 DEF ScanByte, RInv
<1>6. CASE Exhaust
  BY <1>1, <1>6 DEF Exhaust, RInv, SignsAligned, Accepted
<1>7. CASE SwapAndSet
  <2>1. xof # <<>> /\ xof' = xof /\ i' = i + 1 /\ j' = Sentinel
        /\ signInt' = ShiftRight(signInt) /\ i < N
    BY <1>7, DrawEffect DEF SwapAndSet, RInv, IInv, DrawPending
  <2>2. SignsAligned'
    <3>1. SUFFICES ASSUME NEW k \in 0 .. SignBits - 1, k + i' - Start < SignBits
                   PROVE  signInt'[k] = SignWord(xof[1])[k + i' - Start]
      BY <2>1 DEF SignsAligned, SignWord
    <3>2. k + 1 \in 0 .. SignBits - 1 /\ k + i' - Start = (k + 1) + i - Start
      BY <1>2, <2>1, <3>1
    <3>3. signInt[k + 1] = SignWord(xof[1])[(k + 1) + i - Start]
      BY <1>2, <2>1, <3>1, <3>2 DEF RInv, SignsAligned
    <3>4. signInt'[k] = signInt[k + 1]
      BY <1>2, <2>1, <3>1, <3>2 DEF ShiftRight
    <3>5. QED
      BY <3>2, <3>3, <3>4
  <2>3. ~ Accepted'
    BY <1>2, <1>7, <2>1 DEF SwapAndSet, Accepted, Sentinel
  <2>4. QED
    BY <1>1, <1>7, <2>1, <2>2, <2>3 DEF SwapAndSet, RInv
<1>8. CASE HelperFails
  BY <1>1, <1>8 DEF HelperFails, RInv, SignsAligned, Accepted
<1>9. CASE UNCHANGED vars
  BY <1>1, <1>9 DEF vars, RInv, SignsAligned, Accepted
<1>10. QED
  BY <1>3, <1>4, <1>5, <1>6, <1>7, <1>8, <1>9 DEF Next

(* The sign bits Algorithm 29 reads are the first tau bits of the word. *)
DrawSigns(b) == [k \in 0 .. Tau - 1 |-> SignWord(b)[k]]

LEMMA DrawSignsType ==
  ASSUME NEW b
  PROVE  DrawSigns(b) \in [0 .. Tau - 1 -> {0, 1}] /\ DrawSigns(b) # <<>>
<1>1. Tau - 1 <= SignBits - 1 /\ Tau \in Nat /\ Tau >= 1 /\ SignBits \in Nat
  BY SampleAssumption, SignBitsNat DEF SignBits
<1>2. \A k \in 0 .. Tau - 1 : SignWord(b)[k] \in {0, 1}
  BY <1>1, SignWordType
<1>3. 0 \in DOMAIN DrawSigns(b)
  BY <1>1 DEF DrawSigns
<1>4. DOMAIN <<>> = {}
  OBVIOUS
<1>5. QED
  BY <1>2, <1>3, <1>4 DEF DrawSigns

LEMMA StepRefine == RInv /\ RInv' /\ [Next]_vars => [Ball!Next]_(Ball!vars)
<1> SUFFICES ASSUME RInv, RInv', [Next]_vars PROVE [Ball!Next]_(Ball!vars)
  OBVIOUS
<1> USE SampleAssumption, StartInRange DEF Ball!vars
<1>1. TypeOK /\ TypeOK'
  BY DEF RInv, IInv
<1>2. i \in Start .. N /\ Start \in 0 .. N - 1 /\ SignBits \in Nat /\ N \in Nat
      /\ Start = N - Tau /\ Tau \in Nat
  BY <1>1, SignBitsNat DEF TypeOK, Start
<1>3. ASSUME NEW b \in Blocks, Absorb(b) PROVE Ball!TakeSigns
  <2>1. xof = <<>> /\ PermuteAndSqueeze(b) /\ UNCHANGED <<i, c, used>> /\ pc = "absorb"
        /\ pc' = "scan" /\ i' < N /\ j' = Sentinel
    BY <1>3 DEF Absorb, RInv, IInv, DrawPending
  <2>2. SignsTaken = <<>>
    BY <2>1 DEF SignsTaken
  <2>3. xof' # <<>>
    BY <1>1, <2>1, SqueezeKeepsFirst
  <2>4. SignsTaken' \in [0 .. Tau - 1 -> {0, 1}]
    <3>1. SignsTaken' = DrawSigns(xof'[1])
      BY <2>3 DEF SignsTaken, DrawSigns, SignWord
    <3>2. QED
      BY <3>1, DrawSignsType
  <2>5. ReadByDraws' = ReadByDraws
    BY <1>2, <2>1 DEF ReadByDraws, Accepted, Sentinel
  <2>6. QED
    BY <2>1, <2>2, <2>4, <2>5 DEF Ball!TakeSigns
<1>4. ASSUME NEW b \in Blocks, Refill(b) PROVE UNCHANGED Ball!vars
  <2>1. xof # <<>> /\ PermuteAndSqueeze(b) /\ UNCHANGED <<i, c, used>> /\ pc = "refill"
        /\ pc' = "scan" /\ i' < N /\ j' = Sentinel
    BY <1>4 DEF Refill, RInv, IInv, DrawPending
  <2>2. xof' # <<>> /\ xof'[1] = xof[1]
    BY <1>1, <2>1, SqueezeKeepsFirst
  <2>3. SignsTaken' = SignsTaken
    BY <2>1, <2>2 DEF SignsTaken, SignWord
  <2>4. ReadByDraws' = ReadByDraws
    BY <1>2, <2>1 DEF ReadByDraws, Accepted, Sentinel
  <2>5. QED
    BY <2>1, <2>3, <2>4
<1>5. CASE ScanByte
  <2>1. /\ pc = "scan" /\ pc' = "scan" /\ i < N /\ j > i /\ j' = buf[pos]
        /\ used' = Append(used, buf[pos]) /\ UNCHANGED <<xof, i, c>>
        /\ buf[pos] \in Bytes /\ used \in Seq(Bytes) /\ xof # <<>>
    BY <1>1, <1>5 DEF ScanByte, RInv, IInv, DrawPending, TypeOK, Blocks
  <2>2. SignsTaken' = SignsTaken /\ SignsTaken # <<>>
    <3>1. SignsTaken = DrawSigns(xof[1])
      BY <2>1 DEF SignsTaken, DrawSigns
    <3>2. SignsTaken' = SignsTaken
      BY <2>1 DEF SignsTaken, SignWord
    <3>3. QED
      BY <3>1, <3>2, DrawSignsType
  <2>3. ReadByDraws = used
    BY <1>2, <1>1, <2>1 DEF ReadByDraws, Accepted, TypeOK
  <2>4. CASE buf[pos] <= i
    <3>1. ReadByDraws' = SubSeq(used', 1, Len(used') - 1)
      BY <2>1, <2>4 DEF ReadByDraws, Accepted
    <3>2. SubSeq(used', 1, Len(used') - 1) = used
      BY <2>1
    <3>3. QED
      BY <2>1, <2>2, <2>3, <3>1, <3>2
  <2>5. CASE buf[pos] > i
    <3>1. ReadByDraws' = Append(used, buf[pos])
      BY <1>2, <2>1, <2>5 DEF ReadByDraws, Accepted, Bytes
    <3>2. Ball!Skip(buf[pos])
      BY <2>1, <2>2, <2>3, <2>5, <3>1 DEF Ball!Skip
    <3>3. QED
      BY <2>1, <3>2 DEF Ball!Next, Ball!Lanes, Bytes
  <2>6. QED
    BY <1>2, <2>1, <2>4, <2>5 DEF Bytes
<1>6. CASE Exhaust
  BY <1>1, <1>2, <1>6 DEF Exhaust, SignsTaken, ReadByDraws, Accepted, TypeOK
<1>7. CASE SwapAndSet
  <2>1. /\ pc = "scan" /\ Accepted /\ xof # <<>> /\ UNCHANGED <<xof, used>>
        /\ i < N /\ i' = i + 1 /\ j' = Sentinel /\ pc' = IF i' < N THEN "scan" ELSE "done"
        /\ used \in Seq(Bytes) /\ used # <<>> /\ used[Len(used)] = j
    BY <1>1, <1>7 DEF SwapAndSet, Accepted, RInv, IInv, DrawPending, TypeOK
  <2>2. SignsTaken = DrawSigns(xof[1]) /\ SignsTaken' = SignsTaken /\ SignsTaken # <<>>
    <3>1. SignsTaken = DrawSigns(xof[1])
      BY <2>1 DEF SignsTaken, DrawSigns
    <3>2. SignsTaken' = SignsTaken
      BY <2>1 DEF SignsTaken, SignWord
    <3>3. QED
      BY <3>1, <3>2, DrawSignsType
  <2>3. ReadByDraws' = Append(ReadByDraws, j)
    <3>1. ReadByDraws = SubSeq(used, 1, Len(used) - 1)
      BY <2>1 DEF ReadByDraws
    <3>2. ReadByDraws' = used
      BY <1>2, <2>1 DEF ReadByDraws, Accepted, Sentinel
    <3>3. Append(SubSeq(used, 1, Len(used) - 1), used[Len(used)]) = used
      BY <2>1
    <3>4. QED
      BY <2>1, <3>1, <3>2, <3>3
  <2>4. SignValue(signInt) = Ball!Signed(SignsTaken[i + Tau - N])
    <3>1. signInt[0] = SignWord(xof[1])[i - Start]
      BY <1>2, <2>1, SignBitsNat, SampleAssumption DEF RInv, SignsAligned, SignBits
    <3>2. i + Tau - N = i - Start /\ i - Start \in 0 .. Tau - 1
      BY <1>2, <2>1
    <3>3. SignsTaken[i + Tau - N] = signInt[0]
      BY <2>2, <3>1, <3>2 DEF DrawSigns
    <3>4. signInt[0] = 0 \/ signInt[0] = 1
      BY <1>1, SignBitsNat DEF TypeOK
    <3>5. QED
      BY <3>3, <3>4 DEF SignValue, Ball!Signed, MinusOne
  <2>5. Ball!Draw(j)
    BY <1>7, <2>1, <2>2, <2>3, <2>4, DrawEffect DEF Ball!Draw, RInv
  <2>6. QED
    BY <1>7, <2>5, DrawEffect DEF Ball!Next, Ball!Lanes, Lanes, RInv
<1>8. CASE HelperFails
  BY <1>8 DEF HelperFails, SignsTaken, ReadByDraws, Accepted, SignWord
<1>9. CASE UNCHANGED vars
  BY <1>9 DEF vars, SignsTaken, ReadByDraws, Accepted, SignWord
<1>10. QED
  BY <1>3, <1>4, <1>5, <1>6, <1>7, <1>8, <1>9 DEF Next, Ball!Next

(* The block-wise sampler implements Algorithm 29 on the byte stream: same *)
(* draws, same signs, same polynomial, with refills invisible.             *)
THEOREM SampleImplementsAlgorithm29 == Spec => ImplementsAlgorithm29
<1>1. RInv /\ [Next]_vars => RInv' /\ [Ball!Next]_(Ball!vars)
  BY StepRInv, StepRefine
<1>2. QED
  BY InitRefine, <1>1, PTL DEF Spec, ImplementsAlgorithm29, Ball!Spec
=============================================================================
