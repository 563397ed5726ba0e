------------------------- MODULE KeccakHelperProofs -------------------------
(***************************************************************************)
(* Proofs about the helper and its callers, for every rate, message and    *)
(* length: the dispatcher and sponge loop of each call, and the callers    *)
(* that assemble a request, call and take the answer apart, under the      *)
(* lifetime of the deployed helper.                                        *)
(***************************************************************************)
EXTENDS HelperLife, SequenceTheorems, TLAPS

NB      == NumBlocks(size)
Full    == Absorbed(calldata, size)
Eaten   == NB - counter
First(k) == [x \in 1 .. k |-> Full[x]]

(* The loop invariant of the batch entry: the state is the run of absorbs  *)
(* and permutations of the blocks eaten so far; in the body the last       *)
(* permutation is still missing.                                           *)
BatchInv ==
  /\ mode = 1
  /\ mem = Padded(calldata, size)
  /\ counter \in 0 .. NB
  /\ ptr = Eaten * Rate
  /\ pc = "loop" => state = First(2 * Eaten)
  /\ pc = "body" => Eaten >= 1 /\ state = First(2 * Eaten - 1)
  /\ pc = "returned" => ret = Block(Full)

RawInv ==
  /\ mode = 0
  /\ counter = 0
  /\ pc = "body" => state = Lifted(calldata)
  /\ pc = "loop" => state = Append(Lifted(calldata), Permute)
  /\ pc = "returned" => ret = State(Append(Lifted(calldata), Permute))

KInv ==
  /\ size \in Nat
  /\ pc \in {"dispatch", "loop", "body", "returned", "failed"}
  /\ pc = "dispatch" => mode = 0 /\ counter = 0 /\ state = Zero
  /\ pc \in {"loop", "body", "returned"} => IF size = RawSize THEN RawInv ELSE BatchInv
  /\ CounterMatchesPointer

LEMMA BlocksNat ==
  ASSUME NEW n \in Nat
  PROVE  /\ NumBlocks(n) \in Nat /\ NumBlocks(n) >= 1
         /\ NumBlocks(n) * Rate \in Nat
         /\ n < NumBlocks(n) * Rate
  BY SpongeAssumption DEF NumBlocks

(* calldatacopy, mstore8 and the OR build FIPS 202's padding, also when    *)
(* both padding bytes are the same one.                                    *)
LEMMA PaddingBuilt ==
  ASSUME size \in Nat
  PROVE  WithFinal(WithDomain(Copied(NB)), NB) = Padded(calldata, size)
<1> DEFINE last == NB * Rate - 1
<1>1. last \in Nat /\ size <= last
  BY BlocksNat DEF NB
<1>2. WithDomain(Copied(NB)) =
        [x \in 0 .. last |-> IF x = size THEN Domain ELSE IF x < size THEN calldata[x] ELSE 0]
  BY <1>1 DEF WithDomain, Copied
<1>3. WithDomain(Copied(NB))[last] = IF last = size THEN Domain ELSE 0
  BY <1>1, <1>2
<1>4. Padded(calldata, size) =
        [x \in 0 .. last |->
           IF x < size THEN calldata[x]
           ELSE IF x = last THEN Or80(IF x = size THEN Domain ELSE 0)
                ELSE IF x = size THEN Domain ELSE 0]
  BY DEF Padded, NB
<1> HIDE DEF last
<1>5. WithFinal(WithDomain(Copied(NB)), NB) =
        [x \in 0 .. last |->
           IF x = last THEN Or80(IF last = size THEN Domain ELSE 0)
           ELSE IF x = size THEN Domain ELSE IF x < size THEN calldata[x] ELSE 0]
  <2>1. WithFinal(WithDomain(Copied(NB)), NB) =
          [WithDomain(Copied(NB)) EXCEPT ![last] = Or80(WithDomain(Copied(NB))[last])]
    BY DEF WithFinal, last
  <2>2. QED
    BY <1>1, <1>2, <1>3, <2>1
<1>6. ASSUME NEW x \in 0 .. last
      PROVE  (IF x = last THEN Or80(IF last = size THEN Domain ELSE 0)
              ELSE IF x = size THEN Domain ELSE IF x < size THEN calldata[x] ELSE 0)
             = (IF x < size THEN calldata[x]
                ELSE IF x = last THEN Or80(IF x = size THEN Domain ELSE 0)
                     ELSE IF x = size THEN Domain ELSE 0)
  BY <1>1, <1>6
<1>7. QED
  BY <1>4, <1>5, <1>6

(* One more element of a prefix, and the elements of the absorbed state. *)
LEMMA AppendPrefix ==
  ASSUME NEW F, NEW k \in Nat
  PROVE  Append([x \in 1 .. k |-> F[x]], F[k + 1]) = [x \in 1 .. k + 1 |-> F[x]]
<1> DEFINE T == {F[x] : x \in 1 .. k + 1}
           P(n) == [x \in 1 .. n |-> F[x]]
<1>1. P(k) \in Seq(T) /\ Len(P(k)) = k /\ F[k + 1] \in T
  OBVIOUS
<1>2. P(k + 1) \in Seq(T) /\ Len(P(k + 1)) = k + 1
  OBVIOUS
<1>3. Append(P(k), F[k + 1]) \in Seq(T) /\ Len(Append(P(k), F[k + 1])) = k + 1
  BY <1>1
<1>4. \A x \in 1 .. k + 1 : Append(P(k), F[k + 1])[x] = P(k + 1)[x]
  BY <1>1
<1> HIDE DEF T
<1>5. QED
  BY <1>2, <1>3, <1>4, SeqEqual

LEMMA AppendFirst ==
  ASSUME NEW k \in Nat
  PROVE  Append(First(k), Full[k + 1]) = First(k + 1)
  BY AppendPrefix DEF First

LEMMA AbsorbedAt ==
  ASSUME NEW msg, NEW n \in Nat, NEW a \in 0 .. NumBlocks(n) - 1
  PROVE  /\ Absorbed(msg, n)[2 * a + 1] = Absorb(BlockAt(Padded(msg, n), a * Rate))
         /\ Absorbed(msg, n)[2 * a + 2] = Permute
<1>1. NumBlocks(n) \in Nat
  BY BlocksNat
<1>2. 2 * a + 1 \in 1 .. 2 * NumBlocks(n) /\ 2 * a + 2 \in 1 .. 2 * NumBlocks(n)
  BY <1>1
<1>3. (2 * a + 1) % 2 = 1 /\ (2 * a + 1) \div 2 = a /\ (2 * a + 2) % 2 = 0
  BY <1>1
<1>4. QED
  BY <1>2, <1>3 DEF Absorbed

LEMMA FullOdd ==
  ASSUME size \in Nat, NEW a \in 0 .. NB - 1
  PROVE  /\ Full[2 * a + 1] = Absorb(BlockAt(Padded(calldata, size), a * Rate))
         /\ Full[2 * a + 2] = Permute
  BY AbsorbedAt DEF Full, NB

LEMMA InitKInv == Init => KInv
  BY DEF Init, KInv, CounterMatchesPointer

(* Constant-level consequences of the call's arguments not changing. *)
LEMMA CallFixed ==
  ASSUME UNCHANGED call
  PROVE  /\ NB' = NB /\ Full' = Full
         /\ Padded(calldata, size)' = Padded(calldata, size)
         /\ \A k : First(k)' = First(k)
         /\ Lifted(calldata)' = Lifted(calldata)
  BY DEF call, NB, NumBlocks, Full, Absorbed, First, Padded, Lifted, BlockAt

LEMMA StepKInv == KInv /\ [Next]_vars => KInv'
<1> SUFFICES ASSUME KInv, [Next]_vars PROVE KInv'
  OBVIOUS
<1>1. size \in Nat /\ NB \in Nat /\ NB >= 1 /\ Rate \in Nat /\ NB = NumBlocks(size)
  BY BlocksNat, SpongeAssumption DEF KInv, NB
<1>2. CASE RawEntry
  <2>1. size' = size /\ calldata' = calldata /\ size = RawSize /\ mode' = 0 /\ counter' = 0
        /\ state' = Lifted(calldata) /\ pc' = "body"
    BY <1>2 DEF RawEntry, KInv, call
  <2>2. RawInv'
    BY <2>1 DEF RawInv, Lifted
  <2>3. QED
    BY <2>1, <2>2 DEF KInv, CounterMatchesPointer
<1>3. CASE BatchEntry
  <2>1. size' = size /\ calldata' = calldata /\ size # RawSize /\ mode' = 1 /\ counter' = NB
        /\ ptr' = 0 /\ state' = <<>> /\ pc' = "loop" /\ UNCHANGED call
        /\ mem' = WithFinal(WithDomain(Copied(NB)), NB)
    BY <1>3 DEF BatchEntry, KInv, call, BlockCount, NB, NumBlocks, Zero
  <2>2. mem' = Padded(calldata, size)
    BY <1>1, <2>1, PaddingBuilt
  <2>3. Eaten' = 0 /\ 2 * 0 = 0 /\ 0 * Rate = 0
    BY <1>1, <2>1, CallFixed DEF Eaten
  <2>4. First(0) = <<>>
    BY DEF First
  <2>5. BatchInv'
    BY <1>1, <2>1, <2>2, <2>3, <2>4, CallFixed DEF BatchInv
  <2>6. ptr' + counter' * Rate = NumBlocks(size') * Rate
    BY <1>1, <2>1
  <2>7. QED
    BY <2>1, <2>5, <2>6 DEF KInv, CounterMatchesPointer
<1>4. CASE AbsorbBlock
  <2>1. pc = "loop" /\ counter # 0 /\ counter' = counter - 1 /\ ptr' = ptr + Rate
        /\ state' = Append(state, Absorb(BlockAt(mem, ptr))) /\ pc' = "body"
        /\ UNCHANGED <<size, calldata, mem, mode>> /\ UNCHANGED call
    BY <1>4 DEF AbsorbBlock, call
  <2>2. size # RawSize /\ BatchInv
    BY <2>1 DEF KInv, RawInv
  <2>3. Eaten \in 0 .. NB - 1 /\ counter \in 1 .. NB /\ Eaten' = Eaten + 1
    <3>1. counter \in 0 .. NB /\ counter # 0
      BY <2>1, <2>2 DEF BatchInv
    <3>2. NB' = NB /\ counter' = counter - 1
      BY <2>1, CallFixed
    <3>3. QED
      BY <1>1, <3>1, <3>2 DEF Eaten
  <2>4. Absorb(BlockAt(mem, ptr)) = Full[2 * Eaten + 1]
    BY <1>1, <2>2, <2>3, FullOdd DEF BatchInv
  <2>5. state' = First(2 * Eaten + 1)
    <3>1. 2 * Eaten \in Nat
      BY <1>1, <2>3
    <3>2. state = First(2 * Eaten)
      BY <2>1, <2>2 DEF BatchInv
    <3>3. QED
      BY <2>1, <2>4, <3>1, <3>2, AppendFirst
  <2>6. 2 * Eaten' - 1 = 2 * Eaten + 1 /\ Eaten' >= 1 /\ ptr' = Eaten' * Rate
        /\ counter' \in 0 .. NB
    BY <1>1, <2>1, <2>2, <2>3 DEF BatchInv
  <2>7. BatchInv'
    BY <2>1, <2>2, <2>5, <2>6, CallFixed DEF BatchInv
  <2>8. ptr' + counter' * Rate = NB * Rate
    <3>1. ptr + counter * Rate = NB * Rate /\ ptr = Eaten * Rate
      BY <1>1, <2>1, <2>2 DEF KInv, CounterMatchesPointer, BatchInv
    <3>2. (counter - 1) * Rate = counter * Rate - Rate /\ Eaten * Rate \in Int
          /\ counter * Rate \in Int
      BY <1>1, <2>3
    <3>3. QED
      BY <1>1, <2>1, <3>1, <3>2
  <2>9. QED
    BY <1>1, <2>1, <2>2, <2>7, <2>8 DEF KInv, CounterMatchesPointer
<1>5. CASE Body
  <2>1. pc = "body" /\ state' = Append(state, Permute) /\ pc' = "loop"
        /\ UNCHANGED <<size, calldata, mem, mode, counter, ptr>> /\ UNCHANGED call
    BY <1>5 DEF Body, call
  <2>2. CASE size = RawSize
    <3>1. RawInv'
      BY <2>1, <2>2, CallFixed DEF KInv, RawInv
    <3>2. QED
      BY <2>1, <2>2, <3>1 DEF KInv, CounterMatchesPointer
  <2>3. CASE size # RawSize
    <3>1. BatchInv /\ Eaten >= 1 /\ state = First(2 * Eaten - 1)
      BY <2>1, <2>3 DEF KInv, BatchInv
    <3>2. Eaten - 1 \in 0 .. NB - 1 /\ 2 * Eaten - 1 \in Nat
          /\ 2 * (Eaten - 1) + 2 = (2 * Eaten - 1) + 1 /\ 2 * Eaten = (2 * Eaten - 1) + 1
      BY <1>1, <3>1 DEF BatchInv, Eaten
    <3>3. Permute = Full[(2 * Eaten - 1) + 1]
      BY <1>1, <3>2, FullOdd
    <3>4. state' = First(2 * Eaten)
      BY <2>1, <3>1, <3>2, <3>3, AppendFirst
    <3>5. Eaten' = Eaten
      BY <2>1, CallFixed DEF Eaten
    <3>6. BatchInv'
      BY <2>1, <3>1, <3>4, <3>5, CallFixed DEF BatchInv
    <3>7. QED
      BY <2>1, <2>3, <3>6 DEF KInv, CounterMatchesPointer
  <2>4. QED
    BY <2>2, <2>3
<1>6. CASE Squeeze
  <2>1. pc = "loop" /\ counter = 0 /\ mode = 1 /\ ret' = Block(state) /\ pc' = "returned"
        /\ UNCHANGED <<size, calldata, mem, mode, counter, ptr>> /\ UNCHANGED call
    BY <1>6 DEF Squeeze, call
  <2>2. size # RawSize /\ BatchInv
    BY <2>1 DEF KInv, RawInv
  <2>3. Eaten = NB /\ state = First(2 * NB)
    BY <1>1, <2>1, <2>2 DEF BatchInv, Eaten
  <2>4. First(2 * NB) = Full
    BY DEF First, Full, Absorbed, NB
  <2>5. BatchInv'
    BY <2>1, <2>2, <2>3, <2>4, CallFixed DEF BatchInv, Eaten
  <2>6. QED
    BY <2>1, <2>2, <2>5 DEF KInv, CounterMatchesPointer
<1>7. CASE ReturnState
  <2>1. pc = "loop" /\ mode = 0 /\ ret' = State(state) /\ pc' = "returned"
        /\ UNCHANGED <<size, calldata, mem, mode, counter, ptr>> /\ UNCHANGED call
    BY <1>7 DEF ReturnState, call
  <2>2. size = RawSize /\ RawInv
    BY <2>1 DEF KInv, BatchInv
  <2>3. RawInv'
    BY <2>1, <2>2, CallFixed DEF RawInv
  <2>4. QED
    BY <2>1, <2>2, <2>3 DEF KInv, CounterMatchesPointer
<1>8. CASE OutOfGas
  BY <1>8 DEF OutOfGas, KInv, CounterMatchesPointer, call
<1>9. CASE UNCHANGED vars
  <2>1. UNCHANGED call
    BY <1>9 DEF vars, call
  <2>2. (RawInv' <=> RawInv) /\ (BatchInv' <=> BatchInv)
    BY <1>9, <2>1, CallFixed DEF vars, RawInv, BatchInv, Eaten
  <2>3. QED
    BY <1>9, <2>2 DEF vars, KInv, CounterMatchesPointer
<1>10. QED
  BY <1>2, <1>3, <1>4, <1>5, <1>6, <1>7, <1>8, <1>9 DEF Next

(* A call with any calldata but RawSize bytes returns the first block of   *)
(* SHAKE256 of that calldata: FIPS 202's padding, every block once, one    *)
(* permutation after each.                                                 *)
THEOREM HelperBatchIsSponge == Spec => []BatchIsSponge
<1>1. KInv => BatchIsSponge
  BY DEF KInv, BatchInv, BatchIsSponge, Full
<1>2. QED
  BY InitKInv, StepKInv, <1>1, PTL DEF Spec

(* A call with RawSize bytes is exactly one permutation of its lanes. *)
THEOREM HelperRawIsOnePermutation == Spec => []RawIsOnePermutation
<1>1. KInv => RawIsOnePermutation
  BY DEF KInv, RawInv, RawIsOnePermutation
<1>2. QED
  BY InitKInv, StepKInv, <1>1, PTL DEF Spec
-----------------------------------------------------------------------------
(***************************************************************************)
(* The callers of FastKeccak and, under LifeSpec, the helper they call.    *)
(***************************************************************************)
CNB    == NumBlocks(len)
CFull  == Absorbed(input, len)
Prefix(k) == [x \in 1 .. k |-> CFull[x]]

(* While shape: what the helper was called on.  A batch call has the       *)
(* caller's input; a raw call has the caller's state with the next block   *)
(* absorbed, or the state of the squeeze it continues.                     *)
CallInv ==
  IF then = "done"
  THEN UsesBatch /\ size = len /\ calldata = input /\ len # RawSize /\ outLen <= Rate
  ELSE /\ UsesFast /\ size = RawSize
       /\ then = "full" => block \in 0 .. CNB - 1 /\ calldata \o <<Permute>> = Prefix(2 * block)
       /\ then = "squeeze" => \E q \in Nat : /\ done = q * Rate
                                              /\ calldata \o <<Permute>> = Permuted(CFull, q)

Squeezing == at \in {"squeeze", "permute"} \/ (at = "call" /\ then = "squeeze")

(* Between calls: the state after the blocks absorbed, then after each     *)
(* squeeze, which goes on only while bytes are missing.                    *)
SpongeInv ==
  /\ at = "start" => pc = "idle" /\ st = Zero /\ block = 0
  /\ at \in {"start", "full"} => done = 0
  /\ at = "call" /\ then = "full" => done = 0
  /\ at \in {"full", "squeeze", "permute"} => UsesFast
  /\ at = "full" => block \in 0 .. CNB - 1 /\ st = Prefix(2 * block)
  /\ at = "squeeze" => \E q \in Nat : done = q * Rate /\ st = Permuted(CFull, q)
  /\ at = "permute" => \E q \in Nat : done = (q + 1) * Rate /\ st = Permuted(CFull, q)
  /\ Squeezing => done = 0 \/ done < outLen

(* Every output byte below done is SHAKE's, and no byte behind the object  *)
(* was written.                                                            *)
OutputInv ==
  /\ output = [x \in Memory |-> output[x]]
  /\ \A x \in 0 .. outLen - 1 : x < done => output[x] = OutByte(input, len, x)
  /\ \A x \in Memory : x >= Allocated => output[x] = Foreign
  /\ ResultIsShake

CallerInv ==
  /\ len \in Nat /\ outLen \in Nat /\ done \in Nat
  /\ fn \in {"batch", "fast", "mu"}
  /\ fn = "mu" => outLen <= Rate
  /\ at \in {"start", "full", "squeeze", "permute", "call", "done", "reverted"}
  /\ pc = "idle" \/ KInv
  /\ at = "call" => pc # "idle" /\ then \in {"full", "squeeze", "done"} /\ CallInv
  /\ SpongeInv
  /\ OutputInv
  /\ MuIsTotal

LEMMA TimesRate ==
  ASSUME NEW a \in Int, NEW b \in Int, a <= b
  PROVE  a * Rate \in Int /\ b * Rate \in Int /\ a * Rate <= b * Rate
<1>1. Rate \in Nat /\ b - a \in Nat
  BY SpongeAssumption
<1>2. (b - a) * Rate >= 0
  BY <1>1
<1>3. (b - a) * Rate = b * Rate - a * Rate
  BY <1>1
<1>4. QED
  BY <1>1, <1>2, <1>3

LEMMA DivAt ==
  ASSUME NEW q \in Nat, NEW r \in 0 .. Rate - 1
  PROVE  (q * Rate + r) \div Rate = q /\ (q * Rate + r) % Rate = r
<1> DEFINE x == q * Rate + r
           d == x \div Rate
           m == x % Rate
<1>1. Rate \in Nat /\ Rate >= 1
  BY SpongeAssumption
<1>2. x \in Nat /\ q * Rate \in Int
  BY <1>1
<1> HIDE DEF x
<1>3. d \in Int /\ m \in 0 .. Rate - 1 /\ x = d * Rate + m
  <2>1. d \in Int /\ m \in 0 .. Rate - 1 /\ x = Rate * d + m
    BY <1>1, <1>2
  <2>2. Rate * d = d * Rate
    BY <1>1, <2>1
  <2>3. QED
    BY <2>1, <2>2
<1> HIDE DEF d, m
<1>4. x = q * Rate + r
  BY DEF x
<1>5. (q + 1) * Rate = q * Rate + Rate /\ (d + 1) * Rate = d * Rate + Rate /\ d * Rate \in Int
  BY <1>1, <1>3
<1>6. ~(d >= q + 1)
  <2> SUFFICES ASSUME q + 1 <= d PROVE FALSE
    BY <1>3
  <2>1. (q + 1) * Rate <= d * Rate
    BY <1>3, TimesRate
  <2>2. QED
    BY <1>1, <1>2, <1>3, <1>4, <1>5, <2>1
<1>7. ~(q >= d + 1)
  <2> SUFFICES ASSUME d + 1 <= q PROVE FALSE
    BY <1>3
  <2>1. (d + 1) * Rate <= q * Rate
    BY <1>3, TimesRate
  <2>2. QED
    BY <1>1, <1>2, <1>3, <1>4, <1>5, <2>1
<1>8. d = q
  BY <1>3, <1>6, <1>7
<1>9. m = r
  BY <1>1, <1>2, <1>3, <1>4, <1>8
<1>10. QED
  BY <1>8, <1>9 DEF x, d, m

(* Block a of the input, when all its bytes are message bytes. *)
LEMMA FullBlock ==
  ASSUME NEW n \in Nat, NEW msg, NEW a \in Nat, a < n \div Rate
  PROVE  BlockAt(msg, a * Rate) = BlockAt(Padded(msg, n), a * Rate)
<1>1. Rate \in Nat /\ Rate >= 1 /\ n \div Rate \in Nat /\ (n \div Rate) * Rate <= n
      /\ NumBlocks(n) * Rate = (n \div Rate) * Rate + Rate
  BY SpongeAssumption DEF NumBlocks
<1>2. (a + 1) * Rate <= (n \div Rate) * Rate /\ (a + 1) * Rate = a * Rate + Rate /\ a * Rate \in Nat
  BY <1>1, TimesRate
<1>3. n < NumBlocks(n) * Rate /\ NumBlocks(n) * Rate \in Nat
  BY BlocksNat
<1>4. \A x \in 0 .. Rate - 1 : a * Rate + x \in 0 .. NumBlocks(n) * Rate - 1 /\ a * Rate + x < n
  BY <1>1, <1>2, <1>3
<1>5. \A x \in 0 .. Rate - 1 : Padded(msg, n)[a * Rate + x] = msg[a * Rate + x]
  BY <1>4 DEF Padded
<1>6. QED
  BY <1>5 DEF BlockAt

(* The block shake256Fast170 builds by hand is the last padded block, also *)
(* when one byte carries both padding marks.                               *)
LEMMA LastBlockIsPadded ==
  ASSUME len \in Nat
  PROVE  LastBlock = BlockAt(Padded(input, len), (len \div Rate) * Rate)
<1> DEFINE nF == len \div Rate
           base == nF * Rate
           rem == len - base
           b == [x \in 0 .. Rate - 1 |->
                   IF x < rem THEN input[base + x] ELSE IF x = rem THEN Domain ELSE 0]
<1>1. Rate \in Nat /\ Rate >= 1 /\ nF \in Nat /\ base \in Nat /\ rem \in 0 .. Rate - 1
      /\ NumBlocks(len) * Rate = base + Rate
  BY SpongeAssumption DEF NumBlocks
<1>2. len = base + rem
  BY <1>1
<1>3. LastBlock = [b EXCEPT ![Rate - 1] = Or80(b[Rate - 1])]
  BY DEF LastBlock
<1> HIDE DEF base, rem, nF
<1>4. LastBlock = [x \in 0 .. Rate - 1 |-> IF x = Rate - 1 THEN Or80(b[x]) ELSE b[x]]
  BY <1>1, <1>3
<1>5. BlockAt(Padded(input, len), base) = [x \in 0 .. Rate - 1 |-> Padded(input, len)[base + x]]
  BY DEF BlockAt
<1>6. ASSUME NEW x \in 0 .. Rate - 1
      PROVE  Padded(input, len)[base + x] = IF x = Rate - 1 THEN Or80(b[x]) ELSE b[x]
  <2>1. base + x \in 0 .. NumBlocks(len) * Rate - 1
        /\ (base + x < len <=> x < rem) /\ (base + x = len <=> x = rem)
        /\ (base + x = NumBlocks(len) * Rate - 1 <=> x = Rate - 1)
    BY <1>1, <1>2
  <2>2. Padded(input, len)[base + x] =
          IF x < rem THEN input[base + x]
          ELSE IF x = Rate - 1 THEN Or80(IF x = rem THEN Domain ELSE 0)
               ELSE IF x = rem THEN Domain ELSE 0
    BY <2>1 DEF Padded
  <2>3. b[x] = IF x < rem THEN input[base + x] ELSE IF x = rem THEN Domain ELSE 0
    OBVIOUS
  <2>4. x = Rate - 1 => ~(x < rem)
    BY <1>1
  <2>5. QED
    BY <2>2, <2>3, <2>4
<1> HIDE DEF b
<1>7. QED
  BY <1>4, <1>5, <1>6 DEF base, nF

LEMMA BlocksOfInput ==
  ASSUME len \in Nat
  PROVE  /\ CNB \in Nat /\ CNB >= 1 /\ len \div Rate = CNB - 1
         /\ Len(CFull) = 2 * CNB /\ DOMAIN CFull = 1 .. 2 * CNB
         /\ CFull = Prefix(2 * CNB)
<1>1. CNB \in Nat /\ CNB >= 1
  BY BlocksNat DEF CNB
<1>2. len \div Rate = CNB - 1
  BY SpongeAssumption DEF CNB, NumBlocks
<1>3. CFull = [x \in 1 .. 2 * CNB |-> CFull[x]] /\ DOMAIN CFull = 1 .. 2 * CNB
  BY DEF CFull, CNB, Absorbed
<1>4. Len(CFull) = 2 * CNB
  BY <1>1, <1>3
<1>5. QED
  BY <1>1, <1>2, <1>3, <1>4 DEF Prefix

LEMMA AppendConcat ==
  ASSUME NEW T, NEW s \in Seq(T), NEW e \in T
  PROVE  Append(s, e) = s \o <<e>>
<1>1. <<e>> \in Seq(T) /\ Len(<<e>>) = 1 /\ <<e>>[1] = e
  OBVIOUS
<1>2. /\ s \o <<e>> \in Seq(T) /\ Len(s \o <<e>>) = Len(s) + 1
      /\ \A i \in 1 .. Len(s) + 1 : (s \o <<e>>)[i] = IF i <= Len(s) THEN s[i] ELSE <<e>>[i - Len(s)]
  BY <1>1, ConcatProperties
<1>3. /\ Append(s, e) \in Seq(T) /\ Len(Append(s, e)) = Len(s) + 1 /\ Len(s) \in Nat
      /\ \A i \in 1 .. Len(s) + 1 : Append(s, e)[i] = IF i <= Len(s) THEN s[i] ELSE e
  OBVIOUS
<1>4. \A i \in 1 .. Len(s) + 1 : Append(s, e)[i] = (s \o <<e>>)[i]
  BY <1>1, <1>2, <1>3
<1>5. QED
  BY <1>2, <1>3, <1>4, SeqEqual

LEMMA PermutedOnce ==
  ASSUME len \in Nat, NEW q \in Nat
  PROVE  Permuted(CFull, q) \o <<Permute>> = Permuted(CFull, q + 1)
<1> DEFINE F == [x \in 1 .. 2 * CNB + q + 1 |-> IF x <= 2 * CNB THEN CFull[x] ELSE Permute]
           k == 2 * CNB + q
<1>1. CNB \in Nat /\ Len(CFull) = 2 * CNB /\ k \in Nat
  BY BlocksOfInput
<1>2. F[k + 1] = Permute
  BY <1>1
<1>3. Permuted(CFull, q) = [x \in 1 .. k |-> F[x]]
  BY <1>1 DEF Permuted
<1>4. Permuted(CFull, q + 1) = [x \in 1 .. k + 1 |-> F[x]]
  BY <1>1 DEF Permuted
<1> HIDE DEF F, k
<1>5. Append([x \in 1 .. k |-> F[x]], F[k + 1]) = [x \in 1 .. k + 1 |-> F[x]]
  BY <1>1, AppendPrefix
<1>6. Permuted(CFull, q) \in Seq({F[x] : x \in 1 .. k + 1} \cup {Permute})
  BY <1>1, <1>3
<1>7. Append(Permuted(CFull, q), Permute) = Permuted(CFull, q) \o <<Permute>>
  BY <1>6, AppendConcat
<1>8. QED
  BY <1>2, <1>3, <1>4, <1>5, <1>7

LEMMA PermutedNone ==
  ASSUME len \in Nat
  PROVE  Permuted(CFull, 0) = CFull
<1>1. CNB \in Nat /\ Len(CFull) = 2 * CNB /\ CFull = [x \in 1 .. 2 * CNB |-> CFull[x]]
  BY BlocksOfInput DEF Prefix
<1>2. Permuted(CFull, 0) = [x \in 1 .. 2 * CNB |-> CFull[x]]
  BY <1>1 DEF Permuted
<1>3. QED
  BY <1>1, <1>2

(* A state with the block after the first 2 * a operations absorbed, once  *)
(* permuted, is the state after 2 * (a + 1) of them.                       *)
LEMMA BlockAbsorbed ==
  ASSUME len \in Nat, NEW a \in 0 .. CNB - 1, NEW b,
         b = BlockAt(Padded(input, len), a * Rate)
  PROVE  Append(Prefix(2 * a), Absorb(b)) \o <<Permute>> = Prefix(2 * (a + 1))
<1>1. CNB \in Nat /\ 2 * a \in Nat /\ 2 * a + 1 \in Nat
      /\ (2 * a + 1) + 1 = 2 * a + 2 /\ 2 * (a + 1) = 2 * a + 2
  BY BlocksOfInput
<1>2. Absorb(b) = CFull[2 * a + 1] /\ Permute = CFull[2 * a + 2]
  BY AbsorbedAt DEF CFull, CNB
<1>3. Append(Prefix(2 * a), Absorb(b)) = Prefix(2 * a + 1)
  BY <1>1, <1>2, AppendPrefix DEF Prefix
<1>4. Append(Prefix(2 * a + 1), CFull[(2 * a + 1) + 1]) = Prefix((2 * a + 1) + 1)
  BY <1>1, AppendPrefix DEF Prefix
<1>5. Prefix(2 * a + 1) \in Seq({CFull[x] : x \in 1 .. 2 * a + 1} \cup {Permute})
  BY <1>1 DEF Prefix
<1>6. Append(Prefix(2 * a + 1), Permute) = Prefix(2 * a + 1) \o <<Permute>>
  BY <1>5, AppendConcat
<1>7. QED
  BY <1>1, <1>2, <1>3, <1>4, <1>6

(* What a raw call returns, put in place of the 25 lanes. *)
LEMMA LanesBack ==
  ASSUME NEW c, NEW r, r = Append(Lifted(c), Permute)
  PROVE  r[1].block = c /\ Tail(r) = <<Permute>>
<1> DEFINE e == [op |-> "lanes", block |-> c]
           T == {e, Permute}
<1>1. Lifted(c) = <<e>> /\ e.block = c
  BY DEF Lifted
<1> HIDE DEF e
<1>2. <<e>> \in Seq(T) /\ Len(<<e>>) = 1 /\ <<e>>[1] = e /\ Permute \in T
  OBVIOUS
<1>3. r \in Seq(T) /\ Len(r) = 2 /\ r[1] = e /\ r[2] = Permute
  BY <1>1, <1>2
<1> HIDE DEF T
<1>4. /\ Tail(r) \in Seq(T) /\ Len(Tail(r)) = 1
      /\ \A i \in 1 .. Len(Tail(r)) : Tail(r)[i] = r[i + 1]
  <2>1. r # <<>>
    BY <1>3
  <2>2. /\ Tail(r) \in Seq(T) /\ Len(Tail(r)) = Len(r) - 1
        /\ \A i \in 1 .. Len(Tail(r)) : Tail(r)[i] = r[i + 1]
    BY <1>3, <2>1, HeadTailProperties
  <2>3. QED
    BY <1>3, <2>2
<1>5. <<Permute>> \in Seq(T) /\ Len(<<Permute>>) = 1 /\ <<Permute>>[1] = Permute
  BY DEF T
<1>6. Tail(r)[1] = Permute
  BY <1>3, <1>4
<1>7. Tail(r) = <<Permute>>
  <2>1. \A i \in 1 .. Len(Tail(r)) : Tail(r)[i] = <<Permute>>[i]
    BY <1>4, <1>5, <1>6
  <2>2. QED
    BY <1>4, <1>5, <2>1, SeqEqual
<1>8. QED
  BY <1>1, <1>3, <1>7

LEMMA ArgsFixed ==
  ASSUME UNCHANGED args
  PROVE  /\ CNB' = CNB /\ CFull' = CFull
         /\ \A k : Prefix(k)' = Prefix(k)
         /\ \A q : Permuted(CFull, q)' = Permuted(CFull, q)
         /\ \A x : OutByte(input, len, x)' = OutByte(input, len, x)
         /\ Shake(input, len, outLen)' = Shake(input, len, outLen)
         /\ (UsesFast' <=> UsesFast) /\ (UsesBatch' <=> UsesBatch)
         /\ Allocated' = Allocated /\ Memory' = Memory
  BY DEF args, CNB, NumBlocks, CFull, Absorbed, Prefix, Permuted, OutByte, Shake, UsesFast,
         UsesBatch, Padded, BlockAt, Allocated, Memory

(* The object holds what is returned, and a block stored where bytes are   *)
(* still missing stays inside it.                                          *)
LEMMA ObjectHoldsResult ==
  ASSUME outLen \in Nat
  PROVE  /\ Allocated \in Nat /\ outLen <= Allocated
         /\ \A x \in 0 .. outLen - 1 : x \in Memory /\ ~(x >= Allocated)
<1> DEFINE nOut == (outLen + Rate - 1) \div Rate
<1>1. Rate \in Nat /\ Rate >= 1 /\ nOut \in Nat
  BY SpongeAssumption
<1>2. outLen + Rate - 1 \in Nat /\ outLen + Rate - 1 < Rate * (nOut + 1)
  BY <1>1
<1> HIDE DEF nOut
<1>3. Rate * (nOut + 1) = Rate * nOut + Rate /\ Rate * nOut \in Nat /\ Rate * 1 = Rate
  BY <1>1
<1>4. Allocated = IF UsesBatch THEN outLen ELSE IF outLen = 0 THEN Rate ELSE Rate * nOut
  BY <1>3 DEF Allocated, nOut
<1>5. Allocated \in Nat /\ outLen <= Allocated
  BY <1>1, <1>2, <1>3, <1>4
<1>6. QED
  BY <1>1, <1>5 DEF Memory

LEMMA BlockFits ==
  ASSUME outLen \in Nat, UsesFast, NEW q \in Nat, q * Rate = 0 \/ q * Rate < outLen
  PROVE  q * Rate + Rate <= Allocated
<1> DEFINE nOut == (outLen + Rate - 1) \div Rate
<1>1. Rate \in Nat /\ Rate >= 1 /\ nOut \in Nat
  BY SpongeAssumption
<1>2. outLen + Rate - 1 \in Nat /\ outLen + Rate - 1 < Rate * (nOut + 1)
  BY <1>1
<1> HIDE DEF nOut
<1>3. Rate * (nOut + 1) = nOut * Rate + Rate /\ Rate * nOut = nOut * Rate /\ Rate * 1 = Rate
      /\ nOut * Rate \in Nat /\ q * Rate \in Nat /\ (q + 1) * Rate = q * Rate + Rate
  BY <1>1
<1>4. ~UsesBatch
  BY DEF UsesFast, UsesBatch
<1>5. Allocated = IF outLen = 0 THEN Rate ELSE nOut * Rate
  BY <1>3, <1>4 DEF Allocated, nOut
<1>6. CASE q * Rate = 0
  <2>1. outLen # 0 => 1 * Rate <= nOut * Rate
    <3>1. outLen # 0 => ~(nOut <= 0)
      BY <1>1, <1>2, <1>3
    <3>2. QED
      BY <1>1, <3>1, TimesRate
  <2>2. QED
    BY <1>1, <1>5, <1>6, <2>1
<1>7. CASE q * Rate < outLen
  <2>1. ~(nOut <= q)
    <3> SUFFICES ASSUME nOut <= q PROVE FALSE
      OBVIOUS
    <3>1. nOut * Rate <= q * Rate
      BY <1>1, TimesRate
    <3>2. QED
      BY <1>1, <1>2, <1>3, <1>7, <3>1
  <2>2. (q + 1) * Rate <= nOut * Rate
    BY <1>1, <2>1, TimesRate
  <2>3. QED
    BY <1>1, <1>3, <1>5, <1>7, <2>2
<1>8. QED
  BY <1>6, <1>7

LEMMA CallerInitInv == CallerInit => CallerInv
<1> SUFFICES ASSUME CallerInit PROVE CallerInv
  OBVIOUS
<1>1. len \in Nat /\ outLen \in Nat
  BY HelperAssumption, CallerAssumption DEF CallerInit
<1>2. OutputInv
  <2>1. output = [x \in Memory |-> IF x < Allocated THEN Unwritten ELSE Foreign] /\ done = 0
        /\ at = "start"
    BY DEF CallerInit
  <2>2. Allocated \in Nat /\ \A x \in Memory : x \in Int
    BY <1>1, ObjectHoldsResult DEF Memory
  <2>3. \A x \in Memory : x >= Allocated => output[x] = Foreign
    BY <2>1, <2>2
  <2>4. QED
    BY <2>1, <2>3 DEF OutputInv, ResultIsShake
<1>3. SpongeInv
  BY DEF CallerInit, SpongeInv, Squeezing
<1>4. QED
  BY <1>1, <1>2, <1>3 DEF CallerInit, CallerInv, MuIsTotal

(* The helper starts in its initial state. *)
LEMMA StaticCallKInv ==
  ASSUME NEW n \in Nat, NEW data, NEW back, StaticCall(n, data, back)
  PROVE  KInv' /\ pc' = "dispatch" /\ at' = "call" /\ then' = back
         /\ size' = n /\ calldata' = data
  BY DEF StaticCall, KInv, CounterMatchesPointer

LEMMA HelperFixed ==
  ASSUME Next
  PROVE  UNCHANGED call /\ pc' # "idle"
  BY DEF Next, RawEntry, BatchEntry, AbsorbBlock, Body, Squeeze, ReturnState, OutOfGas, call

(* Steps that leave the output and the arguments alone keep what it says. *)
LEMMA OutputKept ==
  ASSUME OutputInv, UNCHANGED <<args, output, done>>, at' # "done"
  PROVE  OutputInv'
<1>1. \A x : OutByte(input, len, x)' = OutByte(input, len, x)
  BY ArgsFixed
<1>2. output' = output /\ outLen' = outLen /\ done' = done
      /\ Allocated' = Allocated /\ Memory' = Memory
  BY ArgsFixed DEF args
<1>3. ResultIsShake'
  BY DEF ResultIsShake
<1>4. QED
  BY <1>1, <1>2, <1>3 DEF OutputInv

LEMMA CallerStep == CallerInv /\ [CallerNext]_<<vars, callerVars>> => CallerInv'
<1> SUFFICES ASSUME CallerInv, [CallerNext]_<<vars, callerVars>> PROVE CallerInv'
  OBVIOUS
<1>1. len \in Nat /\ outLen \in Nat /\ done \in Nat /\ Rate \in Nat /\ Rate >= 1 /\ RawSize \in Nat
  BY SpongeAssumption, HelperAssumption DEF CallerInv
<1>2. CNB \in Nat /\ CNB >= 1 /\ len \div Rate = CNB - 1
  BY <1>1, BlocksOfInput
<1>3. UNCHANGED vars => (KInv => KInv') /\ pc' = pc
  BY StepKInv DEF vars
<1>4. UNCHANGED args => (UsesFast' <=> UsesFast) /\ (UsesBatch' <=> UsesBatch) /\ CNB' = CNB
                        /\ (\A k : Prefix(k)' = Prefix(k))
                        /\ (\A q : Permuted(CFull, q)' = Permuted(CFull, q))
                        /\ len' = len /\ outLen' = outLen /\ fn' = fn /\ input' = input
  BY ArgsFixed DEF args
<1>5. CASE BatchRefused
  <2>1. at = "start" /\ UsesBatch /\ (outLen > Rate \/ len = RawSize) /\ at' = "reverted"
        /\ UNCHANGED <<vars, args, then, locals>> /\ UNCHANGED args
    BY <1>5 DEF BatchRefused, args
  <2>2. fn # "mu"
    BY <1>1, <2>1 DEF UsesBatch, CallerInv
  <2>3. OutputInv'
    BY <2>1, OutputKept DEF CallerInv, locals
  <2>4. SpongeInv' /\ MuIsTotal'
    BY <1>4, <2>1, <2>2 DEF SpongeInv, Squeezing, MuIsTotal
  <2>5. QED
    BY <1>1, <1>3, <1>4, <2>1, <2>3, <2>4 DEF CallerInv, locals, vars
<1>6. CASE Batch
  <2>1. at = "start" /\ UsesBatch /\ outLen <= Rate /\ len # RawSize
        /\ StaticCall(len, input, "done")
        /\ UNCHANGED <<args, locals>> /\ UNCHANGED args
    BY <1>6 DEF Batch, args
  <2>2. KInv' /\ pc' = "dispatch" /\ at' = "call" /\ then' = "done" /\ size' = len /\ calldata' = input
    BY <1>1, <2>1, StaticCallKInv
  <2>3. OutputInv'
    BY <2>1, <2>2, OutputKept DEF CallerInv, locals
  <2>4. SpongeInv' /\ MuIsTotal' /\ CallInv'
    BY <1>4, <2>1, <2>2 DEF SpongeInv, Squeezing, MuIsTotal, CallInv
  <2>5. QED
    BY <1>1, <1>4, <2>1, <2>2, <2>3, <2>4 DEF CallerInv, locals
<1>7. CASE FastStart
  <2>1. at = "start" /\ UsesFast /\ at' = "full" /\ UNCHANGED <<vars, args, then, locals>>
        /\ UNCHANGED args
    BY <1>7 DEF FastStart, args
  <2>2. OutputInv'
    BY <2>1, OutputKept DEF CallerInv, locals
  <2>3. st = Prefix(2 * 0) /\ block = 0 /\ done = 0 /\ 0 \in 0 .. CNB - 1
    BY <1>2, <2>1 DEF CallerInv, SpongeInv, Prefix, Zero
  <2>4. SpongeInv' /\ MuIsTotal'
    BY <1>4, <2>1, <2>3 DEF SpongeInv, Squeezing, MuIsTotal, locals
  <2>5. QED
    BY <1>1, <1>3, <1>4, <2>1, <2>2, <2>4 DEF CallerInv, locals, vars
<1>8. CASE AbsorbFull
  <2> DEFINE b == BlockAt(input, block * Rate)
  <2>1. at = "full" /\ block < CNB - 1 /\ block' = block + 1
        /\ StaticCall(RawSize, Append(st, Absorb(b)), "full")
        /\ UNCHANGED <<args, st, done, output>> /\ UNCHANGED args
    BY <1>2, <1>8 DEF AbsorbFull, Permutation, args
  <2>2. UsesFast /\ done = 0 /\ block \in 0 .. CNB - 1 /\ st = Prefix(2 * block)
    BY <2>1 DEF CallerInv, SpongeInv
  <2>3. KInv' /\ pc' = "dispatch" /\ at' = "call" /\ then' = "full" /\ size' = RawSize
        /\ calldata' = Append(st, Absorb(b))
    BY <1>1, <2>1, StaticCallKInv
  <2>4. b = BlockAt(Padded(input, len), block * Rate)
    <3>1. block \in Nat /\ block < len \div Rate
      BY <1>2, <2>1, <2>2
    <3>2. QED
      BY <1>1, <3>1, FullBlock
  <2>5. calldata' \o <<Permute>> = Prefix(2 * block')
    BY <1>1, <2>1, <2>2, <2>3, <2>4, BlockAbsorbed
  <2>6. OutputInv'
    BY <2>1, <2>3, OutputKept DEF CallerInv
  <2>7. block' \in 0 .. CNB - 1
    BY <1>2, <2>1, <2>2
  <2> HIDE DEF b
  <2>8. SpongeInv' /\ MuIsTotal' /\ CallInv'
    BY <1>4, <2>1, <2>2, <2>3, <2>5, <2>7 DEF SpongeInv, Squeezing, MuIsTotal, CallInv
  <2>9. QED
    BY <1>1, <1>4, <2>1, <2>3, <2>6, <2>8 DEF CallerInv
<1>9. CASE AbsorbLast
  <2>1. at = "full" /\ block = CNB - 1
        /\ StaticCall(RawSize, Append(st, Absorb(LastBlock)), "squeeze")
        /\ UNCHANGED <<args, locals>> /\ UNCHANGED args
    BY <1>2, <1>9 DEF AbsorbLast, Permutation, args
  <2>2. UsesFast /\ done = 0 /\ block \in 0 .. CNB - 1 /\ st = Prefix(2 * block)
    BY <2>1 DEF CallerInv, SpongeInv
  <2>3. KInv' /\ pc' = "dispatch" /\ at' = "call" /\ then' = "squeeze" /\ size' = RawSize
        /\ calldata' = Append(st, Absorb(LastBlock))
    BY <1>1, <2>1, StaticCallKInv
  <2>4. LastBlock = BlockAt(Padded(input, len), block * Rate)
    BY <1>1, <1>2, <2>1, LastBlockIsPadded
  <2>5. calldata' \o <<Permute>> = Prefix(2 * (block + 1))
    BY <1>1, <2>2, <2>3, <2>4, BlockAbsorbed
  <2>6. Prefix(2 * (block + 1)) = Permuted(CFull, 0)
    BY <1>1, <1>2, <2>1, BlocksOfInput, PermutedNone
  <2>7. OutputInv'
    BY <2>1, <2>3, OutputKept DEF CallerInv, locals
  <2>8. done' = 0 * Rate
    BY <1>1, <2>1, <2>2 DEF locals
  <2>9. done' = 0
    BY <2>1, <2>2 DEF locals
  <2>10. SpongeInv' /\ MuIsTotal' /\ CallInv'
    BY <1>4, <2>1, <2>2, <2>3, <2>5, <2>6, <2>8, <2>9 DEF SpongeInv, Squeezing, MuIsTotal, CallInv
  <2>11. QED
    BY <1>1, <1>4, <2>1, <2>3, <2>7, <2>10 DEF CallerInv, locals
<1>10. CASE SqueezeBlock
  <2>1. at = "squeeze" /\ output' = SqueezeInto(output, st, done) /\ done' = done + Rate
        /\ at' = (IF done + Rate >= outLen THEN "done" ELSE "permute")
        /\ UNCHANGED <<vars, args, then, st, block>> /\ UNCHANGED args
    BY <1>10 DEF SqueezeBlock, args
  <2>2. UsesFast
    BY <2>1 DEF CallerInv, SpongeInv
  <2>3. PICK q \in Nat : done = q * Rate /\ st = Permuted(CFull, q)
    BY <2>1 DEF CallerInv, SpongeInv
  <2>4. output' = [x \in Memory |->
                     IF x >= done /\ x < done + Rate THEN <<st, x - done>> ELSE output[x]]
    BY <2>1 DEF SqueezeInto
  <2>5. Allocated \in Nat /\ (\A x \in Memory : x \in Int)
         /\ \A x \in 0 .. outLen - 1 : x \in Memory
    BY <1>1, ObjectHoldsResult DEF Memory
  <2>6. Squeezing /\ (done = 0 \/ done < outLen)
    BY <2>1 DEF CallerInv, SpongeInv, Squeezing
  <2>7. done + Rate <= Allocated
    BY <1>1, <2>2, <2>3, <2>6, BlockFits
  <2>8. \A x \in Memory : x >= Allocated => output'[x] = Foreign
    <3> SUFFICES ASSUME NEW x \in Memory, x >= Allocated PROVE output'[x] = Foreign
      OBVIOUS
    <3>1. ~(x < done + Rate)
      BY <1>1, <2>5, <2>7
    <3>2. output'[x] = output[x]
      BY <2>4, <3>1
    <3>3. QED
      BY <3>2 DEF CallerInv, OutputInv
  <2>9. \A x \in 0 .. outLen - 1 : x < done' => output'[x] = OutByte(input, len, x)
    <3> SUFFICES ASSUME NEW x \in 0 .. outLen - 1, x < done + Rate
                 PROVE  output'[x] = OutByte(input, len, x)
      BY <2>1
    <3>1. CASE x < done
      <4>1. output[x] = OutByte(input, len, x)
        BY <3>1 DEF CallerInv, OutputInv
      <4>2. QED
        BY <1>1, <2>4, <2>5, <3>1, <4>1
    <3>2. CASE ~(x < done)
      <4>1. x - done \in 0 .. Rate - 1 /\ q * Rate + (x - done) = x
        BY <1>1, <2>3, <3>2
      <4>2. x \div Rate = q /\ x % Rate = x - done
        BY <4>1, DivAt
      <4>3. OutByte(input, len, x) = <<st, x - done>>
        BY <2>3, <4>2 DEF OutByte, CFull
      <4>4. x >= done
        BY <1>1, <3>2
      <4>5. QED
        BY <2>4, <2>5, <4>3, <4>4
    <3>3. QED
      BY <3>1, <3>2
  <2>10. done' = (q + 1) * Rate /\ done' \in Nat
    BY <1>1, <2>1, <2>3
  <2>11. output' = [x \in Memory' |-> output'[x]] /\ Memory' = Memory /\ Allocated' = Allocated
        /\ outLen' = outLen
    BY <1>4, <2>1, <2>4, ArgsFixed
  <2>12. \A x \in 0 .. outLen' - 1 : x < done' => output'[x] = OutByte(input, len, x)'
    BY <2>1, <2>9, ArgsFixed DEF args
  <2>13. ResultIsShake'
    <3> SUFFICES ASSUME at' = "done" PROVE Result' = Shake(input, len, outLen)'
      BY <2>11, <2>8 DEF ResultIsShake
    <3>1. \A x \in 0 .. outLen - 1 : output'[x] = OutByte(input, len, x)
      BY <1>1, <2>1, <2>9
    <3>2. Result' = [x \in 0 .. outLen - 1 |-> OutByte(input, len, x)]
      BY <2>11, <3>1 DEF Result
    <3>3. QED
      BY <2>1, <3>2, ArgsFixed DEF Shake
  <2>14. OutputInv'
    BY <2>11, <2>12, <2>13, <2>8 DEF OutputInv
  <2>15. SpongeInv' /\ MuIsTotal'
    <3>1. at' = "permute" => done' < outLen'
      BY <1>1, <2>1, <2>10, <2>11
    <3>2. QED
      BY <1>4, <2>1, <2>2, <2>3, <2>10, <2>11, <3>1 DEF SpongeInv, Squeezing, MuIsTotal
  <2>16. QED
    BY <1>1, <1>3, <1>4, <2>1, <2>10, <2>14, <2>15 DEF CallerInv, vars
<1>11. CASE PermuteAgain
  <2>1. at = "permute" /\ StaticCall(RawSize, st, "squeeze")
        /\ UNCHANGED <<args, locals>> /\ UNCHANGED args
    BY <1>11 DEF PermuteAgain, Permutation, args
  <2>2. UsesFast
    BY <2>1 DEF CallerInv, SpongeInv
  <2>3. done = 0 \/ done < outLen
    BY <2>1 DEF CallerInv, SpongeInv, Squeezing
  <2>4. PICK q \in Nat : done = (q + 1) * Rate /\ st = Permuted(CFull, q)
    BY <2>1 DEF CallerInv, SpongeInv
  <2>5. KInv' /\ pc' = "dispatch" /\ at' = "call" /\ then' = "squeeze" /\ size' = RawSize
        /\ calldata' = st
    BY <1>1, <2>1, StaticCallKInv
  <2>6. calldata' \o <<Permute>> = Permuted(CFull, q + 1) /\ q + 1 \in Nat
    <3>1. st \o <<Permute>> = Permuted(CFull, q + 1)
      BY <1>1, <2>4, PermutedOnce
    <3>2. QED
      BY <2>5, <3>1
  <2>7. OutputInv'
    BY <2>1, <2>5, OutputKept DEF CallerInv, locals
  <2>8. SpongeInv' /\ MuIsTotal' /\ CallInv'
    BY <1>4, <2>3, <2>1, <2>2, <2>4, <2>5, <2>6 DEF SpongeInv, Squeezing, MuIsTotal, CallInv, locals
  <2>9. QED
    BY <1>1, <1>4, <2>1, <2>5, <2>7, <2>8 DEF CallerInv, locals
<1>12. CASE StateReturned
  <2>1. at = "call" /\ then # "done" /\ pc = "returned" /\ st' = ret.lanes[1].block \o Tail(ret.lanes)
        /\ at' = then /\ UNCHANGED <<vars, args, then, block, done, output>> /\ UNCHANGED args
    BY <1>12 DEF StateReturned, args
  <2>2. KInv /\ CallInv /\ then \in {"full", "squeeze"} /\ UsesFast /\ size = RawSize
    BY <2>1 DEF CallerInv, CallInv
  <2>3. ret = State(Append(Lifted(calldata), Permute))
    BY <2>1, <2>2 DEF KInv, RawInv
  <2>4. st' = calldata \o <<Permute>>
    <3>1. ret.lanes = Append(Lifted(calldata), Permute)
      BY <2>3 DEF State
    <3>2. ret.lanes[1].block = calldata /\ Tail(ret.lanes) = <<Permute>>
      BY <3>1, LanesBack
    <3>3. QED
      BY <2>1, <3>2
  <2>5. CASE then = "full"
    <3>1. block \in 0 .. CNB - 1 /\ st' = Prefix(2 * block) /\ done = 0
      BY <2>1, <2>2, <2>4, <2>5 DEF CallInv, CallerInv, SpongeInv
    <3>2. SpongeInv' /\ MuIsTotal'
      BY <1>4, <2>1, <2>2, <2>5, <3>1 DEF SpongeInv, Squeezing, MuIsTotal
    <3>3. OutputInv'
      BY <2>1, <2>5, OutputKept DEF CallerInv
    <3>4. QED
      BY <1>1, <1>3, <1>4, <2>1, <2>2, <2>5, <3>2, <3>3 DEF CallerInv, vars
  <2>6. CASE then = "squeeze"
    <3>1. done = 0 \/ done < outLen
      BY <2>1, <2>6 DEF CallerInv, SpongeInv, Squeezing
    <3>2. PICK q \in Nat : done = q * Rate /\ st' = Permuted(CFull, q)
      BY <2>1, <2>2, <2>4, <2>6 DEF CallInv
    <3>3. SpongeInv' /\ MuIsTotal'
      BY <1>4, <3>1, <2>1, <2>2, <2>6, <3>2 DEF SpongeInv, Squeezing, MuIsTotal
    <3>4. OutputInv'
      BY <2>1, <2>6, OutputKept DEF CallerInv
    <3>5. QED
      BY <1>1, <1>3, <1>4, <2>1, <2>2, <2>6, <3>3, <3>4 DEF CallerInv, vars
  <2>7. QED
    BY <2>2, <2>5, <2>6
<1>13. CASE BlockReturned
  <2>1. at = "call" /\ then = "done" /\ pc = "returned"
        /\ output' = [x \in Memory |-> IF x < outLen THEN <<ret.lanes, x>> ELSE output[x]]
        /\ at' = "done" /\ UNCHANGED <<vars, args, then, st, block, done>> /\ UNCHANGED args
    BY <1>13 DEF BlockReturned, args
  <2>2. KInv /\ UsesBatch /\ size = len /\ calldata = input /\ len # RawSize /\ outLen <= Rate
    BY <2>1 DEF CallerInv, CallInv
  <2>3. ret.lanes = CFull
    BY <2>1, <2>2 DEF KInv, BatchInv, Block, Full, CFull
  <2>4. ASSUME NEW x \in 0 .. outLen - 1
        PROVE  OutByte(input, len, x) = <<ret.lanes, x>>
    <3>1. x \in 0 .. Rate - 1 /\ 0 * Rate + x = x
      BY <1>1, <2>2
    <3>2. x \div Rate = 0 /\ x % Rate = x
      BY <3>1, DivAt
    <3>3. QED
      BY <1>1, <2>3, <3>2, PermutedNone DEF OutByte, CFull
  <2>5. outLen' = outLen /\ Memory' = Memory /\ Allocated' = Allocated
        /\ (\A x : OutByte(input, len, x)' = OutByte(input, len, x))
        /\ Shake(input, len, outLen)' = Shake(input, len, outLen)
    BY <2>1, ArgsFixed DEF args
  <2>6. \A x \in 0 .. outLen - 1 : output'[x] = OutByte(input, len, x)
    <3> SUFFICES ASSUME NEW x \in 0 .. outLen - 1
                 PROVE  output'[x] = OutByte(input, len, x)
      OBVIOUS
    <3>1. x \in Memory /\ x < outLen
      BY <1>1, ObjectHoldsResult
    <3>2. output'[x] = <<ret.lanes, x>>
      BY <2>1, <3>1
    <3>3. QED
      BY <2>4, <3>2
  <2>7. \A x \in Memory : x >= Allocated => output'[x] = Foreign
    <3> SUFFICES ASSUME NEW x \in Memory, x >= Allocated PROVE output'[x] = Foreign
      OBVIOUS
    <3>1. Allocated \in Nat /\ outLen <= Allocated /\ x \in Int
      BY <1>1, ObjectHoldsResult DEF Memory
    <3>2. ~(x < outLen)
      BY <1>1, <3>1
    <3>3. output'[x] = output[x]
      BY <2>1, <3>2
    <3>4. QED
      BY <3>3 DEF CallerInv, OutputInv
  <2>8. OutputInv'
    <3>1. output' = [x \in Memory' |-> output'[x]]
      BY <2>1, <2>5
    <3>2. Result' = Shake(input, len, outLen)'
      BY <2>5, <2>6 DEF Result, Shake
    <3>3. QED
      BY <2>5, <2>6, <2>7, <3>1, <3>2 DEF OutputInv, ResultIsShake
  <2>9. SpongeInv' /\ MuIsTotal'
    BY <2>1 DEF SpongeInv, Squeezing, MuIsTotal
  <2>10. QED
    BY <1>1, <1>3, <1>4, <2>1, <2>8, <2>9 DEF CallerInv, vars
<1>14. CASE HelperFails
  <2>1. /\ at = "call" /\ at' = "reverted"
        /\ UNCHANGED vars /\ UNCHANGED args /\ UNCHANGED locals /\ then' = then
        /\ \/ pc = "failed"
           \/ pc = "returned" /\ ret.kind # (IF then = "done" THEN "block" ELSE "state")
    BY <1>14 DEF HelperFails
  <2>2. KInv /\ CallInv
    BY <2>1 DEF CallerInv
  <2>3. ASSUME pc = "returned"
        PROVE  ret.kind = IF then = "done" THEN "block" ELSE "state"
    BY <2>2, <2>3 DEF KInv, CallInv, RawInv, BatchInv, State, Block
  <2>4. pc = "failed" /\ pc' = "failed"
    BY <1>3, <2>1, <2>3
  <2>5. OutputInv'
    BY <2>1, OutputKept DEF CallerInv, locals
  <2>6. SpongeInv' /\ MuIsTotal'
    BY <2>1, <2>4 DEF SpongeInv, Squeezing, MuIsTotal
  <2>7. QED
    BY <1>1, <1>3, <1>4, <2>1, <2>2, <2>5, <2>6 DEF CallerInv, vars, locals
<1>15. CASE HelperStep
  <2>1. at = "call" /\ Next /\ UNCHANGED callerVars /\ UNCHANGED args /\ UNCHANGED locals
        /\ at' = at /\ then' = then
    BY <1>15 DEF HelperStep, callerVars, args, locals
  <2>2. KInv /\ CallInv
    BY <2>1 DEF CallerInv
  <2>3. KInv' /\ pc' # "idle" /\ size' = size /\ calldata' = calldata
    BY <2>1, <2>2, StepKInv, HelperFixed DEF call
  <2>4. st' = st /\ block' = block /\ done' = done /\ output' = output
    BY <2>1 DEF locals
  <2>5. OutputInv'
    BY <2>1, OutputKept DEF CallerInv, locals
  <2>6. CallInv'
    BY <1>4, <2>1, <2>2, <2>3, <2>4 DEF CallInv
  <2>7. SpongeInv' /\ MuIsTotal'
    BY <1>4, <2>1, <2>4 DEF SpongeInv, Squeezing, MuIsTotal, CallerInv
  <2>8. QED
    BY <1>1, <1>4, <2>1, <2>3, <2>4, <2>5, <2>6, <2>7 DEF CallerInv
<1>16. CASE UNCHANGED <<vars, callerVars>>
  <2>1. UNCHANGED vars /\ UNCHANGED args /\ UNCHANGED locals /\ at' = at /\ then' = then
    BY <1>16 DEF callerVars
  <2>2. st' = st /\ block' = block /\ done' = done /\ output' = output /\ pc' = pc
        /\ size' = size /\ calldata' = calldata
    BY <2>1 DEF locals, vars
  <2>3. OutputInv'
    <3>1. CASE at = "done"
      <4>1. (\A x : OutByte(input, len, x)' = OutByte(input, len, x))
            /\ Shake(input, len, outLen)' = Shake(input, len, outLen)
            /\ Memory' = Memory /\ Allocated' = Allocated
        BY <2>1, ArgsFixed
      <4>2. Result' = Result
        BY <1>4, <2>1, <2>2 DEF Result
      <4>3. ResultIsShake'
        BY <2>1, <2>2, <3>1, <4>1, <4>2 DEF CallerInv, OutputInv, ResultIsShake
      <4>4. QED
        BY <1>4, <2>1, <2>2, <4>1, <4>3 DEF CallerInv, OutputInv
    <3>2. CASE at # "done"
      BY <2>1, <2>2, <3>2, OutputKept DEF CallerInv
    <3>3. QED
      BY <3>1, <3>2
  <2>4. at = "call" => CallInv'
    BY <1>4, <2>1, <2>2 DEF CallInv, CallerInv
  <2>5. SpongeInv' /\ MuIsTotal'
    BY <1>4, <2>1, <2>2 DEF SpongeInv, Squeezing, MuIsTotal, CallerInv
  <2>6. QED
    BY <1>1, <1>3, <1>4, <2>1, <2>2, <2>3, <2>4, <2>5 DEF CallerInv
<1>17. QED
  BY <1>5, <1>6, <1>7, <1>8, <1>9, <1>10, <1>11, <1>12, <1>13, <1>14, <1>15, <1>16 DEF CallerNext

(* The helper's life allows the callers nothing CallerSpec does not. *)
LEMMA LifeIsCaller == LifeSpec => []CallerInv
<1>1. LifeInit => CallerInv
  BY CallerInitInv DEF LifeInit
<1>2. [LifeNext]_<<build, vars, callerVars>> => [CallerNext]_<<vars, callerVars>>
  BY DEF LifeNext
<1>3. CallerInv /\ [LifeNext]_<<build, vars, callerVars>> => CallerInv'
  BY <1>2, CallerStep
<1>4. QED
  BY <1>1, <1>3, PTL DEF LifeSpec

(* Whatever caller, path, length and number of squeeze blocks: a result is *)
(* the prefix of SHAKE256 of the input, for every rate and raw size, and   *)
(* no store went beyond the allocated object.                              *)
THEOREM CallersReturnShake == LifeSpec => []ResultIsShake
<1>1. CallerInv => ResultIsShake
  BY DEF CallerInv, OutputInv
<1>2. QED
  BY LifeIsCaller, <1>1, PTL

(* _computeMu reverts only when a helper call ran out of gas, so every     *)
(* message length has a mu.                                                *)
THEOREM CallersMuIsTotal == LifeSpec => []MuIsTotal
<1>1. CallerInv => MuIsTotal
  BY DEF CallerInv
<1>2. QED
  BY LifeIsCaller, <1>1, PTL

(* The helper keeps its two promises when the callers call it.             *)
THEOREM CallersHelperKeepsPromises == LifeSpec => [](BatchIsSponge /\ RawIsOnePermutation)
<1>1. CallerInv => BatchIsSponge /\ RawIsOnePermutation
  BY DEF CallerInv, KInv, RawInv, BatchInv, BatchIsSponge, RawIsOnePermutation, Full
<1>2. QED
  BY LifeIsCaller, <1>1, PTL
=============================================================================
