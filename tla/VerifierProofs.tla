--------------------------- MODULE VerifierProofs ---------------------------
(***************************************************************************)
(* Proofs about the verifier's pipeline, for every number of rows, every   *)
(* layout of the blob, every set of accounts, codes, messages and          *)
(* signatures, and every hash function.                                    *)
(***************************************************************************)
EXTENDS KeyLife, TLAPS

Blob == code[pk]

PastCheck == {"decode", "mu", "ball", "ntt", "load", "row", "inv", "final"}
PastDecode == PastCheck \ {"decode"}
PastMu == PastDecode \ {"mu"}
PastBall == PastMu \ {"ball"}
InRows == {"load", "row", "inv", "final"}

(* What the accounts hold; a deployed blob may be outside of Codes.        *)
CodesInv ==
  /\ code \in [Addr -> UNION {Codes(a) : a \in Addr}]
  /\ \A a \in Addr : code[a] \in Codes(a)

ChainInv ==
  /\ F1600 \in Addr \cup {"none"}
  /\ pk \in Addr /\ msg \in Msgs /\ sig \in Sigs
  /\ pc \in {"idle", "codehash"} \cup PastCheck
  /\ pc # "idle" => F1600 \in Addr
  /\ pc \in PastCheck => code[F1600] = HelperCode

(* What the pipeline has computed so far, in terms of the payload. *)
DataInv ==
  /\ pc \in PastDecode => Decoded
  /\ pc \in PastMu => mu = RefMu(Blob, msg)
  /\ pc \in PastBall => cHat = Ntt(Ball(sig))
  /\ pc \in {"mu", "ball"} => zp = sig.z
  /\ j \in 0 .. K /\ i \in 0 .. K
  /\ pc = "ntt" =>
       zp = [y \in Rows |-> IF y < j THEN Ntt(sig.z[y]) ELSE sig.z[y]]
  /\ pc \in InRows =>
       /\ zp = [y \in Rows |-> Ntt(sig.z[y])]
       /\ r = [x \in Rows |-> IF x < i THEN RefRow(Blob, sig, x) ELSE Unset]
  /\ pc \in {"row", "inv"} => i < K
  /\ pc = "row" =>
       scratch = [a |-> Payload(Blob, PK_A_OFF + i * ALen, ALen),
                  t |-> Payload(Blob, PK_T1_OFF + i * T1Len, T1Len)]
  /\ pc = "inv" => InvNtt(acc) = RefRow(Blob, sig, i)
  /\ pc = "final" => i = K

LastInv ==
  /\ last.out \in {"none", "revert", "true", "false"}
  /\ VerdictIsAlgorithm3

VInv == ChainInv /\ DataInv /\ LastInv

LEMMA Layout ==
  /\ PK_T1_OFF \in Nat /\ PK_A_OFF \in Nat /\ PK_SIZE \in Nat
  /\ \A x \in Rows : /\ PK_A_OFF + x * ALen \in Nat
                     /\ PK_A_OFF + x * ALen + ALen <= PK_SIZE
                     /\ PK_T1_OFF + x * T1Len \in Nat
                     /\ PK_T1_OFF + x * T1Len + T1Len <= PK_SIZE
<1>1. K * T1Len \in Nat /\ K * ALen \in Nat
  BY VerifierAssumption
<1>2. PK_T1_OFF \in Nat /\ PK_A_OFF \in Nat /\ PK_SIZE \in Nat
  BY <1>1, VerifierAssumption DEF PK_T1_OFF, PK_A_OFF, PK_SIZE
<1>3. ASSUME NEW x \in Rows, NEW len \in Nat
      PROVE  x * len \in Nat /\ x * len + len <= K * len
  <2>1. x \in Nat /\ x + 1 <= K /\ K \in Nat
    BY VerifierAssumption DEF Rows
  <2>2. (x + 1) * len <= K * len /\ (x + 1) * len = x * len + len /\ x * len \in Nat
    BY <2>1
  <2>3. QED
    BY <2>2
<1>4. ASSUME NEW x \in Rows
      PROVE  /\ PK_A_OFF + x * ALen \in Nat
             /\ PK_A_OFF + x * ALen + ALen <= PK_SIZE
             /\ PK_T1_OFF + x * T1Len \in Nat
             /\ PK_T1_OFF + x * T1Len + T1Len <= PK_SIZE
  <2>1. x * ALen \in Nat /\ x * ALen + ALen <= K * ALen
    BY <1>3, VerifierAssumption
  <2>2. x * T1Len \in Nat /\ x * T1Len + T1Len <= K * T1Len
    BY <1>3, VerifierAssumption
  <2> DEFINE ka == K * ALen
             kt == K * T1Len
             xa == x * ALen
             xt == x * T1Len
  <2>3. /\ ka \in Nat /\ kt \in Nat /\ xa \in Nat /\ xt \in Nat
        /\ xa + ALen <= ka /\ xt + T1Len <= kt
    BY ONLY <1>1, <2>1, <2>2
  <2>4. TrLen \in Nat /\ ALen \in Nat /\ T1Len \in Nat
    BY VerifierAssumption
  <2>5. PK_A_OFF = TrLen + kt /\ PK_SIZE = TrLen + kt + ka /\ PK_T1_OFF = TrLen
    BY DEF PK_T1_OFF, PK_A_OFF, PK_SIZE
  <2> HIDE DEF ka, kt, xa, xt
  <2>6. /\ PK_A_OFF + xa \in Nat /\ PK_A_OFF + xa + ALen <= PK_SIZE
        /\ PK_T1_OFF + xt \in Nat /\ PK_T1_OFF + xt + T1Len <= PK_SIZE
    BY ONLY <2>3, <2>4, <2>5
  <2> QED BY ONLY <2>6 DEF xa, xt
<1>5. QED
  BY <1>2, <1>4

(* EXTCODECOPY never pads as long as the blob has the exact size. *)
LEMMA CopyIsPayload ==
  ASSUME NEW c, c.size = PK_SIZE + 1, NEW off \in Nat, NEW n \in Nat, off + n <= PK_SIZE
  PROVE  ExtCodeCopy(c, 1 + off, n) = Payload(c, off, n)
<1>1. PK_SIZE \in Nat
  BY Layout
<1>2. \A x \in 0 .. n - 1 : (1 + off) + x < c.size /\ (1 + off) + x = 1 + off + x
  BY <1>1
<1>3. QED
  BY <1>2 DEF ExtCodeCopy, Payload

LEMMA InitVInv == Init => VInv
  BY VerifierAssumption
     DEF Init, VInv, ChainInv, DataInv, LastInv, VerdictIsAlgorithm3, NoCall, PastCheck,
         PastDecode, PastMu, PastBall, InRows

(* The end of a call keeps the invariant when its verdict is right. *)
LEMMA ReturnVInv ==
  ASSUME VInv, NEW o \in {"revert", "true", "false"}, Return(o),
         o \in {"true", "false"} => (o = "true" <=> Valid(Blob, msg, sig))
  PROVE  VInv'
<1>1. ChainInv'
  BY DEF VInv, ChainInv, Return, chain, args, PastCheck
<1>2. DataInv'
  BY VerifierAssumption DEF Return, DataInv, PastCheck, PastDecode, PastMu, PastBall, InRows
<1>3. LastInv'
  <2>1. last' = [blob |-> Blob, msg |-> msg, sig |-> sig, out |-> o]
    BY DEF Return, Outcome, Blob
  <2>2. last'.out = o /\ last'.blob = Blob /\ last'.msg = msg /\ last'.sig = sig
    BY <2>1
  <2>3. VerdictIsAlgorithm3'
    BY <2>2 DEF VerdictIsAlgorithm3
  <2>4. QED
    BY <2>2, <2>3 DEF LastInv
<1>4. QED
  BY <1>1, <1>2, <1>3 DEF VInv

(* A step inside a call disturbs only the data. *)
LEMMA ContinueVInv ==
  ASSUME VInv, NEW from, NEW to \in PastCheck, Continue(from, to), from # "idle",
         code[F1600] = HelperCode
  PROVE  ChainInv' /\ LastInv' /\ Blob' = Blob /\ msg' = msg /\ sig' = sig
         /\ (Decoded' <=> Decoded)
<1>1. UNCHANGED <<code, F1600, last, pk, msg, sig>> /\ pc = from /\ pc' = to
  BY DEF Continue, chain, args
<1>2. ChainInv'
  BY <1>1 DEF VInv, ChainInv, PastCheck
<1>3. LastInv'
  BY <1>1 DEF VInv, LastInv, VerdictIsAlgorithm3
<1>4. QED
  BY <1>1, <1>2, <1>3 DEF Blob, Decoded, PkSizeOk

LEMMA HelpedRight ==
  ASSUME code[F1600] = HelperCode, NEW right, NEW anything, NEW x \in Helped(right, anything)
  PROVE  x = right
  BY DEF Helped


(* The comparison at the end decides validity. *)
LEMMA FinalIsValid ==
  ASSUME VInv, FinalHash
  PROVE  \E o \in {"true", "false"} :
           Return(o) /\ (o = "true" <=> Valid(Blob, msg, sig))
<1>1. PICK h \in Helped(Challenge(mu, UseHint(sig.h, r)), {s.c : s \in Sigs}) :
        Return(IF h = sig.c THEN "true" ELSE "false")
  BY DEF FinalHash
<1>2. pc = "final" /\ code[F1600] = HelperCode
  BY DEF FinalHash, VInv, ChainInv, PastCheck
<1>3. Decoded /\ i = K /\ mu = RefMu(Blob, msg)
      /\ r = [x \in Rows |-> IF x < i THEN RefRow(Blob, sig, x) ELSE Unset]
  BY <1>2 DEF VInv, DataInv, PastCheck, PastDecode, PastMu, InRows
<1>4. h = Challenge(mu, UseHint(sig.h, r))
  BY <1>2, HelpedRight
<1>5. r = [x \in Rows |-> RefRow(Blob, sig, x)]
  BY <1>3, VerifierAssumption DEF Rows
<1>6. h = Challenge(RefMu(Blob, msg), RefW1(Blob, sig))
  BY <1>3, <1>4, <1>5 DEF RefW1
<1>7. (h = sig.c) <=> Valid(Blob, msg, sig)
  BY <1>3, <1>6 DEF Valid, Decoded, PkSizeOk, Blob
<1>8. QED
  BY <1>1, <1>7

LEMMA StepCodesInv == CodesInv /\ [Next]_vars => CodesInv'
<1> SUFFICES ASSUME CodesInv, [Next]_vars PROVE CodesInv'
  OBVIOUS
<1>1. ASSUME NEW a \in Addr, Replace(a) PROVE CodesInv'
  <2>1. PICK c \in Codes(a) : code' = [code EXCEPT ![a] = c]
    BY <1>1 DEF Replace
  <2> QED BY <2>1 DEF CodesInv
<1>2. ASSUME UNCHANGED code PROVE CodesInv'
  BY <1>2 DEF CodesInv
<1>3. ASSUME \E o : Return(o) PROVE CodesInv'
  BY <1>2, <1>3 DEF Return, chain
<1>4. ASSUME \E from, to : Continue(from, to) PROVE CodesInv'
  BY <1>2, <1>4 DEF Continue, chain
<1>5. ASSUME NEW a \in Addr, Construct(a) PROVE CodesInv'
  BY <1>2, <1>5 DEF Construct
<1>6. ASSUME NEW p \in Addr, NEW m \in Msgs, NEW s \in Sigs, Call(p, m, s) PROVE CodesInv'
  BY <1>2, <1>6 DEF Call, chain
<1>7. CASE UNCHANGED vars
  BY <1>2, <1>7 DEF vars
<1>8. Step => (\E o : Return(o)) \/ (\E from, to : Continue(from, to))
  BY DEF Step, Codehash, Reject, Decode, ComputeMu, SampleChallenge, NttZ, NttDone, LoadRow,
         MatVec, Invert, RowsDone, FinalHash, OutOfGas
<1> QED BY <1>1, <1>3, <1>4, <1>5, <1>6, <1>7, <1>8 DEF Next

LEMMA StepVInv == VInv /\ [Next]_vars => VInv'
<1> SUFFICES ASSUME VInv, [Next]_vars PROVE VInv'
  OBVIOUS
<1> USE DEF PastCheck, PastDecode, PastMu, PastBall, InRows
<1>1. ASSUME NEW a \in Addr, Replace(a) PROVE VInv'
  <2>1. PICK c \in Codes(a) : code' = [code EXCEPT ![a] = c]
    BY <1>1 DEF Replace
  <2>2. pc = "idle" /\ UNCHANGED <<F1600, last, pc, pk, msg, sig, mu, cHat, zp, j, i, scratch, acc, r>>
    BY <1>1 DEF Replace, args, locals
  <2>3. ChainInv'
    BY <2>1, <2>2 DEF VInv, ChainInv
  <2>4. DataInv'
    BY <2>2 DEF VInv, DataInv
  <2>5. LastInv'
    BY <2>2 DEF VInv, LastInv, VerdictIsAlgorithm3
  <2>6. QED
    BY <2>3, <2>4, <2>5 DEF VInv
<1>2. ASSUME NEW a \in Addr, Construct(a) PROVE VInv'
  <2>1. pc = "idle" /\ F1600' = a
        /\ UNCHANGED <<code, last, pc, pk, msg, sig, mu, cHat, zp, j, i, scratch, acc, r>>
    BY <1>2 DEF Construct, args, locals
  <2>2. ChainInv' /\ DataInv'
    BY <2>1 DEF VInv, ChainInv, DataInv
  <2>3. LastInv'
    BY <2>1 DEF VInv, LastInv, VerdictIsAlgorithm3
  <2>4. QED
    BY <2>2, <2>3 DEF VInv
<1>3. ASSUME NEW p \in Addr, NEW m \in Msgs, NEW s \in Sigs, Call(p, m, s) PROVE VInv'
  <2>1. pc = "idle" /\ F1600 # "none" /\ pk' = p /\ msg' = m /\ sig' = s /\ pc' = "codehash"
        /\ UNCHANGED <<code, F1600, last, mu, cHat, zp, j, i, scratch, acc, r>>
    BY <1>3 DEF Call, chain, locals
  <2>2. ChainInv' /\ DataInv'
    BY <2>1 DEF VInv, ChainInv, DataInv
  <2>3. LastInv'
    BY <2>1 DEF VInv, LastInv, VerdictIsAlgorithm3
  <2>4. QED
    BY <2>2, <2>3 DEF VInv
<1>4. CASE Codehash
  <2>1. CASE pc = "codehash" /\ code[F1600] # HelperCode /\ Return("revert")
    BY <2>1, ReturnVInv
  <2>2. CASE Continue("codehash", "decode") /\ code[F1600] = HelperCode /\ UNCHANGED locals
    <3>1. ChainInv' /\ LastInv'
      BY <2>2, ContinueVInv
    <3>2. DataInv'
      BY <2>2 DEF VInv, DataInv, Continue, locals
    <3>3. QED
      BY <3>1, <3>2 DEF VInv
  <2>3. QED
    BY <1>4, <2>1, <2>2 DEF Codehash
<1>5. CASE Reject
  <2>1. ~ Valid(Blob, msg, sig)
    BY <1>5 DEF Reject, Decoded, PkSizeOk, Valid, Blob
  <2>2. QED
    BY <1>5, <2>1, ReturnVInv DEF Reject
<1>6. ASSUME NEW from \in PastCheck, NEW to \in PastCheck, Continue(from, to)
      PROVE  /\ ChainInv' /\ LastInv' /\ Blob' = Blob /\ msg' = msg /\ sig' = sig
             /\ (Decoded' <=> Decoded)
             /\ pc = from /\ pc' = to /\ code[F1600] = HelperCode
  <2>1. pc = from /\ pc' = to
    BY <1>6 DEF Continue
  <2>2. code[F1600] = HelperCode
    BY <1>6, <2>1 DEF VInv, ChainInv
  <2>3. from # "idle"
    OBVIOUS
  <2>4. QED
    BY <1>6, <2>1, <2>2, <2>3, ContinueVInv
<1>7. CASE Decode
  <2>1. Decoded /\ Continue("decode", "mu") /\ zp' = sig.z /\ UNCHANGED <<mu, cHat, j, i, scratch, acc, r>>
    BY <1>7 DEF Decode
  <2>2. DataInv'
    BY <1>6, <2>1 DEF VInv, DataInv
  <2>3. QED
    BY <1>6, <2>1, <2>2 DEF VInv
<1>8. CASE ComputeMu
  <2>1. Continue("mu", "ball") /\ UNCHANGED <<cHat, zp, j, i, scratch, acc, r>>
        /\ mu' \in Helped(Mu(ExtCodeCopy(Blob, 1, TrLen), msg),
                         {Mu(ExtCodeCopy(Blob, 1, TrLen), m) : m \in Msgs})
    BY <1>8 DEF ComputeMu, Blob
  <2>2. mu' = Mu(ExtCodeCopy(Blob, 1, TrLen), msg)
    BY <1>6, <2>1, HelpedRight
  <2>3. Decoded /\ Blob.size = PK_SIZE + 1
    BY <1>6, <2>1 DEF VInv, DataInv, Decoded, PkSizeOk, Blob
  <2>4. 0 \in Nat /\ TrLen \in Nat /\ 0 + TrLen <= PK_SIZE
    <3>1. K * T1Len \in Nat /\ K * ALen \in Nat
      BY VerifierAssumption
    <3>2. QED
      BY <3>1, VerifierAssumption DEF PK_SIZE
  <2>5. ExtCodeCopy(Blob, 1 + 0, TrLen) = Payload(Blob, 0, TrLen)
    BY <2>3, <2>4, CopyIsPayload
  <2>6. mu' = RefMu(Blob, msg)
    BY <2>2, <2>5 DEF RefMu
  <2>7. DataInv'
    BY <1>6, <2>1, <2>3, <2>6 DEF VInv, DataInv
  <2>8. QED
    BY <1>6, <2>1, <2>7 DEF VInv
<1>9. CASE SampleChallenge
  <2>1. Continue("ball", "ntt") /\ j' = 0 /\ UNCHANGED <<mu, zp, i, scratch, acc, r>>
        /\ \E b \in Helped(Ball(sig), {Ball(s) : s \in Sigs}) : cHat' = Ntt(b)
    BY <1>9 DEF SampleChallenge
  <2>2. cHat' = Ntt(Ball(sig))
    BY <1>6, <2>1, HelpedRight
  <2>3. sig.z = [y \in Rows |-> sig.z[y]]
    BY VerifierAssumption DEF VInv, ChainInv, Rows
  <2>4. zp' = [y \in Rows |-> IF y < 0 THEN Ntt(sig.z[y]) ELSE sig.z[y]]
    BY <1>6, <2>1, <2>3, VerifierAssumption DEF VInv, DataInv, Rows
  <2>5. DataInv'
    BY <1>6, <2>1, <2>2, <2>4, VerifierAssumption DEF VInv, DataInv
  <2>6. QED
    BY <1>6, <2>1, <2>5 DEF VInv
<1>10. CASE NttZ
  <2>1. j < K /\ Continue("ntt", "ntt") /\ zp' = [zp EXCEPT ![j] = Ntt(zp[j])] /\ j' = j + 1
        /\ UNCHANGED <<mu, cHat, i, scratch, acc, r>>
    BY <1>10 DEF NttZ
  <2>2. j \in Rows /\ K \in Nat /\ j + 1 \in 0 .. K
        /\ zp = [y \in Rows |-> IF y < j THEN Ntt(sig.z[y]) ELSE sig.z[y]]
    BY <1>6, <2>1, VerifierAssumption DEF VInv, DataInv, Rows
  <2>3. zp' = [y \in Rows |-> IF y < j + 1 THEN Ntt(sig.z[y]) ELSE sig.z[y]]
    <3>1. ASSUME NEW y \in Rows
          PROVE  zp'[y] = IF y < j + 1 THEN Ntt(sig.z[y]) ELSE sig.z[y]
      <4>1. CASE y = j
        BY <2>1, <2>2, <4>1 DEF Rows
      <4>2. CASE y # j
        <5>1. y < j + 1 <=> y < j
          BY <2>2, <4>2 DEF Rows
        <5>2. QED
          BY <2>1, <2>2, <4>2, <5>1
      <4>3. QED
        BY <4>1, <4>2
    <3>2. zp' = [y \in Rows |-> zp'[y]]
      BY <2>1, <2>2
    <3>3. QED
      BY <3>1, <3>2
  <2>4. DataInv'
    BY <1>6, <2>1, <2>2, <2>3 DEF VInv, DataInv
  <2>5. QED
    BY <1>6, <2>1, <2>4 DEF VInv
<1>11. CASE NttDone
  <2>1. j >= K /\ Continue("ntt", "load") /\ i' = 0 /\ r' = [x \in Rows |-> Unset]
        /\ UNCHANGED <<mu, cHat, zp, j, scratch, acc>>
    BY <1>11 DEF NttDone
  <2>2. j = K /\ K \in Nat
        /\ zp = [y \in Rows |-> IF y < j THEN Ntt(sig.z[y]) ELSE sig.z[y]]
    BY <1>6, <2>1, VerifierAssumption DEF VInv, DataInv
  <2>3. zp = [y \in Rows |-> Ntt(sig.z[y])]
    BY <2>2 DEF Rows
  <2>4. r' = [x \in Rows |-> IF x < 0 THEN RefRow(Blob, sig, x) ELSE Unset]
    BY <2>1, <2>2 DEF Rows
  <2>5. DataInv'
    BY <1>6, <2>1, <2>2, <2>3, <2>4 DEF VInv, DataInv
  <2>6. QED
    BY <1>6, <2>1, <2>5 DEF VInv
<1>12. CASE LoadRow
  <2>1. i < K /\ Continue("load", "row") /\ UNCHANGED <<mu, cHat, zp, j, i, acc, r>>
        /\ scratch' = [a |-> ExtCodeCopy(Blob, 1 + (PK_A_OFF + i * ALen), ALen),
                       t |-> ExtCodeCopy(Blob, 1 + (PK_T1_OFF + i * T1Len), T1Len)]
    BY <1>12 DEF LoadRow, Blob
  <2>2. i \in Rows /\ Blob.size = PK_SIZE + 1
    BY <1>6, <2>1, VerifierAssumption DEF VInv, DataInv, Rows, Decoded, PkSizeOk, Blob
  <2>3. scratch'.a = Payload(Blob, PK_A_OFF + i * ALen, ALen)
    BY <2>1, <2>2, Layout, CopyIsPayload, VerifierAssumption
  <2>4. scratch'.t = Payload(Blob, PK_T1_OFF + i * T1Len, T1Len)
    BY <2>1, <2>2, Layout, CopyIsPayload, VerifierAssumption
  <2>5. scratch' = [a |-> Payload(Blob, PK_A_OFF + i * ALen, ALen),
                    t |-> Payload(Blob, PK_T1_OFF + i * T1Len, T1Len)]
    BY <2>1, <2>3, <2>4
  <2>6. DataInv'
    BY <1>6, <2>1, <2>5 DEF VInv, DataInv
  <2>7. QED
    BY <1>6, <2>1, <2>6 DEF VInv
<1>13. CASE MatVec
  <2>1. Continue("row", "inv") /\ acc' = Mat(scratch.a, zp, cHat, scratch.t)
        /\ UNCHANGED <<mu, cHat, zp, j, i, scratch, r>>
    BY <1>13 DEF MatVec
  <2>2. InvNtt(acc') = RefRow(Blob, sig, i)
    BY <1>6, <2>1 DEF VInv, DataInv, RefRow
  <2>3. DataInv'
    BY <1>6, <2>1, <2>2 DEF VInv, DataInv
  <2>4. QED
    BY <1>6, <2>1, <2>3 DEF VInv
<1>14. CASE Invert
  <2>1. Continue("inv", "load") /\ r' = [r EXCEPT ![i] = InvNtt(acc)] /\ i' = i + 1
        /\ UNCHANGED <<mu, cHat, zp, j, scratch>>
    BY <1>14 DEF Invert
  <2>2. i \in Rows /\ i + 1 \in 0 .. K /\ InvNtt(acc) = RefRow(Blob, sig, i)
        /\ r = [x \in Rows |-> IF x < i THEN RefRow(Blob, sig, x) ELSE Unset]
    BY <1>6, <2>1, VerifierAssumption DEF VInv, DataInv, Rows
  <2>3. r' = [x \in Rows |-> IF x < i + 1 THEN RefRow(Blob, sig, x) ELSE Unset]
    <3>1. ASSUME NEW x \in Rows
          PROVE  r'[x] = IF x < i + 1 THEN RefRow(Blob, sig, x) ELSE Unset
      <4>1. CASE x = i
        BY <2>1, <2>2, <4>1 DEF Rows
      <4>2. CASE x # i
        <5>1. x < i + 1 <=> x < i
          BY <2>2, <4>2 DEF Rows
        <5>2. QED
          BY <2>1, <2>2, <4>2, <5>1
      <4>3. QED
        BY <4>1, <4>2
    <3>2. r' = [x \in Rows |-> r'[x]]
      BY <2>1, <2>2
    <3>3. QED
      BY <3>1, <3>2
  <2>4. DataInv'
    BY <1>6, <2>1, <2>2, <2>3 DEF VInv, DataInv
  <2>5. QED
    BY <1>6, <2>1, <2>4 DEF VInv
<1>15. CASE RowsDone
  <2>1. i >= K /\ Continue("load", "final") /\ UNCHANGED <<mu, cHat, zp, j, i, scratch, acc, r>>
    BY <1>15 DEF RowsDone, locals
  <2>2. i = K
    BY <2>1, VerifierAssumption DEF VInv, DataInv
  <2>3. DataInv'
    BY <1>6, <2>1, <2>2 DEF VInv, DataInv
  <2>4. QED
    BY <1>6, <2>1, <2>3 DEF VInv
<1>16. CASE FinalHash
  BY <1>16, FinalIsValid, ReturnVInv DEF FinalHash
<1>17. CASE OutOfGas
  BY <1>17, ReturnVInv DEF OutOfGas
<1>18. CASE UNCHANGED vars
  <2>1. ChainInv' /\ DataInv'
    BY <1>18 DEF vars, VInv, ChainInv, DataInv, Blob, Decoded, PkSizeOk
  <2>2. LastInv'
    BY <1>18 DEF vars, VInv, LastInv, VerdictIsAlgorithm3
  <2>3. QED
    BY <2>1, <2>2 DEF VInv
<1>19. QED
  BY <1>1, <1>2, <1>3, <1>4, <1>5, <1>7, <1>8, <1>9, <1>10, <1>11, <1>12, <1>13, <1>14,
     <1>15, <1>16, <1>17, <1>18 DEF Next, Step

LEMMA TypesHold == CodesInv /\ VInv => TypeOK
  BY DEF CodesInv, VInv, ChainInv, DataInv, LastInv, TypeOK, PastCheck

(* verify() returns true exactly when Algorithm 3 accepts what the blob    *)
(* account holds, whatever was replaced between calls.                     *)
THEOREM VerifierDecidesAlgorithm3 == Spec => []VerdictIsAlgorithm3
<1>1. VInv => VerdictIsAlgorithm3
  BY DEF VInv, LastInv
<1>2. QED
  BY InitVInv, StepVInv, <1>1, PTL DEF Spec

THEOREM VerifierTypeCorrect == Spec => []TypeOK
<1>1. Init => CodesInv
  BY DEF Init, CodesInv
<1>2. QED
  BY InitVInv, StepVInv, StepCodesInv, TypesHold, <1>1, PTL DEF Spec

(* And so it does while keys are registered: whatever a deployment script  *)
(* made the code of an account, the verdict is Algorithm 3's on it.        *)
THEOREM RegisteredVerdictIsAlgorithm3 == LifeSpec => []VerdictIsAlgorithm3
<1>1. LifeInit => VInv
  BY InitVInv DEF LifeInit
<1>2. VInv /\ [LifeNext]_<<vars, keyVars>> => VInv'
  <2> SUFFICES ASSUME VInv, [LifeNext]_<<vars, keyVars>> PROVE VInv'
    OBVIOUS
  <2>1. ASSUME UNCHANGED vars PROVE VInv'
    BY <2>1, StepVInv
  <2>2. ASSUME NEW key, RunPrepare(key) \/ SkipPrepare(key) PROVE VInv'
    BY <2>1, <2>2 DEF RunPrepare, SkipPrepare
  <2>3. ASSUME NEW a, DeployPkBlob(a) PROVE VInv'
    <3>1. pc = "idle" /\ UNCHANGED <<F1600, last, pc, pk, msg, sig, mu, cHat, zp, j, i, scratch, acc, r>>
      BY <2>3 DEF DeployPkBlob, args, locals
    <3>2. ChainInv'
      BY <3>1 DEF VInv, ChainInv, PastCheck
    <3>3. DataInv'
      BY <3>1 DEF VInv, DataInv, PastCheck, PastDecode, PastMu, PastBall, InRows
    <3>4. LastInv'
      BY <3>1 DEF VInv, LastInv, VerdictIsAlgorithm3
    <3> QED BY <3>2, <3>3, <3>4 DEF VInv
  <2>4. ASSUME Next PROVE VInv'
    BY <2>4, StepVInv
  <2> QED BY <2>1, <2>2, <2>3, <2>4 DEF LifeNext
<1>3. VInv => VerdictIsAlgorithm3
  BY DEF VInv, LastInv
<1> QED BY <1>1, <1>2, <1>3, PTL DEF LifeSpec

LEMMA InitImplements == Init => Abstract!Init
  BY DEF Init, Abstract!Init, NoCall, Abstract!NoCall

(* The end of a call is one step of the interface.                         *)
LEMMA ReturnImplements ==
  ASSUME VInv, pc # "idle", NEW o \in {"revert", "true", "false"}, Return(o),
         o # "revert" => /\ code[F1600] = HelperCode
                         /\ o = IF Valid(Blob, msg, sig) THEN "true" ELSE "false"
  PROVE  Abstract!Next
<1>1. last' = Abstract!Outcome(Blob, msg, sig, o) /\ UNCHANGED <<code, F1600>>
  BY DEF Return, Outcome, Abstract!Outcome, Blob, chain
<1>2. pk \in Addr /\ msg \in Msgs /\ sig \in Sigs /\ F1600 # "none"
  BY VerifierAssumption DEF VInv, ChainInv
<1>3. Abstract!Fail(pk, msg, sig) \/ Abstract!Answer(pk, msg, sig)
  BY <1>1, <1>2 DEF Abstract!Fail, Abstract!Answer, Blob
<1>4. QED
  BY <1>2, <1>3 DEF Abstract!Next

LEMMA StepImplements == VInv /\ [Next]_vars => [Abstract!Next]_(Abstract!vars)
<1> SUFFICES ASSUME VInv, [Next]_vars
             PROVE  Abstract!Next \/ UNCHANGED <<code, F1600, last>>
  BY DEF Abstract!vars
<1>1. ASSUME NEW a \in Addr, Replace(a) PROVE Abstract!Next
  <2>1. Abstract!Replace(a)
    BY <1>1 DEF Replace, Abstract!Replace
  <2>2. QED
    BY <2>1 DEF Abstract!Next
<1>2. ASSUME NEW a \in Addr, Construct(a) PROVE Abstract!Next
  <2>1. Abstract!Deploy(a)
    BY <1>2 DEF Construct, Abstract!Deploy
  <2>2. QED
    BY <2>1 DEF Abstract!Next
<1>3. ASSUME NEW p \in Addr, NEW m \in Msgs, NEW s \in Sigs, Call(p, m, s)
      PROVE  UNCHANGED <<code, F1600, last>>
  BY <1>3 DEF Call, chain
<1>4. CASE Codehash
  <2>1. CASE pc = "codehash" /\ code[F1600] # HelperCode /\ Return("revert")
    BY <2>1, ReturnImplements
  <2>2. CASE Continue("codehash", "decode")
    BY <2>2 DEF Continue, chain
  <2>3. QED
    BY <1>4, <2>1, <2>2 DEF Codehash
<1>5. CASE Reject
  <2>1. ~ Valid(Blob, msg, sig) /\ pc = "decode" /\ Return("false")
    BY <1>5 DEF Reject, Decoded, PkSizeOk, Valid, Blob
  <2>2. code[F1600] = HelperCode
    BY <2>1 DEF VInv, ChainInv, PastCheck
  <2>3. QED
    BY <2>1, <2>2, ReturnImplements
<1>6. CASE Decode \/ ComputeMu \/ SampleChallenge \/ NttZ \/ NttDone \/ LoadRow
           \/ MatVec \/ Invert \/ RowsDone
  BY <1>6 DEF Decode, ComputeMu, SampleChallenge, NttZ, NttDone, LoadRow, MatVec, Invert,
              RowsDone, Continue, chain
<1>7. CASE FinalHash
  <2>1. PICK o \in {"true", "false"} : Return(o) /\ (o = "true" <=> Valid(Blob, msg, sig))
    BY <1>7, FinalIsValid
  <2>2. pc = "final" /\ code[F1600] = HelperCode
    BY <1>7 DEF FinalHash, VInv, ChainInv, PastCheck
  <2>3. o = IF Valid(Blob, msg, sig) THEN "true" ELSE "false"
    BY <2>1
  <2>4. QED
    BY <2>1, <2>2, <2>3, ReturnImplements
<1>8. CASE OutOfGas
  BY <1>8, ReturnImplements DEF OutOfGas
<1>9. CASE UNCHANGED vars
  BY <1>9 DEF vars
<1>10. QED
  BY <1>1, <1>2, <1>3, <1>4, <1>5, <1>6, <1>7, <1>8, <1>9 DEF Next, Step

(* The contract implements its interface: every call is one failure or one *)
(* answer, and the answer depends on the blob's code, the message and the  *)
(* signature alone.                                                        *)
THEOREM VerifierImplementsInterface == Spec => ImplementsInterface
<1>1. QED
  BY InitVInv, StepVInv, InitImplements, StepImplements, PTL
     DEF Spec, ImplementsInterface, Abstract!Spec
=============================================================================
