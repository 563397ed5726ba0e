---------------------------- MODULE SampleInBall ----------------------------
(***************************************************************************)
(* sampleInBallPacked of src/Decode.sol: the challenge polynomial, drawn   *)
(* from a SHAKE256 stream that arrives in rate-sized blocks.               *)
(*                                                                         *)
(* The permutation is an oracle: xof is the sequence of blocks it has      *)
(* produced so far, and st, the sponge state, is the number of times it    *)
(* has been applied.  Squeezing is reading block st, so squeezing twice    *)
(* without a permutation in between would yield the same bytes.            *)
(***************************************************************************)
EXTENDS Integers, Sequences, FiniteSets

CONSTANTS
  N,          (* lanes of the polynomial and number of byte values (256)   *)
  Tau,        (* draws (39)                                                *)
  Rate,       (* bytes of a squeeze block (136)                            *)
  ByteBits,   (* bits of a byte (8)                                        *)
  SignBytes,  (* bytes of the sign word, lane 0 of the state (8)           *)
  Q,          (* the modulus (8380417)                                     *)
  MaxBlocks   (* bound: blocks squeezed in one behaviour                   *)

ASSUME SampleAssumption ==
  /\ N \in Nat /\ Tau \in Nat /\ Rate \in Nat /\ ByteBits \in Nat
  /\ SignBytes \in Nat /\ Q \in Nat /\ MaxBlocks \in Nat
  /\ 1 <= Tau /\ Tau <= N
  /\ SignBytes <= Rate /\ 1 <= Rate
  /\ Tau <= SignBytes * ByteBits
  /\ Q >= 3

VARIABLES
  pc,         (* "absorb", "scan", "refill", "done" or "reverted"          *)
  xof,        (* blocks the permutation has produced (oracle)              *)
  st,         (* sponge state: how often f1600 has been applied            *)
  buf,        (* the squeeze buffer at bp                                  *)
  signInt,    (* the sign word as its bits, least significant first        *)
  pos,        (* next unread byte of buf                                   *)
  i,          (* index of the current draw                                 *)
  j,          (* last byte of the rejection scan, or the sentinel          *)
  c,          (* the packed polynomial                                     *)
  used        (* history: every byte the scan has read                     *)

vars == <<pc, xof, st, buf, signInt, pos, i, j, c, used>>

Bytes    == 0 .. N - 1
Lanes    == 0 .. N - 1
Blocks   == [0 .. Rate - 1 -> Bytes]
SignBits == SignBytes * ByteBits
Sentinel == N
MinusOne == Q - 1
Start    == N - Tau

(* mload(st): the first SignBytes squeezed bytes, little-endian. *)
SignWord(b) ==
  [k \in 0 .. SignBits - 1 |->
     IF (b[k \div ByteBits] \div 2^(k % ByteBits)) % 2 = 1 THEN 1 ELSE 0]

(* shr(1, signInt) *)
ShiftRight(w) ==
  [k \in 0 .. SignBits - 1 |-> IF k + 1 < SignBits THEN w[k + 1] ELSE 0]

(* add(1, mul(and(signInt, 1), q - 2)) *)
SignValue(w) == 1 + w[0] * (Q - 2)

(* The plain OR that stores c[j] into lane i.  It is an assignment as long *)
(* as one operand is zero; 1 | (q - 1) is q, since q - 1 is even.          *)
LaneOr(a, b) == IF a = 0 \/ a = b THEN b ELSE IF b = 0 THEN a ELSE Q

Init ==
  /\ pc = "absorb"
  /\ xof = <<>>
  /\ st = 0
  /\ buf = [k \in 0 .. Rate - 1 |-> 0]
  /\ signInt = [k \in 0 .. SignBits - 1 |-> 0]
  /\ pos = SignBytes
  /\ i = Start
  /\ j = Sentinel
  /\ c = [k \in Lanes |-> 0]
  /\ used = <<>>

(* f1600Fast170 followed by _squeezeBlockFast170: a fresh block. *)
PermuteAndSqueeze(b) ==
  /\ Len(xof) < MaxBlocks
  /\ st' = st + 1
  /\ xof' = Append(xof, b)
  /\ buf' = xof'[st']

(* Absorb c~ and the padding, permute, squeeze, take the sign word. *)
Absorb(b) ==
  /\ pc = "absorb"
  /\ PermuteAndSqueeze(b)
  /\ signInt' = SignWord(b)
  /\ pos' = SignBytes
  /\ pc' = "scan"
  /\ UNCHANGED <<i, j, c, used>>

(* One turn of the rejection scan: read a byte. *)
ScanByte ==
  /\ pc = "scan"
  /\ j > i
  /\ pos < Rate
  /\ j' = buf[pos]
  /\ pos' = pos + 1
  /\ used' = Append(used, buf[pos])
  /\ UNCHANGED <<pc, xof, st, buf, signInt, i, c>>

(* The block is used up and the scan holds no byte <= i: leave the loop    *)
(* with i where it is.                                                     *)
Exhaust ==
  /\ pc = "scan"
  /\ j > i
  /\ pos >= Rate
  /\ pc' = "refill"
  /\ UNCHANGED <<xof, st, buf, signInt, pos, i, j, c, used>>

(* Mutant: lane j is overwritten before it is moved. *)
SwapAndSetLate ==
  /\ pc = "scan"
  /\ j <= i
  /\ c' = [[c EXCEPT ![j] = SignValue(signInt)]
                    EXCEPT ![i] = LaneOr(c[i], SignValue(signInt))]
  /\ signInt' = ShiftRight(signInt)
  /\ i' = i + 1
  /\ j' = Sentinel
  /\ pc' = IF i + 1 < N THEN "scan" ELSE "done"
  /\ UNCHANGED <<xof, st, buf, pos, used>>

(* Draw i: c[i] |= c[j], then c[j] := v; the next draw starts its scan     *)
(* from the sentinel.                                                      *)
SwapAndSet ==
  /\ pc = "scan"
  /\ j <= i
  /\ c' = [[c EXCEPT ![i] = LaneOr(c[i], c[j])] EXCEPT ![j] = SignValue(signInt)]
  /\ signInt' = ShiftRight(signInt)
  /\ i' = i + 1
  /\ j' = Sentinel
  /\ pc' = IF i + 1 < N THEN "scan" ELSE "done"
  /\ UNCHANGED <<xof, st, buf, pos, used>>

(* Mutant: the buffer is read again from the byte after the sign word. *)
RefillAtSignBytes(b) ==
  /\ pc = "refill"
  /\ PermuteAndSqueeze(b)
  /\ pos' = SignBytes
  /\ j' = Sentinel
  /\ pc' = "scan"
  /\ UNCHANGED <<signInt, i, c, used>>

(* Permute, squeeze, and restart the same draw at the first new byte. *)
Refill(b) ==
  /\ pc = "refill"
  /\ PermuteAndSqueeze(b)
  /\ pos' = 0
  /\ j' = Sentinel
  /\ pc' = "scan"
  /\ UNCHANGED <<signInt, i, c, used>>

(* require(ok, ...) in f1600Fast170: the helper call failed. *)
HelperFails ==
  /\ pc \in {"absorb", "refill"}
  /\ pc' = "reverted"
  /\ UNCHANGED <<xof, st, buf, signInt, pos, i, j, c, used>>

Next ==
  \/ \E b \in Blocks : Absorb(b) \/ Refill(b)
  \/ ScanByte
  \/ Exhaust
  \/ SwapAndSet
  \/ HelperFails

Spec == Init /\ [][Next]_vars

-----------------------------------------------------------------------------
TypeOK ==
  /\ pc \in {"absorb", "scan", "refill", "done", "reverted"}
  /\ xof \in Seq(Blocks)
  /\ st = Len(xof)
  /\ buf \in Blocks
  /\ signInt \in [0 .. SignBits - 1 -> {0, 1}]
  /\ pos \in 0 .. Rate
  /\ i \in Start .. N
  /\ j \in 0 .. N
  /\ c \in [Lanes -> {0, 1, MinusOne}]
  /\ used \in Seq(Bytes)

(* The m-th byte of the SHAKE256 stream. *)
StreamByte(m) == xof[(m \div Rate) + 1][m % Rate]

(* The polynomial always has exactly one non-zero lane per completed draw, *)
(* so the one sampleInBallPacked returns has weight tau: no draw overwrites *)
(* another, loses the lane it moves, or merges two lanes in the OR.        *)
NonZero == {k \in Lanes : c[k] # 0}
WeightIsDraws == Cardinality(NonZero) = i - Start

(* The claim the plain OR rests on ("lane i has never been written"): no   *)
(* lane at or above the current index holds anything yet.                  *)
UpperLanesZero == \A k \in Lanes : k >= i => c[k] = 0

(* The scan reads the stream byte by byte from the first one after the     *)
(* sign word, across refills: no byte is skipped, read twice, or read from *)
(* a block that was not permuted.                                          *)
StreamInOrder ==
  /\ used # <<>> => Len(used) = (st - 1) * Rate + pos - SignBytes
  /\ \A k \in 1 .. Len(used) : used[k] = StreamByte(SignBytes + k - 1)

-----------------------------------------------------------------------------
(* Refinement of Algorithm 29: h is the sign word before any shift, and a  *)
(* byte that is accepted counts as read when its draw is carried out.      *)
Accepted == pc = "scan" /\ j <= i
ReadByDraws == IF Accepted THEN SubSeq(used, 1, Len(used) - 1) ELSE used
SignsTaken ==
  IF xof = <<>> THEN <<>> ELSE [k \in 0 .. Tau - 1 |-> SignWord(xof[1])[k]]

Ball == INSTANCE BallSpec WITH h <- SignsTaken, read <- ReadByDraws

(* Every step of the packed, block-wise sampler is a step of Algorithm 29  *)
(* on the same byte stream, or changes nothing Algorithm 29 can see.       *)
ImplementsAlgorithm29 == Ball!Spec
=============================================================================
