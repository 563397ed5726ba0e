------------------------------ MODULE BallSpec ------------------------------
(***************************************************************************)
(* What SampleInBall promises (FIPS 204, Algorithm 29): a Fisher-Yates     *)
(* style draw that reads one byte of a stream at a time, skips a byte that *)
(* is larger than the current index, and otherwise moves lane j to lane i  *)
(* and puts +1 or -1, taken from the fixed sign bits h, in lane j.  Blocks,*)
(* buffers and refills do not exist at this level.  This is the            *)
(* specification sampleInBallPacked of src/Decode.sol implements           *)
(* (SampleInBall, SampleInBallProofs).                                     *)
(***************************************************************************)
EXTENDS Integers, Sequences

CONSTANTS
  N,          (* lanes of the polynomial and number of byte values (256)   *)
  Tau,        (* non-zero lanes of the challenge (39)                      *)
  MinusOne    (* the lane value that stands for -1 (q - 1)                 *)

VARIABLES
  h,          (* the sign bits, one per draw; <<>> until they are squeezed *)
  read,       (* every byte read from the stream so far                    *)
  i,          (* index of the current draw, N - Tau .. N                   *)
  c           (* the polynomial                                            *)

vars == <<h, read, i, c>>

Lanes == 0 .. N - 1
Signed(bit) == IF bit = 1 THEN MinusOne ELSE 1

Init ==
  /\ h = <<>>
  /\ read = <<>>
  /\ i = N - Tau
  /\ c = [k \in Lanes |-> 0]

(* The sign bits are squeezed once, before the first draw. *)
TakeSigns ==
  /\ h = <<>>
  /\ h' \in [0 .. Tau - 1 -> {0, 1}]
  /\ UNCHANGED <<read, i, c>>

(* A byte above i is consumed and has no other effect. *)
Skip(b) ==
  /\ h # <<>>
  /\ i < N
  /\ b > i
  /\ read' = Append(read, b)
  /\ UNCHANGED <<h, i, c>>

(* A byte up to i completes draw i. *)
Draw(b) ==
  /\ h # <<>>
  /\ i < N
  /\ b <= i
  /\ read' = Append(read, b)
  /\ c' = [[c EXCEPT ![i] = c[b]] EXCEPT ![b] = Signed(h[i + Tau - N])]
  /\ i' = i + 1
  /\ UNCHANGED h

Next == TakeSigns \/ \E b \in Lanes : Skip(b) \/ Draw(b)

Spec == Init /\ [][Next]_vars
=============================================================================
