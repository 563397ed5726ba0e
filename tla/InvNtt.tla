------------------------------- MODULE InvNtt -------------------------------
(***************************************************************************)
(* The lanes of src/InvNtt.sol: nttInvV3, whose first two layers take the  *)
(* raw lanes of the accumulator and whose last one scales and reduces.     *)
(***************************************************************************)
EXTENDS Ntt

CONSTANTS
  NINV,            (* 1 / 256                                              *)
  ACCQ30, ACCQ31   (* the offsets of layers 1 and 2: multiples of Q        *)

ASSUME InvNttAssumption ==
  /\ NINV \in 0 .. Q - 1 /\ (256 * NINV) % Q = 1
  /\ ACCQ30 \in Nat /\ ACCQ30 % Q = 0
  /\ ACCQ31 \in Nat /\ ACCQ31 % Q = 0

(* psirev_inv[1] / 256 *)
S8P == (InvT[1] * NINV) % Q

(* Mutant: the sum of the sums is not reduced. *)
EntryWordUnreduced(x, w) ==
  LET s01 == x[1] + x[2]
      s23 == x[3] + x[4]
      d01 == Mulmod(x[1] + ACCQ30 - x[2], InvT[128 + 2 * w])
      d23 == Mulmod(x[3] + ACCQ30 - x[4], InvT[129 + 2 * w])
      Sc  == InvT[64 + w]
  IN  <<s01 + s23, d01 + d23,
        Mulmod(s01 + ACCQ31 - s23, Sc), Mulmod(d01 + 2 * Q - d23, Sc)>>

(* Layers 1 and 2, inside word w: only d01 + d23 is not canonical.         *)
EntryWord(x, w) ==
  LET s01 == x[1] + x[2]
      s23 == x[3] + x[4]
      d01 == Mulmod(x[1] + ACCQ30 - x[2], InvT[128 + 2 * w])
      d23 == Mulmod(x[3] + ACCQ30 - x[4], InvT[129 + 2 * w])
      Sc  == InvT[64 + w]
  IN  <<(s01 + s23) % Q, d01 + d23,
        Mulmod(s01 + ACCQ31 - s23, Sc), Mulmod(d01 + 2 * Q - d23, Sc)>>

(* The quads of layers 3 and 4, 5 and 6, 7 and 8. *)
Quad34(i) == {w \in Words : w \div 4 = i}
Quad56(i) == {w \in Words : w \div 16 = i \div 4 /\ w % 4 = i % 4}
Quad78(i) == {w \in Words : w % 16 = i}

(* Mutant: the offset grows as if the lanes were canonical. *)
OffsetCanonical(t) == t * Q

(* Q4_4 .. Q4_64: what a layer that pairs words t apart adds before it     *)
(* subtracts.                                                              *)
Offset(t) == 4 * t * Q

(* One layer of a quad: u + v and (u + Kq - v) S. *)
InverseLayer(m, quad, t, slack) ==
  LET S(w) == InvT[TwiddleIndex(w, t)]
  IN  [w \in Words |->
         IF w \notin quad THEN m[w]
         ELSE IF IsLow(w, t) THEN Plus(m[w], m[w + t])
         ELSE Twiddled(Minus(m[w - t], Offset(t), m[w]), S(w), slack)]

(* Q4_128 between the sums of layer 7, TWOQ4 between its differences.      *)
LastOffset(w) == IF w % 32 < 16 THEN 128 * Q ELSE 2 * Q

(* Layer 8, scaled and canonical. *)
LastLayer(m, quad) ==
  [w \in Words |->
     IF w \notin quad THEN m[w]
     ELSE [l \in Lanes |->
             IF w < 32 THEN Mulmod(m[w][l] + m[w + 32][l], NINV)
             ELSE Mulmod(m[w - 32][l] + LastOffset(w) - m[w][l], S8P)]]
=============================================================================
