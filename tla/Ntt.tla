-------------------------------- MODULE Ntt --------------------------------
(***************************************************************************)
(* The lanes of src/Ntt.sol: nttFwV3 on 64 words of four lanes, lane l of  *)
(* word i (the code's 0 .. 3, here 1 .. 4) being coefficient 4i + l.       *)
(* Lanes are lazy: they are congruent to a coefficient and not reduced.    *)
(*                                                                         *)
(* The two-step Barrett reduction of a product leaves the residue or the   *)
(* residue plus Q (FormalProofs); slack says which, for each lane.         *)
(***************************************************************************)
EXTENDS Integers, Sequences

CONSTANTS
  Q,               (* the modulus                                          *)
  FwT,             (* nttFwTable: the powers of psi, bits reversed         *)
  InvT             (* nttInvTable: their inverses                          *)

Words == 0 .. 63
Lanes == 1 .. 4

ASSUME NttAssumption ==
  /\ Q \in Nat /\ Q > 1
  /\ FwT \in [0 .. 255 -> 0 .. Q - 1]
  /\ InvT \in [0 .. 255 -> 0 .. Q - 1]
  /\ \A j \in 0 .. 255 : (FwT[j] * InvT[j]) % Q = 1

Mulmod(x, s) == ((x % Q) * s) % Q

(* A word times a twiddle, each lane reduced by the two Barrett steps.     *)
Twiddled(x, s, slack) == [l \in Lanes |-> Mulmod(x[l], s) + slack[l]]

Plus(u, v) == [l \in Lanes |-> u[l] + v[l]]
Minus(u, offset, v) == [l \in Lanes |-> u[l] + offset - v[l]]

(* The table entry of word w in a layer that pairs words t apart.          *)
TwiddleIndex(w, t) == (32 \div t) + w \div (2 * t)
IsLow(w, t) == (w \div t) % 2 = 0

(* The octets of passes A and B. *)
OctetA(i) == {w \in Words : w % 8 = i}
OctetB(o) == {w \in Words : w \div 8 = o}

(* One layer of an octet: u + V and u + 2q - V.  The code keeps the octet  *)
(* on the stack between its three layers; here it stays in its words.      *)
ForwardLayer(m, octet, t, slack) ==
  LET S(w) == FwT[TwiddleIndex(w, t)]
  IN  [w \in Words |->
         IF w \notin octet THEN m[w]
         ELSE IF IsLow(w, t) THEN Plus(m[w], Twiddled(m[w + t], S(w), slack))
         ELSE Minus(m[w - t], 2 * Q, Twiddled(m[w], S(w), slack))]

(* Mutant: the two twiddles of layer 8 change places. *)
ForwardWordSwapped(x, w) ==
  LET v2 == Mulmod(x[3], FwT[64 + w])
      v3 == Mulmod(x[4], FwT[64 + w])
      l0 == x[1] + v2
      l2 == x[1] + 2 * Q - v2
      ya == Mulmod(x[2] + v3, FwT[129 + 2 * w])
      yb == Mulmod(x[2] + 2 * Q - v3, FwT[128 + 2 * w])
  IN  <<l0 + ya, l0 + 2 * Q - ya, l2 + yb, l2 + 2 * Q - yb>>

(* Layers 7 and 8, inside word w, by mulmod. *)
ForwardWord(x, w) ==
  LET v2 == Mulmod(x[3], FwT[64 + w])
      v3 == Mulmod(x[4], FwT[64 + w])
      l0 == x[1] + v2
      l2 == x[1] + 2 * Q - v2
      ya == Mulmod(x[2] + v3, FwT[128 + 2 * w])
      yb == Mulmod(x[2] + 2 * Q - v3, FwT[129 + 2 * w])
  IN  <<l0 + ya, l0 + 2 * Q - ya, l2 + yb, l2 + 2 * Q - yb>>
=============================================================================
