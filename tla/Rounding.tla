------------------------------ MODULE Rounding ------------------------------
(***************************************************************************)
(* The coefficient arithmetic of the Python reference:                     *)
(* pythonref/dilithium_py/utilities/utils.py and power_2_round of          *)
(* polynomials.py.  Python's % and // are TLA+'s % and \div; a shift right *)
(* by d is a division by 2^d that rounds down.                             *)
(***************************************************************************)
EXTENDS Integers

CONSTANTS
  Q,          (* the modulus (8380417)                                     *)
  Gamma2,     (* half the rounding step: 95232 or 261888                   *)
  M           (* number of high-bits values: 44 or 16                      *)

(* (q - 1) / (2 gamma_2) is an integer for every entry of                  *)
(* dilithium/default_parameters.py.                                        *)
ASSUME RoundingAssumption ==
  /\ Gamma2 \in Nat /\ Gamma2 >= 1
  /\ M \in Nat /\ M >= 2
  /\ Q = M * (2 * Gamma2) + 1

Alpha == 2 * Gamma2

(* reduce_mod_pm *)
ReduceModPm(x, n) ==
  LET r == x % n
  IN  IF r > n \div 2 THEN r - n ELSE r

(* decompose: the top residue class is folded onto r1 = 0. *)
Decompose(r, a) ==
  LET rp == r % Q
      r0 == ReduceModPm(rp, a)
  IN  IF rp - r0 = Q - 1 THEN <<0, r0 - 1>> ELSE <<(rp - r0) \div a, r0>>

HighBits(r, a) == Decompose(r, a)[1]
LowBits(r, a)  == Decompose(r, a)[2]

(* make_hint(z, r, a, q): does adding z to r change the high bits? *)
MakeHint(z, r, a) == IF HighBits(r, a) # HighBits(r + z, a) THEN 1 ELSE 0

(* use_hint: one step up or down, cyclically. *)
UseHint(h, r, a) ==
  LET m == (Q - 1) \div a
      d == Decompose(r, a)
  IN  IF h = 1
      THEN IF d[2] > 0 THEN (d[1] + 1) % m ELSE (d[1] - 1) % m
      ELSE d[1]

(* x ^ (x >> 31) on an integer that fits 32 bits *)
FlipNegative(x) == IF x < 0 THEN -x - 1 ELSE x

(* check_norm_bound: TRUE when the centred magnitude reaches the bound. *)
NormFails(n, b) ==
  LET half == (Q - 1) \div 2
  IN  half - FlipNegative(half - (n % Q)) >= b

(* power_2_round on one coefficient; p is 2^d. *)
Power2Round(c, p) ==
  LET r  == c % Q
      r0 == ReduceModPm(r, p)
  IN  <<(r - r0) \div p, r0>>
=============================================================================
