---------------------------- MODULE MCSigDecode ----------------------------
(***************************************************************************)
(* An instance of the decoders: z has two polynomials of four quads of     *)
(* four 6-bit fields, gamma1 = 32, beta = 3, q = 97.  All coefficients but *)
(* one are the same good value; that one, anywhere, is zero, the largest   *)
(* or smallest in the bound, one more or less, or an end of the range.     *)
(***************************************************************************)
EXTENDS UnpackZ

(* BitPack of 32 coefficients. *)
Pack(z) ==
  LET bit(k) == ((ZGamma1 - z[k \div FieldBits]) \div 2 ^ (k % FieldBits)) % 2
      sum(c) == LET s[k \in 0 .. 8] == IF k = 8 THEN 0 ELSE bit(8 * c + k) * 2 ^ k + s[k + 1]
                IN  s[0]
  IN  [c \in 1 .. 24 |-> sum(c - 1)]

Odd(n, v) == [c \in 0 .. 31 |-> IF c = n THEN v ELSE 11 - c]

MCInputs == { Pack(Odd(n, v)) : n \in 0 .. 31, v \in {0, 28, 29, 32, -28, -29, -31} }
MCDirt   == {77}
=============================================================================
