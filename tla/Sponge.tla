------------------------------- MODULE Sponge -------------------------------
(***************************************************************************)
(* The SHAKE256 sponge of FIPS 202, as far as its users can tell states    *)
(* apart.  The permutation is not computed: a sponge state is the sequence *)
(* of operations that led to it from the zero state, so two states are     *)
(* equal exactly when the same blocks were absorbed and the same number of *)
(* permutations applied, in the same order.                                *)
(***************************************************************************)
EXTENDS Integers, Sequences

CONSTANTS
  Rate,       (* bytes of a rate block (136)                               *)
  Bytes       (* the byte values messages are made of                      *)

ASSUME SpongeAssumption ==
  /\ Rate \in Nat /\ Rate >= 1
  /\ Bytes \subseteq 0 .. 255 /\ 0 \in Bytes

Domain == 31           (* 0x1f: the SHAKE domain bits and the first pad bit *)
Or80(b) == IF b >= 128 THEN b ELSE b + 128

Messages(n) == [0 .. n - 1 -> Bytes]

NumBlocks(n) == n \div Rate + 1

(* pad10*1 after the domain bits, byte-aligned: the first padding byte is  *)
(* 0x1f, the last one has bit 0x80, and they may be the same byte.         *)
Padded(msg, n) ==
  [x \in 0 .. NumBlocks(n) * Rate - 1 |->
     IF x < n THEN msg[x]
     ELSE LET b == IF x = n THEN Domain ELSE 0
          IN  IF x = NumBlocks(n) * Rate - 1 THEN Or80(b) ELSE b]

BlockAt(p, off) == [x \in 0 .. Rate - 1 |-> p[off + x]]

Absorb(b) == [op |-> "absorb", block |-> b]
Permute   == [op |-> "permute"]
Zero      == <<>>

(* The state after the whole padded message has been absorbed. *)
Absorbed(msg, n) ==
  [k \in 1 .. 2 * NumBlocks(n) |->
     IF k % 2 = 1 THEN Absorb(BlockAt(Padded(msg, n), (k \div 2) * Rate)) ELSE Permute]

(* The state after d further permutations. *)
Permuted(s, d) == [k \in 1 .. Len(s) + d |-> IF k <= Len(s) THEN s[k] ELSE Permute]

(* Byte x of the output stream: byte x % Rate of its squeeze block. *)
OutByte(msg, n, x) == <<Permuted(Absorbed(msg, n), x \div Rate), x % Rate>>

Shake(msg, n, outLen) == [x \in 0 .. outLen - 1 |-> OutByte(msg, n, x)]
=============================================================================
