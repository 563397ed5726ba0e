----------------------------- MODULE XofReader -----------------------------
(***************************************************************************)
(* The three ways the Python code reads an extendable output: the wrapper  *)
(* Shake of shake/shake_wrapper.py, which re-digests into a buffer twice   *)
(* as long when it runs out; Keccak256PRNG of keccak_prng_wrapper.py,      *)
(* which hashes state and counter into one block at a time; and the plain  *)
(* digests of prepare/mldsa_min.py.  A reader is the record of its fields, *)
(* a read is the sequence of stream positions it returns and the reader    *)
(* after it.                                                               *)
(***************************************************************************)
EXTENDS Integers, Sequences, FiniteSetsExt

CONSTANTS
  Block,      (* bytes of an XOF block: 136 or 168                         *)
  Out,        (* bytes of a Keccak block (32)                              *)
  MinBlock    (* bytes mldsa_min.sample_in_ball digests first (136)        *)

ReaderAssumption == {Block, Out, MinBlock} \subseteq Nat \ {0}

Interval(a, b) == [k \in 1 .. b - a |-> a + k - 1]    (* a .. b - 1 in order *)

(* Shake.absorb and Shake.read: the length doubles until the read fits,    *)
(* which takes fewer turns than the bytes needed; a slice past the buffer  *)
(* would come back short.                                                  *)
ShakeAbsorbed == [index |-> 0, len |-> 5 * Block]
Grown(len, need) ==
  LET l[k \in 0 .. need] == IF k = 0 THEN len ELSE 2 * l[k - 1]
      Fits(k) == l[k] >= need
  IN  l[CHOOSE k \in 0 .. need : Fits(k) /\ (k > 0 => ~ Fits(k - 1))]
ShakePositions(r, n) ==
  LET len == Grown(r.len, r.index + n)
  IN  Interval(r.index, Min({r.index + n, len}))
ShakeAfter(r, n) == [index |-> r.index + n, len |-> Grown(r.len, r.index + n)]

(* Keccak256PRNG: flip hashes what was injected and empties the output     *)
(* buffer; extract first hands out what the last block has left and then   *)
(* makes new blocks.                                                       *)
KeccakFlipped == [counter |-> 0, pos |-> 0, len |-> 0]
Left(r) == r.len - r.pos
Fresh(r, n) == IF n > Left(r) THEN n - Left(r) ELSE 0
Blocks(r, n) == (Fresh(r, n) + Out - 1) \div Out
KeccakPositions(r, n) ==
  Interval(r.counter * Out - Left(r), r.counter * Out - Left(r) + n - Fresh(r, n))
    \o Interval(r.counter * Out, r.counter * Out + Fresh(r, n))

(* Mutant: the position in the last block is not kept. *)
KeccakAfterWhole(r, n) ==
  IF Fresh(r, n) = 0
  THEN [r EXCEPT !.pos = @ + n]
  ELSE [counter |-> r.counter + Blocks(r, n), pos |-> Out, len |-> Out]

KeccakAfter(r, n) ==
  IF Fresh(r, n) = 0
  THEN [r EXCEPT !.pos = @ + n]
  ELSE [counter |-> r.counter + Blocks(r, n),
        pos |-> Fresh(r, n) - (Blocks(r, n) - 1) * Out,
        len |-> Out]

(* mldsa_min: digest again, twice as long, when the next byte is missing.  *)
MinAbsorbed == [index |-> 0, len |-> MinBlock]
MinAfter(r, n) ==
  [index |-> r.index + n,
   len   |-> IF r.index >= r.len THEN 2 * r.len ELSE r.len]
MinPositions(r, n) == Interval(r.index, Min({r.index + n, MinAfter(r, n).len}))

Opened(kind) ==
  CASE kind = "shake"  -> ShakeAbsorbed
    [] kind = "keccak" -> KeccakFlipped
    [] kind = "digest" -> MinAbsorbed
Positions(kind, r, n) ==
  CASE kind = "shake"  -> ShakePositions(r, n)
    [] kind = "keccak" -> KeccakPositions(r, n)
    [] kind = "digest" -> MinPositions(r, n)
After(kind, r, n) ==
  CASE kind = "shake"  -> ShakeAfter(r, n)
    [] kind = "keccak" -> KeccakAfter(r, n)
    [] kind = "digest" -> MinAfter(r, n)
=============================================================================
