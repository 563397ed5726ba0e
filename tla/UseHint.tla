------------------------------ MODULE UseHint ------------------------------
(***************************************************************************)
(* src/Decode.sol: useHintSwar, which applies the hints to the four rows   *)
(* and writes w1Encode of the result.  A turn of its loop takes eight words*)
(* of four lanes, reverses the bytes of their 24-byte result and stores it *)
(* as one 32-byte word: the eight bytes too many are written over by the   *)
(* next turn or, at the end, lie in the slack of the buffer.               *)
(*                                                                         *)
(* A lane's quotient and thresholds are those FormalProofs shows the       *)
(* packed constants to compute.                                            *)
(***************************************************************************)
EXTENDS Integers

CONSTANTS
  Q, D,            (* the modulus and 2 gamma2                             *)
  Polys,           (* how many rows (4 in the code)                        *)
  Dirt             (* what a byte of the raw buffer holds                  *)

Coefficients == 0 .. 255
M == (Q - 1) \div D        (* 44 in the code                              *)

VARIABLES
  input,           (* the rows' coefficients [r] and their hints [h]        *)
  i,               (* the row                                              *)
  src,             (* the first coefficient of the turn                    *)
  hm,              (* the row's hints, shifted                             *)
  dst,             (* where the turn writes                                *)
  w1               (* the 24 * 8 bytes of each row, and 32 more            *)

Size == 192 * Polys

(* OUT of a lane: Q0 + C, adjusted by 1 or by -1 = M - 1, modulo M.        *)
Out(h, r) ==
  LET q0  == r \div D
      r0  == r - q0 * D
      c   == IF r0 > D \div 2 THEN 1 ELSE 0
      neg == r0 = 0 \/ c = 1
      adj == IF h = 0 THEN 0 ELSE IF neg THEN M - 1 ELSE 1
  IN  (q0 + c + adj) % M

(* What lands at bit 174 of OUT * GATHERK: the lanes, six bits each.       *)
Field(word, nibble) ==
  LET lane(k) == Out(nibble[k], word[k])
  IN  lane(0) + 64 * lane(1) + 4096 * lane(2) + 262144 * lane(3)

(* L: 24 bytes of fields under eight of zero, least significant first.     *)
Chunk(r, h) ==
  [n \in 0 .. 31 |->
     IF n >= 24 THEN 0
     ELSE LET w == n \div 3
              word   == [k \in 0 .. 3 |-> r[src + 4 * w + k]]
              nibble == [k \in 0 .. 3 |-> h[4 * w + k]]
          IN  (Field(word, nibble) \div <<1, 256, 65536>>[(n % 3) + 1]) % 256]

(* The bytes that stand n apart change places. *)
Exchange(bytes, n) ==
  [k \in 0 .. 31 |-> bytes[IF (k \div n) % 2 = 0 THEN k + n ELSE k - n]]

(* Mutant: the halves of the word do not change places. *)
ReversedHalves(bytes) ==
  Exchange(Exchange(Exchange(Exchange(bytes, 1), 2), 4), 8)

Reversed(bytes) ==
  Exchange(Exchange(Exchange(Exchange(Exchange(bytes, 1), 2), 4), 8), 16)

(* mstore: the most significant byte comes first. *)
Mstore(mem, at, bytes) ==
  [n \in DOMAIN mem |-> IF n \in at .. at + 31 THEN bytes[31 - (n - at)] ELSE mem[n]]

Advance(d) == d + 24

(* One turn of the inner loop; after a row's last, the next row's hints.   *)
Turn ==
  /\ i < Polys
  /\ w1' = Mstore(w1, dst, Reversed(Chunk(input[i].r, hm)))
  /\ dst' = Advance(dst)
  /\ IF src + 32 < 256
     THEN /\ src' = src + 32
          /\ hm' = [n \in Coefficients |-> IF n + 32 < 256 THEN hm[n + 32] ELSE 0]
          /\ UNCHANGED i
     ELSE /\ i' = i + 1 /\ src' = 0
          /\ hm' = IF i + 1 < Polys THEN input[i + 1].h ELSE hm
  /\ UNCHANGED input

-----------------------------------------------------------------------------
(* FIPS 204, Algorithms 36, 37, 40: the high bits, moved by the hint.      *)
Centred(r) == IF r % D > D \div 2 THEN (r % D) - D ELSE r % D
HighBits(r) == IF r - Centred(r) = Q - 1 THEN 0 ELSE (r - Centred(r)) \div D
LowBits(r) == IF r - Centred(r) = Q - 1 THEN Centred(r) - 1 ELSE Centred(r)
Hinted(h, r) ==
  IF h = 0 THEN HighBits(r)
  ELSE IF LowBits(r) > 0 THEN (HighBits(r) + 1) % M ELSE (HighBits(r) - 1) % M

(* Algorithm 28: bit n of w1Encode is bit n % 6 of coefficient n div 6.    *)
Power2 == <<1, 2, 4, 8, 16, 32, 64, 128>>
Byte(bit(_), n) ==
  bit(n) + 2 * bit(n + 1) + 4 * bit(n + 2) + 8 * bit(n + 3)
    + 16 * bit(n + 4) + 32 * bit(n + 5) + 64 * bit(n + 6) + 128 * bit(n + 7)
EncodedByte(n) ==
  LET row == input[n \div 192]
      bit(b) == (Hinted(row.h[b \div 6], row.r[b \div 6]) \div Power2[(b % 6) + 1]) % 2
  IN  Byte(bit, 8 * (n % 192))

(* What is behind dst is final: the turns done leave that prefix of        *)
(* w1Encode of the rows with their hints applied, whatever the raw buffer  *)
(* held and however the stores overlap; after the last turn it is the whole*)
(* output, and no store has passed the buffer.                             *)
PrefixIsEncoded ==
  /\ \A n \in 0 .. dst - 1 : n < Size => w1[n] = EncodedByte(n)
  /\ i < Polys => dst + 31 \in DOMAIN w1
  /\ i = Polys => dst = Size
=============================================================================
