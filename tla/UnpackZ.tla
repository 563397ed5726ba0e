------------------------------ MODULE UnpackZ ------------------------------
(***************************************************************************)
(* unpackZPacked and _unpackZPoly of src/Decode.sol: the z decoder, one    *)
(* quad of fields at a time.  The verdicts of a polynomial gather in the   *)
(* word at memory address 0, as the set of lanes whose flag bit is set;    *)
(* that word and the result's memory hold anything before.                 *)
(*                                                                         *)
(* A lane of a quad is one number; that the packed expressions treat lanes *)
(* apart and that the byte terms of a group are its fields is proved of    *)
(* the code's numbers in FormalProofs.                                     *)
(*                                                                         *)
(* At the end, both decoders of a signature in verify()'s order: the hints,*)
(* and z only if they are accepted.                                        *)
(***************************************************************************)
EXTENDS HintUnpack, Sequences

CONSTANTS
  L,             (* polynomials (4)                                        *)
  Blocks,        (* turns of the loop (16)                                 *)
  Quads,         (* quads of a turn, unrolled (4)                          *)
  ZLanes,        (* lanes of a quad (4)                                    *)
  FieldBits,     (* 18                                                     *)
  ZGamma1, ZBeta, ZQ,
  FlagBit,       (* 2^32                                                   *)
  ZInputs,       (* encodings of z, as sequences of bytes                  *)
  Dirt           (* what the result's words may hold before                *)

VARIABLES zin, zpc, p, b, scratch, fail, zp, normOk

zvars == <<zin, zpc, p, b, scratch, fail, zp, normOk>>

GroupBytes == (ZLanes * FieldBits) \div 8
PolyBytes  == Blocks * Quads * GroupBytes
PolyWords  == 0 .. Blocks * Quads - 1
LaneSet    == 0 .. ZLanes - 1

(* 2^n, and the number of the digits d[0] .. d[n - 1] in base 2^w, lowest  *)
(* digit first.                                                            *)
Power(n) ==
  LET s[k \in 0 .. n] == IF k = 0 THEN 1 ELSE 2 * s[k - 1] IN s[n]

Number(d, w, n) ==
  LET s[k \in 0 .. n] == IF k = 0 THEN 0 ELSE s[k - 1] + d[k - 1] * Power(w * (k - 1))
  IN  s[n]

(* A length that is no whole number of bytes would have no groups.  The    *)
(* range of a field lies around zero, inside the residues, and these below *)
(* the flag bit.                                                           *)
ASSUME UnpackAssumption ==
  /\ {L, Blocks, Quads, ZLanes, FieldBits} \subseteq Nat \ {0}
  /\ (ZLanes * FieldBits) % 8 = 0
  /\ {ZGamma1, ZBeta, ZQ, FlagBit} \subseteq Nat
  /\ ZBeta < ZGamma1
  /\ Power(FieldBits) <= 2 * ZGamma1 /\ 2 * ZGamma1 <= ZQ /\ ZQ <= FlagBit
  /\ ZInputs # {}
  /\ \A z \in ZInputs, c \in 1 .. PolyBytes * L : z[c] \in 0 .. 255

(* The fields of the group at an offset: its bytes are one number, lowest  *)
(* byte first.                                                             *)
Group(src) ==
  LET x == Number([c \in 0 .. GroupBytes - 1 |-> zin[src + c + 1]], 8, GroupBytes)
  IN  [l \in LaneSet |-> (x \div Power(FieldBits * l)) % Power(FieldBits)]

(* The bit of the flag, whatever is above it. *)
Flagged(x) == (x \div FlagBit) % 2 = 1

Canonical(v) ==
  LET u == ZQ + ZGamma1 - v IN IF Flagged(u + (FlagBit - ZQ)) THEN u - ZQ ELSE u

OutOfNorm(o) ==
  /\ Flagged(o + (FlagBit - (ZGamma1 - ZBeta)))
  /\ Flagged((FlagBit + ZQ - (ZGamma1 - ZBeta)) - o)

(* The scratch word is as bad as it can be before the first polynomial.     *)
UnpackInit ==
  /\ zpc = "poly" /\ p = 0 /\ b = 0
  /\ scratch = LaneSet
  /\ fail = {}
  /\ \E d \in Dirt : zp = [x \in 0 .. L - 1 |-> [w \in PolyWords |-> [l \in LaneSet |-> d]]]
  /\ normOk = FALSE

BeginPoly ==
  /\ zpc = "poly" /\ p < L
  /\ scratch' = {} /\ b' = 0
  /\ zpc' = "block"
  /\ UNCHANGED <<zin, p, fail, zp, normOk>>

(* One turn of the loop: its quads, in order. *)
Turn ==
  /\ zpc = "block" /\ b < Blocks
  /\ LET src     == PolyBytes * p + b * Quads * GroupBytes
         word(u) == [l \in LaneSet |-> Canonical(Group(src + u * GroupBytes)[l])]
     IN  /\ zp' = [zp EXCEPT ![p] =
                     [w \in PolyWords |-> IF w \div Quads = b THEN word(w % Quads) ELSE @[w]]]
         /\ scratch' = scratch \cup {l \in LaneSet : \E u \in 0 .. Quads - 1 : OutOfNorm(word(u)[l])}
  /\ b' = b + 1
  /\ UNCHANGED <<zin, zpc, p, fail, normOk>>

(* Mutant: the last polynomial decides. *)
EndPolyLast ==
  /\ zpc = "block" /\ b >= Blocks
  /\ fail' = scratch
  /\ p' = p + 1
  /\ zpc' = "poly"
  /\ UNCHANGED <<zin, b, scratch, zp, normOk>>

EndPoly ==
  /\ zpc = "block" /\ b >= Blocks
  /\ fail' = fail \cup scratch
  /\ p' = p + 1
  /\ zpc' = "poly"
  /\ UNCHANGED <<zin, b, scratch, zp, normOk>>

FinishZ ==
  /\ zpc = "poly" /\ p >= L
  /\ normOk' = (fail = {})
  /\ zpc' = "done"
  /\ UNCHANGED <<zin, p, b, scratch, fail, zp>>

UnpackNext == BeginPoly \/ Turn \/ EndPoly \/ FinishZ

-----------------------------------------------------------------------------
(* FIPS 204's BitUnpack of polynomial x, coefficient n, from its bits. *)
ZBit(x, k) == (zin[PolyBytes * x + k \div 8 + 1] \div Power(k % 8)) % 2

ZCoefficient(x, n) ==
  ZGamma1 - Number([k \in 0 .. FieldBits - 1 |-> ZBit(x, FieldBits * n + k)], 1, FieldBits)

(* Every coefficient is decoded into its lane, canonical, whatever the     *)
(* memory held; and the decoder's one answer is whether all coefficients   *)
(* of all polynomials are strictly within the norm bound.                  *)
ZIsBitUnpack ==
  zpc = "done" =>
    LET Numbers == 0 .. Blocks * Quads * ZLanes - 1
    IN  /\ \A x \in 0 .. L - 1, n \in Numbers :
             zp[x][n \div ZLanes][n % ZLanes] = ZCoefficient(x, n) % ZQ
        /\ normOk <=> \A x \in 0 .. L - 1, n \in Numbers :
             /\ ZCoefficient(x, n) < ZGamma1 - ZBeta
             /\ - ZCoefficient(x, n) < ZGamma1 - ZBeta
-----------------------------------------------------------------------------
(* Every encoding of the hints with one of z, and every one of z with no   *)
(* hints: the decoders share nothing.                                      *)
DecodeInit ==
  /\ \/ zin = CHOOSE z \in ZInputs : TRUE
     \/ zin \in ZInputs /\ len = Size /\ y = [x \in 0 .. Size - 1 |-> 0]
  /\ Init
  /\ UnpackInit

DecodeZ == pc = "done" /\ ok /\ weight <= Omega /\ UnpackNext /\ UNCHANGED vars

DecodeNext == (Next /\ UNCHANGED zvars) \/ DecodeZ

DecodeSpec == DecodeInit /\ [][DecodeNext]_<<vars, zvars>>
=============================================================================
