------------------------------ MODULE Samplers ------------------------------
(***************************************************************************)
(* The rejection samplers of pythonref/dilithium_py/polynomials and of     *)
(* prepare/mldsa_min.py, each reading its stream through one of the        *)
(* readers of XofReader.  The stream is arbitrary but periodic, so that a  *)
(* reader may read as far as it likes.  One action is one read.            *)
(***************************************************************************)
EXTENDS XofReader

CONSTANTS
  Q,          (* modulus                                                   *)
  N,          (* coefficients (256)                                        *)
  Tau,        (* ones of a challenge (39)                                  *)
  Eta,        (* bound of a secret coefficient (2)                         *)
  Gamma1,     (* bound of a mask coefficient (2^17)                        *)
  ZBits,      (* bits of a mask coefficient (18)                           *)
  HalfBits,   (* bits of half a byte (4)                                   *)
  SignBytes,  (* bytes holding the signs of a challenge (8)                *)
  MinSpare,   (* bytes rej_ntt_poly asks for beyond 3 N (96)               *)
  Period,     (* of the stream                                             *)
  ByteValues, (* bytes the stream may hold                                 *)
  Sum(_, _), Shift(_, _), Pow2(_)                    (* as in PolyRing     *)

Bits   == 2 * HalfBits
Nibble == Pow2(HalfBits)
Byte   == Pow2(Bits)

(* The sign bytes hold a bit for every one of a challenge and are in the   *)
(* first digest; the fields of a mask fill whole bytes.                    *)
SamplersAssumption ==
  /\ ReaderAssumption
  /\ {N, Tau, HalfBits, SignBytes, Period} \subseteq Nat \ {0}
  /\ {Q, Eta, Gamma1, ZBits, MinSpare} \subseteq Nat
  /\ ByteValues \subseteq 0 .. Byte - 1
  /\ Tau <= N /\ Tau <= SignBytes * Bits /\ SignBytes <= MinBlock
  /\ (N * ZBits) % Bits = 0

VARIABLES
  kind,       (* reader: "shake", "keccak" or "digest"                     *)
  task,       (* "ntt", "bounded", "mask" or "ball"                        *)
  stream,     (* what the XOF returns for the seed                         *)
  pc,         (* "absorb", "sample" or "done"                              *)
  reader,     (* the reader's fields                                       *)
  want,       (* bytes rej_ntt_poly digests                                *)
  signs,      (* sign_int, least significant sign first                    *)
  coeffs,     (* coefficients accepted so far; all of them for a challenge *)
  i           (* index of the next coefficient                             *)

input == <<kind, task, stream>>
vars  == <<kind, task, stream, pc, reader, want, signs, coeffs, i>>

At(p) == stream[p % Period]
Bytes(n) == LET p == Positions(kind, reader, n) IN [k \in DOMAIN p |-> At(p[k])]

(* int.from_bytes, little-endian *)
Word(bytes) == Sum([k \in 0 .. Len(bytes) - 1 |-> bytes[k + 1] * Pow2(Bits * k)], Len(bytes))

(* rejection_sample of rejection_sample_ntt_poly and the scan of           *)
(* rej_ntt_poly: three bytes without the top bit, if below q.              *)
Candidate(a, b, d) == a + Byte * b + Byte * Byte * (d % (Byte \div 2))

CandidateOk == 0 .. Q - 1

(* coefficient_from_half_byte for eta = 2 (scaled): the top nibble value   *)
(* is refused.                                                             *)
NibbleOk      == 0 .. Nibble - 2
FromNibble(j) == Eta - (j % (2 * Eta + 1))
FromNibbles(s) == [k \in DOMAIN s |-> FromNibble(s[k])]

(* The first n elements of a sequence; and what a loop keeps of f[1], ..,  *)
(* f[n] that only takes elements of ok, as a function of the turns made.   *)
Take(s, n) == SubSeq(s, 1, Min({n, Len(s)}))
Kept(f, n, ok) ==
  LET s[k \in 0 .. n] ==
        IF k = 0 THEN <<>> ELSE IF f[k] \in ok THEN Append(s[k - 1], f[k]) ELSE s[k - 1]
  IN  s[n]

(* A stream of an XOF holds something the sampler accepts: with 256 values *)
(* a byte a stream that never does has probability 0.                      *)
Acceptable ==
  CASE task = "ntt"     -> \E k \in 1 .. Period :
                             Candidate(At(3*k - 3), At(3*k - 2), At(3*k - 1)) \in CandidateOk
    [] task = "bounded" -> \E p \in 0 .. Period - 1 :
                             At(p) % Nibble \in NibbleOk \/ At(p) \div Nibble \in NibbleOk
    [] task = "mask"    -> TRUE
    [] task = "ball"    -> \E p \in 0 .. Period - 1 : At(p) <= N - Tau

Init ==
  /\ kind \in {"shake", "keccak", "digest"}
  /\ task \in {"ntt", "bounded", "mask", "ball"}
  /\ kind = "digest" => task \in {"ntt", "ball"}
  /\ stream \in [0 .. Period - 1 -> ByteValues]
  /\ Acceptable
  /\ pc = "absorb"
  /\ reader = Opened(kind) /\ want = 0
  /\ signs = <<>> /\ coeffs = <<>> /\ i = 0

(* _xof(seed), flip; the sign bytes of a challenge are read at once.       *)
Absorb ==
  /\ pc = "absorb"
  /\ pc' = "sample"
  /\ IF task = "ball"
     THEN /\ LET b == Bytes(SignBytes)
             IN  signs' = [k \in 1 .. Tau |-> Shift(Word(b), k - 1) % 2]
          /\ reader' = After(kind, Opened(kind), SignBytes)
          /\ coeffs' = [k \in 1 .. N |-> 0]
          /\ i' = N - Tau
     ELSE UNCHANGED <<reader, signs, coeffs, i>>
  /\ want' = IF kind = "digest" THEN 3 * N + MinSpare ELSE 0
  /\ UNCHANGED input

Finish(count) == IF count = N THEN "done" ELSE "sample"

(* rejection_sample_ntt_poly: three bytes a read *)
SampleNtt ==
  /\ pc = "sample" /\ task = "ntt" /\ kind # "digest"
  /\ LET b == Bytes(3)
         v == Candidate(b[1], b[2], b[3])
     IN  coeffs' = IF v \in CandidateOk THEN Append(coeffs, v) ELSE coeffs
  /\ reader' = After(kind, reader, 3)
  /\ pc' = Finish(Len(coeffs'))
  /\ UNCHANGED <<input, want, signs, i>>

(* rej_ntt_poly: scan the whole digest; start over on one twice as long    *)
(* when it held fewer than N coefficients.                                 *)
Scanned(len) ==
  LET all == [k \in 1 .. len \div 3 |-> Candidate(At(3*k - 3), At(3*k - 2), At(3*k - 1))]
  IN  Take(Kept(all, len \div 3, CandidateOk), N)

(* Mutant: the digest is not lengthened. *)
MinSampleNttSame ==
  /\ pc = "sample" /\ task = "ntt" /\ kind = "digest"
  /\ coeffs' = Scanned(want)
  /\ pc' = Finish(Len(coeffs'))
  /\ UNCHANGED <<input, want, reader, signs, i>>

(* One digest of rej_ntt_poly. *)
MinSampleNtt ==
  /\ pc = "sample" /\ task = "ntt" /\ kind = "digest"
  /\ coeffs' = Scanned(want)
  /\ pc' = Finish(Len(coeffs'))
  /\ want' = IF Len(coeffs') = N THEN want ELSE 2 * want
  /\ UNCHANGED <<input, reader, signs, i>>

(* rejection_bounded_poly: both halves of a byte, the second one only      *)
(* while there is room.                                                    *)
SampleBounded ==
  /\ pc = "sample" /\ task = "bounded"
  /\ LET b  == Bytes(1)[1]
         ok == Kept(<<b % Nibble, b \div Nibble>>, 2, NibbleOk)
     IN  coeffs' = Take(coeffs \o FromNibbles(ok), N)
  /\ reader' = After(kind, reader, 1)
  /\ pc' = Finish(Len(coeffs'))
  /\ UNCHANGED <<input, want, signs, i>>

(* sample_mask_polynomial: one read of all the bits, low ones first *)
MaskBytes == (N * ZBits) \div Bits
SampleMask ==
  /\ pc = "sample" /\ task = "mask"
  /\ LET b == Bytes(MaskBytes)
     IN  coeffs' = [k \in 1 .. N |-> Gamma1 - (Shift(Word(b), ZBits * (k - 1)) % Pow2(ZBits))]
  /\ reader' = After(kind, reader, MaskBytes)
  /\ pc' = "done"
  /\ UNCHANGED <<input, want, signs, i>>

(* sample_in_ball: one byte a read, rejected when above the index; the     *)
(* displaced coefficient moves to the index.                               *)
SampleBall ==
  /\ pc = "sample" /\ task = "ball"
  /\ LET j == Bytes(1)[1]
     IN  IF j <= i
         THEN /\ coeffs' = [coeffs EXCEPT ![i + 1] = coeffs[j + 1],
                                          ![j + 1] = 1 - 2 * signs[i - (N - Tau) + 1]]
              /\ i' = i + 1
         ELSE UNCHANGED <<coeffs, i>>
  /\ reader' = After(kind, reader, 1)
  /\ pc' = Finish(i')
  /\ UNCHANGED <<input, want, signs>>

Step ==
  \/ Absorb \/ SampleNtt \/ MinSampleNtt \/ SampleBounded \/ SampleMask
  \/ SampleBall

-----------------------------------------------------------------------------
(* What FIPS 204 samples from a stream, without buffers: the accepted      *)
(* candidates in order (Algorithms 30 and 31), the mask's fields           *)
(* (Algorithm 34), and the draws of the challenge (Algorithm 29).  Far is  *)
(* a position past everything a sampler reads here.                        *)
Far == SignBytes + 3 * Period * (N + 1)
SpecNtt == Scanned(Far)
SpecBounded ==
  LET half(k) == IF k % 2 = 1 THEN At(k \div 2) % Nibble ELSE At(k \div 2 - 1) \div Nibble
  IN  Take(FromNibbles(Kept([k \in 1 .. Far |-> half(k)], Far, NibbleOk)), N)

StreamBit(p) == Shift(At(p \div Bits), p % Bits) % 2
SpecMask ==
  LET field(k) == Sum([e \in 0 .. ZBits - 1 |-> StreamBit(ZBits * (k - 1) + e) * Pow2(e)], ZBits)
  IN  [k \in 1 .. N |-> Gamma1 - field(k)]

(* Place[d] is the position of the byte that the d-th draw takes; after it *)
(* lane N - Tau + d (from 1) holds what its byte's lane held, and that     *)
(* lane the sign.                                                          *)
Place ==
  LET at[d \in 0 .. Tau] ==
        IF d = 0 THEN SignBytes - 1
        ELSE Min({p \in at[d - 1] + 1 .. Far : At(p) < N - Tau + d})
  IN  at
Drawn(f, d) ==
  LET j == At(Place[d]) + 1
  IN  [k \in 1 .. N |-> IF k = j THEN 1 - 2 * StreamBit(d - 1)
                        ELSE IF k = N - Tau + d THEN f[j] ELSE f[k]]
SpecBall ==
  LET ball[d \in 0 .. Tau] ==
        IF d = 0 THEN [k \in 1 .. N |-> 0] ELSE Drawn(ball[d - 1], d)
  IN  ball[Tau]

Sampled ==
  CASE task = "ntt"     -> SpecNtt
    [] task = "bounded" -> SpecBounded
    [] task = "mask"    -> SpecMask
    [] task = "ball"    -> SpecBall
=============================================================================
