------------------------------ MODULE Prepare ------------------------------
(***************************************************************************)
(* prepare/prepare.py and the part of prepare/mldsa_min.py it uses: from   *)
(* the text of a public key to the bytes of the blob; and the text of a    *)
(* blob read back by script/DeployBase.sol.                                *)
(*                                                                         *)
(* A byte is a number below 256, a text a sequence of characters: a hex    *)
(* digit is its value (of either case), any other character is negative.   *)
(* SHAKE is a pair of constant operators.                                  *)
(***************************************************************************)
EXTENDS Integers, Sequences, SequencesExt

CONSTANTS
  K,                 (* rows, and columns (4)                              *)
  N,                 (* coefficients (256)                                 *)
  Q, D, Zeta,
  T1Bits,            (* bits of a coefficient of t1 (10)                   *)
  RhoLen, TrLen,     (* 32, 64                                             *)
  PerWord,           (* coefficients in a word of the blob (8)             *)
  CoefBytes,         (* bytes of one (4)                                   *)
  CandidateTop,      (* the third byte of a candidate is masked by this    *)
                     (* minus one (128)                                    *)
  ByteBase,          (* values of a byte of SHAKE (256)                    *)
  Want,              (* bytes first asked of SHAKE128 (3 * N + 96)         *)
  Shake128(_, _), Shake256(_, _)      (* data, bytes wanted                *)

Space   == -1        (* a space, tab or line break                         *)
Wide    == -2        (* one of the other characters str.split drops        *)
Ex      == -3        (* x or X                                             *)
Other   == -4
Digits  == 0 .. 15
Refused == <<>>

PK_SIZE   == RhoLen + K * ((N * T1Bits) \div 8)
BLOB_SIZE == 1 + TrLen + (K + K * K) * N * CoefBytes

-----------------------------------------------------------------------------
(* Reading the key. *)

FromHex(s) == [b \in 1 .. Len(s) \div 2 |-> 16 * s[2 * b - 1] + s[2 * b]]
ToHex(bs)  == [x \in 1 .. 2 * Len(bs) |->
                 LET b == bs[(x + 1) \div 2] IN IF x % 2 = 1 THEN b \div 16 ELSE b % 16]

Cleaned(text) ==
  LET s == SelectSeq(text, LAMBDA c : c \notin {Space, Wide})
  IN  IF Len(s) >= 2 /\ s[1] = 0 /\ s[2] = Ex THEN SubSeq(s, 3, Len(s)) ELSE s

DecodePk(text) ==
  LET s == Cleaned(text)
  IN  IF /\ s # <<>>
         /\ ToSet(s) \subseteq Digits
         /\ Len(s) % 2 = 0
         /\ Len(s) \div 2 = PK_SIZE
      THEN FromHex(s) ELSE Refused

Rho(pk) == SubSeq(pk, 1, RhoLen)

LittleEndian(bs) == FoldRight(LAMBDA b, n : b + 256 * n, bs, 0)

T1(pk, i) ==
  LET size == (N * T1Bits) \div 8
      bits == LittleEndian(SubSeq(pk, RhoLen + i * size + 1, RhoLen + (i + 1) * size))
  IN  [n \in 0 .. N - 1 |-> (bits \div 2 ^ (T1Bits * n)) % 2 ^ T1Bits]

-----------------------------------------------------------------------------
(* Expanding it. *)

Halvings == CHOOSE h \in 0 .. N : 2 ^ h = N
Brv(x)   == FoldLeft(LAMBDA acc, b : acc + ((x \div 2 ^ b) % 2) * 2 ^ (Halvings - 1 - b), 0,
                     [b \in 1 .. Halvings |-> b - 1])
Zetas    == [x \in 0 .. N - 1 |-> Zeta ^ Brv(x) % Q]

(* The block counter m is a block's number and the number of those before. *)
NttLayer(w, length) ==
  [x \in 0 .. N - 1 |->
     LET block == x \div (2 * length)
         z     == Zetas[N \div (2 * length) + block]
     IN  IF x % (2 * length) < length
         THEN (w[x] + z * w[x + length]) % Q
         ELSE (w[x - length] - z * w[x]) % Q]

Ntt(a) == FoldLeft(NttLayer, a, [h \in 1 .. Halvings |-> N \div 2 ^ h])

Candidates(buf) ==
  [c \in 1 .. Len(buf) \div 3 |->
     buf[3 * c - 2] + ByteBase * buf[3 * c - 1] + ByteBase ^ 2 * (buf[3 * c] % CandidateTop)]

(* The stream is asked for again, twice as long, until it has enough; eight*)
(* doublings are a bound of the model.                                     *)
RejNttPoly(seed) ==
  LET Accepted(e) == SelectSeq(Candidates(Shake128(seed, Want * 2 ^ e)), LAMBDA v : v < Q)
      doublings   == CHOOSE e \in 0 .. 8 : /\ Len(Accepted(e)) >= N
                                           /\ \A d \in 0 .. e - 1 : Len(Accepted(d)) < N
  IN  [n \in 0 .. N - 1 |-> Accepted(doublings)[n + 1]]

(* Mutant: the two indices change places. *)
ExpandATransposed(rho, i, j) == RejNttPoly(rho \o <<i, j>>)

ExpandA(rho, i, j) == RejNttPoly(rho \o <<j, i>>)

T1Hat(pk, i) == Ntt([n \in 0 .. N - 1 |-> (T1(pk, i)[n] * 2 ^ D) % Q])

-----------------------------------------------------------------------------
(* Writing the blob. *)

(* Words of PerWord fields, the first field lowest, each word big-endian.  *)
Compact32(coeffs) ==
  LET size == PerWord * CoefBytes
  IN  [x \in 1 .. N * CoefBytes |->
         LET p == (size - 1) - ((x - 1) % size)
         IN  (coeffs[PerWord * ((x - 1) \div size) + p \div CoefBytes]
                \div 256 ^ (p % CoefBytes)) % 256]

Build(pk) ==
  <<0>> \o Shake256(pk, TrLen)
    \o FlattenSeq([x \in 1 .. K |-> Compact32(T1Hat(pk, x - 1))])
    \o FlattenSeq([x \in 1 .. K * K |->
                     Compact32(ExpandA(Rho(pk), (x - 1) \div K, (x - 1) % K))])

-----------------------------------------------------------------------------
(* Reading the blob's text back: _cleanHex, loadPkBlobBytes, deployPkBlob. *)

CleanHex(s) ==
  LET Start == [out |-> <<>>, skip |-> FALSE, ok |-> TRUE]
      Read(t, x) ==
        IF t.skip THEN [t EXCEPT !.skip = FALSE]
        ELSE IF s[x] = Space THEN t
        ELSE IF t.out = <<>> /\ s[x] = 0 /\ x < Len(s) /\ s[x + 1] = Ex
             THEN [t EXCEPT !.skip = TRUE]
        ELSE IF s[x] \in Digits THEN [t EXCEPT !.out = Append(@, s[x])]
        ELSE [t EXCEPT !.ok = FALSE]
      end == FoldLeft(Read, Start, [x \in 1 .. Len(s) |-> x])
  IN  IF end.ok /\ Len(end.out) % 2 = 0 THEN end.out ELSE Refused

LoadPkBlob(text) ==
  LET blob == FromHex(CleanHex(text))
  IN  IF Len(blob) = BLOB_SIZE /\ blob[1] = 0 THEN blob ELSE Refused
=============================================================================
