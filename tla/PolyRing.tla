------------------------------ MODULE PolyRing ------------------------------
(***************************************************************************)
(* Polynomials of GF(q)[X]/(X^N + 1), vectors and matrices of them, and    *)
(* their packings, as pythonref/dilithium_py builds them: polynomials_     *)
(* generic.py, polynomials.py, modules_generic.py and modules.py.  A       *)
(* polynomial is the function of its coefficients, a vector a function to  *)
(* polynomials.  to_ntt and from_ntt (the polyntt package) are inverse to  *)
(* each other and turn the coefficient-wise product into the ring product, *)
(* so products are taken in the ring.                                      *)
(***************************************************************************)
EXTENDS Rounding, Sequences, FiniteSets, Functions

CONSTANTS
  N,          (* coefficients of a polynomial (256)                        *)
  K,          (* rows of the matrix (4)                                    *)
  L,          (* columns of the matrix (4)                                 *)
  D,          (* low bits of t that are not in the public key (13)         *)
  Eta,        (* bound of the secret coefficients (2)                      *)
  Gamma1,     (* bound of the mask coefficients (2^17)                     *)
  Omega,      (* most ones a hint may have (80)                            *)
  T1Bits, SBits, ZBits, W1Bits   (* packed widths (10, 3, 18, 6)           *)

Idx  == 0 .. N - 1
Rows == 0 .. K - 1
Cols == 0 .. L - 1

(* The loops of the code as functions of the turns made: a running sum, a  *)
(* number shifted right, a power of two.                                   *)
Sum(t, n)   == LET s[k \in 0 .. n] == IF k = 0 THEN 0 ELSE s[k - 1] + t[k - 1] IN s[n]
Shift(x, n) == LET s[k \in 0 .. n] == IF k = 0 THEN x ELSE s[k - 1] \div 2 IN s[n]
Pow2(n)     == LET s[k \in 0 .. n] == IF k = 0 THEN 1 ELSE 2 * s[k - 1] IN s[n]

(* __add__, __sub__, __neg__, _schoolbook_multiplication *)
Add(f, g) == [i \in Idx |-> (f[i] + g[i]) % Q]
Sub(f, g) == [i \in Idx |-> (f[i] - g[i]) % Q]
Neg(f)    == [i \in Idx |-> (-f[i]) % Q]
Mul(f, g) ==
  [i \in Idx |->
    Sum([a \in Idx |-> IF a <= i THEN f[a] * g[i - a] ELSE -(f[a] * g[i + N - a])], N) % Q]

(* Matrix.__add__, __sub__, __neg__, scale, and A @ v *)
VAdd(u, v)   == [i \in DOMAIN u |-> Add(u[i], v[i])]
VSub(u, v)   == [i \in DOMAIN u |-> Sub(u[i], v[i])]
VNeg(u)      == [i \in DOMAIN u |-> Neg(u[i])]
VScale(c, u) == [i \in DOMAIN u |-> Mul(c, u[i])]
MatVec(mat, v) ==
  [r \in Rows |->
    [i \in Idx |-> Sum([j \in Cols |-> Mul(mat[r][j], v[j])[i]], L) % Q]]

(* The rounding operations, element by element. *)
Each(Op(_), v)       == [r \in DOMAIN v |-> [i \in Idx |-> Op(v[r][i])]]
VHighBits(v)         == Each(LAMBDA x : HighBits(x, Alpha), v)
VLowBits(v)          == Each(LAMBDA x : LowBits(x, Alpha), v)
VPower2High(v)       == Each(LAMBDA x : Power2Round(x, Pow2(D))[1], v)
VPower2Low(v)        == Each(LAMBDA x : Power2Round(x, Pow2(D))[2], v)
VNormFails(v, bound) == \E r \in DOMAIN v, i \in Idx : NormFails(v[r][i], bound)
VMakeHint(z, v) ==
  [r \in DOMAIN v |-> [i \in Idx |-> MakeHint(z[r][i], v[r][i], Alpha)]]
VUseHint(h, v) ==
  [r \in DOMAIN v |-> [i \in Idx |-> UseHint(h[r][i], v[r][i], Alpha)]]
SumHint(h) == Sum([r \in Rows |-> Sum(h[r], N)], K)

-----------------------------------------------------------------------------
(* __bit_pack shifts and ORs from the last coefficient to the first, so a  *)
(* coefficient wider than its field runs into the next one; __bit_unpack   *)
(* shifts and masks.  A packed polynomial is its set of 1 bits.            *)
Bits(x) == {k \in 0 .. x : Shift(x, k) % 2 = 1}
BitPack(f, bits) == UNION {{bits * i + k : k \in Bits(f[i])} : i \in Idx}
BitUnpack(x, bits) ==
  [i \in Idx |-> CHOOSE v \in 0 .. Pow2(bits) - 1 :
                   Bits(v) = {k \in 0 .. bits - 1 : bits * i + k \in x}]

(* bit_pack_t1, _t0, _s, _z, _w and bit_unpack_t1, _t0, _s, _z: the signed *)
(* ones pack the distance from the largest value.                          *)
PackT1(f)   == BitPack(f, T1Bits)
PackT0(f)   == BitPack([i \in Idx |-> Pow2(D - 1) - f[i]], D)
PackS(f)    == BitPack([i \in Idx |-> (Eta - f[i]) % Q], SBits)
PackZ(f)    == BitPack([i \in Idx |-> (Gamma1 - f[i]) % Q], ZBits)
PackW1(f)   == BitPack(f, W1Bits)
UnpackT1(x) == BitUnpack(x, T1Bits)
UnpackT0(x) == [i \in Idx |-> Pow2(D - 1) - BitUnpack(x, D)[i]]
UnpackS(x)  == [i \in Idx |-> Eta - BitUnpack(x, SBits)[i]]
UnpackZ(x)  == [i \in Idx |-> Gamma1 - BitUnpack(x, ZBits)[i]]

(* The matrix packings join the packed elements. *)
VPack(Op(_), v) == [r \in DOMAIN v |-> Op(v[r])]

(* _pack_h: the positions of the ones, padded to Omega, then the running   *)
(* counts.                                                                 *)
Ones(f) ==
  LET s[i \in 0 .. N] ==
        IF i = 0 THEN <<>> ELSE IF f[i - 1] = 1 THEN Append(s[i - 1], i - 1) ELSE s[i - 1]
  IN  s[N]
Packed(h, n) ==
  LET s[r \in 0 .. n] == IF r = 0 THEN <<>> ELSE s[r - 1] \o Ones(h[r - 1])
  IN  s[n]
PackH(h) ==
  Packed(h, K) \o [p \in 1 .. Omega - Len(Packed(h, K)) |-> 0]
    \o [r \in 1 .. K |-> Len(Packed(h, r))]

(* _unpack_h: its three checks, then the order test of each row, which     *)
(* lets a repeated position through.                                       *)
HintMalformed(b) ==
  LET off(r) == IF r = 0 THEN 0 ELSE b[Omega + r]
  IN  \/ \E r \in Rows : off(r) > off(r + 1)
      \/ off(K) > Omega
      \/ \E p \in off(K) + 1 .. Omega : b[p] # 0
      \/ \E r \in Rows : \E p \in off(r) + 2 .. off(r + 1) : b[p] < b[p - 1]
UnpackH(b) ==
  LET off(r) == IF r = 0 THEN 0 ELSE b[Omega + r]
  IN  [r \in Rows |->
        [i \in Idx |-> IF \E p \in off(r) + 1 .. off(r + 1) : b[p] = i THEN 1 ELSE 0]]
=============================================================================
