------------------------------ MODULE Verifier ------------------------------
(***************************************************************************)
(* MLDSA44Verifier of src/MLDSA44Verifier.sol, on a chain whose accounts   *)
(* may be replaced between calls: the constructor, and verify() as the     *)
(* pipeline it is, with its early returns, the row scratch that is reused, *)
(* and a helper every call to which may fail.                              *)
(*                                                                         *)
(* The arithmetic is symbolic: a polynomial, a row or a digest is the term *)
(* of the operations that made it, so using the wrong blob bytes, a stale  *)
(* scratch row or the wrong transform gives another term.  The decoders    *)
(* are their results (HintUnpack is the hint decoder), and Challenge, the  *)
(* final hash, is any function.                                            *)
(***************************************************************************)
EXTENDS Integers

CONSTANTS
  Addr, Codes(_), Msgs, Sigs,
  HelperCode,        (* the code whose hash is F1600_CODEHASH              *)
  K,                 (* rows, and polynomials of z (4)                     *)
  TrLen,             (* bytes of tr (64); PK_T1_OFF                        *)
  T1Len,             (* bytes of a t1 row (1024)                           *)
  ALen,              (* bytes of a row of A (4096)                         *)
  SigLen,            (* bytes of a signature (2420)                        *)
  Omega,             (* largest hint weight (80)                           *)
  Challenge(_, _)    (* SHAKE256(mu || w1), 32 bytes                       *)

(* A code is a record [size, bytes]; a signature is a record of its length *)
(* and of what its three parts decode to.                                  *)
ASSUME VerifierAssumption ==
  /\ K \in Nat /\ TrLen \in Nat /\ T1Len \in Nat /\ ALen \in Nat
  /\ SigLen \in Nat /\ Omega \in Nat
  /\ "none" \notin Addr
  /\ \A a \in Addr : \A c \in Codes(a) : c.size \in Nat
  /\ \A s \in Sigs : s.z = [x \in 0 .. K - 1 |-> s.z[x]]

Rows      == 0 .. K - 1
PK_T1_OFF == TrLen
PK_A_OFF  == TrLen + K * T1Len
PK_SIZE   == TrLen + K * T1Len + K * ALen

VARIABLES
  code, F1600, last, (* as in VerifierSpec                                 *)
  pc,                (* "idle" between calls                               *)
  pk, msg, sig,      (* the arguments of the call                          *)
  mu,
  cHat,
  zp,                (* z, transformed in place                            *)
  j, i,              (* loop counters                                      *)
  scratch,           (* row i of A, then row i of t1                       *)
  acc,               (* matvecRow's result                                 *)
  r                  (* rows of w'                                         *)

args   == <<pk, msg, sig>>
chain  == <<code, F1600>>
locals == <<mu, cHat, zp, j, i, scratch, acc, r>>
vars   == <<code, F1600, last, pc, pk, msg, sig, mu, cHat, zp, j, i, scratch, acc, r>>

NoCall == [out |-> "none"]
Outcome(o) == [blob |-> code[pk], msg |-> msg, sig |-> sig, out |-> o]
Unset    == [unset |-> 0]
ZeroByte == [of |-> "zero", at |-> 0]

(* EXTCODECOPY pads silently with zeros. *)
ExtCodeCopy(c, off, n) ==
  [x \in 0 .. n - 1 |-> IF off + x < c.size THEN c.bytes[off + x] ELSE ZeroByte]

Mu(tr, m)         == [tr |-> tr, msg |-> m]
Ball(s)           == [ball |-> s.c]
Ntt(p)            == [ntt |-> p]
InvNtt(p)         == [inv |-> p]
Mat(a, z, c, t)   == [a |-> a, z |-> z, c |-> c, t |-> t]
UseHint(h, rows)  == [hint |-> h, rows |-> rows]

(* What a call to the helper account gives: the right result if it holds   *)
(* the pinned code, anything if it does not.                               *)
Helped(right, anything) == IF code[F1600] = HelperCode THEN {right} ELSE anything

Init ==
  /\ code \in [Addr -> UNION {Codes(a) : a \in Addr}]
  /\ \A a \in Addr : code[a] \in Codes(a)
  /\ F1600 = "none"
  /\ last = NoCall
  /\ pc = "idle"
  /\ pk \in Addr /\ msg \in Msgs /\ sig \in Sigs
  /\ mu = Unset /\ cHat = Unset /\ zp = <<>> /\ j = 0 /\ i = 0
  /\ scratch = Unset /\ acc = Unset /\ r = <<>>

-----------------------------------------------------------------------------
(* The chain, between calls. *)
Replace(a) ==
  /\ pc = "idle"
  /\ \E c \in Codes(a) : code' = [code EXCEPT ![a] = c]
  /\ UNCHANGED <<F1600, last, pc, args, locals>>

(* The constructor; otherwise it reverts with BadHelper. *)
Construct(a) ==
  /\ pc = "idle"
  /\ F1600 = "none"
  /\ code[a] = HelperCode
  /\ F1600' = a
  /\ UNCHANGED <<code, last, pc, args, locals>>

Call(p, m, s) ==
  /\ pc = "idle"
  /\ F1600 # "none"
  /\ pk' = p /\ msg' = m /\ sig' = s
  /\ pc' = "codehash"
  /\ UNCHANGED <<chain, last, locals>>

(* The end of a call: its frame is gone. *)
Return(o) ==
  /\ last' = Outcome(o)
  /\ pc' = "idle"
  /\ UNCHANGED <<chain, args>>
  /\ mu' = Unset /\ cHat' = Unset /\ zp' = <<>> /\ j' = 0 /\ i' = 0
  /\ scratch' = Unset /\ acc' = Unset /\ r' = <<>>

Continue(from, to) == pc = from /\ pc' = to /\ UNCHANGED <<chain, last, args>>

(* Mutant: the helper is bound by its address alone. *)
CodehashUnchecked ==
  Continue("codehash", "decode") /\ UNCHANGED locals

Codehash ==
  \/ pc = "codehash" /\ code[F1600] # HelperCode /\ Return("revert")
  \/ Continue("codehash", "decode") /\ code[F1600] = HelperCode /\ UNCHANGED locals

PkSizeOk == code[pk].size = PK_SIZE + 1

(* The checks that reject before the helper is called: length, blob size,  *)
(* hint, norm.  z comes out of the decoder canonical.                      *)
Decoded ==
  /\ sig.len = SigLen
  /\ PkSizeOk
  /\ sig.hOk /\ sig.weight <= Omega
  /\ sig.normOk

Reject == pc = "decode" /\ ~ Decoded /\ Return("false")

Decode ==
  /\ Decoded
  /\ Continue("decode", "mu")
  /\ zp' = sig.z
  /\ UNCHANGED <<mu, cHat, j, i, scratch, acc, r>>

ComputeMu ==
  /\ Continue("mu", "ball")
  /\ mu' \in Helped(Mu(ExtCodeCopy(code[pk], 1, TrLen), msg),
                    {Mu(ExtCodeCopy(code[pk], 1, TrLen), m) : m \in Msgs})
  /\ UNCHANGED <<cHat, zp, j, i, scratch, acc, r>>

SampleChallenge ==
  /\ Continue("ball", "ntt")
  /\ \E b \in Helped(Ball(sig), {Ball(s) : s \in Sigs}) : cHat' = Ntt(b)
  /\ j' = 0
  /\ UNCHANGED <<mu, zp, i, scratch, acc, r>>

NttZ ==
  /\ j < K
  /\ Continue("ntt", "ntt")
  /\ zp' = [zp EXCEPT ![j] = Ntt(zp[j])]
  /\ j' = j + 1
  /\ UNCHANGED <<mu, cHat, i, scratch, acc, r>>

NttDone ==
  /\ j >= K
  /\ Continue("ntt", "load")
  /\ i' = 0
  /\ r' = [x \in Rows |-> Unset]
  /\ UNCHANGED <<mu, cHat, zp, j, scratch, acc>>

(* Mutants: the scratch is filled once; one row too many is loaded. *)
LoadRowOnce ==
  /\ i < K
  /\ Continue("load", "row")
  /\ scratch' = IF i > 0 THEN scratch ELSE
                [a |-> ExtCodeCopy(code[pk], 1 + (PK_A_OFF + i * ALen), ALen),
                 t |-> ExtCodeCopy(code[pk], 1 + (PK_T1_OFF + i * T1Len), T1Len)]
  /\ UNCHANGED <<mu, cHat, zp, j, i, acc, r>>

(* Two EXTCODECOPYs into the reused scratch. *)
LoadRow ==
  /\ i < K
  /\ Continue("load", "row")
  /\ scratch' = [a |-> ExtCodeCopy(code[pk], 1 + (PK_A_OFF + i * ALen), ALen),
                 t |-> ExtCodeCopy(code[pk], 1 + (PK_T1_OFF + i * T1Len), T1Len)]
  /\ UNCHANGED <<mu, cHat, zp, j, i, acc, r>>

MatVec ==
  /\ Continue("row", "inv")
  /\ acc' = Mat(scratch.a, zp, cHat, scratch.t)
  /\ UNCHANGED <<mu, cHat, zp, j, i, scratch, r>>

(* nttInvV3 in place, and the row is kept. *)
Invert ==
  /\ Continue("inv", "load")
  /\ acc' = InvNtt(acc)
  /\ r' = [r EXCEPT ![i] = InvNtt(acc)]
  /\ i' = i + 1
  /\ UNCHANGED <<mu, cHat, zp, j, scratch>>

RowsDone ==
  /\ i >= K
  /\ Continue("load", "final")
  /\ UNCHANGED locals

(* w1 and the final hash, compared with the signature's challenge. *)
FinalHash ==
  /\ pc = "final"
  /\ \E h \in Helped(Challenge(mu, UseHint(sig.h, r)), {s.c : s \in Sigs}) :
       Return(IF h = sig.c THEN "true" ELSE "false")

(* The gas runs out, here or in the helper. *)
OutOfGas == pc # "idle" /\ Return("revert")

Step ==
  \/ Codehash \/ Reject \/ Decode \/ ComputeMu \/ SampleChallenge
  \/ NttZ \/ NttDone \/ LoadRow \/ MatVec \/ Invert \/ RowsDone
  \/ FinalHash \/ OutOfGas

Next ==
  \/ \E a \in Addr : Replace(a) \/ Construct(a)
  \/ \E p \in Addr, m \in Msgs, s \in Sigs : Call(p, m, s)
  \/ Step

Spec == Init /\ [][Next]_vars

-----------------------------------------------------------------------------
(* FIPS 204, Algorithm 3, on the payload of a blob. *)
Payload(c, off, n) == [x \in 0 .. n - 1 |-> c.bytes[1 + off + x]]

RefRow(c, s, x) ==
  InvNtt(Mat(Payload(c, PK_A_OFF + x * ALen, ALen),
             [y \in Rows |-> Ntt(s.z[y])],
             Ntt(Ball(s)),
             Payload(c, PK_T1_OFF + x * T1Len, T1Len)))

RefW1(c, s) == UseHint(s.h, [x \in Rows |-> RefRow(c, s, x)])
RefMu(c, m) == Mu(Payload(c, 0, TrLen), m)

Valid(c, m, s) ==
  /\ s.len = SigLen
  /\ c.size = PK_SIZE + 1
  /\ s.hOk /\ s.weight <= Omega
  /\ s.normOk
  /\ Challenge(RefMu(c, m), RefW1(c, s)) = s.c

TypeOK ==
  /\ \A a \in Addr : code[a] \in Codes(a)
  /\ F1600 \in Addr \cup {"none"}
  /\ last.out \in {"none", "revert", "true", "false"}
  /\ pc \in {"idle", "codehash", "decode", "mu", "ball", "ntt", "load", "row",
             "inv", "final"}
  /\ pk \in Addr /\ msg \in Msgs /\ sig \in Sigs
  /\ j \in 0 .. K /\ i \in 0 .. K

(* A call that returns at all returns Algorithm 3's verdict on the blob's  *)
(* code: neither an account replaced between calls, nor an earlier row in  *)
(* the scratch, nor a padded copy makes a difference.                      *)
VerdictIsAlgorithm3 ==
  last.out \in {"true", "false"} =>
    (last.out = "true" <=> Valid(last.blob, last.msg, last.sig))

Abstract == INSTANCE VerifierSpec

(* The pipeline implements the interface: a call is one atomic answer or   *)
(* failure of it.                                                          *)
ImplementsInterface == Abstract!Spec
=============================================================================
