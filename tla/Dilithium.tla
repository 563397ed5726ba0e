------------------------------ MODULE Dilithium ------------------------------
(***************************************************************************)
(* The signature scheme of pythonref/dilithium_py/dilithium/dilithium.py   *)
(* as a caller uses it: a key is made, a message is signed (directly or    *)
(* through mu), the rejection loop of _sign_internal runs, and the result  *)
(* is verified for some message.  What the XOFs return is arbitrary: the   *)
(* matrix of rho, the secrets, each mask and each challenge are chosen; a  *)
(* hash is the tuple of what was hashed.                                   *)
(***************************************************************************)
EXTENDS PolyRing

CONSTANTS
  Tau,                      (* ones of a challenge (39)                    *)
  Matrices,                 (* matrices rho may expand to                  *)
  Secrets1, Secrets2,       (* secret vectors rho_prime may expand to      *)
  MaskPolys,                (* polynomials a mask may have                 *)
  Messages, Contexts,       (* messages and contexts of callers            *)
  CtxMax,                   (* longest context (255)                       *)
  NonceMax                  (* largest nonce two bytes hold (65535)        *)

ASSUME DilithiumAssumption ==
  /\ {N, K, L, D} \subseteq Nat \ {0}
  /\ {Eta, Gamma1, Omega, Tau, CtxMax, NonceMax, T1Bits, SBits, ZBits, W1Bits} \subseteq Nat
  /\ Pow2(T1Bits) * Pow2(D) >= Q + Pow2(D - 1)
  /\ Pow2(W1Bits) >= M /\ Pow2(SBits) > 2 * Eta /\ Pow2(ZBits) >= 2 * Gamma1
  /\ Tau * Eta < Gamma2 /\ Tau * Eta < Gamma1 /\ 2 * Eta < Q /\ 2 * Gamma1 < Q
  /\ Matrices \subseteq [Rows -> [Cols -> [Idx -> 0 .. Q - 1]]]
  /\ Secrets1 \subseteq [Cols -> [Idx -> -Eta .. Eta]]
  /\ Secrets2 \subseteq [Rows -> [Idx -> -Eta .. Eta]]
  /\ MaskPolys \subseteq [Idx -> -Gamma1 + 1 .. Gamma1]
  /\ Messages \cup Contexts \subseteq Seq(Nat)

VARIABLES
  pc,         (* "new", "keyed", "mask", "challenge", "checks", "signed",   *)
              (* "verified" or "raised"                                     *)
  mat,        (* the matrix rho expands to                                 *)
  pk, sk,     (* the packed keys                                           *)
  call,       (* what was signed: message, context, through mu or not      *)
  kappa,      (* nonce of the next mask                                    *)
  used,       (* every nonce a mask was sampled with, in order             *)
  y, c,       (* mask and challenge of this attempt                        *)
  sig,        (* the packed signature                                      *)
  asked,      (* message and context the signature was verified for        *)
  verdict     (* what verify returned                                      *)

keys == <<mat, pk, sk>>
vars == <<pc, mat, pk, sk, call, kappa, used, y, c, sig, asked, verdict>>

Nil == <<>>
Beta == Tau * Eta
Ball == {f \in [Idx -> {-1, 0, 1}] : Cardinality({i \in Idx : f[i] # 0}) = Tau}

(* Mutant: the length byte is left out. *)
FormattedPlain(m, ctx) == <<0>> \o ctx \o m

(* The formatted message of sign, verify and prehash_external_mu, the hash *)
(* of the public key and of the message, and the challenge seed.           *)
Formatted(m, ctx) == <<0, Len(ctx)>> \o ctx \o m
HashPk(key)       == <<"tr", key>>
Mu(tr, m, ctx)    == <<"mu", tr, Formatted(m, ctx)>>
CTilde(mu, w1)    == <<"c", mu, VPack(PackW1, w1)>>

(* Unpacked secret key *)
S1 == VPack(UnpackS, sk.s1)
S2 == VPack(UnpackS, sk.s2)
T0 == VPack(UnpackT0, sk.t0)

(* The values of one attempt of the loop. *)
W    == MatVec(mat, y)
W1   == VHighBits(W)
CS2  == VScale(c, S2)
CT0  == VScale(c, T0)
Z    == VAdd(y, VScale(c, S1))
R    == VSub(W, CS2)
Hint == VMakeHint(VNeg(CT0), VAdd(R, CT0))
MuOfCall ==
  Mu(IF call.external THEN HashPk(pk) ELSE sk.tr, call.m, call.ctx)

(* Mutant: the low parts may reach gamma2. *)
R0BadLoose == VNormFails(VLowBits(R), Gamma2)

ZBad    == VNormFails(Z, Gamma1 - Beta)
R0Bad   == VNormFails(VLowBits(R), Gamma2 - Beta)
CT0Bad  == VNormFails(CT0, Gamma2)
HintBad == SumHint(Hint) > Omega

Init ==
  /\ pc = "new"
  /\ mat = Nil /\ pk = Nil /\ sk = Nil /\ call = Nil
  /\ kappa = 0 /\ used = <<>> /\ y = Nil /\ c = Nil
  /\ sig = Nil /\ asked = Nil /\ verdict = FALSE

(* keygen and key_derive: _keygen_internal *)
Keygen(a, s1, s2) ==
  /\ pc = "new"
  /\ LET t  == VAdd(MatVec(a, s1), s2)
         pub == [rho |-> "rho", t1 |-> VPack(PackT1, VPower2High(t))]
     IN  /\ pk' = pub
         /\ sk' = [tr |-> HashPk(pub),
                   s1 |-> VPack(PackS, s1), s2 |-> VPack(PackS, s2),
                   t0 |-> VPack(PackT0, VPower2Low(t))]
  /\ mat' = a
  /\ pc' = "keyed"
  /\ UNCHANGED <<call, kappa, used, y, c, sig, asked, verdict>>

(* sign, or prehash_external_mu followed by sign_external_mu; both refuse  *)
(* a context that is too long.                                             *)
Sign(m, ctx, external) ==
  /\ pc = "keyed"
  /\ call' = [m |-> m, ctx |-> ctx, external |-> external]
  /\ pc' = IF Len(ctx) > CtxMax THEN "raised" ELSE "mask"
  /\ UNCHANGED <<keys, kappa, used, y, c, sig, asked, verdict>>

Exhausted == kappa + L - 1 > NonceMax

(* Mutants: the nonce moves by one, or not at all. *)
SampleMaskByOne(polys) ==
  /\ pc = "mask" /\ ~Exhausted
  /\ y' = polys
  /\ used' = used \o [j \in 1 .. L |-> kappa + j - 1]
  /\ kappa' = kappa + 1
  /\ pc' = "challenge"
  /\ UNCHANGED <<keys, call, c, sig, asked, verdict>>
SampleMaskSame(polys) ==
  /\ pc = "mask" /\ ~Exhausted
  /\ y' = polys
  /\ used' = [j \in 1 .. L |-> kappa + j - 1]
  /\ pc' = "challenge"
  /\ UNCHANGED <<keys, call, kappa, c, sig, asked, verdict>>

(* _expand_mask_vector and the nonce: int.to_bytes raises when a nonce no  *)
(* longer fits two bytes.                                                  *)
SampleMask(polys) ==
  /\ pc = "mask" /\ ~Exhausted
  /\ y' = polys
  /\ used' = used \o [j \in 1 .. L |-> kappa + j - 1]
  /\ kappa' = kappa + L
  /\ pc' = "challenge"
  /\ UNCHANGED <<keys, call, c, sig, asked, verdict>>
NoncesExhausted ==
  /\ pc = "mask" /\ Exhausted
  /\ pc' = "raised"
  /\ UNCHANGED <<keys, call, kappa, used, y, c, sig, asked, verdict>>

(* sample_in_ball of the hash of mu and w1 *)
Challenge(f) ==
  /\ pc = "challenge"
  /\ c' = f
  /\ pc' = "checks"
  /\ UNCHANGED <<keys, call, kappa, used, y, sig, asked, verdict>>

(* The four "continue"s, in the order of the loop, and the return. *)
Again ==
  /\ pc' = "mask"
  /\ UNCHANGED <<keys, call, kappa, used, y, c, sig, asked, verdict>>
RejectZ    == pc = "checks" /\ ZBad /\ Again
RejectR0   == pc = "checks" /\ ~ZBad /\ R0Bad /\ Again
RejectCT0  == pc = "checks" /\ ~ZBad /\ ~R0Bad /\ CT0Bad /\ Again
RejectHint == pc = "checks" /\ ~ZBad /\ ~R0Bad /\ ~CT0Bad /\ HintBad /\ Again
Emit ==
  /\ pc = "checks" /\ ~ZBad /\ ~R0Bad /\ ~CT0Bad /\ ~HintBad
  /\ sig' = [c_tilde |-> CTilde(MuOfCall, W1), z |-> VPack(PackZ, Z), h |-> PackH(Hint)]
  /\ pc' = "signed"
  /\ UNCHANGED <<keys, call, kappa, used, y, c, asked, verdict>>

(* _verify_internal on the packed signature: c is what sample_in_ball      *)
(* returns for the challenge seed in it.                                   *)
Accepts(m, ctx) ==
  LET z  == VPack(UnpackZ, sig.z)
      h  == UnpackH(sig.h)
      t1 == VPack(UnpackT1, pk.t1)
      az == VSub(MatVec(mat, z),
                 VScale(c, Each(LAMBDA x : (x * Pow2(D)) % Q, t1)))
  IN  /\ ~HintMalformed(sig.h)
      /\ SumHint(h) <= Omega
      /\ ~VNormFails(z, Gamma1 - Beta)
      /\ sig.c_tilde = CTilde(Mu(HashPk(pk), m, ctx), VUseHint(h, az))

Verify(m, ctx) ==
  /\ pc = "signed"
  /\ asked' = [m |-> m, ctx |-> ctx]
  /\ IF Len(ctx) > CtxMax
     THEN pc' = "raised" /\ UNCHANGED verdict
     ELSE pc' = "verified" /\ verdict' = Accepts(m, ctx)
  /\ UNCHANGED <<keys, call, kappa, used, y, c, sig>>

(* pk_from_sk: everything is computed, then _pack_pk is called with an     *)
(* _xof argument that it does not take, which raises TypeError.            *)
PkFromSk ==
  /\ pc = "keyed"
  /\ pc' = "raised"
  /\ UNCHANGED <<keys, call, kappa, used, y, c, sig, asked, verdict>>

Ended == pc \in {"verified", "raised"} /\ UNCHANGED vars

Next ==
  \/ \E a \in Matrices, s1 \in Secrets1, s2 \in Secrets2 : Keygen(a, s1, s2)
  \/ \E m \in Messages, ctx \in Contexts, e \in BOOLEAN : Sign(m, ctx, e)
  \/ \E polys \in [Cols -> MaskPolys] : SampleMask(polys)
  \/ NoncesExhausted
  \/ \E f \in Ball : Challenge(f)
  \/ RejectZ \/ RejectR0 \/ RejectCT0 \/ RejectHint \/ Emit
  \/ \E m \in Messages, ctx \in Contexts : Verify(m, ctx)
  \/ PkFromSk
  \/ Ended

(* One thread runs the loop; it stops only between two calls. *)
Loop ==
  \/ \E polys \in [Cols -> MaskPolys] : SampleMask(polys)
  \/ NoncesExhausted
  \/ \E f \in Ball : Challenge(f)
  \/ RejectZ \/ RejectR0 \/ RejectCT0 \/ RejectHint \/ Emit

Spec == Init /\ [][Next]_vars /\ WF_vars(Loop)

-----------------------------------------------------------------------------
(* What sign returns verifies for the message and context it was made for, *)
(* whether it was made directly or through mu (generate_KAT and the tests  *)
(* of every fixture rely on it): the loop's four rejections leave exactly  *)
(* the attempts whose packed z and hint give back the hashed w1.           *)
SignedVerifies ==
  pc = "verified" /\ asked.m = call.m /\ asked.ctx = call.ctx => verdict

(* A signature is accepted for no other message or context, also when      *)
(* context and message run together to the same bytes.                     *)
OtherMessageRejected ==
  pc = "verified" /\ <<asked.m, asked.ctx>> # <<call.m, call.ctx>> => ~verdict

(* No two mask polynomials of one signing call are sampled with the same   *)
(* nonce, over all rejected attempts: two masks from one nonce are equal.  *)
NoncesFresh == IsInjective(used)

(* The rejection loop ends: the nonce only grows, and the code raises when *)
(* it leaves two bytes.                                                    *)
SigningEnds == (pc = "mask") ~> (pc \in {"signed", "raised"})

=============================================================================
