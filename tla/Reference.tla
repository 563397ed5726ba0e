----------------------------- MODULE Reference -----------------------------
(***************************************************************************)
(* One process of the Python reference: it samples from an XOF (Samplers), *)
(* and then makes a key, signs and verifies (Dilithium).  What a sampler   *)
(* returned is forgotten: the scheme chooses its polynomials freely among  *)
(* those a sampler can return, so that its instance can have another       *)
(* degree and modulus than that of the samplers.                           *)
(***************************************************************************)
EXTENDS Dilithium

CONSTANTS
  SamplerQ, SamplerN, SamplerTau, SamplerEta, SamplerGamma1, SamplerZBits,
  Block, Out, MinBlock,                              (* of XofReader       *)
  HalfBits, SignBytes, MinSpare, Period, ByteValues    (* of Samplers        *)

VARIABLES xof, task, stream, at, reader, want, signs, coeffs, next

S == INSTANCE Samplers WITH
  Q <- SamplerQ, N <- SamplerN, Tau <- SamplerTau, Eta <- SamplerEta,
  Gamma1 <- SamplerGamma1, ZBits <- SamplerZBits,
  kind <- xof, pc <- at, i <- next

ASSUME ReferenceAssumption == S!SamplersAssumption

sampler == <<xof, task, stream, at, reader, want, signs, coeffs, next>>

(* The scheme starts when the sampler has returned. *)
Returned ==
  /\ at = "done"
  /\ at' = "returned"
  /\ xof' = "none" /\ task' = "none" /\ stream' = Nil /\ reader' = Nil
  /\ want' = 0 /\ signs' = Nil /\ coeffs' = Nil /\ next' = 0
  /\ UNCHANGED vars

ReferenceNext ==
  \/ S!Step /\ UNCHANGED vars
  \/ Returned
  \/ at = "returned" /\ Next /\ UNCHANGED sampler

ReferenceSpec ==
  /\ S!Init /\ Init
  /\ [][ReferenceNext]_<<sampler, vars>>
  /\ WF_sampler(S!Step /\ UNCHANGED vars)
  /\ WF_vars(at = "returned" /\ Loop /\ UNCHANGED sampler)

(* Whichever reader feeds it, a sampler that ends has taken exactly what   *)
(* FIPS 204 takes from the stream: no byte is skipped, repeated or missing *)
(* where a buffer ends, a block is made or a digest starts over.           *)
SampledIsSpec == at = "done" => coeffs = S!Sampled

(* Sampling ends: a longer digest is asked for when the last one held too  *)
(* little, and every read goes forward in the stream.                      *)
SamplingEnds == <>(at = "done")
=============================================================================
