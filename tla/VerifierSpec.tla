---------------------------- MODULE VerifierSpec ----------------------------
(***************************************************************************)
(* What IMLDSAVerifier promises: a call may fail, but a call that returns  *)
(* returns Algorithm 3's verdict on the code of the blob account at that   *)
(* time, the message and the signature, and on nothing else; and only a    *)
(* verifier whose helper account then holds the pinned code returns.       *)
(***************************************************************************)
CONSTANTS
  Addr,            (* accounts                                             *)
  Codes(_),        (* code an account may hold                             *)
  Msgs, Sigs,
  HelperCode,      (* the code with the pinned hash                        *)
  Valid(_, _, _)   (* Algorithm 3 on a blob code, a message, a signature   *)

VARIABLES
  code,            (* the accounts' code                                   *)
  F1600,           (* the verifier's helper address, or "none"             *)
  last             (* the last call that ended, with its outcome           *)

vars == <<code, F1600, last>>

NoCall == [out |-> "none"]
Outcome(blob, msg, sig, o) == [blob |-> blob, msg |-> msg, sig |-> sig, out |-> o]

Init ==
  /\ code \in [Addr -> UNION {Codes(a) : a \in Addr}]
  /\ \A a \in Addr : code[a] \in Codes(a)
  /\ F1600 = "none"
  /\ last = NoCall

(* Accounts are created, destroyed and created anew. *)
Replace(a) ==
  /\ \E c \in Codes(a) : code' = [code EXCEPT ![a] = c]
  /\ UNCHANGED <<F1600, last>>

Deploy(a) ==
  /\ F1600 = "none"
  /\ code[a] = HelperCode
  /\ F1600' = a
  /\ UNCHANGED <<code, last>>

Fail(pk, msg, sig) ==
  /\ F1600 # "none"
  /\ last' = Outcome(code[pk], msg, sig, "revert")
  /\ UNCHANGED <<code, F1600>>

Answer(pk, msg, sig) ==
  /\ F1600 # "none"
  /\ code[F1600] = HelperCode
  /\ last' = Outcome(code[pk], msg, sig,
                     IF Valid(code[pk], msg, sig) THEN "true" ELSE "false")
  /\ UNCHANGED <<code, F1600>>

Next ==
  \/ \E a \in Addr : Replace(a) \/ Deploy(a)
  \/ \E pk \in Addr, msg \in Msgs, sig \in Sigs : Fail(pk, msg, sig) \/ Answer(pk, msg, sig)

Spec == Init /\ [][Next]_vars
=============================================================================
