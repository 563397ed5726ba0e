----------------------------- MODULE HelperLife -----------------------------
(***************************************************************************)
(* The helper built and the helper used: build_f1600_batch.py makes the    *)
(* runtime from a core (F1600Build) and commits it; the contracts call the *)
(* committed runtime (FastKeccak), for any permutation the core may be.    *)
(***************************************************************************)
EXTENDS FastKeccak

CONSTANTS
  LaneBits, Copies, Lanes, RateLanes, Rounds, Loads, Rebuilt, Iotas,
  Rotations, MaxDepth, Stages, TestStates, TestMsgs       (* of F1600Build *)

VARIABLES core, lane, built

B == INSTANCE F1600Build

ASSUME LifeAssumption == B!BuildAssumption

build == <<core, lane, built>>

(* The tool runs, or the runtime it committed is called. *)
LifeInit ==
  /\ CallerInit
  /\ \/ B!BuildInit /\ fn = "batch" /\ len = 0 /\ outLen = 0
     \/ core = <<>> /\ lane = 0 /\ built = "committed"

LifeNext ==
  \/ B!BuildNext /\ UNCHANGED <<vars, callerVars>>
  \/ built = "committed" /\ CallerNext /\ UNCHANGED build

LifeSpec == LifeInit /\ [][LifeNext]_<<build, vars, callerVars>>

(* A core the tool accepts computes in its patched form, on four copies of *)
(* every lane and in place, what it computes on its own: on the raw entry  *)
(* the state between lift and unlift is exactly the replicated one, and    *)
(* the batch entry reads and writes lanes low byte first.  A mask deleted  *)
(* too many, a constant not replicated, an offset not moved or a shift one *)
(* off in the byte reversal breaks it for some accepted core.              *)
RuntimeIsTheCore == built = "accepted" => B!RuntimeAgrees
=============================================================================
