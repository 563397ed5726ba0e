----------------------------- MODULE FastKeccak -----------------------------
(***************************************************************************)
(* The callers of the helper in src/FastKeccak170.sol: shake256Batch170    *)
(* (one call), shake256Fast170 (one raw call per permutation), and the     *)
(* choice _computeMu of src/MLDSA44Verifier.sol makes between them,        *)
(* composed with the helper they call (KeccakHelper): a staticcall starts  *)
(* the helper, its steps follow, and the caller takes what it returned.    *)
(***************************************************************************)
EXTENDS KeccakHelper

CONSTANTS
  MaxOut      (* bound: longest output                                     *)

ASSUME CallerAssumption == MaxOut \in Nat

VARIABLES
  fn,         (* the function called: "batch", "fast" or "mu"              *)
  len,        (* input.length                                              *)
  input,      (* the input bytes                                           *)
  outLen,     (* bytes wanted                                              *)
  at,         (* the caller's control state; "call" while the helper runs  *)
  then,       (* where it goes on after the call                           *)
  st,         (* the sponge state of shake256Fast170                       *)
  block,      (* full blocks absorbed                                      *)
  done,       (* output bytes written, in whole blocks                     *)
  output      (* memory from the output's first byte on: the object, then  *)
              (* whatever is allocated behind it                           *)

args == <<fn, len, input, outLen>>
locals == <<st, block, done, output>>
callerVars == <<args, at, then, locals>>

(* Mutant: mu always takes the batch entry. *)
UsesBatchAlways == fn \in {"batch", "mu"}

(* muIn.length == 800 ? shake256Fast170 : shake256Batch170 *)
UsesBatch == fn = "batch" \/ (fn = "mu" /\ len # RawSize)
UsesFast  == fn = "fast" \/ (fn = "mu" /\ len = RawSize)

(* Mutant: the object is allocated as long as its contents. *)
AllocatedExact == outLen

(* Bytes of the object: shake256Batch170 takes outLen (the pointer's word  *)
(* alignment aside), shake256Fast170 whole rate blocks, and at least one.  *)
Allocated ==
  IF UsesBatch THEN outLen
  ELSE Rate * (IF outLen = 0 THEN 1 ELSE (outLen + Rate - 1) \div Rate)

(* No store that starts inside the object reaches further.                 *)
Memory == 0 .. Allocated + Rate - 1

Unwritten == <<"the object's">>
Foreign   == <<"another object's">>

(* _squeezeBlockFast170: one whole rate block, wherever the object ends.   *)
SqueezeInto(buf, s, off) ==
  [x \in Memory |-> IF x >= off /\ x < off + Rate THEN <<s, x - off>> ELSE buf[x]]

(* The returned bytes: the length word says outLen. *)
Result == [x \in 0 .. outLen - 1 |-> output[x]]

(* Mutant: the final bit is stored over the domain byte. *)
LastBlockStore ==
  LET nFull == len \div Rate
      rem   == len - nFull * Rate
      b     == [x \in 0 .. Rate - 1 |->
                  IF x < rem THEN input[nFull * Rate + x] ELSE IF x = rem THEN Domain ELSE 0]
  IN  [b EXCEPT ![Rate - 1] = 128]

(* The last, padded block: rem message bytes, 0x1f, and an XOR of 0x80.    *)
LastBlock ==
  LET nFull == len \div Rate
      rem   == len - nFull * Rate
      b     == [x \in 0 .. Rate - 1 |->
                  IF x < rem THEN input[nFull * Rate + x] ELSE IF x = rem THEN Domain ELSE 0]
  IN  [b EXCEPT ![Rate - 1] = Or80(@)]

CallerInit ==
  /\ fn \in {"batch", "fast", "mu"}
  /\ len \in 0 .. MaxSize
  /\ input \in Messages(len)
  /\ outLen \in 0 .. MaxOut
  /\ fn = "mu" => outLen <= Rate
  /\ at = "start" /\ then = "start"
  /\ st = Zero
  /\ block = 0
  /\ done = 0
  /\ output = [x \in Memory |-> IF x < Allocated THEN Unwritten ELSE Foreign]
  /\ size = 0 /\ calldata = <<>> /\ pc = "idle" /\ mem = <<>>
  /\ counter = 0 /\ ptr = 0 /\ mode = 0 /\ state = Zero /\ ret = None

(* staticcall: the helper starts with fresh memory on the n bytes of data. *)
StaticCall(n, data, back) ==
  /\ at' = "call" /\ then' = back
  /\ size' = n /\ calldata' = data /\ pc' = "dispatch"
  /\ mem' = <<>> /\ counter' = 0 /\ ptr' = 0 /\ mode' = 0
  /\ state' = Zero /\ ret' = None

(* f1600Fast170(st, helper): the 25 lanes are the calldata *)
Permutation(lanes, back) == StaticCall(RawSize, lanes, back)

(* The two require()s of shake256Batch170. *)
BatchRefused ==
  /\ at = "start"
  /\ UsesBatch
  /\ outLen > Rate \/ len = RawSize
  /\ at' = "reverted"
  /\ UNCHANGED <<vars, args, then, locals>>

Batch ==
  /\ at = "start"
  /\ UsesBatch
  /\ outLen <= Rate
  /\ len # RawSize
  /\ StaticCall(len, input, "done")
  /\ UNCHANGED <<args, locals>>

FastStart ==
  /\ at = "start"
  /\ UsesFast
  /\ at' = "full"
  /\ UNCHANGED <<vars, args, then, locals>>

(* One full block: XOR and permute. *)
AbsorbFull ==
  /\ at = "full"
  /\ block < len \div Rate
  /\ Permutation(Append(st, Absorb(BlockAt(input, block * Rate))), "full")
  /\ block' = block + 1
  /\ UNCHANGED <<args, st, done, output>>

AbsorbLast ==
  /\ at = "full"
  /\ block = len \div Rate
  /\ Permutation(Append(st, Absorb(LastBlock)), "squeeze")
  /\ UNCHANGED <<args, locals>>

(* Squeeze a block, and leave the loop once outLen bytes are there. *)
SqueezeBlock ==
  /\ at = "squeeze"
  /\ output' = SqueezeInto(output, st, done)
  /\ done' = done + Rate
  /\ at' = IF done + Rate >= outLen THEN "done" ELSE "permute"
  /\ UNCHANGED <<vars, args, then, st, block>>

PermuteAgain ==
  /\ at = "permute"
  /\ Permutation(st, "squeeze")
  /\ UNCHANGED <<args, locals>>

(* The call came back with the size its caller expects: the state in place *)
(* of the 25 lanes, or the first outLen bytes of the block.                *)
StateReturned ==
  /\ at = "call" /\ then # "done"
  /\ pc = "returned" /\ ret.kind = "state"
  /\ st' = ret.lanes[1].block \o Tail(ret.lanes)
  /\ at' = then
  /\ UNCHANGED <<vars, args, then, block, done, output>>
BlockReturned ==
  /\ at = "call" /\ then = "done"
  /\ pc = "returned" /\ ret.kind = "block"
  /\ output' = [x \in Memory |-> IF x < outLen THEN <<ret.lanes, x>> ELSE output[x]]
  /\ at' = then
  /\ UNCHANGED <<vars, args, then, st, block, done>>

(* It failed, or returned another size. *)
HelperFails ==
  /\ at = "call"
  /\ \/ pc = "failed"
     \/ pc = "returned" /\ ret.kind # (IF then = "done" THEN "block" ELSE "state")
  /\ at' = "reverted"
  /\ UNCHANGED <<vars, args, then, locals>>

HelperStep == at = "call" /\ Next /\ UNCHANGED callerVars

CallerNext ==
  \/ BatchRefused \/ Batch \/ FastStart \/ AbsorbFull \/ AbsorbLast
  \/ SqueezeBlock \/ PermuteAgain \/ StateReturned \/ BlockReturned
  \/ HelperFails \/ HelperStep

CallerSpec == CallerInit /\ [][CallerNext]_<<vars, callerVars>>

-----------------------------------------------------------------------------
(* Whatever the path, the length and the number of squeeze blocks, a       *)
(* result is the prefix of SHAKE256 of the input: every byte of the raw    *)
(* allocated buffer is written, from the right block; and the whole blocks *)
(* the squeeze stores have written nothing behind the object.              *)
ResultIsShake ==
  at = "done" =>
    /\ Result = Shake(input, len, outLen)
    /\ \A x \in Memory : x >= Allocated => output[x] = Foreign

(* mu is computed for every message length: _computeMu reverts only when a *)
(* helper call ran out of gas, never because of the length the batch entry *)
(* cannot express or of a size the caller did not expect.                  *)
MuIsTotal == (at = "reverted" /\ fn = "mu") => pc = "failed"
=============================================================================
