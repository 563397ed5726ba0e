---------------------------- MODULE KeccakHelper ----------------------------
(***************************************************************************)
(* The helper runtime that tools/build_f1600_batch.py assembles: one call  *)
(* with a dispatcher on the calldata size, the sponge loop of the batch    *)
(* entry and the single permutation of the raw entry.  Memory offsets of   *)
(* the message are taken relative to 0x6c0.                                *)
(***************************************************************************)
EXTENDS Sponge

CONSTANTS
  RawSize,    (* calldata size that selects the raw permutation (800)      *)
  MaxSize     (* bound: largest calldata considered                        *)

ASSUME HelperAssumption ==
  /\ RawSize \in Nat /\ MaxSize \in Nat

VARIABLES
  size,       (* calldatasize                                              *)
  calldata,   (* the message; for the raw entry, the state's 800 bytes     *)
  pc,         (* "dispatch", "loop", "body", "returned" or "failed"        *)
  mem,        (* the padded message area                                   *)
  counter,    (* 0x660: rate blocks left                                   *)
  ptr,        (* 0x680: next rate block                                    *)
  mode,       (* 0x6a0: 1 in batch mode                                    *)
  state,      (* the 25 lanes                                              *)
  ret         (* what the call returns                                     *)

call == <<size, calldata>>
vars == <<size, calldata, pc, mem, counter, ptr, mode, state, ret>>

(* The lanes a raw caller passes are some earlier state. *)
Lifted(msg) == <<[op |-> "lanes", block |-> msg]>>

None == [kind |-> "none"]
State(s) == [kind |-> "state", lanes |-> s]
Block(s) == [kind |-> "block", lanes |-> s]

(* calldatacopy, then mstore8(len, 0x1f), then the OR of 0x80 into the last *)
(* byte of the last block; memory that was not written reads as zero.       *)
Copied(nb) == [x \in 0 .. nb * Rate - 1 |-> IF x < size THEN calldata[x] ELSE 0]
WithDomain(p) == [p EXCEPT ![size] = Domain]

(* Mutant: the final bit overwrites the byte instead of being ORed in. *)
WithFinalStore(p, nb) == [p EXCEPT ![nb * Rate - 1] = 128]

WithFinal(p, nb) == [p EXCEPT ![nb * Rate - 1] = Or80(p[nb * Rate - 1])]

BlockCount == size \div Rate + 1

Init ==
  /\ size \in 0 .. MaxSize
  /\ calldata \in Messages(size)
  /\ pc = "dispatch"
  /\ mem = <<>>
  /\ counter = 0
  /\ ptr = 0
  /\ mode = 0
  /\ state = Zero
  /\ ret = None

(* Mutant: the raw entry jumps to the loop head. *)
RawEntryToLoop ==
  /\ pc = "dispatch"
  /\ size = RawSize
  /\ state' = Lifted(calldata)
  /\ pc' = "loop"
  /\ UNCHANGED <<call, mem, counter, ptr, mode, ret>>

RawEntry ==
  /\ pc = "dispatch"
  /\ size = RawSize
  /\ state' = Lifted(calldata)
  /\ pc' = "body"
  /\ UNCHANGED <<call, mem, counter, ptr, mode, ret>>

BatchEntry ==
  /\ pc = "dispatch"
  /\ size # RawSize
  /\ mem' = WithFinal(WithDomain(Copied(BlockCount)), BlockCount)
  /\ counter' = BlockCount
  /\ ptr' = 0
  /\ mode' = 1
  /\ pc' = "loop"
  /\ UNCHANGED <<call, state, ret>>

AbsorbBlock ==
  /\ pc = "loop"
  /\ counter # 0
  /\ counter' = counter - 1
  /\ state' = Append(state, Absorb(BlockAt(mem, ptr)))
  /\ ptr' = ptr + Rate
  /\ pc' = "body"
  /\ UNCHANGED <<call, mem, mode, ret>>

Body ==
  /\ pc = "body"
  /\ state' = Append(state, Permute)
  /\ pc' = "loop"
  /\ UNCHANGED <<call, mem, counter, ptr, mode, ret>>

Squeeze ==
  /\ pc = "loop"
  /\ counter = 0
  /\ mode = 1
  /\ ret' = Block(state)
  /\ pc' = "returned"
  /\ UNCHANGED <<call, mem, counter, ptr, mode, state>>

ReturnState ==
  /\ pc = "loop"
  /\ counter = 0
  /\ mode = 0
  /\ ret' = State(state)
  /\ pc' = "returned"
  /\ UNCHANGED <<call, mem, counter, ptr, mode, state>>

(* The call runs out of gas. *)
OutOfGas ==
  /\ pc \notin {"returned", "failed"}
  /\ pc' = "failed"
  /\ UNCHANGED <<call, mem, counter, ptr, mode, state, ret>>

Next ==
  \/ RawEntry \/ BatchEntry \/ AbsorbBlock \/ Body \/ Squeeze \/ ReturnState
  \/ OutOfGas

Spec == Init /\ [][Next]_vars

-----------------------------------------------------------------------------
TypeOK ==
  /\ size \in 0 .. MaxSize
  /\ calldata \in Messages(size)
  /\ pc \in {"dispatch", "loop", "body", "returned", "failed"}
  /\ counter \in 0 .. NumBlocks(size)
  /\ ptr \in 0 .. NumBlocks(size) * Rate
  /\ mode \in {0, 1}
  /\ ret.kind \in {"none", "state", "block"}

(* A returned batch call has absorbed exactly the padded message, block by *)
(* block with one permutation each, for every length around a block edge.  *)
BatchIsSponge ==
  (pc = "returned" /\ size # RawSize) => ret = Block(Absorbed(calldata, size))

(* A call of RawSize bytes is one permutation of the lanes it was given:   *)
(* no sponge, and nothing of the batch state machine shows.                *)
RawIsOnePermutation ==
  (pc = "returned" /\ size = RawSize) => ret = State(Append(Lifted(calldata), Permute))

(* The absorb pointer never leaves the padded message, and the counter     *)
(* says how much of it is left.                                            *)
CounterMatchesPointer ==
  (mode = 1) => ptr + counter * Rate = NumBlocks(size) * Rate
=============================================================================
