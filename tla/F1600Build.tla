----------------------------- MODULE F1600Build -----------------------------
(***************************************************************************)
(* tools/build_f1600_batch.py: how the helper runtime is made from the     *)
(* straight-line core.  The core keeps a lane in the low bits of a word    *)
(* and masks after every rotation; the runtime keeps Copies copies of the  *)
(* lane in a word ("Q-form") and has no masks.  scan_core finds what must  *)
(* change with a symbolic stack, patch_core rewrites the instructions, and *)
(* emit_absorb, emit_squeeze and emit_lane_map convert at the boundary.    *)
(*                                                                         *)
(* A word is the set of its bits that are 1, a byte has one bit, memory    *)
(* and calldata are the sets of the addresses that hold 1.  Encodings of   *)
(* instructions, jumps and gas are left out.                               *)
(***************************************************************************)
EXTENDS Integers, Sequences, FiniteSets, SequencesExt

CONSTANTS
  LaneBits,   (* 64                                                        *)
  Copies,     (* 4                                                         *)
  Lanes,      (* 25                                                        *)
  RateLanes,  (* 17 = Copies * Copies + 1                                  *)
  Rounds,     (* 24                                                        *)
  Loads,      (* 50: reads of the calldata                                 *)
  Rebuilt,    (* 5: round constants the compiler computes                  *)
  Iotas,      (* 19: round constants pushed as they are                    *)
  Rotations,  (* 696                                                       *)
  MaxDepth,   (* 16                                                        *)
  Stages,     (* the shifts of the byte reversal: 8, 16, 32                *)
  TestStates, (* states verify() runs the raw entry on: lanes as bit sets  *)
  TestMsgs    (* padded messages of two blocks it runs the batch entry on  *)

Width == LaneBits * Copies
Bits  == 0 .. Width - 1

(* What HelperLife assumes of them. *)
BuildAssumption ==
  /\ LaneBits \in Nat /\ Copies \in Nat /\ Lanes \in Nat /\ Rounds \in Nat
  /\ RateLanes <= Lanes
  /\ Stages \in Seq(Nat)

Number(w) == FoldSet(LAMBDA b, n : n + 2 ^ b, 0, w)
Word(n)   == { b \in Bits : (n \div 2 ^ b) % 2 = 1 }

LaneMask  == 0 .. LaneBits - 1
(* rep4 and QK *)
Rep(v)    == { b + LaneBits * c : b \in v, c \in 0 .. Copies - 1 }
One       == Rep({0})

(* An instruction; n is the index of DUPn and SWAPn, word what PUSH pushes. *)
Instr(op, n, w) == [op |-> op, n |-> n, word |-> w]
Push(w)  == Instr("PUSH", 0, w)
Dup(n)   == Instr("DUP", n, {})
Swap(n)  == Instr("SWAP", n, {})
Do(op)   == Instr(op, 0, {})
PushN(n) == Push(Word(n))

(* FoldLeft in pieces of 16, each from a value: a fold over a whole program *)
(* would nest too deeply to be evaluated.                                  *)
Fold(F(_, _), t, s) ==
  LET Piece(k) == SubSeq(s, 16 * k - 15, IF 16 * k < Len(s) THEN 16 * k ELSE Len(s))
  IN FoldLeft(LAMBDA acc, k : CHOOSE r \in { FoldLeft(F, v, Piece(k)) : v \in {acc} } : TRUE,
              t, [k \in 1 .. (Len(s) + 15) \div 16 |-> k])

-----------------------------------------------------------------------------
(* The mini-EVM: s.stack has its top first.                                *)
Load(m, o)     == { b \in Bits : o + Width - 1 - b \in m }
Store(m, o, w) == (m \ (o .. o + Width - 1)) \cup { o + Width - 1 - b : b \in w }

Arity(op) == IF op \in {"MLOAD", "CALLDATALOAD", "NOT"} THEN 1 ELSE 2

Result(op, a, b, m, data) ==
  CASE op = "AND" -> a \cap b
    [] op = "OR"  -> a \cup b
    [] op = "XOR" -> (a \ b) \cup (b \ a)
    [] op = "NOT" -> Bits \ a
    [] op = "SHL" -> { x + Number(a) : x \in b } \cap Bits
    [] op = "SHR" -> { x - Number(a) : x \in b } \cap Bits
    [] op = "ADD" -> Word(Number(a) + Number(b))
    [] op = "SUB" -> Word(2 ^ Width + Number(a) - Number(b))
    [] op = "MUL" -> Word(Number(a) * Number(b))
    [] op = "MLOAD" -> Load(m, Number(a))
    [] op = "CALLDATALOAD" -> Load(data, Number(a))

Execute(s, i, data) ==
  LET st == s.stack
      a  == st[1]
      b  == IF Len(st) > 1 THEN st[2] ELSE {}
      below == SubSeq(st, Arity(i.op) + 1, Len(st))
  IN CASE i.op = "PUSH" -> [s EXCEPT !.stack = <<i.word>> \o st]
       [] i.op = "DUP"  -> [s EXCEPT !.stack = <<st[i.n]>> \o st]
       [] i.op = "SWAP" -> [s EXCEPT !.stack = [st EXCEPT ![1] = st[i.n + 1], ![i.n + 1] = a]]
       [] i.op = "POP"  -> [s EXCEPT !.stack = Tail(st)]
       [] i.op = "MSTORE" -> [stack |-> below, mem |-> Store(s.mem, Number(a), b)]
       [] OTHER -> [s EXCEPT !.stack = <<Result(i.op, a, b, s.mem, data)>> \o below]

Run(code, s, data) == Fold(LAMBDA t, i : Execute(t, i, data), s, code)
Fresh == [stack |-> <<>>, mem |-> {}]

(* The memory map: a round buffer, the state, the message.                 *)
BufferAt(i) == Width * i
StateAt(i)  == Width * (Lanes + i)
MsgAt       == 2 * Width * Lanes

-----------------------------------------------------------------------------
(* scan_core: a symbolic stack of literals, each with the instruction that *)
(* pushed it, and unknown values.                                          *)
Unknown   == [known |-> FALSE, word |-> {}, at |-> 0]
IsMask(e) == e.known /\ e.word = LaneMask

ScanPush(t, i, w) ==
  [t EXCEPT !.stack = <<[known |-> TRUE, word |-> w, at |-> i]>> \o @,
            !.masks = @ + (IF w = LaneMask THEN 1 ELSE 0),
            !.ok = @ /\ (w = LaneMask => i = 1)]

ScanOp(insns, t, i) ==
  LET op   == insns[i].op
      n    == Arity(op)
      args == SubSeq(t.stack, 1, n)
      fixup == op = "AND" /\ IsMask(args[1])
      const == op = "XOR" /\ args[2].known /\ ~ IsMask(args[2])
  IN IF Len(t.stack) < n THEN [t EXCEPT !.ok = FALSE]
     ELSE [t EXCEPT
       !.stack = (IF op = "MSTORE" THEN <<>> ELSE <<Unknown>>) \o SubSeq(@, n + 1, Len(@)),
       !.uses  = @ \cup { <<op, k>> : k \in { x \in 1 .. n : IsMask(args[x]) } },
       !.fixups = @ + (IF fixup THEN 1 ELSE 0),
       !.drops = IF fixup THEN @ \cup {i - 1, i} ELSE @,
       !.iota  = IF const THEN @ \cup {args[2].at} ELSE @,
       !.ok    = /\ @
                 /\ op \in {"SHL", "SHR"} => args[1].known
                 /\ fixup => insns[i - 1].op = "DUP"
                 /\ const => args[2].at \notin t.iota /\ insns[args[2].at].word # {}]

ScanStep(insns, t, i) ==
  LET c == insns[i]
  IN CASE ~ t.ok -> t
       [] t.ok /\ c.op = "PUSH" -> ScanPush(t, i, c.word)
       [] t.ok /\ c.op = "DUP"  -> [t EXCEPT !.stack = <<@[c.n]>> \o @]
       [] t.ok /\ c.op = "SWAP" -> [t EXCEPT !.stack = [@ EXCEPT ![1] = t.stack[c.n + 1], ![c.n + 1] = t.stack[1]]]
       [] OTHER -> ScanOp(insns, t, i)

Scan(insns) ==
  LET t == Fold(LAMBDA acc, i : ScanStep(insns, acc, i),
             [stack |-> <<>>, masks |-> 0, uses |-> {}, fixups |-> 0,
              drops |-> {}, iota |-> {}, ok |-> TRUE],
             [i \in DOMAIN insns |-> i])
  IN [t EXCEPT !.ok = /\ @
                      /\ t.stack = <<>>
                      /\ t.masks = 1
                      /\ t.uses \subseteq {<<"AND", 1>>, <<"XOR", 2>>}
                      /\ 2 * t.fixups = Cardinality(t.drops)]

-----------------------------------------------------------------------------
(* patch_core.  t.skip counts the instructions a longer pattern has taken. *)
Emit(t, code) == [t EXCEPT !.out = @ \o code]

(* PUSH a; PUSH 1; PUSH s; SHL; SUB, where s is 63 or 64. *)
IsRebuilt(insns, i) ==
  /\ i + 4 <= Len(insns)
  /\ insns[i].op = "PUSH" /\ insns[i].word # {}
  /\ insns[i + 1] = PushN(1)
  /\ insns[i + 2] \in {PushN(LaneBits - 1), PushN(LaneBits)}
  /\ insns[i + 3].op = "SHL" /\ insns[i + 4].op = "SUB"

(* Mutant: the constants the compiler computes stay in the low lane. *)
RebuiltConstantLow(a, s) == Push(Word(2 ^ Number(s) - Number(a)))

RebuiltConstant(a, s) == Push(Rep(Word(2 ^ Number(s) - Number(a))))

PatchStep(insns, scan, t, i) ==
  LET c == insns[i]
  IN CASE t.skip > 0 -> [t EXCEPT !.skip = @ - 1]
       [] t.skip = 0 /\ i \in scan.drops -> [t EXCEPT !.dropped = @ + 1]
       [] t.skip = 0 /\ i \notin scan.drops /\ i = 1 ->
            [Emit(t, <<Push({}), Do("NOT")>>) EXCEPT !.ok = @ /\ c = Push(LaneMask)]
       [] t.skip = 0 /\ i \notin scan.drops /\ i > 1 /\ IsRebuilt(insns, i) ->
            [Emit(t, <<RebuiltConstant(c.word, insns[i + 2].word)>>)
               EXCEPT !.rebuilt = @ + 1, !.skip = 4]
       [] t.skip = 0 /\ i \in scan.iota /\ ~ IsRebuilt(insns, i) ->
            [Emit(t, <<Push(Rep(c.word))>>) EXCEPT !.iotas = @ + 1]
       [] t.skip = 0 /\ c.op = "PUSH" /\ i < Len(insns) /\ insns[i + 1].op = "CALLDATALOAD" ->
            [Emit(t, <<PushN(Number(c.word) + StateAt(0)), Do("MLOAD")>>)
               EXCEPT !.loads = @ + 1, !.skip = 1,
                      !.ok = @ /\ Number(c.word) \in { BufferAt(k) : k \in 0 .. Lanes - 1 }]
       [] t.skip = 0 /\ c.op = "CALLDATALOAD" -> [t EXCEPT !.ok = FALSE]
       [] OTHER -> Emit(t, <<c>>)

Patch(insns) ==
  LET scan == Scan(insns)
      t == Fold(LAMBDA acc, i : PatchStep(insns, scan, acc, i),
             [out |-> <<>>, skip |-> 0, loads |-> 0, rebuilt |-> 0, iotas |-> 0,
              dropped |-> 0, ok |-> scan.ok],
             [i \in DOMAIN insns |-> i])
  IN [ok |-> /\ t.ok
             /\ t.loads = Loads /\ t.rebuilt = Rebuilt /\ t.iotas = Iotas
             /\ t.rebuilt + t.iotas = Rounds
             /\ t.dropped = 2 * Rotations
             /\ <<"XOR", 2>> \in scan.uses,
      body |-> t.out]

(* check_stack_neutral: the depth, and its maximum, over the patched body. *)
DepthStep(t, c) ==
  LET pops == IF c.op \in {"NOT", "MLOAD"} THEN 1 ELSE 2
      d == CASE c.op \in {"PUSH", "DUP"} -> t.depth + 1
             [] c.op = "SWAP" -> t.depth
             [] OTHER -> t.depth - pops + (IF c.op = "MSTORE" THEN 0 ELSE 1)
  IN [depth |-> d, max |-> IF d > t.max THEN d ELSE t.max,
      ok |-> /\ t.ok
             /\ c.op = "DUP" => t.depth >= c.n
             /\ c.op = "SWAP" => t.depth >= c.n + 1
             /\ c.op \notin {"PUSH", "DUP", "SWAP"} => t.depth >= pops]

StackNeutral(body) ==
  LET t == Fold(DepthStep, [depth |-> 0, max |-> 0, ok |-> TRUE], body)
  IN t.ok /\ t.depth = 0 /\ t.max <= MaxDepth

-----------------------------------------------------------------------------
(* emit_grev: the bytes of every lane of the word on top reversed.  A stage *)
(* swaps the halves of every field of 2 s bits.                            *)
HighHalf(s) == { b \in Bits : (b \div s) % 2 = 1 }
GrevStage(s) ==
  << Dup(1), Push(HighHalf(s)), Do("AND"), Dup(1), PushN(s), Do("SHR"), Swap(2),
     Do("XOR"), PushN(s), Do("SHL"), Do("OR") >>
Grev == FlattenSeq([k \in DOMAIN Stages |-> GrevStage(Stages[k])])

(* emit_absorb, with K and p on the stack: lane k of a message word, counted *)
(* from the top, replicated and XORed into the state.                      *)
Xored(lane, k) ==
  << Dup(k), Do("MUL"), PushN(StateAt(lane)), Do("MLOAD"), Do("XOR"),
     PushN(StateAt(lane)), Do("MSTORE") >>

AbsorbLane(j, k) ==
  (IF k < Copies - 1 THEN << Dup(1), PushN(LaneBits * (Copies - 1 - k)), Do("SHR") >> ELSE <<>>)
  \o (IF k > 0 THEN << Push(LaneMask), Do("AND") >> ELSE <<>>)
  \o Xored(Copies * j + k, IF k < Copies - 1 THEN 4 ELSE 3)

AbsorbWord(j) ==
  << Dup(1) >> \o (IF j > 0 THEN << PushN(Width * j), Do("ADD") >> ELSE <<>>)
  \o << Do("MLOAD") >> \o Grev
  \o FlattenSeq([k \in 1 .. Copies |-> AbsorbLane(j, k - 1)])

Absorb ==
  LET whole == RateLanes \div Copies
  IN FlattenSeq([j \in 1 .. whole |-> AbsorbWord(j - 1)])
     \o << Dup(1), PushN(Width * whole), Do("ADD"), Do("MLOAD") >> \o Grev
     \o << PushN(LaneBits * (Copies - 1)), Do("SHR") >>
     \o Xored(RateLanes - 1, 3)

(* emit_squeeze: field k of the output word is cut out of lane Copies*j+k. *)
SqueezeLane(j, k) ==
  << PushN(StateAt(Copies * j + k)), Do("MLOAD") >>
  \o (IF k = 0 THEN << PushN(LaneBits * (Copies - 1)), Do("SHL") >>
      ELSE << Push({ b + LaneBits * (Copies - 1 - k) : b \in LaneMask }), Do("AND"), Do("OR") >>)

Squeeze ==
  FlattenSeq([j \in 1 .. RateLanes \div Copies + 1 |->
    FlattenSeq([k \in 1 .. Copies |-> SqueezeLane(j - 1, k - 1)])
    \o Grev \o << PushN(BufferAt(j - 1)), Do("MSTORE") >>])

(* emit_lane_map: an operation with a constant over the words of the state. *)
LaneMap(op, konst, src) ==
  << Push(konst) >>
  \o FlattenSeq([i \in 1 .. Lanes |->
       << PushN(IF src = "CALLDATALOAD" THEN BufferAt(i - 1) ELSE StateAt(i - 1)),
          Do(src), Dup(2), Do(op), PushN(StateAt(i - 1)), Do("MSTORE") >>])
  \o << Do("POP") >>

(* assemble(): what the two entries of the runtime execute around the body. *)
Clean(m) == [i \in 0 .. Lanes - 1 |-> Load(m, StateAt(i))]

(* The state of the raw entry after its lift and after its unlift.         *)
RawIn(data)   == Run(LaneMap("MUL", One, "CALLDATALOAD"), Fresh, data)
RawOut(body, data) == Run(body, RawIn(data), data)
Raw(body, data) == Run(LaneMap("AND", LaneMask, "MLOAD"), RawOut(body, data), data)

(* The loop of the batch entry over a padded message of n blocks.          *)
Block == RateLanes * LaneBits
Blocks(body, msg, n) ==
  Fold(LAMBDA s, k :
             Run(body, [Run(Absorb, [s EXCEPT !.stack = << Word(MsgAt + Block * (k - 1)), One >>], {})
                          EXCEPT !.stack = <<>>], {}),
           [stack |-> <<>>, mem |-> { MsgAt + a : a \in msg }], [k \in 1 .. n |-> k])
Batch(body, msg, n) == Run(Squeeze, Blocks(body, msg, n), {}).mem \cap (0 .. Block - 1)

-----------------------------------------------------------------------------
(* The cores: straight-line code like that of helpers/f1600_core.hex, with *)
(* the lane mask at the bottom of the stack.  A round makes every lane of  *)
(* its output from lanes of its input; the first reads the calldata, odd   *)
(* rounds write the buffer and even rounds the state.                      *)
ReadLane(r, i) ==
  << PushN(IF r = 1 \/ r % 2 = 0 THEN BufferAt(i) ELSE StateAt(i)),
     Do(IF r = 1 THEN "CALLDATALOAD" ELSE "MLOAD") >>
WriteLane(r, i) ==
  << PushN(IF r % 2 = 1 THEN BufferAt(i) ELSE StateAt(i)), Do("MSTORE") >>

After(i, k) == (i + k) % Lanes

(* chi: a xor (b and not c).                                               *)
Chi(r, i) == ReadLane(r, i) \o ReadLane(r, After(i, 1)) \o << Do("NOT") >>
             \o ReadLane(r, After(i, 2)) \o << Do("AND"), Do("XOR") >>

(* theta and rho: a xor rot(b, n), b masked after its two shifts.          *)
Rot(r, i, n) ==
  ReadLane(r, i) \o ReadLane(r, After(i, 1))
  \o << Dup(1), PushN(LaneBits - n), Do("SHR"), Swap(1), PushN(n), Do("SHL"), Do("OR"),
        Dup(3), Do("AND"), Do("XOR") >>
(* The same with the mask below the value: not what the compiler writes.   *)
RotAbove(r, i, n) ==
  ReadLane(r, i) \o ReadLane(r, After(i, 1))
  \o << Dup(1), PushN(LaneBits - n), Do("SHR"), Swap(1), PushN(n), Do("SHL"), Do("OR"),
        Dup(3), Swap(1), Do("AND"), Do("XOR") >>

(* A lane complement, or-ed with another lane.                             *)
Comp(r, i) == << Dup(1) >> \o ReadLane(r, i) \o << Do("XOR") >>
              \o ReadLane(r, After(i, 2)) \o << Do("OR") >>
(* The last one takes the mask from the stack.                             *)
LastComp(r, i) == ReadLane(r, i) \o << Do("XOR") >>

(* iota, with the constant pushed first, computed, or pushed last.         *)
Literal(r, c)     == << Push(c) >> \o Chi(r, 0) \o << Do("XOR") >>
Computed(r, a, n) == << PushN(a), PushN(1), PushN(n), Do("SHL"), Do("SUB") >> \o Chi(r, 0) \o << Do("XOR") >>
LiteralLast(r, c) == Chi(r, 0) \o << Push(c), Do("XOR") >>
(* One push used by two XORs.                                              *)
LiteralTwice(r, c) == << Push(c), Dup(1) >> \o Chi(r, 0) \o << Do("XOR"), Do("XOR") >>

(* What the code of lane i in round r can be.                              *)
CodeOf(r, i) ==
  CASE i = 0 -> { Literal(r, c) \o WriteLane(r, 0) : c \in { {0}, {0, 2}, LaneMask } }
                \cup { LiteralLast(r, {1}) \o WriteLane(r, 0), LiteralTwice(r, {1}) \o WriteLane(r, 0) }
                \cup { Computed(r, 2, n) \o WriteLane(r, 0) : n \in {LaneBits - 1, LaneBits} }
    [] i = 1 -> { Rot(r, 1, n) \o WriteLane(r, 1) : n \in 1 .. LaneBits - 1 }
                \cup { RotAbove(r, 1, 1) \o WriteLane(r, 1) }
    [] i = 2 -> { Comp(r, 2) \o WriteLane(r, 2), Chi(r, 2) \o WriteLane(r, 2) }
    [] i > 2 /\ ~ (r = Rounds /\ i = Lanes - 1) -> { Chi(r, i) \o WriteLane(r, i) }
    [] OTHER -> { LastComp(r, i) \o WriteLane(r, i) }

VARIABLES
  core,       (* the instructions so far                                   *)
  lane,       (* lanes written                                             *)
  built       (* "core" while it is written, then "accepted" or "refused"  *)

build == <<core, lane, built>>

BuildInit == core = << Push(LaneMask) >> /\ lane = 0 /\ built = "core"

Generate ==
  /\ built = "core"
  /\ lane < Rounds * Lanes
  /\ \E code \in CodeOf(lane \div Lanes + 1, lane % Lanes) : core' = core \o code
  /\ lane' = lane + 1
  /\ UNCHANGED built

(* main(): the runtime is written only after every check has passed.       *)
Accept ==
  /\ built = "core"
  /\ lane = Rounds * Lanes
  /\ built' = IF Patch(core).ok /\ StackNeutral(Patch(core).body) THEN "accepted" ELSE "refused"
  /\ UNCHANGED <<core, lane>>

BuildNext == Generate \/ Accept

-----------------------------------------------------------------------------
(* What verify() compares with: the core on its own calldata, and the      *)
(* sponge with lanes read and written low byte first.                      *)
Calldata(st) == UNION { { BufferAt(i) + Width - 1 - b : b \in st[i] } : i \in DOMAIN st }
CoreOf(c, st) == Clean(Run(c, Fresh, Calldata(st)).mem)

LanesOf(msg, k) ==
  [i \in 0 .. Lanes - 1 |->
     IF i < RateLanes THEN { y \in LaneMask : Block * (k - 1) + LaneBits * i + y \in msg } ELSE {}]
BytesOf(st) == UNION { { LaneBits * i + y : y \in st[i] } : i \in 0 .. RateLanes - 1 }
XorLanes(a, b) == [i \in DOMAIN a |-> (a[i] \ b[i]) \cup (b[i] \ a[i])]
Replicated(st) == [i \in DOMAIN st |-> Rep(st[i])]

RuntimeAgrees ==
  LET body == Patch(core).body
  IN /\ \A st \in TestStates :
          /\ Clean(RawIn(Calldata(st)).mem) = Replicated(st)
          /\ Clean(RawOut(body, Calldata(st)).mem) = Replicated(CoreOf(core, st))
          /\ Clean(Raw(body, Calldata(st)).mem) = CoreOf(core, st)
     /\ \A msg \in TestMsgs :
          LET one == CoreOf(core, LanesOf(msg, 1))
          IN Batch(body, msg, 2) = BytesOf(CoreOf(core, XorLanes(one, LanesOf(msg, 2))))
=============================================================================
