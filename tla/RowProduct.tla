----------------------------- MODULE RowProduct -----------------------------
(***************************************************************************)
(* MLDSA44Verifier._wPrimeRows and Decode.matvecRow: the transforms of c   *)
(* and of the four z, then for each row the product of the row of A with z *)
(* less c t1, in one lazy accumulator, and its inverse transform.  A step  *)
(* is one layer of an octet or a quad, or one turn of an in-word loop.     *)
(***************************************************************************)
EXTENDS InvNtt

CONSTANTS
  Inputs,          (* choices of <<c, z0, z1, z2, z3>>, canonical words    *)
  Rows,            (* how many rows (4 in the code)                        *)
  A, T1,           (* the public key's rows: A[row][column], T1[row]       *)
  PKBound,         (* what the lanes of A and T1 are below (q in the code) *)
  KQ28,            (* the offset of the c t1 term: a multiple of Q         *)
  Slacks,          (* what the Barrett steps may leave: words of 0 and Q   *)
  Dirt             (* what is in the memory the accumulator is given       *)

Canonical == 0 .. Q - 1
IsMemory(m, bound) ==
  DOMAIN m = Words /\ \A w \in Words : DOMAIN m[w] = Lanes /\ \A l \in Lanes : m[w][l] \in 0 .. bound - 1

(* ACC_ENTRY, the largest lane of an accumulator. *)
AccEntry == 4 * (PKBound - 1) * (17 * Q - 1) + KQ28

ASSUME RowProductAssumption ==
  /\ Rows \in Nat \ {0}
  /\ PKBound \in 1 .. Q
  /\ \A in \in Inputs : DOMAIN in = 1 .. 5 /\ \A k \in 1 .. 5 : IsMemory(in[k], Q)
  /\ \A i \in 1 .. Rows : IsMemory(T1[i], PKBound) /\ \A k \in 0 .. 3 : IsMemory(A[i][k], PKBound)
  /\ \A e \in Slacks : DOMAIN e = Lanes /\ \A l \in Lanes : e[l] \in {0, Q}

ASSUME OffsetAssumption ==
  /\ KQ28 \in Nat /\ KQ28 % Q = 0 /\ (PKBound - 1) * (17 * Q - 1) <= KQ28
  /\ AccEntry <= ACCQ30
  /\ 2 * AccEntry <= ACCQ31

VARIABLES
  input,           (* what was decoded and sampled                         *)
  slack,           (* what the Barrett steps leave in each lane            *)
  pass,            (* the pass that is running                             *)
  which,           (* the polynomial transformed: 1 for c, 2 .. 5 for z    *)
  block,           (* its octet, quad, word or turn                        *)
  layer,           (* the layer of the pass                                *)
  poly,            (* the memory of c and z                                *)
  acc,             (* the accumulator                                      *)
  r                (* the rows done                                        *)

vars == <<input, slack, pass, which, block, layer, poly, acc, r>>

Init ==
  /\ input \in Inputs /\ slack \in Slacks
  /\ pass = "A" /\ which = 1 /\ block = 0 /\ layer = 1
  /\ poly = input
  /\ acc = Dirt
  /\ r = <<>>

(* The next layer, the next block, or the next pass.                       *)
Advance(layers, blocks, then) ==
  IF layer < layers THEN layer' = layer + 1 /\ UNCHANGED <<block, pass>>
  ELSE /\ layer' = 1
       /\ IF block + 1 < blocks THEN block' = block + 1 /\ UNCHANGED pass
          ELSE block' = 0 /\ pass' = then

StrideA == <<32, 16, 8>>
StrideB == <<4, 2, 1>>

PassA ==
  /\ pass = "A"
  /\ poly' = [poly EXCEPT ![which] = ForwardLayer(@, OctetA(block), StrideA[layer], slack)]
  /\ Advance(3, 8, "B")
  /\ UNCHANGED <<input, slack, which, acc, r>>

PassB ==
  /\ pass = "B"
  /\ poly' = [poly EXCEPT ![which] = ForwardLayer(@, OctetB(block), StrideB[layer], slack)]
  /\ Advance(3, 8, "C")
  /\ UNCHANGED <<input, slack, which, acc, r>>

PassC ==
  /\ pass = "C"
  /\ poly' = [poly EXCEPT ![which][block] = ForwardWord(@, block)]
  /\ Advance(1, 64, IF which < 5 THEN "A" ELSE "mac1")
  /\ which' = IF block = 63 /\ which < 5 THEN which + 1 ELSE which
  /\ UNCHANGED <<input, slack, acc, r>>

Row == Len(r) + 1
Turn == 4 * block .. 4 * block + 3

(* The products of two columns of A with their z, in word w. *)
Columns(i, j, w) ==
  [l \in Lanes |-> A[Row][i][w][l] * poly[i + 2][w][l] + A[Row][j][w][l] * poly[j + 2][w][l]]

(* KQ28 - c t1 *)
MinusCT1(w) == [l \in Lanes |-> KQ28 - T1[Row][w][l] * poly[1][w][l]]

(* Mutant: the first pass adds to what is in the accumulator. *)
MacFirstAdds ==
  /\ pass = "mac1"
  /\ acc' = [w \in Words |-> IF w \in Turn THEN Plus(acc[w], Columns(0, 1, w)) ELSE acc[w]]
  /\ Advance(1, 16, "mac2")
  /\ UNCHANGED <<input, slack, which, poly, r>>

(* The first pass writes the accumulator ... *)
MacFirst ==
  /\ pass = "mac1"
  /\ acc' = [w \in Words |-> IF w \in Turn THEN Columns(0, 1, w) ELSE acc[w]]
  /\ Advance(1, 16, "mac2")
  /\ UNCHANGED <<input, slack, which, poly, r>>

(* ... and the second adds to it. *)
MacSecond ==
  /\ pass = "mac2"
  /\ acc' = [w \in Words |-> IF w \in Turn
       THEN Plus(Plus(acc[w], MinusCT1(w)), Columns(2, 3, w)) ELSE acc[w]]
  /\ Advance(1, 16, "entry")
  /\ UNCHANGED <<input, slack, which, poly, r>>

Entry ==
  /\ pass = "entry"
  /\ acc' = [acc EXCEPT ![block] = EntryWord(@, block)]
  /\ Advance(1, 64, "34")
  /\ UNCHANGED <<input, slack, which, poly, r>>

Layers34 ==
  /\ pass = "34"
  /\ acc' = InverseLayer(acc, Quad34(block), <<1, 2>>[layer], slack)
  /\ Advance(2, 16, "56")
  /\ UNCHANGED <<input, slack, which, poly, r>>

Layers56 ==
  /\ pass = "56"
  /\ acc' = InverseLayer(acc, Quad56(block), <<4, 8>>[layer], slack)
  /\ Advance(2, 16, "78")
  /\ UNCHANGED <<input, slack, which, poly, r>>

Layers78 ==
  /\ pass = "78"
  /\ acc' = IF layer = 1 THEN InverseLayer(acc, Quad78(block), 16, slack)
            ELSE LastLayer(acc, Quad78(block))
  /\ Advance(2, 16, IF Row < Rows THEN "mac1" ELSE "done")
  /\ r' = IF block = 15 /\ layer = 2 THEN Append(r, acc') ELSE r
  /\ UNCHANGED <<input, slack, which, poly>>

Next ==
  \/ PassA \/ PassB \/ PassC \/ MacFirst \/ MacSecond
  \/ Entry \/ Layers34 \/ Layers56 \/ Layers78

Spec == Init /\ [][Next]_vars

-----------------------------------------------------------------------------
(* Layers of the forward transform that word w of polynomial k has behind. *)
LayersDone(k, w) ==
  IF k < which \/ pass \notin {"A", "B", "C"} THEN 8
  ELSE IF k > which THEN 0
  ELSE CASE pass = "A" -> IF w % 8 < block THEN 3 ELSE IF w % 8 = block THEN layer - 1 ELSE 0
         [] pass = "B" -> IF w \div 8 < block THEN 6 ELSE IF w \div 8 = block THEN layer + 2 ELSE 3
         [] pass = "C" -> IF w < block THEN 8 ELSE 6

(* The blocks of the inverse transform that word w is in.                  *)
BlockOf(w) ==
  CASE pass = "34" -> w \div 4
    [] pass = "56" -> 4 * (w \div 16) + (w % 4)
    [] OTHER -> w % 16

(* Layers of the inverse transform from the third on.                      *)
InverseDone(w) ==
  LET before == CASE pass = "34" -> 0 [] pass = "56" -> 2 [] OTHER -> 4
  IN  IF BlockOf(w) < block THEN before + 2
      ELSE IF BlockOf(w) = block THEN before + layer - 1 ELSE before

(* What lanes of the accumulator stay below, by the schedule of the code.  *)
AccumulatorBound(w) ==
  CASE pass = "mac1" -> 2 * (PKBound - 1) * (17 * Q - 1) + 1
    [] pass = "mac2" -> IF w \in 0 .. 4 * block - 1 THEN AccEntry + 1
                        ELSE 2 * (PKBound - 1) * (17 * Q - 1) + 1
    [] pass = "entry" -> IF w < block THEN 2 * Q ELSE AccEntry + 1
    [] pass \in {"34", "56", "78"} ->
         IF InverseDone(w) = 5 /\ w % 32 >= 16 THEN 2 * Q
         ELSE <<2, 4, 8, 16, 32, 64, 1>>[InverseDone(w) + 1] * Q
    [] OTHER -> Q

Written(w) == pass = "mac1" => w < 4 * block

(* "Outputs are LAZY - every lane < 17q": after L layers of the forward    *)
(* transform lanes are below (2L + 1)q; the accumulator stays within       *)
(* ACC_ENTRY, and sums at most double from layer to layer of the inverse.  *)
LaneBounds ==
  /\ \A k \in 1 .. 5 : \A w \in Words : \A l \in Lanes :
       poly[k][w][l] \in 0 .. (2 * LayersDone(k, w) + 1) * Q - 1
  /\ pass \notin {"A", "B", "C"} => \A w \in Words : \A l \in Lanes :
       Written(w) => acc[w][l] \in 0 .. AccumulatorBound(w) - 1

(* No subtraction borrows from the lane above: what the step at hand takes *)
(* away in a lane is at most what is there and the offset added first.     *)
NoBorrow ==
  LET Dominated(t, offset(_)) == \A w \in Words : (BlockOf(w) = block /\ ~ IsLow(w, t)) =>
        \A l \in Lanes : acc[w][l] <= acc[w - t][l] + offset(w)
  IN  /\ pass = "mac2" => \A w \in Turn : \A l \in Lanes : MinusCT1(w)[l] >= 0
      /\ pass = "entry" => LET x == acc[block] IN
           /\ x[2] <= x[1] + ACCQ30
           /\ x[4] <= x[3] + ACCQ30
           /\ x[3] + x[4] <= x[1] + x[2] + ACCQ31
      /\ pass = "34" => Dominated(layer, LAMBDA w : Offset(layer))
      /\ pass = "56" => Dominated(4 * layer, LAMBDA w : Offset(4 * layer))
      /\ (pass = "78" /\ layer = 1) => Dominated(16, LAMBDA w : Offset(16))
      /\ (pass = "78" /\ layer = 2) => Dominated(32, LastOffset)

-----------------------------------------------------------------------------
(* FIPS 204: the transform of f is its values at the odd powers of psi, in *)
(* bit-reversed order; FwT[128] is psi.                                    *)
Point(j) == (((FwT[j] * FwT[j]) % Q) * FwT[128]) % Q

(* The table holds the powers of psi, bits reversed: the entries 2k and    *)
(* 2k + 1 are the square roots of entry k and of its opposite (0 and 1,    *)
(* those of 1 and -1), and psi times entry k is entry 128 + k.             *)
ASSUME RootAssumption ==
  /\ FwT[0] = 1
  /\ \A k \in 0 .. 127 :
       /\ (FwT[2 * k] * FwT[2 * k]) % Q = FwT[k]
       /\ (FwT[2 * k + 1] * FwT[2 * k + 1] + FwT[k]) % Q = 0
       /\ FwT[128 + k] = (FwT[k] * FwT[128]) % Q

Coefficient(m, i) == m[i \div 4][(i % 4) + 1]
Coefficients(m)   == [i \in 0 .. 255 |-> Coefficient(m, i)]

(* x to the powers 1, 2, 4 .. 128. *)
Powers(x) ==
  LET power[e \in 0 .. 7] == IF e = 0 THEN x ELSE (power[e - 1] * power[e - 1]) % Q
  IN  power

(* The values of runs of coefficients, given those of their halves and the *)
(* power of the point that the upper halves are multiplied with.           *)
Paired(f, y) == [i \in 0 .. 255 |-> IF i < 128 THEN (f[2 * i] + y * f[2 * i + 1]) % Q ELSE 0]

(* Runs(f, x)[e][i] is the value at x of the i-th run of 2^e coefficients. *)
Runs(f, x) ==
  LET run[e \in 0 .. 8] == IF e = 0 THEN f ELSE Paired(run[e - 1], Powers(x)[e - 1])
  IN  run

ValueAt(m, x) == Runs(Coefficients(m), x)[8][0]

(* The lazy output is congruent to the transform, and it is what every row *)
(* is multiplied with.                                                     *)
ForwardIsNtt ==
  (pass = "mac1" /\ block = 0) => \A k \in 1 .. 5 : \A j \in 0 .. 255 :
    Coefficient(poly[k], j) % Q = ValueAt(input[k], Point(j))

(* A row is canonical and is the inverse transform of the row of A times   *)
(* the transforms of z, less t1 times that of c (FIPS 204, Algorithm 8).   *)
RowIsAlgorithm8 ==
  pass = "done" => \A i \in 1 .. Rows :
    /\ \A w \in Words : \A l \in Lanes : r[i][w][l] \in Canonical
    /\ \A j \in 0 .. 255 :
         LET az(k) == (Coefficient(A[i][k], j) * ValueAt(input[k + 2], Point(j))) % Q
             ct1   == (Coefficient(T1[i], j) * ValueAt(input[1], Point(j))) % Q
         IN  ValueAt(r[i], Point(j)) = (az(0) + az(1) + az(2) + az(3) + Q - ct1) % Q
=============================================================================
