----------------------------- MODULE RecoverW1 -----------------------------
(***************************************************************************)
(* MLDSA44Verifier._verifyCore from the sampled and decoded polynomials to *)
(* w1Encode: the rows of RowProduct, then UseHint on them with the masks   *)
(* of the decoder.  Both passes read and write the same rows; the masks    *)
(* are read by the second only, and are chosen when it begins.             *)
(***************************************************************************)
EXTENDS RowProduct

CONSTANTS
  D,               (* 2 gamma2                                             *)
  Hints,           (* choices of the masks: hints[row][coefficient]        *)
  W1Dirt           (* what a byte of useHintSwar's raw buffer holds        *)

VARIABLES
  hints,           (* the masks, once useHintSwar runs                     *)
  hintRow, hintSrc, hm, dst, w1

hintVars == <<hintRow, hintSrc, hm, dst, w1>>
allVars  == <<vars, hints, hintVars>>

(* Coefficient n of a row is lane n % 4 of word n div 4. *)
Flat(row) == [n \in 0 .. 255 |-> row[n \div 4][(n % 4) + 1]]

(* What useHintSwar is called with; the rows stay as they are from then on.*)
Hinted ==
  [k \in 0 .. Rows - 1 |->
     [r |-> IF pass = "w1" THEN Flat(r[k + 1]) ELSE <<>>, h |-> hints[k]]]

U == INSTANCE UseHint WITH
       Polys <- Rows, Dirt <- W1Dirt, input <- Hinted,
       i <- hintRow, src <- hintSrc

ASSUME RecoverW1Assumption ==
  /\ D \in Nat \ {0} /\ (Q - 1) % D = 0 /\ D % 2 = 0 /\ U!M \in 2 .. 64
  /\ \A h \in Hints : \A k \in 0 .. Rows - 1 : \A n \in 0 .. 255 : h[k][n] \in {0, 1}
  /\ W1Dirt \in 0 .. 255

NoHints == [k \in 0 .. Rows - 1 |-> <<>>]

RecoverInit ==
  /\ Init
  /\ hints = NoHints /\ hintRow = 0 /\ hintSrc = 0 /\ hm = <<>> /\ dst = 0
  /\ w1 = [n \in 0 .. U!Size + 31 |-> W1Dirt]

WPrimeRows == Next /\ UNCHANGED <<hints, hintVars>>

(* The rows return; useHintSwar loads the masks of the first row.          *)
BeginUseHint ==
  /\ pass = "done" /\ pass' = "w1"
  /\ hints' \in Hints
  /\ hm' = hints'[0]
  /\ UNCHANGED <<input, slack, which, block, layer, poly, acc, r, hintRow, hintSrc, dst, w1>>

UseHintTurn == pass = "w1" /\ UNCHANGED <<vars, hints>> /\ U!Turn

RecoverNext == WPrimeRows \/ BeginUseHint \/ UseHintTurn

RecoverSpec == RecoverInit /\ [][RecoverNext]_allVars

-----------------------------------------------------------------------------
(* What is behind dst is final: the turns done leave that prefix of        *)
(* w1Encode of the rows just computed with their hints applied, whatever   *)
(* the raw buffer held and however the overlapping stores fall; no store   *)
(* passes the buffer, and after the last turn dst is its 192 bytes a row.  *)
W1IsEncoded == pass = "w1" => U!PrefixIsEncoded
=============================================================================
