----------------------------- MODULE HintUnpack -----------------------------
(***************************************************************************)
(* unpackHFast of src/Decode.sol: the hint decoder.  The encoding is Omega *)
(* index bytes followed by K cut counters; polynomial r owns the index     *)
(* bytes from the previous cut up to its own.  All checks accumulate into  *)
(* one flag, so the scan also runs over encodings that are already known   *)
(* to be bad.  A mask is the set of its bits.                              *)
(***************************************************************************)
EXTENDS Integers

CONSTANTS
  K,          (* polynomials, and cut counters (4)                         *)
  Omega,      (* index bytes (80)                                          *)
  Word,       (* bytes of an EVM word (32)                                 *)
  MaxByte,    (* largest byte value (255)                                  *)
  Lengths     (* lengths hBytes may have                                   *)

ASSUME HintAssumption ==
  /\ K \in Nat /\ K >= 1
  /\ Omega \in Nat /\ Omega >= 1
  /\ Word \in Nat /\ Word >= 1
  /\ MaxByte \in Nat
  /\ Lengths \subseteq Nat

VARIABLES
  len,        (* hBytes.length                                             *)
  y,          (* the first Omega + K bytes of hBytes                       *)
  pc,         (* "checks", "row", "scan" or "done"                         *)
  bad,        (* some check has failed                                     *)
  i,          (* polynomial                                                *)
  j,          (* index byte                                                *)
  kIdx,       (* first index byte of polynomial i                          *)
  cut,        (* end of polynomial i, clamped to Omega                     *)
  prevP,      (* previous index + 1, or 0 at the start of a row            *)
  m,          (* mask of polynomial i so far                               *)
  masks,      (* result: one mask per polynomial                           *)
  ok,         (* result: the encoding is accepted                          *)
  weight      (* result: number of hints                                   *)

input == <<len, y>>
vars  == <<len, y, pc, bad, i, j, kIdx, cut, prevP, m, masks, ok, weight>>

Rows      == 0 .. K - 1
Size      == Omega + K
Bytes     == 0 .. MaxByte
Encodings == [0 .. Size - 1 -> Bytes]

(* byte(28 + r, cw) *)
Counter(r) == y[Omega + r]

CountersBad ==
  \/ \E r \in 1 .. K - 1 : Counter(r - 1) > Counter(r)
  \/ Counter(K - 1) > Omega

(* The three shifted words: word w of the index bytes loses its first      *)
(* c3 - w * Word bytes (none when c3 is not past the word, all of them     *)
(* when a whole word or more is shifted out).                              *)
Dropped(w) == IF Counter(K - 1) > w * Word THEN Counter(K - 1) - w * Word ELSE 0

PaddingBad ==
  \E w \in 0 .. (Omega - 1) \div Word, k \in 0 .. Word - 1 :
    /\ w * Word + k < Omega
    /\ k >= Dropped(w)
    /\ y[w * Word + k] # 0

(* Mutant: no clamp. *)
ClampNot(n) == n

Clamp(n) == IF n > Omega THEN Omega ELSE n

Init ==
  /\ len \in Lengths
  /\ y \in Encodings
  /\ pc = "checks"
  /\ bad = FALSE
  /\ i = 0 /\ j = 0 /\ kIdx = 0 /\ cut = 0 /\ prevP = 0
  /\ m = {}
  /\ masks = [r \in Rows |-> {}]
  /\ ok = FALSE
  /\ weight = 0

(* A short encoding is rejected before anything is read. *)
TooShort ==
  /\ pc = "checks"
  /\ len < Size
  /\ pc' = "done"
  /\ UNCHANGED <<input, bad, i, j, kIdx, cut, prevP, m, masks, ok, weight>>

(* Counters and padding. *)
Checks ==
  /\ pc = "checks"
  /\ len >= Size
  /\ bad' = (CountersBad \/ PaddingBad)
  /\ pc' = "row"
  /\ UNCHANGED <<input, i, j, kIdx, cut, prevP, m, masks, ok, weight>>

(* Mutants: the mask, or the previous index, survives from the last row. *)
BeginRowKeepMask ==
  /\ pc = "row"
  /\ i < K
  /\ cut' = Clamp(Counter(i))
  /\ j' = kIdx
  /\ prevP' = 0
  /\ pc' = "scan"
  /\ UNCHANGED <<input, m, bad, i, kIdx, masks, ok, weight>>

BeginRowKeepPrev ==
  /\ pc = "row"
  /\ i < K
  /\ cut' = Clamp(Counter(i))
  /\ j' = kIdx
  /\ m' = {}
  /\ pc' = "scan"
  /\ UNCHANGED <<input, prevP, bad, i, kIdx, masks, ok, weight>>

(* Start of polynomial i. *)
BeginRow ==
  /\ pc = "row"
  /\ i < K
  /\ cut' = Clamp(Counter(i))
  /\ j' = kIdx
  /\ prevP' = 0
  /\ m' = {}
  /\ pc' = "scan"
  /\ UNCHANGED <<input, bad, i, kIdx, masks, ok, weight>>

(* One index byte: strictly above the previous one of its row. *)
ScanIndex ==
  /\ pc = "scan"
  /\ j < cut
  /\ bad' = (bad \/ y[j] < prevP)
  /\ prevP' = y[j] + 1
  /\ m' = m \cup {y[j]}
  /\ j' = j + 1
  /\ UNCHANGED <<input, pc, i, kIdx, cut, masks, ok, weight>>

(* End of polynomial i: its end is the start of the next one. *)
EndRow ==
  /\ pc = "scan"
  /\ j >= cut
  /\ masks' = [masks EXCEPT ![i] = m]
  /\ kIdx' = cut
  /\ i' = i + 1
  /\ pc' = "row"
  /\ UNCHANGED <<input, bad, j, cut, prevP, m, ok, weight>>

Finish ==
  /\ pc = "row"
  /\ i = K
  /\ ok' = ~ bad
  /\ weight' = IF bad THEN 0 ELSE Counter(K - 1)
  /\ pc' = "done"
  /\ UNCHANGED <<input, bad, i, j, kIdx, cut, prevP, m, masks>>

Next == TooShort \/ Checks \/ BeginRow \/ ScanIndex \/ EndRow \/ Finish

Spec == Init /\ [][Next]_vars

-----------------------------------------------------------------------------
TypeOK ==
  /\ len \in Lengths
  /\ y \in Encodings
  /\ pc \in {"checks", "row", "scan", "done"}
  /\ bad \in BOOLEAN
  /\ i \in 0 .. K
  /\ j \in 0 .. Omega
  /\ kIdx \in 0 .. Omega
  /\ cut \in 0 .. Omega
  /\ prevP \in 0 .. MaxByte + 1
  /\ m \subseteq Bytes
  /\ masks \in [Rows -> SUBSET Bytes]
  /\ ok \in BOOLEAN
  /\ weight \in Nat

(* FIPS 204, Algorithm 21, as a predicate on the encoding: the cuts do not *)
(* decrease and stay within Omega, each row is strictly increasing, and    *)
(* every unused index byte is zero.                                        *)
RowStart(r) == IF r = 0 THEN 0 ELSE Counter(r - 1)
RowBytes(r) == (RowStart(r) .. Counter(r) - 1) \cap 0 .. Omega - 1
RowSet(r)   == {y[x] : x \in RowBytes(r)}

WellFormed ==
  /\ \A r \in Rows : RowStart(r) <= Counter(r) /\ Counter(r) <= Omega
  /\ \A r \in Rows : \A x \in RowBytes(r) : x - 1 \in RowBytes(r) => y[x - 1] < y[x]
  /\ \A x \in Counter(K - 1) .. Omega - 1 : y[x] = 0

(* The branch-free decoder accepts what Algorithm 21 accepts and nothing   *)
(* else, and then returns exactly the rows of the encoding: nothing of an  *)
(* earlier row leaks into a later one, although the flag is only looked at *)
(* once, at the end.                                                       *)
DecodesAsAlgorithm21 ==
  pc = "done" => /\ ok <=> (len >= Size /\ WellFormed)
                 /\ ok => \A r \in Rows : masks[r] = RowSet(r)

(* "The scan provably cannot read outside the 80 index bytes on a rejected *)
(* encoding either".                                                       *)
ScanInBounds == (pc = "scan" /\ j < cut) => j < Omega

(* _unpack_h of pythonref/dilithium_py/dilithium/dilithium.py, the oracle  *)
(* of the test tree: non-decreasing rows are enough for it.                *)
OracleAccepts ==
  /\ \A r \in Rows : RowStart(r) <= Counter(r)
  /\ Counter(K - 1) <= Omega
  /\ \A x \in Counter(K - 1) .. Omega - 1 : y[x] = 0
  /\ \A r \in Rows : \A x \in RowBytes(r) : x - 1 \in RowBytes(r) => ~ y[x] < y[x - 1]

(* coeffs[non_zero] = 1, over the bytes between two offsets. *)
OracleHints(r) == {y[x] : x \in RowStart(r) .. Counter(r) - 1}

HasRepeat ==
  \E r \in Rows : \E x \in RowBytes(r) : x - 1 \in RowBytes(r) /\ y[x] = y[x - 1]

(* The decoder and the oracle disagree on indices repeated within a row    *)
(* alone (docs/FORMAL_VERIFICATION.md, section 4b), and not on what an     *)
(* encoding says: whatever the oracle accepts, the decoder's masks hold    *)
(* the hints the oracle returns, also where only the oracle accepts.       *)
OracleDiffersOnRepeatsOnly ==
  (pc = "done" /\ len >= Size) =>
    /\ ok <=> (OracleAccepts /\ ~ HasRepeat)
    /\ OracleAccepts => \A r \in Rows : masks[r] = OracleHints(r)
=============================================================================
