------------------------------ MODULE KeyLife ------------------------------
(***************************************************************************)
(* The life of a key: its holder writes it as text, prepare.py makes the   *)
(* blob's text of it (Prepare), a deployment script makes that text the    *)
(* code of an account, and the verifier is called on the account           *)
(* (Verifier).  A run of prepare.py may be cut while it writes, and the    *)
(* file may be passed on with other white space or prefixes.               *)
(***************************************************************************)
EXTENDS Verifier, Sequences

CONSTANTS
  N, Q, D, Zeta, T1Bits, RhoLen, PerWord, CoefBytes, CandidateTop, ByteBase, Want,
  Shake128(_, _), Shake256(_, _),     (* of Prepare                        *)
  Keys,              (* keys that holders have, as bytes                   *)
  Writings(_),       (* texts that bytes are written as                    *)
  Cuts,              (* lengths at which a write may end early             *)
  KeyAddr            (* accounts that blobs are deployed to                *)

VARIABLES
  holder,            (* whose key is being registered, or <<>>             *)
  file,              (* the file at PK_BLOB_PATH; <<>> if there is none    *)
  made               (* the last registration: its key and its code        *)

P == INSTANCE Prepare

(* The blob's layout is the one the contract reads. *)
ASSUME LifeAssumption == T1Len = N * CoefBytes /\ ALen = K * T1Len

keyVars == <<holder, file, made>>
NotMade == [key |-> <<>>, code |-> [size |-> 0, bytes |-> <<>>]]

(* A blob as the code of an account. *)
Byte(b)     == IF b = 0 THEN ZeroByte ELSE [of |-> "byte", at |-> b]
CodeOf(bs)  == [size |-> Len(bs), bytes |-> [x \in 0 .. Len(bs) - 1 |-> Byte(bs[x + 1])]]

(* prepare.py on a writing of the key: it writes the blob's text, whole or *)
(* cut, or refuses and writes nothing.                                     *)
RunPrepare(key) ==
  /\ last = NoCall /\ pc = "idle" /\ file = <<>>
  /\ \E text \in Writings(P!ToHex(key)) :
       LET bytes == P!DecodePk(text)
       IN  /\ bytes # P!Refused
           /\ LET whole == P!ToHex(P!Build(bytes))
              IN  \E n \in {Len(whole)} \cup Cuts : file' = SubSeq(whole, 1, n)
  /\ holder' = key
  /\ UNCHANGED <<made, vars>>

(* The step is forgotten, and the file holds the key itself. *)
SkipPrepare(key) ==
  /\ last = NoCall /\ pc = "idle" /\ file = <<>>
  /\ file' = P!ToHex(key)
  /\ holder' = key
  /\ UNCHANGED <<made, vars>>

(* DeployPkBlob, on a writing of the file: a new account, or a refusal     *)
(* before anything is broadcast.                                           *)
DeployPkBlob(a) ==
  /\ pc = "idle" /\ file # <<>>
  /\ \E text \in Writings(file) :
       LET blob == P!LoadPkBlob(text)
       IN  \/ /\ blob = P!Refused
              /\ UNCHANGED <<made, code>>
           \/ /\ blob # P!Refused
              /\ code' = [code EXCEPT ![a] = CodeOf(blob)]
              /\ made' = [key |-> holder, code |-> CodeOf(blob)]
  /\ file' = <<>> /\ holder' = <<>>
  /\ UNCHANGED <<F1600, last, pc, args, locals>>

(* The arguments are arbitrary before the first call. *)
LifeInit ==
  /\ Init
  /\ pk = CHOOSE a \in Addr : TRUE
  /\ msg = CHOOSE m \in Msgs : TRUE
  /\ sig = CHOOSE s \in Sigs : TRUE
  /\ holder = <<>> /\ file = <<>> /\ made = NotMade

(* Bounds: keys are registered before the first call, and a registration   *)
(* under way is finished before the chain goes on.                         *)
LifeNext ==
  \/ \E key \in Keys : RunPrepare(key) \/ SkipPrepare(key)
  \/ \E a \in KeyAddr : DeployPkBlob(a)
  \/ file = <<>> /\ Next /\ UNCHANGED keyVars

LifeSpec == LifeInit /\ [][LifeNext]_<<vars, keyVars>>

-----------------------------------------------------------------------------
(* Field n of polynomial y of bytes copied from a blob, as the verifier    *)
(* reads it: mload of a word, then the field's shift.                      *)
Field(bs, y, n) ==
  LET size  == PerWord * CoefBytes
      first == (y * N + (n \div PerWord) * PerWord) * CoefBytes
      low   == (first + size - 1) - (n % PerWord) * CoefBytes
  IN  IF CoefBytes = 1 THEN bs[low].at ELSE bs[low].at + 256 * bs[low - 1].at

(* The value of a polynomial at x. *)
ValueAt(poly, x) ==
  LET horner[n \in 0 .. N] == IF n = N THEN 0 ELSE (poly[n] + x * horner[n + 1]) % Q
  IN  horner[0]

(* The first N candidates below Q of a long enough stream. *)
EntryOfA(key, row, column) ==
  SubSeq(SelectSeq(P!Candidates(Shake128(SubSeq(key, 1, RhoLen) \o <<column, row>>, 16 * Want)),
                   LAMBDA v : v < Q),
         1, N)

(* Coefficient n of row t of 2^D t1, from the key's bits. *)
ScaledT1(key, t, n) ==
  LET Bit(b) == (key[b \div 8 + 1] \div 2 ^ (b % 8)) % 2
      sum[b \in 0 .. T1Bits] ==
        IF b = T1Bits THEN 0
        ELSE Bit(8 * RhoLen + (t * N + n) * T1Bits + b) * 2 ^ (b + D) + sum[b + 1]
  IN  sum[0]

(* What the blob of a key must hold, by FIPS 204. *)
KeyValues ==
  [key \in { k \in Keys : Len(k) = P!PK_SIZE } |->
     [tr |-> Shake256(key, TrLen),
      t1 |-> [t \in Rows |-> [n \in 0 .. N - 1 |->
                ValueAt([c \in 0 .. N - 1 |-> ScaledT1(key, t, c)],
                        Zeta ^ (2 * P!Brv(n) + 1) % Q)]],
      a  |-> [t \in Rows |-> [c \in Rows |-> EntryOfA(key, t, c)]]]]

(* A registration that goes through registers the key its holder meant,    *)
(* however the key and the file were written: the account holds the key's  *)
(* tr, 2^D t1 in values at the odd powers of zeta in the order of the      *)
(* contract's transform, and the entries of A of FIPS 204, where the       *)
(* verifier looks for each.  A cut file, a raw key, a wrong length, a      *)
(* dropped digit, an i for a j or a field out of its place break it.       *)
RegisteredIsTheKey ==
  made # NotMade =>
    LET Copied(o, n) == ExtCodeCopy(made.code, 1 + o, n)
        values       == KeyValues[made.key]
    IN  /\ made.key \in DOMAIN KeyValues
        /\ made.code.size = PK_SIZE + 1
        /\ \A x \in 0 .. TrLen - 1 : Copied(0, TrLen)[x].at = values.tr[x + 1]
        /\ \A t \in Rows, n \in 0 .. N - 1 :
             /\ Field(Copied(PK_T1_OFF + t * T1Len, T1Len), 0, n) = values.t1[t][n]
             /\ \A c \in Rows :
                  Field(Copied(PK_A_OFF + t * ALen, ALen), c, n) = values.a[t][c][n + 1]
=============================================================================
