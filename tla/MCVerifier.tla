----------------------------- MODULE MCVerifier -----------------------------
(***************************************************************************)
(* Instance: a helper account that holds the pinned or another code, and a *)
(* blob account that holds one of two keys, a blob one byte short or one   *)
(* byte long, or nothing; polynomials of four coefficients mod 17, a byte  *)
(* each, and bytes of SHAKE with four values.                              *)
(***************************************************************************)
EXTENDS KeyLife, TLC

MCAddr == {"helper", "blob"}

Key1 == <<5, 27, 201, 64, 158>>
Key2 == <<9, 250, 3, 77, 16>>
MCKeys == {Key1, Key2, SubSeq(Key1, 1, 4), Append(Key1, 0)}

(* White space, one prefix or two, a digit lost and a stray character. *)
MCWritings(text) ==
  {text, <<0, P!Ex>> \o text, <<0, P!Ex, 0, P!Ex>> \o text, <<0, P!Space, P!Ex>> \o text,
   <<P!Space>> \o SubSeq(text, 1, 3) \o <<P!Space>> \o SubSeq(text, 4, Len(text)),
   Append(text, P!Wide), SubSeq(text, 1, Len(text) - 1), Append(text, P!Other)}
MCKeyAddr == {"blob"}
MCCuts == {7, 8, 2 * P!BLOB_SIZE - 2}

(* Streams that look random; half of their candidates are below Q. *)
MCShake(data, n, m, values) ==
  LET seed == LET sum[x \in 0 .. Len(data)] == IF x = 0 THEN m ELSE (5 * sum[x - 1] + data[x]) % 251
              IN  sum[Len(data)]
  IN  [x \in 1 .. n |-> ((x * x * x + (seed + 3) * x + seed * (x \div 5)) % 67) % values]
MCShake128(data, n) == MCShake(data, n, 1, ByteBase)
MCShake256(data, n) == MCShake(data, n, 2, 256)

(* The blobs of the keys, as prepare.py builds them: an account may hold    *)
(* them from the start.                                                    *)
Blob1 == CodeOf(<<0, 51, 0, 2, 10, 11, 6, 0, 1, 10, 15, 16, 15, 10, 2, 8, 12, 4, 1, 8, 4, 6, 1, 6, 10, 14>>)
Blob2 == CodeOf(<<0, 48, 2, 4, 5, 13, 5, 14, 1, 1, 1, 3, 0, 14, 5, 15, 0, 0, 0, 5, 2, 15, 13, 14, 1, 4>>)
Resized(c, n) ==
  [size |-> n, bytes |-> [x \in 0 .. n - 1 |-> IF x < c.size THEN c.bytes[x] ELSE ZeroByte]]

Pinned == [size |-> 1, bytes |-> [x \in {0} |-> [of |-> "keccak", at |-> 0]]]
Other  == [size |-> 1, bytes |-> [x \in {0} |-> [of |-> "other", at |-> 0]]]

MCCodes(a) ==
  IF a = "helper" THEN {Pinned, Other}
  ELSE {Blob1, Blob2, Resized(Blob1, PK_SIZE), Resized(Blob1, PK_SIZE + 2), Resized(Blob1, 0)}

MCMsgs == {"m1", "m2"}

Good == [len |-> SigLen, hOk |-> TRUE, weight |-> 1, h |-> "h1", normOk |-> TRUE,
         z |-> [x \in Rows |-> [z |-> x]], c |-> "c1"]

MCSigs == {Good, [Good EXCEPT !.len = SigLen + 1], [Good EXCEPT !.hOk = FALSE],
           [Good EXCEPT !.weight = Omega + 1], [Good EXCEPT !.normOk = FALSE],
           [Good EXCEPT !.h = "h2"], [Good EXCEPT !.c = "c2"]}

(* The signature Good was made for the first key and the first message;    *)
(* every other hash is another challenge.  A blob that is too short or too *)
(* long would hash like the key it was cut from.                           *)
MCChallenge(m, w1) ==
  IF /\ m = RefMu(Blob1, "m1")
     /\ w1 = RefW1(Blob1, Good)
  THEN "c1" ELSE "c0"
=============================================================================
