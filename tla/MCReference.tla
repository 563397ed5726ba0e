---------------------------- MODULE MCReference ----------------------------
(***************************************************************************)
(* Instance for TLC: q = 41 = 4 * 10 + 1, two coefficients, a 2 x 2 matrix *)
(* and choices of matrices, secrets and masks under which every one of the *)
(* four rejections happens.  The samplers have bytes of four bits, four    *)
(* coefficients, blocks so short that every reader runs out of buffer      *)
(* several times, and byte values of which each sampler refuses some.      *)
(***************************************************************************)
EXTENDS Reference, TLC

P(a, b)        == (0 :> a) @@ (1 :> b)
Mat(a, b, x, z) == (0 :> P(a, b)) @@ (1 :> P(x, z))

MCMatrices ==
  { Mat(P(31, 20), P(10, 0), P(8, 18), P(4, 38)),
    Mat(P(34, 21), P(27, 10), P(15, 29), P(20, 12)) }
MCSecrets1 == { P(P(-1, 1), P(0, 1)) }
MCSecrets2 == { P(P(1, -1), P(1, -1)), P(P(0, 0), P(0, 0)) }
MCMasks    == { P(1, -6), P(-5, 2), P(7, 0), P(4, -3) }
MCMessages == { <<>>, <<1>> }
MCContexts == { <<>>, <<1>>, <<0, 0>> }
=============================================================================
