------------------------------ MODULE MCHelper ------------------------------
(***************************************************************************)
(* An instance of the helper's life: lanes of four bits in three copies,   *)
(* six lanes of which four are the rate, two rounds; and a sponge of three *)
(* bytes for the calls.  The three states and two messages are scattered   *)
(* bits.                                                                   *)
(***************************************************************************)
EXTENDS HelperLife

MCStages == <<1, 2>>
MCStates ==
  { [i \in 0 .. Lanes - 1 |-> { b \in 0 .. LaneBits - 1 : (m * (i + 1) * (b + 3) + i + b) % 7 < 3 }] :
      m \in 1 .. 3 }
MCMsgs ==
  { { a \in 0 .. 2 * RateLanes * LaneBits - 1 : (m * a * a + a) % 5 < 2 } : m \in 1 .. 2 }
=============================================================================
