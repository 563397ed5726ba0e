----------------------------- MODULE MCCampaign -----------------------------
(***************************************************************************)
(* Instances of the campaign: a full run of a catalogue of three mutants,  *)
(* of which the last is pinned as equivalent, and a shorter selection.     *)
(***************************************************************************)
EXTENDS MutationCampaign

MCTodo == <<"m1", "m2", "e1">>
MCCatalogue == {"m1", "m2", "e1"}
MCShort == <<"m1", "e1">>
MCEquivalent == {"e1"}
=============================================================================
