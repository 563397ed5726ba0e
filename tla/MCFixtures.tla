----------------------------- MODULE MCFixtures -----------------------------
(***************************************************************************)
(* An instance of the fixture cache: three processes that ask for the two  *)
(* shards of a family, and a fourth that rebuilds it with --build.         *)
(***************************************************************************)
EXTENDS FixtureCache

MCNames == <<"s1", "s2">>
MCProcs == {"p1", "p2", "p3", "rebuild"}
MCWant == [p \in MCProcs |->
  CASE p = "rebuild" -> "all" [] p = "p2" -> "s2" [] OTHER -> "s1"]
=============================================================================
