--------------------------- MODULE MCFormalChecks ---------------------------
(***************************************************************************)
(* The tools of formal/ that judge the repository: the obligation suite    *)
(* and its audit (FormalChecks), the check of the Lean development         *)
(* (AxiomCheck) and the check of the campaign's results (Hypotheses).      *)
(* run_checks.sh starts them one after the other and they share no file    *)
(* that one of them writes, so a behaviour is one of the three.            *)
(*                                                                         *)
(* The instance: a suite of one obligation per phase, with each kind of    *)
(* conjunct (a predicate with its controls, a proof with its two guards,   *)
(* an enumeration of two claims that nothing guards, and a kernel), every  *)
(* single edit of it, and every mutation the catalogue needs to falsify    *)
(* each row.  A development of two files with an audited theorem each and  *)
(* a helper, and a third file that nothing imports.  A catalogue of three  *)
(* mutants and an equivalent.                                              *)
(***************************************************************************)
EXTENDS FormalChecks, AxiomCheck, Hypotheses

SuiteIdle ==
  /\ phase = "idle" /\ haveZ3 = FALSE /\ saves = 0
  /\ repo = (CHOOSE t \in Trees : TRUE) /\ SuiteInit(repo)
  /\ sel = {} /\ todo = <<>> /\ base = {} /\ outcomes = <<>> /\ exit = -1
LeanIdle ==
  /\ tree = CHOOSE t \in LeanTrees : TRUE
  /\ step = "idle" /\ lakeThere = FALSE /\ problems = {} /\ status = -1 /\ printed = -1
  /\ log = <<>> /\ elaborated = <<>> /\ leanSaves = 0
HypIdle ==
  /\ sources = Off /\ campaign = Off /\ artefact = Off /\ origin = Off
  /\ answer = "idle" /\ edits = 0

ToolsInit ==
  \/ AuditInit /\ LeanIdle /\ HypIdle
  \/ LeanInit /\ SuiteIdle /\ HypIdle
  \/ HypInit /\ SuiteIdle /\ LeanIdle

ToolsNext ==
  \/ phase # "idle" /\ AuditNext /\ UNCHANGED <<leanVars, hypVars>>
  \/ step # "idle" /\ LeanNext /\ UNCHANGED <<vars, auditVars, hypVars>>
  \/ answer # "idle" /\ HypNext /\ UNCHANGED <<vars, auditVars, leanVars>>

ToolsSpec == ToolsInit /\ [][ToolsNext]_<<vars, auditVars, leanVars, hypVars>>

-----------------------------------------------------------------------------

Part(name, tells) == [name |-> name, tells |-> tells]
MCReviewed ==
  <<[id |-> "C9", phase |-> "calc", parts |-> <<Part("accepts_0", "accepts"), Part("rejects_0", "rejects")>>],
    [id |-> "S5", phase |-> "smt",
     parts |-> <<Part("lane", "claim"), Part("premises_sat", "premises_sat"),
                 Part("claims_discriminate", "discriminate")>>],
    [id |-> "E3", phase |-> "exh", parts |-> <<Part("low", "claim"), Part("high", "claim")>>],
    [id |-> "O3", phase |-> "kernel", parts |-> <<Part("ge", "claim"), Part("premises_sat", "premises_sat")>>]>>

MCPinParts == <<"every_region_digest_matches", "executing_modules_are_the_pinned_bytes">>
MCIdParts  == <<"no_duplicate_obligations", "no_duplicate_conjuncts", "obligations_exact",
                "conjuncts_exact", "obligation_count", "conjunct_count">>

Owner(id) == IF id = "O3" THEN "ko" ELSE "va"
MCKinds == {"drop", "duplicate", "rename", "gutpart", "gut", "tighten", "break", "raise",
            "comment"}
Single == {{}} \cup {{Edit(Owner(s.id), k, s.id)} : s \in ToSet(MCReviewed), k \in MCKinds}
             \cup {{Edit(Owner(id), "contradict", id)} : id \in {"S5", "O3"}}

Texts(t) == [f \in {"va", "ko"} |-> {e \in t : e.file = f}]
Tree(t, sp, pinned, driver, pyc) ==
  [va |-> Texts(t).va, ko |-> Texts(t).ko, sp |-> sp,
   table |-> RewriteTables(Texts(pinned), Texts(pinned)),
   driver |-> driver, pyc |-> pyc, copy |-> FALSE]

MCTrees ==
  {Tree(t, {}, {}, "pinned", FALSE) : t \in Single}
    \cup {Tree(t, {}, t, "pinned", FALSE) : t \in Single}
    \cup {Tree({}, sp, {}, driver, pyc) : sp \in {{}, {Edit("sp", "break", "pins")}},
            driver \in {"pinned", "edited", "absent"}, pyc \in BOOLEAN}

MCSaved == {{}, {Edit("va", "gut", "C9")}, {Edit("ko", "break", "O3")}, {Edit("ko", "comment", "O3")}}

Mutation(id, kind, of, equiv) == [id |-> id, edit |-> Edit(Owner(of), kind, of), equiv |-> equiv]
MCCatalogue ==
  <<Mutation("V01", "tighten", "C9", FALSE), Mutation("VT01", "gut", "C9", FALSE),
    Mutation("V02", "break", "S5", FALSE), Mutation("VT02", "gut", "S5", FALSE),
    Mutation("VT06", "contradict", "S5", FALSE), Mutation("V03", "break", "E3", FALSE),
    Mutation("V04", "break", "O3", FALSE), Mutation("VT07", "contradict", "O3", FALSE),
    Mutation("V05", "duplicate", "E3", FALSE), Mutation("V06", "rename", "C9", FALSE),
    Mutation("V07", "comment", "S5", TRUE)>>
MCSelections == {{}, {"V03", "V07"}, {"V99"}}

-----------------------------------------------------------------------------
Decl(name, stmt, proof) ==
  [name |-> name, stmt |-> stmt, proof |-> proof,
   uses |-> IF name = "mu_is_floor" THEN {"helper"} ELSE {}]
MCWalk     == <<"Barrett", "Barrett_old", "Decode">>
MCImported == {"Barrett", "Decode"}
MCPinned   == [mu_is_floor |-> "s1", canon_lt_q |-> "s2"]

Files(barrett, old, decode) == [Barrett |-> barrett, Barrett_old |-> old, Decode |-> decode]
Proofs == {"checked", "broken", "conjured", "sorry", "admit", "axiom", "native_decide",
           "skipKernelTC", "implemented_by"}
Good(name) == Decl(name, MCPinned[name], "checked")

Developments ==
  {Files(<<Decl("mu_is_floor", s, pf), Decl("helper", "h", hp)>>, old, <<Good("canon_lt_q")>>) :
     s \in {"s1", "true"}, pf \in Proofs, hp \in {"checked", "sorry", "broken", "conjured"},
     old \in {<<>>, <<Good("mu_is_floor")>>, <<Decl("mu_is_floor", "true", "sorry")>>}}
    \cup {Files(<<Good("mu_is_floor")>>, <<>>, d) :
            d \in {<<>>, <<Decl("renamed", "s2", "checked")>>,
                    <<Good("canon_lt_q"), Good("mu_is_floor")>>,
                    <<Decl("canon_lt_q", "true", "checked")>>}}

Development(files, directives, replay) ==
  [files |-> files, directives |-> directives, replay |-> replay]
AllDirectives == <<"mu_is_floor", "canon_lt_q">>
CleanLog == [status |-> 0, warned |-> FALSE,
             audited |-> [n \in DOMAIN MCPinned |-> {"propext"}]]
Clean == Files(<<Good("mu_is_floor"), Decl("helper", "h", "checked")>>, <<>>, <<Good("canon_lt_q")>>)

MCLeanTrees ==
  {Development(f, AllDirectives, r) : f \in Developments, r \in {<<>>, <<CleanLog>>}}
    \cup {Development(Files(<<Decl("mu_is_floor", "s1", pf), Decl("helper", "h", "checked")>>,
                         <<>>, <<Good("canon_lt_q")>>), d, <<>>) :
            pf \in {"checked", "conjured"},
            d \in {<<"canon_lt_q">>, <<"canon_lt_q", "helper">>,
                   <<"mu_is_floor", "canon_lt_q", "helper">>,
                   <<"mu_is_floor", "mu_is_floor", "canon_lt_q">>,
                   <<"mu_is_floor", "canon_lt_q", "no_such">>}}
MCLeanSaves ==
  {Development(Clean, AllDirectives, <<>>), Development(Clean, <<"canon_lt_q">>, <<>>),
   Development(Files(<<Decl("mu_is_floor", "s1", "conjured")>>, <<>>, <<Good("canon_lt_q")>>), AllDirectives, <<>>),
   Development(Files(<<Decl("mu_is_floor", "true", "skipKernelTC")>>, <<>>, <<Good("canon_lt_q")>>), AllDirectives, <<>>)}
-----------------------------------------------------------------------------
(* A named test and another kill M1, a single one M2, two M3, which no test*)
(* is named after; E is equivalent.  M1 or M3 may lose killers, the patch  *)
(* of M2 may be in dead code, and that of E in live code.                  *)
MCMutants    == {"M1", "M2", "M3", "E"}
MCEquivalent == {"E"}
MCSolePins   == [M2 |-> "t2"]
Claim3(kind, test, mutant) == [kind |-> kind, test |-> test, mutant |-> mutant]
MCClaims(gaps) ==
  {Claim3("kill", "t1", "M1"), Claim3("equivalent", "e", "E")} \cup
    CASE gaps = "named"   -> {Claim3("kill", "t2", "M2")}
      [] gaps = "renamed" -> {Claim3("kill", "t2", "M1")}
      [] OTHER            -> {Claim3("kill", "t2", "E")}
MCKills(s, m) ==
  CASE m = "M1" -> {"t1"} \cup (IF s.corpus = "thin" THEN {} ELSE {"other"})
    [] m = "M2" -> IF s.mutants = "pinned" THEN {"t2"} ELSE {}
    [] m = "M3" -> IF s.corpus = "bare" THEN {} ELSE {"other", "third"}
    [] m = "E"  -> IF s.mutants = "live" THEN {"other"} ELSE {}
MCMutantTexts == {"pinned", "dead", "live"}
MCGapsTexts   == {"named", "renamed", "argued"}
MCCorpusTexts == {"whole", "thin", "bare"}
=============================================================================
