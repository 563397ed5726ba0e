----------------------------- MODULE Hypotheses -----------------------------
(***************************************************************************)
(* formal/hypotheses.py on what the mutation campaign leaves: the names of *)
(* the tests in test/MUT_Gaps.t.sol are claims about mutants, and the check*)
(* compares them with the killers that the results file records, after it  *)
(* has asked whether that file is a whole campaign about these sources.    *)
(* A campaign is run_mutation.py as far as the results file shows it: the  *)
(* sources it copied at its start, and a file written after every verdict. *)
(***************************************************************************)
EXTENDS Integers, FiniteSets

CONSTANTS
  PinnedMutants,     \* EXPECTED_MUTANTS
  PinnedEquivalent,  \* EXPECTED_EQUIVALENT
  SolePins,          \* SOLE_KILLER_PINS: mutant -> test
  MutantTexts, GapsTexts, CorpusTexts,  \* what the files may be
  Claims(_),         \* of a text of MUT_Gaps.t.sol: [kind, test, mutant]
  Kills(_, _),       \* the tests of the sources that fail on a mutant
  MaxEdits

VARIABLES
  sources,     \* the files: mutants.py, MUT_Gaps.t.sol, the rest of the corpus
  campaign,    \* the campaign that runs, or Off
  artefact,    \* the results file
  origin,      \* history: the sources the file's verdicts are about
  answer,      \* of the last check of these very files: "green" or "red"
  edits

hypVars == <<sources, campaign, artefact, origin, answer, edits>>

Off == [mode |-> "off"]
SourceDigests(s) == [mutants |-> s.mutants, gaps |-> s.gaps]
NonEquivalent == PinnedMutants \ PinnedEquivalent

HypInit ==
  /\ sources \in [mutants : MutantTexts, gaps : GapsTexts, corpus : CorpusTexts]
  /\ campaign = Off /\ artefact = Off /\ origin = sources
  /\ answer = "none" /\ edits = MaxEdits

(* Only --full selects all, and a results file is named on the command     *)
(* line or is the one in the repository for --full alone.                  *)
StartCampaign ==
  /\ campaign = Off /\ artefact = Off
  /\ \E mode \in {"FULL", "SAMPLE"}, failFast \in BOOLEAN, todo \in SUBSET PinnedMutants :
       /\ todo # {} /\ (mode = "FULL" => todo = PinnedMutants)
       /\ campaign' = [mode |-> mode, fail_fast |-> failFast, todo |-> todo,
                       copied |-> sources, rows |-> <<>>]
  /\ UNCHANGED <<sources, artefact, origin, answer, edits>>

(* The killers of a run that is cut at the first failures are some of them.*)
KillersSeen(c, m) ==
  LET killers == Kills(c.copied, m)
  IN  IF c.fail_fast THEN SUBSET killers \ (IF killers = {} THEN {} ELSE {{}}) ELSE {killers}

Row(killers, verdict) == [killers |-> killers, verdict |-> verdict]
Verdicts(c, m) ==
  {Row(k, IF k = {} THEN "SURVIVED" ELSE "KILLED") : k \in KillersSeen(c, m)}
    \cup {Row({}, "TIMEOUT")}

(* A verdict, and the results file written with the digests of the sources *)
(* as they are at that moment.                                             *)
Judge ==
  /\ campaign # Off
  /\ \E m \in campaign.todo \ DOMAIN campaign.rows : \E row \in Verdicts(campaign, m) :
       LET rows == [x \in DOMAIN campaign.rows \cup {m} |-> IF x = m THEN row ELSE campaign.rows[x]]
       IN  /\ campaign' = [campaign EXCEPT !.rows = rows]
           /\ artefact' = [mode |-> campaign.mode, fail_fast |-> campaign.fail_fast,
                           complete |-> campaign.mode = "FULL" /\ DOMAIN rows = PinnedMutants,
                           source_sha256 |-> SourceDigests(sources), rows |-> rows]
  /\ origin' = campaign.copied
  /\ answer' = "none"
  /\ UNCHANGED <<sources, edits>>

(* The campaign ends, at its end or before. *)
EndCampaign ==
  /\ campaign # Off /\ campaign' = Off
  /\ UNCHANGED <<sources, artefact, origin, answer, edits>>

EditSource ==
  /\ edits > 0 /\ edits' = edits - 1
  /\ \/ \E t \in MutantTexts : sources' = [sources EXCEPT !.mutants = t]
     \/ \E t \in GapsTexts   : sources' = [sources EXCEPT !.gaps = t]
     \/ \E t \in CorpusTexts : sources' = [sources EXCEPT !.corpus = t]
  /\ answer' = "none"
  /\ UNCHANGED <<campaign, artefact, origin>>

-----------------------------------------------------------------------------
(* The file is a whole campaign, with whole killer lists, of these texts.  *)
ArtefactProblems(a) ==
  {p \in {"sample", "fail_fast", "incomplete", "stale"} :
     \/ p = "sample"     /\ a.mode # "FULL"
     \/ p = "fail_fast"  /\ a.fail_fast
     \/ p = "incomplete" /\ (~a.complete \/ DOMAIN a.rows # PinnedMutants)
     \/ p = "stale"      /\ a.source_sha256 # SourceDigests(sources)}

(* test_MUT_<m>_* must be among m's killers, m not equivalent, and the test*)
(* test_equivalent_<m>_* must argue about a pinned mutant that survived.   *)
ClaimProblems(a) ==
  LET claims == Claims(sources.gaps)
      holds(cl) ==
        IF cl.kind = "kill"
        THEN /\ cl.mutant \in DOMAIN a.rows \ PinnedEquivalent
             /\ cl.test \in a.rows[cl.mutant].killers
        ELSE /\ cl.mutant \in DOMAIN a.rows \cap PinnedEquivalent
             /\ a.rows[cl.mutant].verdict = "SURVIVED"
  IN  {cl \in claims : ~holds(cl)}
        \cup (IF \E cl \in claims : cl.kind = "kill" THEN {} ELSE {"no claims"})

Sole(a) == {m \in DOMAIN a.rows \ PinnedEquivalent : Cardinality(a.rows[m].killers) = 1}

(* Mutant: a killer that has become the only one is not noticed.           *)
SoleProblemsOneWay(a) ==
  {m \in DOMAIN SolePins : m \notin Sole(a) \/ a.rows[m].killers # {SolePins[m]}}

(* The pins of single killers, in both directions. *)
SoleProblems(a) ==
  {m \in DOMAIN SolePins : m \notin Sole(a)}
    \cup {m \in Sole(a) : m \notin DOMAIN SolePins \/ a.rows[m].killers # {SolePins[m]}}

Check ==
  /\ answer = "none"
  /\ answer' = IF /\ artefact # Off
                  /\ ArtefactProblems(artefact) = {} /\ ClaimProblems(artefact) = {}
                  /\ SoleProblems(artefact) = {}
               THEN "green" ELSE "red"
  /\ UNCHANGED <<sources, campaign, artefact, origin, edits>>

HypNext == StartCampaign \/ Judge \/ EndCampaign \/ EditSource \/ Check

-----------------------------------------------------------------------------
(* "Every test names the mutant id it kills, so the link between a test and*)
(* the defect it detects is reproducible": green means that every named    *)
(* test does fail on its mutant in the sources the campaign copied,        *)
(* whatever was saved since, that an argued equivalent failed nothing, and *)
(* that a killed mutant has a single killer just when it is pinned with it.*)
AttributionsHold ==
  answer = "green" =>
    /\ \A cl \in Claims(sources.gaps) :
         IF cl.kind = "kill" THEN cl.test \in Kills(origin, cl.mutant)
         ELSE Kills(origin, cl.mutant) = {}
    /\ \A m \in NonEquivalent : artefact.rows[m].verdict = "KILLED" =>
         \A t \in Kills(origin, m) :
           Kills(origin, m) = {t} <=> m \in DOMAIN SolePins /\ SolePins[m] = t

(* "Their digests go into the artefact so that mut_attribution_problems can*)
(* refuse an artefact produced from a different pair of files rather than  *)
(* quote it": a green answer is about the files the campaign copied.       *)
QuotedIsOfTheseSources ==
  answer = "green" => SourceDigests(origin) = SourceDigests(sources)
=============================================================================
