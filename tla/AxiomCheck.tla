----------------------------- MODULE AxiomCheck -----------------------------
(***************************************************************************)
(* formal/lean/check_axioms.py: the Lean development is scanned, elaborated*)
(* in a fresh directory, its axiom lines are compared with the pinned names*)
(* and its statements with the pinned ones.  The files are read anew for   *)
(* the scan, for the copy, for the count of directives and for the         *)
(* statements; one of them may be saved in between.                        *)
(***************************************************************************)
EXTENDS Integers, SequencesExt

CONSTANTS
  Walk,           \* the .lean files with theorems, in the order of the walk
  Imported,       \* those that Mldsa.lean reaches
  Pinned,         \* name -> statement of the audited theorems
  LeanTrees,      \* [files : Walk -> Seq(declaration), directives : Seq(name),
                  \*  replay : what .lake would replay, or <<>>]
  LeanSaves,      \* what the development may be saved as
  MaxLeanSaves

(* How a proof may end; see Axioms below. *)
Forbidden == {"sorry", "admit", "axiom", "native_decide", "skipKernelTC", "implemented_by"}
ASSUME LeanAssumption ==
  /\ Walk \in Seq(ToSet(Walk)) /\ Imported \subseteq ToSet(Walk) /\ MaxLeanSaves \in Nat
  /\ \A t \in LeanTrees \cup LeanSaves, p \in ToSet(Walk) :
       /\ t.files[p] \in Seq(ToSet(t.files[p]))
       /\ \A i \in DOMAIN t.files[p] :
            t.files[p][i].proof \in Forbidden \cup {"checked", "broken", "conjured"}

VARIABLES
  tree,
  step,
  lakeThere,
  problems,       \* what failed so far
  log,            \* of the build: [status, audited, warned]
  elaborated,     \* the files that were copied
  printed,        \* number of directives counted
  status,         \* of this script
  leanSaves

leanVars == <<tree, step, lakeThere, problems, log, elaborated, printed, status, leanSaves>>

ExpectedTheorems == DOMAIN Pinned
ExpectedStatement(name) == Pinned[name]

(* A proof is checked by the kernel ("checked"), leaves a hole, or does not*)
(* elaborate.  A hole is written with a token, except a "conjured" axiom,  *)
(* and shows among the axioms, except where the kernel was told not to look*)
(* or the compiled code is not what was proved about.                      *)
AllowedAxioms == {"propext"}
Axioms(proof) ==
  CASE proof \in {"sorry", "admit"}                -> {"sorryAx"}
    [] proof \in {"axiom", "conjured"}             -> {"user"}
    [] proof = "native_decide"                     -> {"ofReduceBool"}
    [] OTHER                                       -> {"propext"}

AllOf(files, paths) == UNION {ToSet(files[p]) : p \in paths}
(* A theorem and the lemmas its proof uses. *)
Uses(decls, name) ==
  {d \in decls : d.name = name \/ \E e \in decls : e.name = name /\ d.name \in e.uses}
Everywhere == ToSet(Walk)

LeanInit ==
  /\ tree \in LeanTrees /\ lakeThere \in BOOLEAN
  /\ step = "scan" /\ problems = {} /\ status = -1 /\ printed = -1
  /\ log = [status |-> -1, audited |-> <<>>, warned |-> FALSE]
  /\ elaborated = [p \in Everywhere |-> <<>>]
  /\ leanSaves = MaxLeanSaves

(* scan_sources, on the text without comments.                             *)
ScanSources ==
  /\ step = "scan"
  /\ problems' = {<<"token", d.name>> : d \in {e \in AllOf(tree.files, Everywhere) : e.proof \in Forbidden}}
  /\ IF lakeThere THEN step' = "build" /\ UNCHANGED status
     ELSE step' = "done" /\ status' = 2
  /\ UNCHANGED <<tree, lakeThere, log, elaborated, printed, leanSaves>>

(* What lake prints for a development without a cache.  Audit.lean is      *)
(* elaborated when everything it imports is; a directive about no theorem  *)
(* is an error of its own.                                                 *)
Elaboration(t) ==
  LET all      == AllOf(t.files, Imported)
      sound(p) == \A i \in DOMAIN t.files[p] : t.files[p][i].proof # "broken"
      once     == \A p, q \in Imported : \A i \in DOMAIN t.files[p], j \in DOMAIN t.files[q] :
                    t.files[p][i].name = t.files[q][j].name => p = q /\ i = j
      builds   == once /\ \A p \in Imported : sound(p)
      known    == {n \in ToSet(t.directives) : \E d \in all : d.name = n}
  IN  [status  |-> IF builds /\ known = ToSet(t.directives) THEN 0 ELSE 1,
       audited |-> [n \in (IF builds THEN known ELSE {}) |->
                      UNION {Axioms(d.proof) : d \in Uses(all, n)}],
       warned  |-> \E p \in Imported : \E i \in DOMAIN t.files[p] :
                     sound(p) /\ t.files[p][i].proof \in {"sorry", "admit"}]

BuildFailed(l) == IF l.status = 0 THEN {} ELSE {<<"build", "exited">>}

(* Mutant: lake in the working tree, which replays what it has cached.     *)
RunLakeInPlace ==
  /\ step = "build" /\ step' = "directives"
  /\ elaborated' = tree.files
  /\ log' = IF tree.replay = <<>> THEN Elaboration(tree) ELSE tree.replay[1]
  /\ problems' = problems \cup BuildFailed(log')
  /\ UNCHANGED <<tree, lakeThere, printed, status, leanSaves>>

(* run_lake: the files found are copied and elaborated from nothing.       *)
RunLake ==
  /\ step = "build" /\ step' = "directives"
  /\ elaborated' = tree.files
  /\ log' = Elaboration(tree)
  /\ problems' = problems \cup BuildFailed(log')
  /\ UNCHANGED <<tree, lakeThere, printed, status, leanSaves>>

CountDirectives ==
  /\ step = "directives" /\ step' = "audit"
  /\ printed' = Len(tree.directives)
  /\ UNCHANGED <<tree, lakeThere, problems, log, elaborated, status, leanSaves>>

AuditAxioms ==
  /\ step = "audit" /\ step' = "statements"
  /\ LET audited == DOMAIN log.audited
     IN  problems' = problems
           \cup (IF Cardinality(audited) # printed THEN {<<"directives", "reported">>} ELSE {})
           \cup {<<"missing", n>> : n \in ExpectedTheorems \ audited}
           \cup {<<"unexpected", n>> : n \in audited \ ExpectedTheorems}
           \cup {<<"depends", n>> : n \in {m \in audited : ~log.audited[m] \subseteq AllowedAxioms}}
           \cup (IF log.warned \/ \E n \in audited : "sorryAx" \in log.audited[n]
                 THEN {<<"log", "sorry">>} ELSE {})
  /\ UNCHANGED <<tree, lakeThere, log, elaborated, printed, status, leanSaves>>

(* theorem_statements: of two declarations of a name the last one counts,  *)
(* whether or not its file is imported.                                    *)
TheoremStatements(files) ==
  LET decls == FlattenSeq([i \in DOMAIN Walk |-> files[Walk[i]]])
  IN  [n \in {decls[i].name : i \in DOMAIN decls} |->
         decls[SelectLastInSeq(decls, LAMBDA d : d.name = n)].stmt]

CompareStatements ==
  /\ step = "statements" /\ step' = "report"
  /\ LET stmts == TheoremStatements(tree.files)
     IN  problems' = problems
           \cup {<<"absent", n>> : n \in ExpectedTheorems \ DOMAIN stmts}
           \cup {<<"changed", n>> : n \in {m \in ExpectedTheorems \cap DOMAIN stmts :
                                             stmts[m] # ExpectedStatement(m)}}
  /\ UNCHANGED <<tree, lakeThere, log, elaborated, printed, status, leanSaves>>

Report ==
  /\ step = "report" /\ step' = "done"
  /\ status' = IF problems = {} THEN 0 ELSE 1
  /\ UNCHANGED <<tree, lakeThere, problems, log, elaborated, printed, leanSaves>>

LeanSave ==
  /\ step # "done" /\ leanSaves > 0 /\ leanSaves' = leanSaves - 1
  /\ tree' \in LeanSaves
  /\ UNCHANGED <<step, lakeThere, problems, log, elaborated, printed, status>>

LeanNext ==
  \/ ScanSources \/ RunLake \/ CountDirectives \/ AuditAxioms \/ CompareStatements
  \/ Report \/ LeanSave

-----------------------------------------------------------------------------
DeclaredOnce(name) ==
  \A p, q \in Everywhere : \A i \in DOMAIN elaborated[p], j \in DOMAIN elaborated[q] :
    elaborated[p][i].name = name /\ elaborated[q][j].name = name => p = q /\ i = j

(* "PASS": every pinned theorem was elaborated by this run and depends on  *)
(* Lean's own axioms only, whatever was saved meanwhile and whatever the   *)
(* cache holds; and when nothing was saved and a name is declared in one   *)
(* place, it is the pinned statement that was elaborated, and the kernel   *)
(* checked its proof and those of the lemmas it uses.                      *)
CleanIsReviewed ==
  status = 0 =>
    \A n \in ExpectedTheorems :
      LET used == Uses(AllOf(elaborated, Imported), n)
      IN  /\ n \in {d.name : d \in used}
          /\ \A d \in used : Axioms(d.proof) \subseteq AllowedAxioms
          /\ (leanSaves = MaxLeanSaves /\ DeclaredOnce(n)) =>
               \A d \in used :
                 /\ d.proof = "checked"
                 /\ d.name = n => d.stmt = ExpectedStatement(n)
=============================================================================
