---------------------------- MODULE FormalChecks ----------------------------
(***************************************************************************)
(* formal/z3/vacuity_audit.py over ObligationSuite: the baseline run in the*)
(* repository, then a run of a mutated copy for every entry of the         *)
(* catalogue, and the verdict.  The worker processes share nothing, and    *)
(* their results are taken in the order of the catalogue: here they run    *)
(* one after the other.  A run of the suite alone, during which a file may *)
(* be saved, is the other behaviour of this module.                        *)
(***************************************************************************)
EXTENDS ObligationSuite

CONSTANTS
  Trees,           \* the directories the suite or the audit is started in
  Catalogue,       \* MUTS: a sequence of [id, edit, equiv]
  Selections,      \* what --ids may select; {} is the whole catalogue
  MaxSaves

(* What verify_all.py and kernel_obligations.py may hold, in the tree, as  *)
(* saved meanwhile, or in a mutated copy.  A statement whose premises may  *)
(* be contradicted has a conjunct premises_sat behind its claims.          *)
TreeTexts == {t.va : t \in Trees} \cup {t.ko : t \in Trees}
AllTexts  == SavedTexts \cup TreeTexts \cup {t \cup {m.edit} : t \in TreeTexts, m \in ToSet(Catalogue)}
ASSUME ChecksAssumption ==
  /\ Catalogue \in Seq(ToSet(Catalogue))
  /\ \A t \in Trees : {"va", "ko"} \subseteq DOMAIN t
  /\ \A t \in AllTexts, i \in DOMAIN Reviewed :
       "contradict" \in Kinds(t, Reviewed[i]) =>
         \E j \in DOMAIN Reviewed[i].parts \ {1} : Reviewed[i].parts[j].tells = "premises_sat"

(* Ids and conjunct names are distinct, and none is that of a row of the   *)
(* suite's own; an obligation has its claim for its one conjunct, or some  *)
(* conjunct besides the check of its premises.                             *)
ASSUME AuditAssumption ==
  /\ \A i, k \in DOMAIN Reviewed : Reviewed[i].id = Reviewed[k].id => i = k
  /\ \A i \in DOMAIN Reviewed :
       LET parts == Reviewed[i].parts
       IN  /\ Reviewed[i].id \notin {"renamed", "S*", "META-PINS", "META-IDS"}
           /\ \A j, k \in DOMAIN parts : parts[j].name = parts[k].name => j = k
           /\ \A j \in DOMAIN parts :
                parts[j].tells \in {"claim", "accepts", "rejects", "premises_sat", "discriminate"}
           /\ parts = <<>> \/ \E j \in DOMAIN parts : parts[j].tells # "premises_sat"

VARIABLES
  phase,           \* "alone", or what the audit is at
  repo,            \* the directory the audit copies from
  sel, todo,       \* the ids selected, the mutations to come
  base,            \* rows of the baseline that passed
  outcomes,        \* [id, equiv, failed, crashed, error] of the runs done
  exit

auditVars == <<phase, repo, sel, todo, base, outcomes, exit>>

AuditInit ==
  /\ haveZ3 \in BOOLEAN
  /\ repo \in Trees /\ SuiteInit(repo)
  /\ phase \in {"alone", "baseline"}
  /\ saves = IF phase = "alone" THEN MaxSaves ELSE 0
  /\ sel \in IF phase = "alone" THEN {{}} ELSE Selections
  /\ todo = Only(Catalogue, LAMBDA m : sel = {} \/ m.id \in sel)
  /\ base = {} /\ outcomes = <<>> /\ exit = -1

(* split_rows: an obligation's row is <<id>>, a conjunct's <<id, name>>.   *)
RowsThat(pass) ==
  {<<results[i].id>> : i \in {j \in DOMAIN results : results[j].pass <=> pass}}
    \cup {conjuncts[i].id : i \in {j \in DOMAIN conjuncts : conjuncts[j].pass <=> pass}}
    \cup (IF pass \/ rc # 3 THEN {} ELSE {<<id>> : id \in said})

Suite ==
  /\ phase \in {"alone", "baseline", "mutation"}
  /\ SuiteStep
  /\ UNCHANGED auditVars

SaveWhileAlone == phase = "alone" /\ Save /\ UNCHANGED auditVars

(* Only rows are looked at, neither the status nor whether there are any.  *)
Baseline ==
  /\ phase = "baseline" /\ pc = "done"
  /\ base' = RowsThat(TRUE)
  /\ IF RowsThat(FALSE) # {} THEN phase' = "done" /\ exit' = 2
     ELSE phase' = "next" /\ UNCHANGED exit
  /\ UNCHANGED <<vars, repo, sel, todo, outcomes>>

Outcome(m, failed, crashed, error) ==
  [id |-> m.id, equiv |-> m.equiv, failed |-> failed, crashed |-> crashed, error |-> error]

(* The text to replace is gone where the repository's own edit took it.    *)
Touched(m) == \E e \in repo.va \cup repo.ko : e.file = m.edit.file /\ e.id = m.edit.id
StalePattern ==
  /\ phase = "next" /\ todo # <<>> /\ Touched(Head(todo))
  /\ outcomes' = Append(outcomes, Outcome(Head(todo), {}, FALSE, TRUE))
  /\ todo' = Tail(todo)
  /\ UNCHANGED <<vars, phase, repo, sel, base, exit>>

(* The copy: three modules, one of them mutated, and pins written anew.    *)
Sandbox(m) ==
  LET mutated == [f \in {"va", "ko"} |->
                    IF m.edit.file = f THEN repo[f] \cup {m.edit} ELSE repo[f]]
  IN  [va |-> mutated.va, ko |-> mutated.ko, sp |-> repo.sp,
       table |-> RewriteTables(mutated, repo),
       driver |-> "absent", pyc |-> FALSE, copy |-> TRUE]

Gone(m) == Edit(m.edit.file, "drop", m.edit.id) \in repo.va \cup repo.ko
Mutate ==
  /\ phase = "next" /\ todo # <<>> /\ ~Gone(Head(todo))
  /\ Run(Sandbox(Head(todo)))
  /\ phase' = "mutation"
  /\ UNCHANGED <<repo, sel, todo, base, outcomes, exit>>

(* run_one: META-PINS is left out; without a tally the run has crashed.    *)
Judged ==
  /\ phase = "mutation" /\ pc = "done"
  /\ outcomes' = Append(outcomes,
       Outcome(Head(todo), {row \in RowsThat(FALSE) : row[1] # "META-PINS"},
               rc \notin {0, 1}, FALSE))
  /\ phase' = "next" /\ todo' = Tail(todo)
  /\ UNCHANGED <<vars, repo, sel, base, exit>>

Took(o) == ~o.equiv /\ ~o.crashed
Killed(row) == \E i \in DOMAIN outcomes : Took(outcomes[i]) /\ row \in outcomes[i].failed

(* Mutant: killers are aggregated by obligation. *)
NeverKilledObligations == {row \in base : Len(row) = 1 /\ row[1] # "META-PINS" /\ ~Killed(row)}

NeverKilled == {row \in base : row[1] # "META-PINS" /\ ~Killed(row)}

Bad(o) == \/ o.crashed
          \/ ~o.equiv /\ o.failed = {}
          \/ o.equiv /\ o.failed # {}

Verdict ==
  /\ phase = "next" /\ todo = <<>>
  /\ phase' = "done"
  /\ exit' = IF \E i \in DOMAIN outcomes : outcomes[i].error THEN 3
             ELSE IF \E i \in DOMAIN outcomes : Bad(outcomes[i]) THEN 4
             ELSE IF sel = {} /\ NeverKilled # {} THEN 4 ELSE 0
  /\ UNCHANGED <<vars, repo, sel, todo, base, outcomes>>

AuditNext ==
  \/ Suite \/ SaveWhileAlone \/ Baseline \/ StalePattern \/ Mutate \/ Judged \/ Verdict

AuditSpec == AuditInit /\ [][AuditNext]_<<vars, auditVars>>

-----------------------------------------------------------------------------
(* Every statement the suite runs of the audited tree tells something, and *)
(* so does every one of its conjuncts.                                     *)
LoadBearing ==
  \A s \in ToSet(Phases(repo.va, repo.ko)) :
    ~Idle(s) /\ \A i \in DOMAIN s.parts : s.parts[i].tells # "nothing"

(* When the baseline reached its tally, exit 0 of a full audit means that  *)
(* no statement and no conjunct is idle: also those no control guards,     *)
(* which the suite itself passes.                                          *)
AuditFindsIdle == (exit = 0 /\ sel = {} /\ base # {}) => LoadBearing

(* "Exit code 0 iff every obligation AND every conjunct is load-bearing."  *)
ZeroIsLoadBearing == (exit = 0 /\ sel = {}) => LoadBearing
=============================================================================
