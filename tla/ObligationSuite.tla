-------------------------- MODULE ObligationSuite --------------------------
(***************************************************************************)
(* formal/z3/verify_all.py: the trust anchor, which digests every module   *)
(* before its text is executed, the phases that record obligations and     *)
(* their conjuncts, the rows about the pins and about the recorded ids,    *)
(* and the exit status.  A developer may have edited the files, with or    *)
(* without regenerating the pins, and may save a file while the process    *)
(* starts.  A file's text is the set of edits in it; its AST leaves the    *)
(* comments out.                                                           *)
(***************************************************************************)
EXTENDS Integers, SequencesExt

CONSTANTS
  Reviewed,       \* the statements, in order: [id, phase, parts]; a part is
                  \* [name, tells], what its truth depends on
  PinParts,       \* names of META-PINS's conjuncts
  IdParts,        \* names of META-IDS's six conjuncts
  SavedTexts      \* what verify_all.py or kernel_obligations.py is saved as

ASSUME SuiteAssumption ==
  /\ Reviewed \in Seq(ToSet(Reviewed))
  /\ \A i \in DOMAIN Reviewed : Reviewed[i].parts \in Seq(ToSet(Reviewed[i].parts))
  /\ PinParts \in Seq(ToSet(PinParts)) /\ IdParts \in Seq(ToSet(IdParts)) /\ Len(IdParts) = 6

VARIABLES
  dir,            \* the directory: the texts va, ko and sp, source_pins' table,
                  \* the driver, whether a .pyc lies there, whether it is the
                  \* audit's copy
  haveZ3,
  pc,
  text,           \* what was read last
  running,        \* what is executing: the texts va and ko, and the table
  registered,     \* LOADED_MODULES["verify_all"]
  next,           \* the statements still to come
  results, conjuncts, ok, rc,
  said,           \* the ids named on the output, other than by rows
  saves           \* how often a file may still be saved

dirVars == <<dir, haveZ3, saves>>
anchorVars == <<text, running, registered>>
suiteVars == <<next, results, conjuncts, ok, rc, said>>
vars == <<dirVars, anchorVars, suiteVars, pc>>

Edit(file, kind, id) == [file |-> file, kind |-> kind, id |-> id]
Absent == {Edit("none", "none", "none")}

Ast(t) == {e \in t : e.kind # "comment"}
(* source_pins.py --write: PINS of the texts and FILES of the tree walked. *)
RewriteTables(texts, tree) ==
  [pins |-> [f \in {"va", "ko"} |-> Ast(texts[f])], files |-> [f \in {"va", "ko"} |-> tree[f]]]

Kinds(t, s) == {e.kind : e \in {d \in t : d.id = s.id}}

(* What a statement becomes under its edits. *)
Statement(s, kinds) ==
  [id        |-> IF "rename" \in kinds THEN "renamed" ELSE s.id,
   phase     |-> s.phase,
   parts     |-> IF "gutpart" \in kinds
                 THEN [s.parts EXCEPT ![1].tells = "nothing"] ELSE s.parts,
   predicate |-> IF "gut" \in kinds THEN "true"
                 ELSE IF "tighten" \in kinds THEN "false" ELSE "right",
   kernel    |-> IF "break" \in kinds THEN "broken" ELSE "right",
   premises  |-> IF "contradict" \in kinds THEN "unsat" ELSE "sat",
   raises    |-> "raise" \in kinds]

Statements(t, base) ==
  FlattenSeq([i \in DOMAIN base |->
    LET kinds == Kinds(t, base[i])
        s     == Statement(base[i], kinds)
    IN  IF "drop" \in kinds THEN <<>>
        ELSE IF "duplicate" \in kinds THEN <<s, s>> ELSE <<s>>])

Only(seq, Test(_)) == FlattenSeq([i \in DOMAIN seq |-> IF Test(seq[i]) THEN <<seq[i]>> ELSE <<>>])

Phase(stmts, phase) == Only(stmts, LAMBDA s : s.phase = phase)

(* Without z3 the SMT phase is one failed row under an id of its own.      *)
NoSolver == Statement([id |-> "S*", phase |-> "smt", parts |-> <<>>], {"break"})

(* main: CALC, SMT, EXH, then the optimized kernels. *)
Phases(va, ko) ==
  LET stmts == Statements(va, Reviewed)
  IN  Phase(stmts, "calc")
        \o (IF haveZ3 THEN Phase(stmts, "smt") ELSE <<NoSolver>>)
        \o Phase(stmts, "exh")
        \o Phase(Statements(ko, Reviewed), "kernel")

Claim(s) ==
  \/ s.premises = "unsat"
  \/ s.predicate = "true"
  \/ s.predicate = "right" /\ s.kernel = "right"

(* What each kind of conjunct says: the claim, a control that the predicate*)
(* must accept or reject, and the two guards against an idle proof.        *)
Tells(s, part) ==
  CASE part.tells = "nothing"      -> TRUE
    [] part.tells = "claim"        -> Claim(s)
    [] part.tells = "accepts"      -> s.predicate # "false"
    [] part.tells = "rejects"      -> s.predicate # "true"
    [] part.tells = "premises_sat" -> s.premises = "sat"
    [] part.tells = "discriminate" ->
         s.predicate # "true" /\ \A i \in DOMAIN s.parts : s.parts[i].tells # "nothing"

Rows(s) == [i \in DOMAIN s.parts |-> <<s.parts[i].name, Tells(s, s.parts[i])>>]

(* _truth, record. *)
Record(id, claim, parts) ==
  LET row == [id |-> id, pass |-> claim /\ \A i \in DOMAIN parts : parts[i][2]]
  IN  /\ results' = Append(results, row)
      /\ conjuncts' = conjuncts \o
           [i \in DOMAIN parts |-> [id |-> <<id, parts[i][1]>>, pass |-> parts[i][2]]]
      /\ ok' = (ok /\ row.pass)

-----------------------------------------------------------------------------
(* EXPECTED_OBLIGATIONS and EXPECTED_CONJUNCTS, which include META-IDS.    *)
ExpectedObligations ==
  [i \in DOMAIN Reviewed |-> Reviewed[i].id] \o <<"META-PINS", "META-IDS">>
ExpectedConjuncts ==
  FlattenSeq([i \in DOMAIN Reviewed |->
    [j \in DOMAIN Reviewed[i].parts |-> <<Reviewed[i].id, Reviewed[i].parts[j].name>>]])
  \o [i \in DOMAIN PinParts |-> <<"META-PINS", PinParts[i]>>]
  \o [i \in DOMAIN IdParts |-> <<"META-IDS", IdParts[i]>>]

Ids(rows) == [i \in DOMAIN rows |-> rows[i].id]

-----------------------------------------------------------------------------
(* The interpreter has read verify_all.py from d. *)
NoTexts == [va |-> Absent, ko |-> Absent]
Started(d) == [va |-> d.va, ko |-> Absent, table |-> RewriteTables(NoTexts, NoTexts)]

SuiteInit(d) ==
  /\ dir = d /\ pc = "bytecode" /\ text = Absent /\ registered = Absent
  /\ running = Started(d)
  /\ next = <<>> /\ results = <<>> /\ conjuncts = <<>> /\ ok = TRUE /\ rc = -1
  /\ said = {}

(* python3 verify_all.py *)
Run(d) ==
  /\ dir' = d /\ pc' = "bytecode" /\ text' = Absent /\ registered' = Absent
  /\ running' = Started(d)
  /\ next' = <<>> /\ results' = <<>> /\ conjuncts' = <<>> /\ ok' = TRUE /\ rc' = -1
  /\ said' = {}
  /\ UNCHANGED <<haveZ3, saves>>

(* _anchor_refuse *)
Refuse ==
  /\ pc' = "done" /\ rc' = 2
  /\ UNCHANGED <<dirVars, anchorVars, next, results, conjuncts, ok, said>>

NoShadowingBytecode ==
  /\ pc = "bytecode"
  /\ IF dir.pyc THEN Refuse
     ELSE pc' = "script" /\ UNCHANGED <<dirVars, anchorVars, suiteVars>>

(* run_checks.sh may be absent, as in the audit's copy. *)
CheckScript ==
  /\ pc = "script"
  /\ IF dir.driver = "edited" THEN Refuse
     ELSE pc' = "pins" /\ UNCHANGED <<dirVars, anchorVars, suiteVars>>

(* The code of source_pins.py, its tables blanked, against the constant in *)
(* this file; then the text that was digested is executed.                 *)
ReadPins ==
  /\ pc = "pins"
  /\ IF Ast(dir.sp) # {} THEN Refuse
     ELSE /\ pc' = "self"
          /\ running' = [running EXCEPT !.table = dir.table]
          /\ UNCHANGED <<dirVars, text, registered, suiteVars>>

ReadSelf ==
  /\ pc = "self"
  /\ IF Ast(dir.va) # running.table.pins.va THEN Refuse
     ELSE /\ pc' = "kernel"
          /\ registered' = dir.va
          /\ UNCHANGED <<dirVars, text, running, suiteVars>>

ReadKernel ==
  /\ pc = "kernel"
  /\ IF Ast(dir.ko) # running.table.pins.ko THEN Refuse
     ELSE /\ pc' = "exec"
          /\ text' = dir.ko
          /\ UNCHANGED <<dirVars, running, registered, suiteVars>>

(* Mutant: the module is imported, which reads the file again. *)
ExecKernelImported ==
  /\ pc = "exec" /\ pc' = "record"
  /\ running' = [running EXCEPT !.ko = dir.ko]
  /\ next' = Phases(running.va, dir.ko)
  /\ UNCHANGED <<dirVars, text, registered, results, conjuncts, ok, rc, said>>

(* _anchor_exec: exactly the text that was digested. *)
ExecKernel ==
  /\ pc = "exec" /\ pc' = "record"
  /\ running' = [running EXCEPT !.ko = text]
  /\ next' = Phases(running.va, text)
  /\ UNCHANGED <<dirVars, text, registered, results, conjuncts, ok, rc, said>>

-----------------------------------------------------------------------------
RecordNext ==
  /\ pc = "record" /\ next # <<>> /\ ~Head(next).raises
  /\ Record(Head(next).id, Claim(Head(next)), Rows(Head(next)))
  /\ next' = Tail(next)
  /\ UNCHANGED <<dirVars, anchorVars, rc, said, pc>>

Missing(ids) == ToSet(ExpectedObligations) \ ToSet(ids)

(* Mutant: the traceback alone. *)
AbortSilently ==
  /\ pc = "record" /\ next # <<>> /\ Head(next).raises
  /\ pc' = "done" /\ rc' = 3
  /\ UNCHANGED <<dirVars, anchorVars, next, results, conjuncts, ok, said>>

(* An exception ends the run: _abort_with_fail_rows names what never ran.  *)
Abort ==
  /\ pc = "record" /\ next # <<>> /\ Head(next).raises
  /\ said' = said \cup Missing(Ids(results))
  /\ pc' = "done" /\ rc' = 3
  /\ UNCHANGED <<dirVars, anchorVars, next, results, conjuncts, ok>>

(* source_pins.check: the regions of the texts registered and executed,    *)
(* the files of the tree that is walked, which for a copy is the repository*)
(* its table was made from, and the executed bytes.  The ten conjuncts are *)
(* taken as one.                                                           *)
RegionsMatch == Ast(registered) = running.table.pins.va /\ Ast(running.ko) = running.table.pins.ko
FilesMatch ==
  /\ ~dir.pyc
  /\ dir.copy \/ /\ dir.driver = "pinned"
                 /\ \A f \in {"va", "ko"} : dir[f] = running.table.files[f]
ExecutedMatch == registered = running.table.files.va /\ running.ko = running.table.files.ko
PinsHold == RegionsMatch /\ FilesMatch /\ ExecutedMatch

PinRow ==
  /\ pc = "record" /\ next = <<>>
  /\ Record("META-PINS", TRUE, [i \in DOMAIN PinParts |-> <<PinParts[i], PinsHold>>])
  /\ pc' = "ids"
  /\ UNCHANGED <<dirVars, anchorVars, next, rc, said>>

(* Mutant: as many rows as expected. *)
IdsExactByCount(obls, conjs) ==
  <<TRUE, TRUE, TRUE, TRUE,
    Len(obls) = Len(ExpectedObligations), Len(conjs) = Len(ExpectedConjuncts)>>

(* META-IDS's six conjuncts, on the ids of all rows, its own included.     *)
IdsExact(obls, conjs) ==
  <<IsInjective(obls), IsInjective(conjs),
    ToSet(obls) = ToSet(ExpectedObligations), ToSet(conjs) = ToSet(ExpectedConjuncts),
    Len(obls) = Len(ExpectedObligations), Len(conjs) = Len(ExpectedConjuncts)>>

IdRow ==
  /\ pc = "ids"
  /\ LET obls  == Append(Ids(results), "META-IDS")
         conjs == Ids(conjuncts) \o [i \in DOMAIN IdParts |-> <<"META-IDS", IdParts[i]>>]
         exact == IdsExact(obls, conjs)
     IN  /\ Record("META-IDS", TRUE, [i \in DOMAIN IdParts |-> <<IdParts[i], exact[i]>>])
         /\ said' = said \cup Missing(obls)
  /\ pc' = "tally"
  /\ UNCHANGED <<dirVars, anchorVars, next, rc>>

(* The printed totals against the pinned sets; then the exit status.       *)
Tally ==
  /\ pc = "tally" /\ pc' = "done"
  /\ ok' = (ok /\ Len(results) = Len(ExpectedObligations)
               /\ Len(conjuncts) = Len(ExpectedConjuncts))
  /\ rc' = IF ok' THEN 0 ELSE 1
  /\ UNCHANGED <<dirVars, anchorVars, next, results, conjuncts, said>>

SuiteStep ==
  \/ NoShadowingBytecode \/ CheckScript \/ ReadPins \/ ReadSelf \/ ReadKernel
  \/ ExecKernel \/ RecordNext \/ Abort \/ PinRow \/ IdRow \/ Tally

(* A file is saved while the process is at work, at most "saves" times.    *)
Save ==
  /\ pc # "done" /\ saves > 0 /\ saves' = saves - 1
  /\ \E f \in {"va", "ko"}, t \in SavedTexts : dir' = [dir EXCEPT ![f] = t]
  /\ UNCHANGED <<haveZ3, anchorVars, suiteVars, pc>>

-----------------------------------------------------------------------------
(* A statement whose verdict says nothing, and one that has a conjunct to  *)
(* notice that its predicate accepts everything.                           *)
Idle(s)    == s.predicate = "true" \/ s.premises = "unsat"
Guarded(s) == \E i \in DOMAIN s.parts : s.parts[i].tells \in {"rejects", "discriminate"}

(* Exit 0 means that every pinned obligation and conjunct was recorded     *)
(* once and passed, that no kernel is broken, and that no statement with a *)
(* control or a guard is idle, even if the pins were regenerated after the *)
(* edit and whatever was saved meanwhile.                                  *)
GreenIsSound ==
  rc = 0 =>
    /\ ToSet(ExpectedObligations) = ToSet(Ids(results)) /\ IsInjective(Ids(results))
    /\ ToSet(ExpectedConjuncts) = ToSet(Ids(conjuncts)) /\ IsInjective(Ids(conjuncts))
    /\ \A i \in DOMAIN results : results[i].pass
    /\ \A i \in DOMAIN conjuncts : conjuncts[i].pass
    /\ \A s \in ToSet(Phases(running.va, running.ko)) :
         (s.kernel = "broken" \/ s.premises = "unsat" \/ s.predicate # "right")
           => s.predicate = "true" /\ ~Guarded(s)

(* "Every obligation that never produced a verdict gets an explicit row":  *)
(* unless the anchor refused, each pinned id is a row or named as missing, *)
(* after an exception as well.                                             *)
NoneSilent ==
  rc \in {0, 1, 3} => ToSet(ExpectedObligations) \subseteq ToSet(Ids(results)) \cup said

(* The kernel obligations that run are those that were digested against    *)
(* the table in force, whatever is saved meanwhile.                        *)
ExecutedWasDigested ==
  running.ko # Absent => Ast(running.ko) = running.table.pins.ko
=============================================================================
