-------------------------- MODULE MutationCampaign --------------------------
(***************************************************************************)
(* formal/mutation/run_mutation.py from install_signal_handlers on: the    *)
(* main thread that builds, baselines and clones the workspaces, the pool  *)
(* of worker threads that patch, run and restore them, the forge children, *)
(* and the signal handler, which Python runs on the main thread between    *)
(* two of its steps.  The global _LOCK is not reentrant.                   *)
(*                                                                         *)
(* What forge prints is its outcome; a workspace's tree is the set of      *)
(* mutants patched into it.                                                *)
(***************************************************************************)
EXTENDS Integers, Sequences, FiniteSets

CONSTANTS
  Todo,            (* the selected mutants, in catalogue order             *)
  Catalogue,       (* the catalogue                                        *)
  Equivalent,      (* the mutants pinned as equivalent                     *)
  Full,            (* --full                                               *)
  Jobs,            (* workers, and workspaces                              *)
  Keep,            (* --keep-workspaces                                    *)
  MaxSignals,      (* bound: signals received                              *)
  MaxErrors,       (* bound: exceptions raised in workers                  *)
  SignalBy         (* bound: mutants that may have ended before a signal   *)

Selected == {Todo[k] : k \in 1 .. Len(Todo)}

ASSUME CampaignAssumption ==
  /\ Todo \in Seq(Catalogue) /\ Len(Todo) >= 1
  /\ Cardinality(Selected) = Len(Todo)
  /\ Full => Selected = Catalogue
  /\ Jobs \in 1 .. Len(Todo)
  /\ Keep \in BOOLEAN
  /\ MaxSignals \in Nat /\ MaxErrors \in Nat /\ SignalBy \in Nat

WS      == 0 .. Jobs - 1
Workers == 1 .. Jobs
Nobody  == "nobody"
Running == -1

VARIABLES
  main,            (* control point of the main thread                     *)
  cur,             (* workspace main is making, or has its child in        *)
  base,            (* outcome of the baseline                              *)
  next,            (* next mutant whose result main waits for              *)
  code,            (* exit status; Running until it is known                *)
  handler,         (* control point of the handler, "off" if not running   *)
  signals, errors, (* how many so far                                      *)
  abort,           (* _ABORT                                               *)
  lock,            (* owner of _LOCK: Nobody or "main"                     *)
  registered,      (* _WORKSPACES                                          *)
  procs,           (* _PROCS, by workspace                                 *)
  snapshot,        (* the handler's copy of _PROCS                         *)
  paths,           (* trees the cleanup that runs still has to remove      *)
  disk,            (* workspaces that exist                                *)
  tree,            (* what is patched into each workspace                  *)
  child,           (* forge in each workspace: none, running, an outcome   *)
  pool,            (* the queue of free workspaces                         *)
  queue,           (* tasks the executor has not started                   *)
  worker,          (* per worker: control point, mutant, workspace, ...    *)
  task,            (* per mutant: "todo", "done", "skipped" or "failed"    *)
  results,         (* results_by_id                                        *)
  file             (* the results file                                     *)

mainVars   == <<main, cur, base, next, code>>
sigVars    == <<handler, signals, abort, snapshot>>
diskVars   == <<disk, tree, child>>
poolVars   == <<pool, queue, worker, task, errors>>
resultVars == <<results, file>>
vars == <<mainVars, sigVars, lock, registered, procs, paths, diskVars, poolVars,
          resultVars>>

(* UNNAMED is a FAIL with an empty list.  BUILD is treated as TIMEOUT is.  *)
Outcomes == {"PASS", "FAIL", "UNNAMED"}
Verdicts == {"KILLED", "SURVIVED", "UNATTRIB", "TIMEOUT"}
Idle     == [at |-> "idle"]
None     == [verdict |-> "none"]

Init ==
  /\ main = "mkdtemp" /\ cur = 0 /\ base = "none" /\ next = 1 /\ code = Running
  /\ handler = "off" /\ signals = 0 /\ errors = 0 /\ abort = FALSE
  /\ lock = Nobody
  /\ registered = {} /\ procs = {} /\ snapshot = {} /\ paths = {}
  /\ disk = {}
  /\ tree = [s \in WS |-> {}]
  /\ child = [s \in WS |-> "none"]
  /\ pool = <<>> /\ queue = <<>>
  /\ worker = [w \in Workers |-> Idle]
  /\ task = [m \in Selected |-> "todo"]
  /\ results = [m \in Selected |-> None]
  /\ file = [whole |-> TRUE, ids |-> {}, complete |-> FALSE]

-----------------------------------------------------------------------------
(* The main thread; it stands still while its signal handler runs.         *)
Main(from, to) == main = from /\ handler = "off" /\ main' = to

(* with _LOCK: taking it is a step, and the body ends with its release. *)
LockedSteps == {"register", "add", "discard", "clear"}

TakeLock ==
  /\ main \in LockedSteps /\ handler = "off" /\ lock = Nobody
  /\ lock' = "main"
  /\ UNCHANGED <<mainVars, sigVars, registered, procs, paths, diskVars, poolVars,
                 resultVars>>

Unlock == lock = "main" /\ lock' = Nobody

Mkdtemp ==
  /\ Main("mkdtemp", "register")
  /\ disk' = disk \cup {cur}
  /\ UNCHANGED <<cur, base, next, code, sigVars, lock, registered, procs, paths, tree,
                 child, poolVars, resultVars>>

(* Mutant: the workspace is not registered. *)
RegisterNot ==
  /\ Main("register", IF cur = 0 THEN "build" ELSE "clone")
  /\ Unlock
  /\ UNCHANGED <<cur, base, next, code, sigVars, registered, procs, paths, diskVars,
                 poolVars, resultVars>>

Register ==
  /\ Main("register", IF cur = 0 THEN "build" ELSE "clone")
  /\ Unlock
  /\ registered' = registered \cup {cur}
  /\ UNCHANGED <<cur, base, next, code, sigVars, procs, paths, diskVars, poolVars,
                 resultVars>>

(* Leaving the try block early: an exception or a return. *)
Leave(status) ==
  /\ code' = status
  /\ main' = "clear"
  /\ UNCHANGED <<cur, base, next, sigVars, lock, registered, procs, paths, diskVars,
                 poolVars, resultVars>>

(* build_workspace, warm_start and the catalogue check. *)
Build ==
  /\ Main("build", "popen")
  /\ UNCHANGED <<cur, base, next, code, sigVars, lock, registered, procs, paths,
                 diskVars, poolVars, resultVars>>

BuildFails ==
  /\ main \in {"build", "clone"} /\ handler = "off"
  /\ Leave(1)

Stale ==
  /\ main = "build" /\ handler = "off"
  /\ Leave(3)

Popen ==
  /\ Main("popen", "add")
  /\ child' = [child EXCEPT ![cur] = "running"]
  /\ UNCHANGED <<cur, base, next, code, sigVars, lock, registered, procs, paths, disk,
                 tree, poolVars, resultVars>>

Add ==
  /\ Main("add", "wait")
  /\ Unlock
  /\ procs' = procs \cup {cur}
  /\ UNCHANGED <<cur, base, next, code, sigVars, registered, paths, diskVars, poolVars,
                 resultVars>>

(* communicate() returns, or times out and the child is killed. *)
Wait ==
  /\ Main("wait", "discard")
  /\ child[cur] # "none"
  /\ base' = IF child[cur] = "running" THEN "TIMEOUT" ELSE child[cur]
  /\ child' = [child EXCEPT ![cur] = "none"]
  /\ UNCHANGED <<cur, next, code, sigVars, lock, registered, procs, paths, disk, tree,
                 poolVars, resultVars>>

(* The baseline must pass. *)
Discard ==
  /\ main = "discard" /\ handler = "off"
  /\ Unlock
  /\ procs' = procs \ {cur}
  /\ IF base # "PASS" THEN /\ main' = "clear" /\ code' = 2
                           /\ UNCHANGED <<cur, pool, queue>>
     ELSE /\ pool' = <<cur>>
          /\ cur' = IF Jobs > 1 THEN 1 ELSE cur
          /\ main' = IF Jobs > 1 THEN "mkdtemp" ELSE "map"
          /\ queue' = IF Jobs > 1 THEN queue ELSE Todo
          /\ UNCHANGED code
  /\ UNCHANGED <<base, next, sigVars, registered, paths, diskVars, worker, task,
                 errors, resultVars>>

(* copy_tree of the baselined workspace; after the last one the executor   *)
(* gets all tasks.                                                         *)
Clone ==
  /\ main = "clone" /\ handler = "off"
  /\ tree' = [tree EXCEPT ![cur] = tree[0]]
  /\ pool' = Append(pool, cur)
  /\ IF cur + 1 < Jobs THEN /\ main' = "mkdtemp" /\ cur' = cur + 1
                            /\ UNCHANGED queue
     ELSE /\ main' = "map" /\ queue' = Todo
          /\ UNCHANGED cur
  /\ UNCHANGED <<base, next, code, sigVars, lock, registered, procs, paths, disk, child,
                 worker, task, errors, resultVars>>

(* list(ex.map(...)) takes the results in order; an exception cancels what *)
(* has not started.                                                        *)
MapNext ==
  /\ main = "map" /\ handler = "off"
  /\ next <= Len(Todo)
  /\ task[Todo[next]] # "todo"
  /\ IF task[Todo[next]] = "failed"
     THEN main' = "shutdown" /\ code' = 1 /\ queue' = <<>> /\ UNCHANGED next
     ELSE next' = next + 1 /\ UNCHANGED <<main, code, queue>>
  /\ UNCHANGED <<cur, base, sigVars, lock, registered, procs, paths, diskVars, pool,
                 worker, task, errors, resultVars>>

MapDone ==
  /\ Main("map", "shutdown")
  /\ next > Len(Todo)
  /\ UNCHANGED <<cur, base, next, code, sigVars, lock, registered, procs, paths,
                 diskVars, poolVars, resultVars>>

(* ThreadPoolExecutor.__exit__ waits for its workers; the mutant does not. *)
ShutdownNow ==
  /\ Main("shutdown", "clear")
  /\ UNCHANGED <<cur, base, next, code, sigVars, lock, registered, procs, paths,
                 diskVars, poolVars, resultVars>>

Shutdown ==
  /\ Main("shutdown", "clear")
  /\ queue = <<>> /\ \A w \in Workers : worker[w] = Idle
  /\ UNCHANGED <<cur, base, next, code, sigVars, lock, registered, procs, paths,
                 diskVars, poolVars, resultVars>>

(* cleanup_workspaces. *)
Clear ==
  /\ Main("clear", "remove")
  /\ Unlock
  /\ paths' = registered
  /\ registered' = {}
  /\ UNCHANGED <<cur, base, next, code, sigVars, procs, diskVars, poolVars, resultVars>>

Remove ==
  /\ main = "remove" /\ handler = "off"
  /\ paths # {}
  /\ IF Keep THEN paths' = {} /\ UNCHANGED disk
     ELSE \E s \in paths : paths' = paths \ {s} /\ disk' = disk \ {s}
  /\ UNCHANGED <<mainVars, sigVars, lock, registered, procs, tree, child, poolVars,
                 resultVars>>

(* Mutant: a pinned equivalent mutant that is killed passes. *)
StatusLax ==
  IF \A m \in Selected : results[m].verdict \notin {"none", "UNATTRIB"}
  THEN 0 ELSE 1

(* The exit status: inflated, unattributed, survivors, killed equivalents, *)
(* an incomplete full run.                                                 *)
Status ==
  IF /\ \A m \in Selected : results[m].verdict # "UNATTRIB"
     /\ \A m \in Selected \ Equivalent : results[m].verdict \in {"KILLED", "none"}
     /\ \A m \in Selected \cap Equivalent : results[m].verdict # "KILLED"
     /\ Full => \A m \in Catalogue : results[m].verdict # "none"
  THEN 0 ELSE 1

(* The summary, and the end of the process. *)
Exit ==
  /\ Main("remove", "exited")
  /\ paths = {}
  /\ code' = IF code = Running THEN Status ELSE code
  /\ UNCHANGED <<cur, base, next, sigVars, lock, registered, procs, paths, diskVars,
                 poolVars, resultVars>>

MainNext ==
  \/ TakeLock \/ Mkdtemp \/ Register \/ Build \/ BuildFails \/ Stale \/ Popen \/ Add \/ Wait
  \/ Discard \/ Clone \/ MapNext \/ MapDone \/ Shutdown \/ Clear \/ Remove \/ Exit

-----------------------------------------------------------------------------
(* A worker; nothing runs once the process has ended.                      *)
At(w, here) == worker[w].at = here /\ main # "exited"
Goto(w, there) == worker' = [worker EXCEPT ![w].at = there]

(* work(m): a task that starts after the abort returns at once. *)
Take(w) ==
  /\ At(w, "idle")
  /\ queue # <<>>
  /\ queue' = Tail(queue)
  /\ IF abort THEN /\ task' = [task EXCEPT ![Head(queue)] = "skipped"]
                   /\ UNCHANGED worker
     ELSE /\ worker' = [worker EXCEPT ![w] =
               [at |-> "get", m |-> Head(queue), ws |-> 0, out |-> "none", saw |-> {},
                again |-> FALSE, failed |-> FALSE]]
          /\ UNCHANGED task
  /\ UNCHANGED <<mainVars, sigVars, lock, registered, procs, paths, diskVars, pool,
                 errors, resultVars>>

Get(w) ==
  /\ At(w, "get")
  /\ pool # <<>>
  /\ pool' = Tail(pool)
  /\ worker' = [worker EXCEPT ![w].at = "patch", ![w].ws = Head(pool)]
  /\ UNCHANGED <<mainVars, sigVars, lock, registered, procs, paths, diskVars, queue,
                 task, errors, resultVars>>

Patch(w) ==
  /\ At(w, "patch")
  /\ tree' = [tree EXCEPT ![worker[w].ws] = @ \cup {worker[w].m}]
  /\ Goto(w, "popen")
  /\ UNCHANGED <<mainVars, sigVars, lock, registered, procs, paths, disk, child, pool,
                 queue, task, errors, resultVars>>

(* run_suite *)
Spawn(w) ==
  /\ At(w, "popen")
  /\ child' = [child EXCEPT ![worker[w].ws] = "running"]
  /\ Goto(w, "add")
  /\ UNCHANGED <<mainVars, sigVars, lock, registered, procs, paths, disk, tree, pool,
                 queue, task, errors, resultVars>>

(* An exception in run_mutant: only the two finally clauses still run.     *)
WorkerError(w) ==
  /\ At(w, "popen")
  /\ errors < MaxErrors /\ signals = 0
  /\ errors' = errors + 1
  /\ worker' = [worker EXCEPT ![w].at = "restore", ![w].failed = TRUE]
  /\ UNCHANGED <<mainVars, sigVars, lock, registered, procs, paths, diskVars, pool,
                 queue, task, resultVars>>

Enrol(w) ==
  /\ At(w, "add")
  /\ lock = Nobody
  /\ procs' = procs \cup {worker[w].ws}
  /\ Goto(w, "wait")
  /\ UNCHANGED <<mainVars, sigVars, lock, registered, paths, diskVars, pool, queue,
                 task, errors, resultVars>>

Communicate(w) ==
  /\ At(w, "wait")
  /\ LET s == worker[w].ws
     IN  /\ worker' = [worker EXCEPT ![w].at = "discard", ![w].saw = tree[s],
                         ![w].out = IF child[s] = "running" THEN "TIMEOUT" ELSE child[s]]
         /\ child' = [child EXCEPT ![s] = "none"]
  /\ UNCHANGED <<mainVars, sigVars, lock, registered, procs, paths, disk, tree, pool,
                 queue, task, errors, resultVars>>

(* Mutant: every failure is run again until a test is named. *)
StrikeForever(w) ==
  /\ At(w, "discard")
  /\ lock = Nobody
  /\ procs' = procs \ {worker[w].ws}
  /\ worker' = [worker EXCEPT ![w].at = IF worker[w].out = "UNNAMED" THEN "popen" ELSE "restore"]
  /\ UNCHANGED <<mainVars, sigVars, lock, registered, paths, diskVars, pool, queue,
                 task, errors, resultVars>>

(* A failure that names no test is run once more. *)
Strike(w) ==
  /\ At(w, "discard")
  /\ lock = Nobody
  /\ procs' = procs \ {worker[w].ws}
  /\ LET rerun == worker[w].out = "UNNAMED" /\ ~ worker[w].again
     IN  worker' = [worker EXCEPT ![w].at = IF rerun THEN "popen" ELSE "restore",
                                  ![w].again = @ \/ rerun]
  /\ UNCHANGED <<mainVars, sigVars, lock, registered, paths, diskVars, pool, queue,
                 task, errors, resultVars>>

(* Mutant: an exception leaves the patch where it is. *)
RestoreOnSuccess(w) ==
  /\ At(w, "restore")
  /\ IF worker[w].failed THEN UNCHANGED tree
     ELSE tree' = [tree EXCEPT ![worker[w].ws] = @ \ {worker[w].m}]
  /\ Goto(w, "put")
  /\ UNCHANGED <<mainVars, sigVars, lock, registered, procs, paths, disk, child, pool,
                 queue, task, errors, resultVars>>

Restore(w) ==
  /\ At(w, "restore")
  /\ tree' = [tree EXCEPT ![worker[w].ws] = @ \ {worker[w].m}]
  /\ Goto(w, "put")
  /\ UNCHANGED <<mainVars, sigVars, lock, registered, procs, paths, disk, child, pool,
                 queue, task, errors, resultVars>>

Put(w) ==
  /\ At(w, "put")
  /\ pool' = Append(pool, worker[w].ws)
  /\ IF worker[w].failed
     THEN /\ worker' = [worker EXCEPT ![w] = Idle]
          /\ task' = [task EXCEPT ![worker[w].m] = "failed"]
     ELSE Goto(w, "record") /\ UNCHANGED task
  /\ UNCHANGED <<mainVars, sigVars, lock, registered, procs, paths, diskVars, queue,
                 errors, resultVars>>

Verdict(out) ==
  CASE out = "FAIL" -> "KILLED"
    [] out = "UNNAMED" -> "UNATTRIB"
    [] out = "PASS" -> "SURVIVED"
    [] OTHER -> out

Recorded == {m \in Selected : results[m] # None}

(* Mutant: the mode alone says so, whatever was cut short. *)
CompleteByMode(ids) == Full

(* mode == "FULL" and n_done == len(MUTANTS) *)
Complete(ids) == Full /\ Cardinality(ids) = Cardinality(Catalogue)

(* with done: the result is kept, and the file is opened and so emptied... *)
Record(w) ==
  /\ At(w, "record")
  /\ \A v \in Workers : worker[v].at # "dump"
  /\ results' = [results EXCEPT ![worker[w].m] =
       [verdict |-> Verdict(worker[w].out), out |-> worker[w].out, saw |-> worker[w].saw]]
  /\ file' = [whole |-> FALSE, ids |-> {}, complete |-> FALSE]
  /\ Goto(w, "dump")
  /\ UNCHANGED <<mainVars, sigVars, lock, registered, procs, paths, diskVars, pool,
                 queue, task, errors>>

(* ... and all results are written to it. *)
Dump(w) ==
  /\ At(w, "dump")
  /\ file' = [whole |-> TRUE, ids |-> Recorded, complete |-> Complete(Recorded)]
  /\ task' = [task EXCEPT ![worker[w].m] = "done"]
  /\ worker' = [worker EXCEPT ![w] = Idle]
  /\ UNCHANGED <<mainVars, sigVars, lock, registered, procs, paths, diskVars, pool,
                 queue, errors, results>>

WorkerNext(w) ==
  \/ Take(w) \/ Get(w) \/ Patch(w) \/ Spawn(w) \/ WorkerError(w) \/ Enrol(w)
  \/ Communicate(w) \/ Strike(w) \/ Restore(w) \/ Put(w) \/ Record(w) \/ Dump(w)

(* forge ends.  What it reports depends on the tree it ran in. *)
ChildEnds(s) ==
  /\ child[s] = "running"
  /\ \E o \in Outcomes : child' = [child EXCEPT ![s] = o]
  /\ UNCHANGED <<mainVars, sigVars, lock, registered, procs, paths, disk, tree,
                 poolVars, resultVars>>

-----------------------------------------------------------------------------
(* The handler, on the main thread. *)
Handler(from, to) ==
  /\ handler = from /\ handler' = to
  /\ UNCHANGED <<lock, poolVars, resultVars>>

(* Bounds: a run has a signal or exceptions, not both. *)
Signal ==
  /\ main # "exited"
  /\ signals < MaxSignals /\ errors = 0
  /\ Cardinality({m \in Selected : task[m] # "todo"}) <= SignalBy
  /\ Handler("off", "kill")
  /\ signals' = signals + 1
  /\ abort' = TRUE
  /\ UNCHANGED <<mainVars, snapshot, registered, procs, paths, diskVars>>

(* with _LOCK: procs = list(_PROCS) *)
KillSnapshot ==
  /\ lock = Nobody
  /\ Handler("kill", "terminate")
  /\ snapshot' = procs
  /\ UNCHANGED <<mainVars, signals, abort, registered, procs, paths, diskVars>>

(* A child that is killed has named a failing test before, or not. *)
Terminate ==
  /\ Handler("terminate", "clear")
  /\ \E o \in {"FAIL", "UNNAMED"} :
       child' = [s \in WS |-> IF s \in snapshot /\ child[s] = "running" THEN o ELSE child[s]]
  /\ UNCHANGED <<mainVars, signals, abort, snapshot, registered, procs, paths, disk, tree>>

HandlerClear ==
  /\ lock = Nobody
  /\ Handler("clear", "remove")
  /\ paths' = registered
  /\ registered' = {}
  /\ UNCHANGED <<mainVars, signals, abort, snapshot, procs, diskVars>>

HandlerRemove ==
  /\ Handler("remove", "remove")
  /\ paths # {}
  /\ IF Keep THEN paths' = {} /\ UNCHANGED disk
     ELSE \E s \in paths : paths' = paths \ {s} /\ disk' = disk \ {s}
  /\ UNCHANGED <<mainVars, signals, abort, snapshot, registered, procs, tree, child>>

(* os._exit *)
HandlerExit ==
  /\ paths = {}
  /\ Handler("remove", "exit")
  /\ main' = "exited"
  /\ code' = 128
  /\ UNCHANGED <<cur, base, next, signals, abort, snapshot, registered, procs, paths, diskVars>>

HandlerNext ==
  \/ KillSnapshot \/ Terminate \/ HandlerClear \/ HandlerRemove \/ HandlerExit

Next ==
  \/ MainNext \/ Signal \/ HandlerNext
  \/ \E w \in Workers : WorkerNext(w)
  \/ \E s \in WS : ChildEnds(s)

(* Every thread is scheduled, and a forge ends or is timed out.            *)
Fairness ==
  /\ WF_vars(MainNext)
  /\ WF_vars(HandlerNext)
  /\ \A w \in Workers : WF_vars(WorkerNext(w))

Spec == Init /\ [][Next]_vars
FairSpec == Spec /\ Fairness

-----------------------------------------------------------------------------
TypeOK ==
  /\ registered \subseteq WS /\ procs \subseteq WS /\ disk \subseteq WS
  /\ paths \subseteq WS
  /\ tree \in [WS -> SUBSET Selected]
  /\ child \in [WS -> {"none", "running"} \cup Outcomes]
  /\ base \in {"none", "TIMEOUT"} \cup Outcomes
  /\ pool \in Seq(WS) /\ Len(pool) <= Jobs
  /\ task \in [Selected -> {"todo", "done", "skipped", "failed"}]
  /\ \A m \in Selected : results[m].verdict \in Verdicts \cup {"none"}
  /\ code \in {Running, 0, 1, 2, 3, 128}

(* "Sharing one workspace between workers would be a correctness bug":     *)
(* every verdict is about a tree patched with its own mutant and with no   *)
(* other, whatever else runs, fails or is run again.                       *)
VerdictIsOfItsMutant == \A m \in Selected : results[m] # None => results[m].saw = {m}

(* The one field that tells a complete results file from a truncated one,  *)
(* which "looks exactly like" it: whatever workers still write, raise or   *)
(* are cut short by a signal, a file that says complete has a verdict for  *)
(* every mutant of the catalogue; and when a --full run exits with 0, the  *)
(* file it left says so.                                                   *)
CompleteIsWholeCampaign ==
  /\ file.complete => Full /\ file.whole /\ file.ids = Catalogue
  /\ (Full /\ code = 0) => file.complete

(* Exit status 0 says that every selected mutant was judged, that none     *)
(* survived that should not, and none that should was killed.              *)
ZeroMeansJudged ==
  code = 0 => \A m \in Selected :
    /\ results[m].verdict \notin {"none", "UNATTRIB"}
    /\ m \notin Equivalent => results[m].verdict = "KILLED"
    /\ m \in Equivalent => results[m].verdict # "KILLED"

(* Several workers rewrite the one results file: a run without signals     *)
(* leaves it whole, with every verdict it exits on.                        *)
VerdictsWritten ==
  (main = "exited" /\ signals = 0) => file.whole /\ file.ids = Recorded

(* A run without signals ends: whichever worker raises, no thread waits    *)
(* for a workspace or for a result that never comes.                       *)
RunEnds == <>(main = "exited" \/ signals > 0)

(* "Removed on success, on failure, on exception": a run without signals   *)
(* leaves no workspace and no child behind.                                *)
NothingLeft == (main = "exited" /\ signals = 0) =>
  /\ Keep \/ disk = {}
  /\ \A s \in WS : child[s] # "running"

-----------------------------------------------------------------------------
(* Stated by the source, and not so: see the findings.                     *)

(* "A handler that first kills the live forge children, then removes the   *)
(* trees, then _exits": once a signal is received, the process ends,       *)
(* whatever the main thread and the workers were doing.                    *)
SignalEnds == handler # "off" ~> main = "exited"
=============================================================================
