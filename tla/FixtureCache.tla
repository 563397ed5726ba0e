---------------------------- MODULE FixtureCache ----------------------------
(***************************************************************************)
(* The shard cache of tools/fixtures/fx_common.py (serve, main, write_shard*)
(* and _atomic_write), which parallel forge workers reach through vm.ffi:  *)
(* one process per call, the files of test/fixtures/ between them, and one *)
(* flock.  A process may be killed at any step; the kernel then drops its  *)
(* lock and leaves its temporary file.                                     *)
(*                                                                         *)
(* A file is whole, torn (opened, and not yet written out) or absent; what *)
(* is in a whole one is the shard, for the builders are deterministic.     *)
(***************************************************************************)
EXTENDS Integers, Sequences, FiniteSets

CONSTANTS
  Procs,           (* the processes                                        *)
  Names,           (* the shards of the family, in the order of build_all  *)
  Want,            (* per process: the shard it serves, or "all": --build  *)
  Flock,           (* the file system supports flock (no ENOLCK)           *)
  MaxCrashes       (* bound: processes killed                              *)

Shards == {Names[k] : k \in 1 .. Len(Names)}

Free == "free"

ASSUME FixtureCacheAssumption ==
  /\ Names \in Seq(Shards) /\ Len(Names) >= 1 /\ Cardinality(Shards) = Len(Names)
  /\ "all" \notin Shards /\ Want \in [Procs -> Shards \cup {"all"}]
  /\ Free \notin Procs
  /\ Flock \in BOOLEAN /\ MaxCrashes \in Nat

VARIABLES
  pc,              (* control point of each process                        *)
  k,               (* next shard it builds                                 *)
  files,           (* the shards on disk                                   *)
  tmp,             (* the temporary files                                  *)
  flock,           (* holder of the flock on .build.lock                   *)
  printed,         (* what each process wrote to stdout                    *)
  builds,          (* how often serve started build_all                    *)
  crashes

cacheVars == <<pc, k, files, tmp, flock, printed, builds, crashes>>

Content == {"absent", "torn", "whole"}

CacheInit ==
  /\ pc = [p \in Procs |-> IF Want[p] = "all" THEN "open" ELSE "look"]
  /\ k = [p \in Procs |-> 1]
  /\ files = [n \in Shards |-> "absent"]
  /\ tmp = [x \in Shards \X (Procs \cup {Free}) |-> "absent"]
  /\ flock = Free
  /\ printed = [p \in Procs |-> "nothing"]
  /\ builds = 0 /\ crashes = 0

Exists(p) == files[Want[p]] # "absent"
Moves(p, from, to) == pc[p] = from /\ pc' = [pc EXCEPT ![p] = to]

(* Before the lock. *)
Look(p) ==
  /\ Moves(p, "look", IF Exists(p) THEN "read" ELSE "lock")
  /\ UNCHANGED <<k, files, tmp, flock, printed, builds, crashes>>

TakeFlock(p) ==
  /\ Moves(p, "lock", "recheck")
  /\ IF Flock THEN flock = Free /\ flock' = p ELSE UNCHANGED flock
  /\ UNCHANGED <<k, files, tmp, printed, builds, crashes>>

(* Mutant: the shard is not looked for again under the lock.              *)
RecheckNot(p) ==
  /\ Moves(p, "recheck", "open")
  /\ builds' = builds + 1
  /\ UNCHANGED <<k, files, tmp, flock, printed, crashes>>

Recheck(p) ==
  /\ Moves(p, "recheck", IF Exists(p) THEN "unlock" ELSE "open")
  /\ builds' = IF Exists(p) THEN builds ELSE builds + 1
  /\ UNCHANGED <<k, files, tmp, flock, printed, crashes>>

(* Mutant: one temporary name for all processes. *)
TmpShared(p) == <<Names[k[p]], Free>>

(* <name>.tmp<pid> *)
Tmp(p) == <<Names[k[p]], p>>

(* _atomic_write: write_text truncates, then writes; replace renames. *)
OpenTmp(p) ==
  /\ Moves(p, "open", "write")
  /\ tmp' = [tmp EXCEPT ![Tmp(p)] = "torn"]
  /\ UNCHANGED <<k, files, flock, printed, builds, crashes>>

WriteTmp(p) ==
  /\ Moves(p, "write", "replace")
  /\ tmp' = [tmp EXCEPT ![Tmp(p)] = "whole"]
  /\ UNCHANGED <<k, files, flock, printed, builds, crashes>>

Replace(p) ==
  /\ pc[p] = "replace"
  /\ files' = [files EXCEPT ![Names[k[p]]] = tmp[Tmp(p)]]
  /\ tmp' = [tmp EXCEPT ![Tmp(p)] = "absent"]
  /\ IF k[p] < Len(Names)
     THEN /\ k' = [k EXCEPT ![p] = @ + 1]
          /\ pc' = [pc EXCEPT ![p] = "open"]
     ELSE /\ pc' = [pc EXCEPT ![p] = IF Want[p] = "all" THEN "done" ELSE "unlock"]
          /\ UNCHANGED k
  /\ UNCHANGED <<flock, printed, builds, crashes>>

(* Mutant: the file is not closed. *)
UnflockNot(p) ==
  /\ Moves(p, "unlock", "check")
  /\ UNCHANGED <<k, files, tmp, flock, printed, builds, crashes>>

(* The file is closed, and with it the lock goes. *)
Unflock(p) ==
  /\ Moves(p, "unlock", "check")
  /\ flock' = IF flock = p THEN Free ELSE flock
  /\ UNCHANGED <<k, files, tmp, printed, builds, crashes>>

Check(p) ==
  /\ Moves(p, "check", IF Exists(p) THEN "read" ELSE "failed")
  /\ UNCHANGED <<k, files, tmp, flock, printed, builds, crashes>>

Read(p) ==
  /\ Moves(p, "read", "done")
  /\ printed' = [printed EXCEPT ![p] = files[Want[p]]]
  /\ UNCHANGED <<k, files, tmp, flock, builds, crashes>>

Over == {"done", "failed", "killed"}

Crash(p) ==
  /\ pc[p] \notin Over
  /\ crashes < MaxCrashes
  /\ pc' = [pc EXCEPT ![p] = "killed"]
  /\ flock' = IF flock = p THEN Free ELSE flock
  /\ crashes' = crashes + 1
  /\ UNCHANGED <<k, files, tmp, printed, builds>>

Step(p) ==
  \/ Look(p) \/ TakeFlock(p) \/ Recheck(p) \/ OpenTmp(p) \/ WriteTmp(p) \/ Replace(p)
  \/ Unflock(p) \/ Check(p) \/ Read(p)

CacheNext == \E p \in Procs : Step(p) \/ Crash(p)

CacheSpec == CacheInit /\ [][CacheNext]_cacheVars

(* The system runs every process; flock gives the lock to one that waits,  *)
(* in an order of its own, and each takes it once only, so weak fairness   *)
(* is enough for all to get it.                                            *)
CacheFairSpec == CacheSpec /\ \A p \in Procs : WF_cacheVars(Step(p))

-----------------------------------------------------------------------------
CacheTypeOK ==
  /\ pc \in [Procs -> Over \cup {"look", "lock", "recheck", "open", "write", "replace",
                                 "unlock", "check", "read"}]
  /\ k \in [Procs -> 1 .. Len(Names)]
  /\ files \in [Shards -> Content]
  /\ tmp \in [Shards \X (Procs \cup {Free}) -> Content]
  /\ flock \in Procs \cup {Free}
  /\ printed \in [Procs -> Content \cup {"nothing"}]
  /\ builds \in Nat /\ crashes \in 0 .. MaxCrashes

(* "An atomic ... shard cache": whoever builds, rebuilds or is killed      *)
(* meanwhile, nobody prints half a shard, and none is on disk.             *)
NoTornShard ==
  /\ \A n \in Shards : files[n] # "torn"
  /\ \A p \in Procs : printed[p] \in {"nothing", "whole"}

(* "So the corpus is generated exactly once": serve builds the family once *)
(* more only for a process that was killed in the middle of it.            *)
GeneratedOnce == builds <= 1 + crashes

(* A process that has looked under the lock and builds is the only one.    *)
OneBuilder ==
  \A p, q \in Procs : (p # q /\ Want[p] # "all" /\ Want[q] # "all"
                       /\ pc[p] \in {"open", "write", "replace"})
                        => pc[q] \notin {"recheck", "open", "write", "replace", "unlock"}

(* Nobody waits for the lock for ever, whoever was killed holding it, and  *)
(* nobody ends with "builder did not produce".                             *)
AllServed == \A p \in Procs : <>(pc[p] \in {"done", "killed"})
=============================================================================
