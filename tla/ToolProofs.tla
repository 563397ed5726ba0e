----------------------------- MODULE ToolProofs -----------------------------
(***************************************************************************)
(* Proofs about the two tools that run processes and threads: the shard    *)
(* cache, for any number of processes, shards and kills, and the mutation  *)
(* campaign, for any selection of mutants and any number of workers,       *)
(* exceptions and signals.                                                 *)
(***************************************************************************)
EXTENDS FixtureCache, MutationCampaign, FiniteSetTheorems, TLAPS

-----------------------------------------------------------------------------
(* The shard cache.  A file system without flock gives whole shards all    *)
(* the same; that one process builds, and builds once, needs the lock.     *)
Building == {"open", "write", "replace"}
Serving  == {"look", "lock", "recheck", "unlock", "check", "read"}
Holding  == Building \cup {"recheck", "unlock"}
Server(p) == Want[p] # "all"

-----------------------------------------------------------------------------
(* The inductive invariant.  The temporary file of a process that is about *)
(* to rename is whole, for its name is its own; who builds has left every  *)
(* earlier shard behind; and who has passed the lock finds its shard.      *)
TmpWhole   == \A p \in Procs : pc[p] = "replace" => tmp[Tmp(p)] = "whole"
BuiltSoFar == \A p \in Procs : pc[p] \in Building =>
                \A m \in 1 .. k[p] - 1 : files[Names[m]] = "whole"
Fresh      == \A p \in Procs : pc[p] \in {"look", "lock", "recheck"} => k[p] = 1
Found      == \A p \in Procs : pc[p] \in {"unlock", "check", "read"} => files[Want[p]] = "whole"
Servers    == \A p \in Procs : pc[p] \in Serving => Server(p)
Locked     == Flock => \A p \in Procs : (Server(p) /\ pc[p] \in Holding) => flock = p
NoneFailed == \A p \in Procs : pc[p] # "failed"

FInv ==
  /\ CacheTypeOK /\ NoTornShard
  /\ TmpWhole /\ BuiltSoFar /\ Fresh /\ Found /\ Servers /\ Locked /\ NoneFailed

LEMMA Sequence ==
  /\ Len(Names) \in Nat /\ Len(Names) >= 1
  /\ \A m \in 1 .. Len(Names) : Names[m] \in Shards
  /\ \A n \in Shards : \E m \in 1 .. Len(Names) : n = Names[m]
<1>1. Names \in Seq(Shards) /\ Len(Names) >= 1
  BY FixtureCacheAssumption
<1>2. Len(Names) \in Nat /\ \A m \in 1 .. Len(Names) : Names[m] \in Shards
  BY <1>1
<1>3. QED
  BY <1>1, <1>2 DEF Shards

(* The name of a temporary file is the process's own.                      *)
LEMMA TmpOwn ==
  ASSUME CacheTypeOK, NEW p \in Procs
  PROVE  /\ k[p] \in 1 .. Len(Names) /\ Names[k[p]] \in Shards
         /\ Tmp(p) \in Shards \X (Procs \cup {Free})
         /\ \A q \in Procs : Tmp(q) = Tmp(p) => q = p
  BY Sequence DEF CacheTypeOK, Tmp

LEMMA Wanted ==
  ASSUME NEW p \in Procs, Server(p)
  PROVE  Want[p] \in Shards
  BY FixtureCacheAssumption DEF Server

LEMMA InitFInv == CacheInit => FInv
<1> SUFFICES ASSUME CacheInit PROVE FInv
  OBVIOUS
<1>1. CacheTypeOK
  BY FixtureCacheAssumption, Sequence DEF CacheInit, CacheTypeOK, Over, Content
<1>2. NoTornShard
  BY DEF CacheInit, NoTornShard
<1>3. BuiltSoFar
  BY DEF CacheInit, BuiltSoFar
<1>4. QED
  BY <1>1, <1>2, <1>3
     DEF CacheInit, FInv, TmpWhole, Fresh, Found, Servers, Locked, NoneFailed, Server, Holding,
         Building, Serving

LEMMA StepFInv == FInv /\ [CacheNext]_cacheVars => FInv'
<1> SUFFICES ASSUME FInv, [CacheNext]_cacheVars PROVE FInv'
  OBVIOUS
<1> USE DEF FInv, CacheTypeOK, NoTornShard, TmpWhole, BuiltSoFar, Fresh, Found, Servers, Locked,
            NoneFailed, Over, Content, Building, Serving, Holding, Server
<1>1. ASSUME NEW p \in Procs, Look(p) PROVE FInv'
  BY <1>1, Wanted DEF Look, Moves, Exists, Tmp
<1>2. ASSUME NEW p \in Procs, TakeFlock(p) PROVE FInv'
  BY <1>2, FixtureCacheAssumption DEF TakeFlock, Moves, Tmp
<1>3. ASSUME NEW p \in Procs, Recheck(p) PROVE FInv'
  <2>1. pc[p] = "recheck" /\ k[p] = 1 /\ Server(p) /\ Want[p] \in Shards
        /\ UNCHANGED <<k, files, tmp, flock, printed, crashes>>
        /\ builds' \in {builds, builds + 1}
    BY <1>3, Wanted DEF Recheck, Moves
  <2>2. CASE Exists(p)
    <3>1. pc' = [pc EXCEPT ![p] = "unlock"] /\ files[Want[p]] = "whole"
      BY <1>3, <2>1, <2>2 DEF Recheck, Moves, Exists
    <3> QED
      BY <2>1, <3>1 DEF Tmp
  <2>3. CASE ~ Exists(p)
    <3>1. pc' = [pc EXCEPT ![p] = "open"]
      BY <1>3, <2>3 DEF Recheck, Moves
    <3> QED
      BY <2>1, <3>1 DEF Tmp
  <2> QED
    BY <2>2, <2>3
<1>4. ASSUME NEW p \in Procs, OpenTmp(p) PROVE FInv'
  <2>1. pc[p] = "open" /\ pc' = [pc EXCEPT ![p] = "write"]
        /\ tmp' = [tmp EXCEPT ![Tmp(p)] = "torn"]
        /\ UNCHANGED <<k, files, flock, printed, builds, crashes>>
    BY <1>4 DEF OpenTmp, Moves
  <2>2. CacheTypeOK'
    BY <2>1, TmpOwn
  <2>3. TmpWhole'
    <3> SUFFICES ASSUME NEW q \in Procs, pc'[q] = "replace" PROVE tmp'[Tmp(q)'] = "whole"
      OBVIOUS
    <3>1. q # p /\ pc[q] = "replace" /\ Tmp(q)' = Tmp(q)
      BY <2>1 DEF Tmp
    <3> QED
      BY <3>1, <2>1, TmpOwn
  <2> QED
    BY <2>1, <2>2, <2>3
<1>5. ASSUME NEW p \in Procs, WriteTmp(p) PROVE FInv'
  <2>1. pc[p] = "write" /\ pc' = [pc EXCEPT ![p] = "replace"]
        /\ tmp' = [tmp EXCEPT ![Tmp(p)] = "whole"]
        /\ UNCHANGED <<k, files, flock, printed, builds, crashes>>
    BY <1>5 DEF WriteTmp, Moves
  <2>2. CacheTypeOK'
    BY <2>1, TmpOwn
  <2>3. TmpWhole'
    <3> SUFFICES ASSUME NEW q \in Procs, pc'[q] = "replace" PROVE tmp'[Tmp(q)'] = "whole"
      OBVIOUS
    <3>1. Tmp(q)' = Tmp(q) /\ Tmp(p) \in DOMAIN tmp /\ Tmp(q) \in DOMAIN tmp
      BY <2>1, TmpOwn DEF Tmp
    <3>2. CASE q = p
      BY <3>1, <3>2, <2>1
    <3>3. CASE q # p
      BY <3>1, <3>3, <2>1, TmpOwn
    <3> QED
      BY <3>2, <3>3
  <2> QED
    BY <2>1, <2>2, <2>3
<1>6. ASSUME NEW p \in Procs, Replace(p) PROVE FInv'
  <2> DEFINE n == Names[k[p]]
  <2>1. pc[p] = "replace" /\ tmp[Tmp(p)] = "whole" /\ n \in Shards /\ k[p] \in 1 .. Len(Names)
        /\ files' = [files EXCEPT ![n] = "whole"]
        /\ tmp' = [tmp EXCEPT ![Tmp(p)] = "absent"]
        /\ UNCHANGED <<flock, printed, builds, crashes>>
    BY <1>6, TmpOwn DEF Replace
  <2>2. \A x \in Shards : files[x] = "whole" => files'[x] = "whole"
    BY <2>1
  <2>3. /\ files' \in [Shards -> Content] /\ \A x \in Shards : files'[x] # "torn"
        /\ tmp' \in [Shards \X (Procs \cup {Free}) -> Content]
    BY <2>1, TmpOwn
  <2>4. \A m \in 1 .. k[p] : files'[Names[m]] = "whole"
    BY <2>1, <2>2, Sequence
  <2>5. \A q \in Procs : q # p => k'[q] = k[q] /\ pc'[q] = pc[q]
    BY <1>6 DEF Replace
  <2>6. \A q \in Procs : q # p => Tmp(q)' = Tmp(q) /\ tmp'[Tmp(q)] = tmp[Tmp(q)]
    BY <2>1, <2>5, TmpOwn DEF Tmp
  <2>7. CASE k[p] < Len(Names)
    <3>1. k' = [k EXCEPT ![p] = k[p] + 1] /\ pc' = [pc EXCEPT ![p] = "open"]
      BY <1>6, <2>7 DEF Replace
    <3>2. CacheTypeOK'
      BY <2>1, <2>3, <2>7, <3>1, Sequence
    <3>3. BuiltSoFar'
      <4> SUFFICES ASSUME NEW q \in Procs, pc'[q] \in Building, NEW m \in 1 .. k'[q] - 1
                   PROVE  files'[Names[m]] = "whole"
        OBVIOUS
      <4>1. CASE q = p
        BY <4>1, <2>1, <2>4, <3>1
      <4>2. CASE q # p
        <5>1. m \in 1 .. k[q] - 1 /\ files[Names[m]] = "whole" /\ k[q] \in 1 .. Len(Names)
          BY <4>2, <2>5
        <5>2. Names[m] \in Shards
          BY <5>1, Sequence
        <5> QED
          BY <5>1, <5>2, <2>2
      <4> QED
        BY <4>1, <4>2
    <3>4. Found' /\ Servers' /\ Locked' /\ NoneFailed' /\ Fresh'
      <4>1. Found'
        BY <2>2, <2>5, <3>1, Wanted
      <4> QED
        BY <2>1, <2>5, <3>1, <4>1
    <3> QED
      BY <2>1, <2>3, <2>5, <2>6, <3>1, <3>2, <3>3, <3>4
  <2>8. CASE ~ k[p] < Len(Names)
    <3>1. k' = k /\ pc' = [pc EXCEPT ![p] = IF Server(p) THEN "unlock" ELSE "done"]
      BY <1>6, <2>8 DEF Replace
    <3>2. \A x \in Shards : files'[x] = "whole"
      <4> SUFFICES ASSUME NEW x \in Shards PROVE files'[x] = "whole"
        OBVIOUS
      <4>1. k[p] = Len(Names)
        BY <2>1, <2>8, Sequence
      <4>2. PICK m \in 1 .. Len(Names) : x = Names[m]
        BY Sequence
      <4> QED
        BY <4>1, <4>2, <2>4
    <3>3. CacheTypeOK'
      BY <2>1, <2>3, <3>1
    <3>4. BuiltSoFar'
      BY <3>1, <3>2, Sequence
    <3> QED
      BY <2>1, <2>2, <2>3, <2>5, <2>6, <3>1, <3>2, <3>3, <3>4, Wanted
  <2> QED
    BY <2>7, <2>8
<1>7. ASSUME NEW p \in Procs, Unflock(p) PROVE FInv'
  BY <1>7 DEF Unflock, Moves, Tmp
<1>8. ASSUME NEW p \in Procs, Check(p) PROVE FInv'
  BY <1>8 DEF Check, Moves, Exists, Tmp
<1>9. ASSUME NEW p \in Procs, Read(p) PROVE FInv'
  BY <1>9 DEF Read, Moves, Tmp
<1>10. ASSUME NEW p \in Procs, Crash(p) PROVE FInv'
  BY <1>10, FixtureCacheAssumption DEF Crash, Tmp
<1>11. CASE UNCHANGED cacheVars
  BY <1>11 DEF cacheVars, Tmp
<1>12. QED
  BY <1>1, <1>2, <1>3, <1>4, <1>5, <1>6, <1>7, <1>8, <1>9, <1>10, <1>11 DEF CacheNext, Step

-----------------------------------------------------------------------------
(* The state of the cache is well typed, for any number of processes.      *)
THEOREM FixtureTypeCorrect == CacheSpec => []CacheTypeOK
<1>1. FInv => CacheTypeOK
  BY DEF FInv
<1>2. QED
  BY <1>1, InitFInv, StepFInv, PTL DEF CacheSpec

(* _atomic_write: no shard is ever half written and none is printed so,    *)
(* whoever is killed, and with or without a lock.                          *)
THEOREM FixtureNoTornShard == CacheSpec => []NoTornShard
<1>1. FInv => NoTornShard
  BY DEF FInv
<1>2. QED
  BY <1>1, InitFInv, StepFInv, PTL DEF CacheSpec

(* serve: where flock works, a server that builds is the only one that has *)
(* passed the lock.                                                        *)
THEOREM FixtureOneBuilder == CacheSpec => [](Flock => OneBuilder)
<1>1. FInv => (Flock => OneBuilder)
  <2> SUFFICES ASSUME FInv, Flock, NEW p \in Procs, NEW q \in Procs, p # q, Server(p), Server(q),
                      pc[p] \in Building
               PROVE  pc[q] \notin Holding
    BY DEF OneBuilder, Server, Building, Holding
  <2>1. flock = p
    BY DEF FInv, Locked, Holding
  <2>2. QED
    BY <2>1 DEF FInv, Locked
<1>2. QED
  BY <1>1, InitFInv, StepFInv, PTL DEF CacheSpec

(* serve: "builder did not produce" is never reached.                      *)
THEOREM FixtureNoneFails == CacheSpec => []NoneFailed
<1>1. FInv => NoneFailed
  BY DEF FInv
<1>2. QED
  BY <1>1, InitFInv, StepFInv, PTL DEF CacheSpec

-----------------------------------------------------------------------------
(* A build that serve started is under way, or the family is complete, or  *)
(* a process was killed for it.                                            *)
Busy     == \E p \in Procs : Server(p) /\ pc[p] \in Building
Whole == \A n \in Shards : files[n] = "whole"
GInv     == FInv /\ (Flock => builds <= crashes + (IF Busy \/ Whole THEN 1 ELSE 0))

LEMMA InitGInv == CacheInit => GInv
  BY InitFInv DEF CacheInit, GInv

(* Only Recheck starts a build, and then none is under way.                *)
LEMMA BuildStarts ==
  ASSUME FInv, Flock, NEW p \in Procs, Recheck(p), ~ Exists(p)
  PROVE  ~ Busy /\ ~ Whole /\ Busy' /\ builds' = builds + 1 /\ crashes' = crashes
<1>1. pc[p] = "recheck" /\ Server(p) /\ Want[p] \in Shards
  BY Wanted DEF Recheck, Moves, FInv, Servers, Serving
<1>2. ~ Whole
  BY <1>1 DEF Whole, Exists
<1>3. ~ Busy
  BY <1>1 DEF Busy, FInv, Locked, Holding, Building
<1>4. pc' = [pc EXCEPT ![p] = "open"] /\ builds' = builds + 1 /\ crashes' = crashes
  BY DEF Recheck, Moves
<1>5. Busy'
  BY <1>1, <1>4 DEF Busy, Building, Server, FInv, CacheTypeOK
<1>6. QED
  BY <1>2, <1>3, <1>4, <1>5

(* A build goes on until the family is complete.                           *)
LEMMA BuildGoesOn ==
  ASSUME FInv, NEW p \in Procs, OpenTmp(p) \/ WriteTmp(p) \/ Replace(p), Busy \/ Whole
  PROVE  Busy' \/ Whole'
<1>1. pc[p] \in Building /\ p \in DOMAIN pc /\ k[p] \in 1 .. Len(Names)
  BY DEF OpenTmp, WriteTmp, Replace, Moves, Building, FInv, CacheTypeOK
<1>2. \A q \in Procs : q # p => pc'[q] = pc[q]
  BY DEF OpenTmp, WriteTmp, Replace, Moves, FInv, CacheTypeOK
<1>3. Whole => Whole'
  BY Sequence DEF Whole, OpenTmp, WriteTmp, Replace, FInv, CacheTypeOK, TmpWhole
<1>4. CASE Whole
  BY <1>3, <1>4
<1>5. CASE pc'[p] \in Building
  BY <1>1, <1>2, <1>5, <1>3 DEF Busy
<1>6. CASE ~ Whole /\ pc'[p] \notin Building
  <2>1. Replace(p) /\ k[p] = Len(Names)
    BY <1>1, <1>6, Sequence DEF OpenTmp, WriteTmp, Replace, Moves, Building
  <2>2. /\ pc[p] = "replace" /\ tmp[Tmp(p)] = "whole" /\ Names[k[p]] \in Shards
        /\ files' = [files EXCEPT ![Names[k[p]]] = "whole"]
    BY <2>1, TmpOwn DEF Replace, FInv, TmpWhole
  <2>3. \A m \in 1 .. Len(Names) : files'[Names[m]] = "whole"
    BY <2>1, <2>2, Sequence DEF FInv, BuiltSoFar, Building, CacheTypeOK
  <2> QED
    BY <2>3, Sequence DEF Whole
<1>7. QED
  BY <1>4, <1>5, <1>6

LEMMA StepGInv == GInv /\ [CacheNext]_cacheVars => GInv'
<1> SUFFICES ASSUME GInv, [CacheNext]_cacheVars PROVE GInv'
  OBVIOUS
<1>1. FInv /\ FInv'
  BY StepFInv DEF GInv
<1>2. Flock' = Flock /\ builds \in Nat /\ crashes \in Nat
  BY <1>1 DEF FInv, CacheTypeOK
<1> SUFFICES ASSUME Flock
             PROVE  builds' <= crashes' + (IF Busy' \/ Whole' THEN 1 ELSE 0)
  BY <1>1, <1>2 DEF GInv
<1>3. builds <= crashes + (IF Busy \/ Whole THEN 1 ELSE 0)
  BY DEF GInv
<1>4. ASSUME NEW p \in Procs, Recheck(p), ~ Exists(p) PROVE builds' <= crashes' + 1 /\ Busy'
  BY <1>1, <1>2, <1>3, <1>4, BuildStarts
<1>5. ASSUME NEW p \in Procs, OpenTmp(p) \/ WriteTmp(p) \/ Replace(p)
      PROVE  /\ builds' = builds /\ crashes' = crashes
             /\ Busy \/ Whole => Busy' \/ Whole'
  BY <1>1, <1>5, BuildGoesOn DEF OpenTmp, WriteTmp, Replace
<1>6. ASSUME NEW p \in Procs,
             Look(p) \/ TakeFlock(p) \/ (Recheck(p) /\ Exists(p)) \/ Unflock(p) \/ Check(p) \/ Read(p)
      PROVE  /\ builds' = builds /\ crashes' = crashes
             /\ Busy \/ Whole => Busy' \/ Whole'
  <2>1. builds' = builds /\ crashes' = crashes /\ files' = files
    BY <1>6 DEF Look, TakeFlock, Recheck, Unflock, Check, Read
  <2>2. pc[p] \notin Building /\ \A q \in Procs : q # p => pc'[q] = pc[q]
    BY <1>6, <1>1
       DEF Look, TakeFlock, Recheck, Unflock, Check, Read, Moves, Building, FInv, CacheTypeOK
  <2> QED
    BY <2>1, <2>2 DEF Busy, Whole
<1>7. ASSUME NEW p \in Procs, Crash(p) PROVE builds' = builds /\ crashes' = crashes + 1
  BY <1>7 DEF Crash
<1>8. ASSUME UNCHANGED cacheVars
      PROVE  /\ builds' = builds /\ crashes' = crashes
             /\ Busy \/ Whole => Busy' \/ Whole'
  BY <1>8 DEF cacheVars, Busy, Whole
<1>9. CASE UNCHANGED cacheVars
  BY <1>2, <1>3, <1>8, <1>9
<1>10. ASSUME NEW p \in Procs, Step(p) \/ Crash(p)
       PROVE  builds' <= crashes' + (IF Busy' \/ Whole' THEN 1 ELSE 0)
  <2>1. CASE Crash(p)
    BY <1>2, <1>3, <1>7, <2>1
  <2>2. CASE Recheck(p) /\ ~ Exists(p)
    BY <1>4, <2>2
  <2>3. CASE OpenTmp(p) \/ WriteTmp(p) \/ Replace(p)
    BY <1>2, <1>3, <1>5, <2>3
  <2>4. CASE Look(p) \/ TakeFlock(p) \/ (Recheck(p) /\ Exists(p)) \/ Unflock(p) \/ Check(p) \/ Read(p)
    BY <1>2, <1>3, <1>6, <2>4
  <2> QED
    BY <1>10, <2>1, <2>2, <2>3, <2>4 DEF Step
<1>11. QED
  BY <1>9, <1>10 DEF CacheNext

(* serve: where flock works, the family is built once, and once more only  *)
(* for each process that is killed.                                        *)
THEOREM FixtureGeneratedOnce == CacheSpec => [](Flock => GeneratedOnce)
<1>1. GInv => (Flock => GeneratedOnce)
  BY DEF GInv, FInv, CacheTypeOK, GeneratedOnce
<1>2. QED
  BY <1>1, InitGInv, StepGInv, PTL DEF CacheSpec

-----------------------------------------------------------------------------
(* The campaign.  The inductive invariant CInv follows a workspace from the*)
(* pool to a worker and back, and the mutant that is patched into it.      *)
Making  == {"mkdtemp", "register", "build", "popen", "add", "wait", "discard", "clone"}
Owning  == {"patch", "popen", "add", "wait", "discard", "restore", "put"}
Patched == {"popen", "add", "wait", "discard", "restore"}
InSuite == {"add", "wait"}
Ended   == {"discard", "restore", "put", "record", "dump"}
Places  == Owning \cup {"get", "record", "dump"}

Task == [at : Places, m : Selected, ws : WS,
         out : {"none", "TIMEOUT"} \cup Outcomes, saw : SUBSET Selected,
         again : BOOLEAN, failed : BOOLEAN]
Result == [verdict : Verdicts, out : {"TIMEOUT"} \cup Outcomes, saw : SUBSET Selected]

(* Types, by thread. *)
MainType ==
  /\ main \in Making \cup {"map", "shutdown", "clear", "remove", "exited"}
  /\ cur \in WS /\ next \in 1 .. Len(Todo) + 1
  /\ base \in {"none", "TIMEOUT"} \cup Outcomes
  /\ code \in {Running, 0, 1, 2, 3, 128}
SignalType ==
  /\ handler \in {"off", "kill", "terminate", "clear", "remove", "exit"}
  /\ signals \in Nat /\ errors \in Nat /\ abort \in BOOLEAN /\ snapshot \subseteq WS
DiskType ==
  /\ registered \subseteq WS /\ procs \subseteq WS /\ disk \subseteq WS /\ paths \subseteq WS
  /\ tree \in [WS -> SUBSET Selected]
  /\ child \in [WS -> {"none", "running"} \cup Outcomes]
PoolType ==
  /\ pool \in Seq(WS) /\ queue \in Seq(Selected)
  /\ worker \in [Workers -> {Idle} \cup Task]
  /\ task \in [Selected -> {"todo", "done", "skipped", "failed"}]
ResultType ==
  /\ results \in [Selected -> {None} \cup Result]
  /\ file \in [whole : BOOLEAN, ids : SUBSET Selected, complete : BOOLEAN]
Types == MainType /\ SignalType /\ DiskType /\ PoolType /\ ResultType

Holds(w, s) == worker[w].at \in Owning /\ worker[w].ws = s

(* The handler runs to the end of the process once a signal has come.      *)
Signalled ==
  /\ (handler = "off") <=> (signals = 0)
  /\ abort => signals # 0

(* The workspaces are made in order, and the first is the baseline's.      *)
MainAt ==
  /\ main \in {"build", "popen", "add", "wait", "discard"} => cur = 0
  /\ main \in Making => \A i \in 1 .. Len(pool) : pool[i] < cur

(* Workers have something to do between map and shutdown only, unless a    *)
(* signal ends the process meanwhile.                                      *)
Quiet ==
  (main \notin {"map", "shutdown", "exited"} \/ (main = "exited" /\ signals = 0)) =>
     queue = <<>> /\ \A w \in Workers : worker[w] = Idle

(* A workspace is in the pool once or with one worker.                     *)
PoolInv ==
  /\ \A i, j \in 1 .. Len(pool) : i # j => pool[i] # pool[j]
  /\ \A i \in 1 .. Len(pool) : \A w \in Workers : ~ Holds(w, pool[i])
  /\ \A w, v \in Workers : \A s \in WS : Holds(w, s) /\ Holds(v, s) => w = v

(* A tree has its worker's mutant in it from Patch to Restore, and is clean*)
(* otherwise.                                                              *)
Trees ==
  /\ \A w \in Workers : worker[w].at \in Patched => tree[worker[w].ws] = {worker[w].m}
  /\ \A s \in WS : tree[s] = {} \/ \E w \in Workers : worker[w].at \in Patched /\ worker[w].ws = s

Started == \A w \in Workers : worker[w].at \in InSuite => child[worker[w].ws] # "none"

(* What a worker reports is what it saw run, unless it raised.             *)
Seen ==
  \A w \in Workers :
    /\ worker[w].at \in Ended =>
         worker[w].failed \/ (worker[w].saw = {worker[w].m} /\ worker[w].out # "none")
    /\ (worker[w].at # "idle" /\ worker[w].failed) => worker[w].at \in {"restore", "put"}

CInv == Types /\ Signalled /\ MainAt /\ Quiet /\ PoolInv /\ Trees /\ Started /\ Seen

(* For the exit status: a task that is done has its verdict, and who waits *)
(* for the results in order has those before.                              *)
TasksJudged ==
  /\ \A m \in Selected : /\ task[m] = "done" => results[m] # None
                         /\ task[m] = "skipped" => abort
  /\ \A w \in Workers : worker[w].at = "dump" => results[worker[w].m] # None
MapJudged ==
  /\ \A j \in 1 .. next - 1 : abort \/ results[Todo[j]] # None
  /\ (code = Running /\ main \in {"shutdown", "clear", "remove"}) => next > Len(Todo)
ZeroAtEnd == code = 0 => main = "exited" /\ signals = 0

(* For the results file: it is whole whenever nobody writes it, and says   *)
(* complete when it is.                                                    *)
Written ==
  /\ \A w, v \in Workers : worker[w].at = "dump" /\ worker[v].at = "dump" => w = v
  /\ (\A w \in Workers : worker[w].at # "dump") =>
       file.whole /\ file.ids = Recorded /\ (Complete(Recorded) => file.complete)

(* For the end: a forge runs where somebody waits for it, and every        *)
(* workspace is registered, or is on the list to be removed.               *)
Children ==
  \A s \in WS : (signals = 0 /\ child[s] # "none") =>
       \/ s = cur /\ main \in InSuite
       \/ \E w \in Workers : worker[w].at \in InSuite /\ worker[w].ws = s
Disks == signals = 0 =>
  /\ main \notin {"remove", "exited"} =>
       disk \subseteq registered \cup (IF main = "register" THEN {cur} ELSE {})
  /\ main = "remove" => Keep \/ disk \subseteq paths
  /\ main = "exited" => Keep \/ disk = {}

-----------------------------------------------------------------------------
LEMMA Setup ==
  /\ Len(Todo) \in Nat /\ Len(Todo) >= 1 /\ Jobs \in Nat /\ Jobs >= 1 /\ Jobs <= Len(Todo)
  /\ Todo \in Seq(Selected) /\ \A j \in 1 .. Len(Todo) : Todo[j] \in Selected
  /\ 0 \in WS /\ WS \subseteq Nat
<1>1. Todo \in Seq(Catalogue) /\ Len(Todo) >= 1 /\ Jobs \in 1 .. Len(Todo)
  BY CampaignAssumption
<1>2. \A j \in 1 .. Len(Todo) : Todo[j] \in Selected
  BY DEF Selected
<1>3. Todo \in Seq(Selected)
  BY <1>1, <1>2
<1> QED
  BY <1>1, <1>2, <1>3 DEF WS

LEMMA Records ==
  /\ Idle.at = "idle" /\ \A r \in Task : r.at # "idle" /\ r # Idle
  /\ \A r \in Result : r.verdict \in Verdicts /\ r # None
  /\ None.verdict = "none"
<1>1. \A r \in Task : r.at \in Places
  BY DEF Task
<1>2. "idle" \notin Places
  BY DEF Places, Owning
<1>3. \A r \in Result : r.verdict \in Verdicts
  BY DEF Result
<1>4. "none" \notin Verdicts
  BY DEF Verdicts
<1> QED
  BY <1>1, <1>2, <1>3, <1>4 DEF Idle, None

(* What a worker's step does to the worker's record. *)
LEMMA TakeDoes ==
  ASSUME PoolType, NEW w \in Workers, Take(w), ~ abort
  PROVE  \E r \in Task : /\ r.at = "get" /\ r.m = Head(queue) /\ ~ r.failed
                         /\ worker' = [worker EXCEPT ![w] = r]
<1>1. Head(queue) \in Selected
  BY DEF Take, PoolType
<1> DEFINE r == [at |-> "get", m |-> Head(queue), ws |-> 0, out |-> "none", saw |-> {},
                 again |-> FALSE, failed |-> FALSE]
<1>2. r \in Task
  BY <1>1, Setup DEF Task, Places
<1> QED
  BY <1>2 DEF Take

LEMMA Working ==
  ASSUME PoolType, NEW w \in Workers, worker[w].at # "idle"
  PROVE  worker[w] \in Task
  BY Records DEF PoolType

LEMMA GotoDoes ==
  ASSUME PoolType, NEW w \in Workers, worker[w].at # "idle", NEW a \in Places, Goto(w, a)
  PROVE  \E r \in Task : /\ r = [worker[w] EXCEPT !.at = a]
                         /\ worker' = [worker EXCEPT ![w] = r]
<1>1. worker[w] \in Task
  BY Working
<1>2. [worker[w] EXCEPT !.at = a] \in Task
  BY <1>1 DEF Task
<1> QED
  BY <1>2 DEF Goto, PoolType

-----------------------------------------------------------------------------
(* What each of the threads leaves alone.                                  *)
LEMMA MainFrame ==
  ASSUME MainNext
  PROVE  /\ handler = "off" /\ handler' = handler /\ signals' = signals /\ abort' = abort
         /\ snapshot' = snapshot /\ worker' = worker /\ task' = task /\ errors' = errors
         /\ results' = results /\ file' = file
  BY DEF MainNext, TakeLock, Mkdtemp, Register, Build, BuildFails, Stale, Popen, Add, Wait,
         Discard, Clone, MapNext, MapDone, Shutdown, Clear, Remove, Exit, Leave, Main, Unlock,
         mainVars, sigVars, diskVars, poolVars, resultVars

LEMMA WorkerFrame ==
  ASSUME NEW w \in Workers, WorkerNext(w)
  PROVE  /\ main # "exited" /\ main' = main /\ cur' = cur /\ base' = base /\ next' = next
         /\ code' = code /\ handler' = handler /\ signals' = signals /\ abort' = abort
         /\ snapshot' = snapshot /\ registered' = registered /\ paths' = paths /\ disk' = disk
  BY DEF WorkerNext, Take, Get, Patch, Spawn, WorkerError, Enrol, Communicate, Strike, Restore,
         Put, Record, Dump, At, mainVars, sigVars, diskVars, poolVars, resultVars

LEMMA HandlerFrame ==
  ASSUME SignalType, Signal \/ HandlerNext
  PROVE  /\ worker' = worker /\ task' = task /\ errors' = errors /\ pool' = pool
         /\ queue' = queue /\ results' = results /\ file' = file /\ tree' = tree
         /\ signals' >= signals /\ handler' # "off" /\ cur' = cur /\ base' = base
         /\ next' = next /\ procs' = procs
  BY DEF Signal, HandlerNext, KillSnapshot, Terminate, HandlerClear, HandlerRemove, HandlerExit,
         Handler, SignalType, mainVars, sigVars, diskVars, poolVars, resultVars

LEMMA ChildFrame ==
  ASSUME NEW s \in WS, ChildEnds(s)
  PROVE  /\ UNCHANGED <<main, cur, base, next, code>>
         /\ UNCHANGED <<handler, signals, abort, snapshot>>
         /\ UNCHANGED <<registered, procs, paths, disk, tree>>
         /\ UNCHANGED <<pool, queue, worker, task, errors, results, file>>
  BY DEF ChildEnds, mainVars, sigVars, poolVars, resultVars

LEMMA StutterFrame ==
  ASSUME UNCHANGED vars
  PROVE  /\ UNCHANGED <<main, cur, base, next, code>>
         /\ UNCHANGED <<handler, signals, abort, snapshot>>
         /\ UNCHANGED <<registered, procs, paths, disk, tree, child>>
         /\ UNCHANGED <<pool, queue, worker, task, errors, results, file>>
  BY DEF vars, mainVars, sigVars, diskVars, poolVars, resultVars

-----------------------------------------------------------------------------
(* Types.                                                                  *)
LEMMA InitTypes == Init => Types
<1> SUFFICES ASSUME Init PROVE Types
  OBVIOUS
<1>1. MainType
  BY Setup DEF Init, MainType, Making
<1>5. SignalType
  BY DEF Init, SignalType
<1>2. DiskType
  BY DEF Init, DiskType
<1>3. PoolType
  BY DEF Init, PoolType
<1>4. ResultType
  BY DEF Init, ResultType
<1> QED
  BY <1>1, <1>2, <1>3, <1>4, <1>5 DEF Types

LEMMA MainTypeStep == Types /\ [Next]_vars => MainType'
<1> SUFFICES ASSUME Types, [Next]_vars PROVE MainType'
  OBVIOUS
<1> USE DEF MainType
<1>a. MainType /\ DiskType
  BY DEF Types
<1>1. CASE TakeLock
  BY <1>a, <1>1 DEF TakeLock, mainVars
<1>2. CASE Mkdtemp \/ Register \/ Build \/ Popen \/ Add
  BY <1>a, <1>2 DEF Mkdtemp, Register, Build, Popen, Add, Main, Making
<1>3. CASE BuildFails \/ Stale
  BY <1>a, <1>3 DEF BuildFails, Stale, Leave
<1>4. CASE Wait
  <2>1. base' \in {"none", "TIMEOUT"} \cup Outcomes
    BY <1>a, <1>4 DEF Wait, DiskType
  <2> QED
    BY <2>1, <1>a, <1>4 DEF Wait, Main, Making
<1>5. CASE Discard
  BY <1>a, <1>5, Setup DEF Discard, Making, WS
<1>6. CASE Clone
  BY <1>a, <1>6, Setup DEF Clone, Making, WS
<1>7. CASE MapNext \/ MapDone \/ Shutdown \/ Clear
  BY <1>a, <1>7, Setup DEF MapNext, MapDone, Shutdown, Clear, Main
<1>8. CASE Remove
  BY <1>a, <1>8 DEF Remove, mainVars
<1>9. CASE Exit
  BY <1>a, <1>9 DEF Exit, Main, Status
<1>10. ASSUME NEW w \in Workers, WorkerNext(w) PROVE MainType'
  BY <1>a, <1>10, WorkerFrame
<1>11. CASE Signal \/ HandlerNext
  BY <1>a, <1>11 DEF Signal, HandlerNext, KillSnapshot, Terminate, HandlerClear, HandlerRemove,
                     HandlerExit, mainVars
<1>12. CASE UNCHANGED vars \/ \E s \in WS : ChildEnds(s)
  BY <1>a, <1>12, ChildFrame, StutterFrame
<1> QED
  BY <1>1, <1>2, <1>3, <1>4, <1>5, <1>6, <1>7, <1>8, <1>9, <1>10, <1>11, <1>12 DEF Next, MainNext

LEMMA SignalTypeStep == Types /\ [Next]_vars => SignalType'
<1> SUFFICES ASSUME Types, [Next]_vars PROVE SignalType'
  OBVIOUS
<1> USE DEF SignalType
<1>a. SignalType /\ DiskType
  BY DEF Types
<1>1. CASE MainNext
  BY <1>a, <1>1, MainFrame
<1>2. ASSUME NEW w \in Workers, WorkerNext(w) PROVE SignalType'
  <2>1. errors' \in Nat
    BY <1>a, <1>2 DEF WorkerNext, Take, Get, Patch, Spawn, WorkerError, Enrol, Communicate,
                      Strike, Restore, Put, Record, Dump, poolVars
  <2> QED
    BY <2>1, <1>a, <1>2, WorkerFrame
<1>3. CASE Signal
  BY <1>a, <1>3, HandlerFrame DEF Signal, Handler
<1>4. CASE HandlerNext
  BY <1>a, <1>4, HandlerFrame
     DEF HandlerNext, KillSnapshot, Terminate, HandlerClear, HandlerRemove, HandlerExit, Handler,
         DiskType
<1>5. CASE UNCHANGED vars \/ \E s \in WS : ChildEnds(s)
  BY <1>a, <1>5, ChildFrame, StutterFrame
<1> QED
  BY <1>1, <1>2, <1>3, <1>4, <1>5 DEF Next

LEMMA PoolTypeStep == Types /\ [Next]_vars => PoolType'
<1> SUFFICES ASSUME Types, [Next]_vars PROVE PoolType'
  OBVIOUS
<1>a. PoolType /\ MainType /\ DiskType
  BY DEF Types
<1>1. CASE MainNext
  <2>1. worker' = worker /\ task' = task
    BY <1>1, MainFrame
  <2>2. pool' \in Seq(WS) /\ queue' \in Seq(Selected)
    <3>a. <<>> \in Seq(Selected) /\ <<cur>> \in Seq(WS)
      BY <1>a DEF MainType
    <3>1. CASE Discard
      <4>1. pool' = pool \/ pool' = <<cur>>
        BY <3>1 DEF Discard
      <4>2. queue' = queue \/ queue' = Todo
        BY <3>1 DEF Discard
      <4> QED
        BY <4>1, <4>2, <3>a, <1>a, Setup DEF PoolType
    <3>2. CASE Clone
      BY <3>2, <1>a, Setup DEF Clone, PoolType, MainType
    <3>3. CASE MapNext
      <4>1. pool' = pool /\ (queue' = queue \/ queue' = <<>>)
        BY <3>3 DEF MapNext
      <4> QED
        BY <4>1, <3>a, <1>a DEF PoolType
    <3>4. CASE ~ (Discard \/ Clone \/ MapNext)
      BY <3>4, <1>1, <1>a
         DEF MainNext, TakeLock, Mkdtemp, Register, Build, BuildFails, Stale, Popen, Add, Wait,
             MapDone, Shutdown, Clear, Remove, Exit, Leave, PoolType, poolVars
    <3> QED
      BY <3>1, <3>2, <3>3, <3>4
  <2> QED
    BY <2>1, <2>2, <1>a DEF PoolType
<1>2. ASSUME NEW w \in Workers, WorkerNext(w) PROVE PoolType'
  <2>1. CASE Take(w)
    <3>1. queue' \in Seq(Selected) /\ Head(queue) \in Selected /\ pool' = pool
      BY <2>1, <1>a DEF Take, PoolType
    <3>2. task' \in [Selected -> {"todo", "done", "skipped", "failed"}]
      BY <2>1, <3>1, <1>a DEF Take, PoolType
    <3>3. worker' \in [Workers -> {Idle} \cup Task]
      BY <2>1, <1>a, TakeDoes DEF Take, PoolType
    <3> QED
      BY <3>1, <3>2, <3>3, <1>a DEF PoolType
  <2>2. CASE Get(w)
    <3>1. worker[w] \in Task /\ Head(pool) \in WS /\ Tail(pool) \in Seq(WS)
      BY <2>2, <1>a, Working DEF Get, At, PoolType
    <3>2. [worker[w] EXCEPT !.at = "patch", !.ws = Head(pool)] \in Task
      BY <3>1 DEF Task, Places, Owning
    <3> QED
      BY <3>1, <3>2, <2>2, <1>a DEF Get, PoolType
  <2>3. CASE WorkerError(w)
    <3>1. worker[w] \in Task
      BY <2>3, <1>a, Working DEF WorkerError, At, PoolType
    <3>2. [worker[w] EXCEPT !.at = "restore", !.failed = TRUE] \in Task
      BY <3>1 DEF Task, Places, Owning
    <3> QED
      BY <3>2, <2>3, <1>a DEF WorkerError, PoolType
  <2>4. CASE Communicate(w)
    <3> DEFINE s == worker[w].ws
               o == IF child[s] = "running" THEN "TIMEOUT" ELSE child[s]
    <3>1. worker[w] \in Task /\ s \in WS
      BY <2>4, <1>a, Working DEF Communicate, At, PoolType, Task
    <3>2. o \in {"none", "TIMEOUT"} \cup Outcomes /\ tree[s] \in SUBSET Selected
      BY <3>1, <1>a DEF DiskType
    <3> HIDE DEF o
    <3>3. [worker[w] EXCEPT !.at = "discard", !.saw = tree[s], !.out = o] \in Task
      BY <3>1, <3>2 DEF Task, Places, Owning
    <3> QED
      BY <3>3, <2>4, <1>a DEF Communicate, PoolType, o
  <2>5. CASE Strike(w)
    <3> DEFINE rerun == worker[w].out = "UNNAMED" /\ ~ worker[w].again
               a == IF rerun THEN "popen" ELSE "restore"
               b == worker[w].again \/ rerun
    <3>1. worker[w] \in Task
      BY <2>5, <1>a, Working DEF Strike, At, PoolType
    <3>2. a \in Places /\ b \in BOOLEAN
      BY <3>1 DEF Task, Places, Owning
    <3>3. worker' = [worker EXCEPT ![w].at = a, ![w].again = b]
      BY <2>5 DEF Strike
    <3>4. pool' = pool /\ queue' = queue /\ task' = task
      BY <2>5 DEF Strike
    <3> HIDE DEF a, b
    <3>5. [worker[w] EXCEPT !.at = a, !.again = b] \in Task
      BY <3>1, <3>2 DEF Task
    <3> QED
      BY <3>3, <3>4, <3>5, <1>a DEF PoolType
  <2>6. CASE Patch(w) \/ Spawn(w) \/ Enrol(w) \/ Restore(w) \/ Record(w)
    <3>1. worker[w].at # "idle" /\ \E a \in Places : Goto(w, a)
      BY <2>6 DEF Patch, Spawn, Enrol, Restore, Record, At, Places, Owning
    <3>2. pool' = pool /\ queue' = queue /\ task' = task
      BY <2>6 DEF Patch, Spawn, Enrol, Restore, Record
    <3> QED
      BY <3>1, <3>2, <1>a, GotoDoes DEF PoolType
  <2>7. CASE Put(w)
    <3>1. worker[w] \in Task /\ worker[w].m \in Selected /\ worker[w].ws \in WS
      BY <2>7, <1>a, Working DEF Put, At, PoolType, Task
    <3>2. pool' \in Seq(WS) /\ queue' = queue
      BY <2>7, <3>1, <1>a DEF Put, PoolType
    <3>3. CASE worker[w].failed
      BY <3>1, <3>2, <3>3, <2>7, <1>a DEF Put, PoolType
    <3>4. CASE ~ worker[w].failed
      BY <3>1, <3>2, <3>4, <2>7, <1>a, GotoDoes, Records DEF Put, PoolType, Places
    <3> QED
      BY <3>3, <3>4
  <2>8. CASE Dump(w)
    <3>1. worker[w] \in Task /\ worker[w].m \in Selected
      BY <2>8, <1>a, Working DEF Dump, At, PoolType, Task
    <3> QED
      BY <3>1, <2>8, <1>a DEF Dump, PoolType
  <2> QED
    BY <1>2, <2>1, <2>2, <2>3, <2>4, <2>5, <2>6, <2>7, <2>8 DEF WorkerNext
<1>3. CASE Signal \/ HandlerNext
  BY <1>a, <1>3, HandlerFrame DEF PoolType, Types
<1>4. CASE UNCHANGED vars \/ \E s \in WS : ChildEnds(s)
  BY <1>a, <1>4, ChildFrame, StutterFrame DEF PoolType
<1> QED
  BY <1>1, <1>2, <1>3, <1>4 DEF Next

LEMMA WorkersRun ==
  ASSUME Quiet, NEW w \in Workers, WorkerNext(w)
  PROVE  main \in {"map", "shutdown"}
<1>1. queue # <<>> \/ worker[w].at # "idle"
  BY DEF WorkerNext, Take, Get, Patch, Spawn, WorkerError, Enrol, Communicate, Strike, Restore,
         Put, Record, Dump, At
<1>2. main # "exited"
  BY WorkerFrame
<1> QED
  BY <1>1, <1>2, Records DEF Quiet

LEMMA DiskTypeStep == Types /\ [Next]_vars => DiskType'
<1> SUFFICES ASSUME Types, [Next]_vars PROVE DiskType'
  OBVIOUS
<1>a. DiskType /\ MainType /\ PoolType /\ SignalType
  BY DEF Types
<1>1. CASE MainNext
  <2>1. registered' \subseteq WS /\ procs' \subseteq WS /\ disk' \subseteq WS /\ paths' \subseteq WS
    BY <1>1, <1>a
       DEF MainNext, TakeLock, Mkdtemp, Register, Build, BuildFails, Stale, Popen, Add, Wait,
           Discard, Clone, MapNext, MapDone, Shutdown, Clear, Remove, Exit, Leave,
           DiskType, MainType, diskVars
  <2>2. tree' \in [WS -> SUBSET Selected]
    <3>1. CASE Clone
      BY <3>1, <1>a, Setup DEF Clone, DiskType, MainType
    <3>2. CASE ~ Clone
      BY <1>1, <3>2, <1>a
         DEF MainNext, TakeLock, Mkdtemp, Register, Build, BuildFails, Stale, Popen, Add, Wait,
             Discard, MapNext, MapDone, Shutdown, Clear, Remove, Exit, Leave, DiskType, diskVars
    <3> QED
      BY <3>1, <3>2
  <2>3. child' \in [WS -> {"none", "running"} \cup Outcomes]
    <3>1. CASE Popen \/ Wait
      BY <3>1, <1>a DEF Popen, Wait, DiskType, MainType
    <3>2. CASE ~ (Popen \/ Wait)
      BY <1>1, <3>2, <1>a
         DEF MainNext, TakeLock, Mkdtemp, Register, Build, BuildFails, Stale, Add, Discard, Clone,
             MapNext, MapDone, Shutdown, Clear, Remove, Exit, Leave, DiskType, diskVars
    <3> QED
      BY <3>1, <3>2
  <2> QED
    BY <2>1, <2>2, <2>3 DEF DiskType
<1>2. ASSUME NEW w \in Workers, WorkerNext(w) PROVE DiskType'
  <2>1. worker[w].at = "idle" \/ (worker[w].ws \in WS /\ worker[w].m \in Selected)
    BY <1>a, Working DEF Task
  <2>2. registered' \subseteq WS /\ procs' \subseteq WS /\ disk' \subseteq WS /\ paths' \subseteq WS
    <3>1. procs' \subseteq WS
      BY <1>2, <2>1, <1>a
         DEF WorkerNext, Take, Get, Patch, Spawn, WorkerError, Enrol, Communicate, Strike, Restore,
             Put, Record, Dump, At, DiskType
    <3> QED
      BY <3>1, <1>2, WorkerFrame, <1>a DEF DiskType
  <2>3. tree' \in [WS -> SUBSET Selected]
    <3>1. CASE Patch(w) \/ Restore(w)
      BY <3>1, <2>1, <1>a DEF Patch, Restore, At, DiskType
    <3>2. CASE ~ (Patch(w) \/ Restore(w))
      BY <1>2, <3>2, <1>a
         DEF WorkerNext, Take, Get, Spawn, WorkerError, Enrol, Communicate, Strike, Put, Record,
             Dump, DiskType, diskVars
    <3> QED
      BY <3>1, <3>2
  <2>4. child' \in [WS -> {"none", "running"} \cup Outcomes]
    <3>1. CASE Spawn(w) \/ Communicate(w)
      BY <3>1, <2>1, <1>a DEF Spawn, Communicate, At, DiskType
    <3>2. CASE ~ (Spawn(w) \/ Communicate(w))
      BY <1>2, <3>2, <1>a
         DEF WorkerNext, Take, Get, Patch, WorkerError, Enrol, Strike, Restore, Put, Record, Dump,
             DiskType, diskVars
    <3> QED
      BY <3>1, <3>2
  <2> QED
    BY <2>2, <2>3, <2>4 DEF DiskType
<1>3. CASE Signal \/ HandlerNext
  <2>1. registered' \subseteq WS /\ procs' \subseteq WS /\ disk' \subseteq WS /\ paths' \subseteq WS
    BY <1>3, <1>a
       DEF Signal, HandlerNext, KillSnapshot, Terminate, HandlerClear, HandlerRemove, HandlerExit,
           DiskType, diskVars
  <2>2. child' \in [WS -> {"none", "running"} \cup Outcomes]
    <3>1. CASE Terminate
      BY <3>1, <1>a DEF Terminate, DiskType, Outcomes
    <3>2. CASE ~ Terminate
      BY <1>3, <3>2, <1>a
         DEF Signal, HandlerNext, KillSnapshot, HandlerClear, HandlerRemove, HandlerExit,
             DiskType, diskVars
    <3> QED
      BY <3>1, <3>2
  <2> QED
    BY <2>1, <2>2, <1>3, <1>a, HandlerFrame DEF DiskType
<1>4. ASSUME NEW s \in WS, ChildEnds(s) PROVE DiskType'
  <2>1. child' \in [WS -> {"none", "running"} \cup Outcomes]
    BY <1>4, <1>a DEF ChildEnds, DiskType
  <2> QED
    BY <2>1, <1>4, <1>a, ChildFrame DEF DiskType
<1>5. CASE UNCHANGED vars
  BY <1>a, <1>5, StutterFrame DEF DiskType
<1> QED
  BY <1>1, <1>2, <1>3, <1>4, <1>5 DEF Next

LEMMA VerdictIs ==
  ASSUME NEW o \in {"TIMEOUT"} \cup Outcomes
  PROVE  Verdict(o) \in Verdicts
<1>1. CASE o = "FAIL"
  BY <1>1 DEF Verdict, Verdicts
<1>2. CASE o = "UNNAMED"
  BY <1>2 DEF Verdict, Verdicts
<1>3. CASE o = "PASS"
  BY <1>3 DEF Verdict, Verdicts
<1>4. CASE o = "TIMEOUT"
  BY <1>4 DEF Verdict, Verdicts
<1> QED
  BY <1>1, <1>2, <1>3, <1>4 DEF Outcomes

LEMMA ResultTypeStep == Types /\ Seen /\ [Next]_vars => ResultType'
<1> SUFFICES ASSUME Types, Seen, [Next]_vars PROVE ResultType'
  OBVIOUS
<1>a. ResultType /\ PoolType /\ SignalType
  BY DEF Types
<1>1. CASE MainNext
  BY <1>1, <1>a, MainFrame DEF ResultType
<1>2. ASSUME NEW w \in Workers, WorkerNext(w) PROVE ResultType'
  <2>1. CASE Record(w)
    <3>1. worker[w] \in Task /\ worker[w].at = "record"
      BY <2>1, <1>a, Working DEF Record, At
    <3>2. worker[w].out \in {"TIMEOUT"} \cup Outcomes /\ worker[w].m \in Selected
          /\ worker[w].saw \in SUBSET Selected
      BY <3>1 DEF Seen, Ended, Task
    <3>3. Verdict(worker[w].out) \in Verdicts
      BY <3>2, VerdictIs
    <3>4. [verdict |-> Verdict(worker[w].out), out |-> worker[w].out, saw |-> worker[w].saw] \in Result
      BY <3>2, <3>3 DEF Result
    <3> QED
      BY <3>2, <3>4, <2>1, <1>a DEF Record, ResultType
  <2>2. CASE Dump(w)
    BY <2>2, <1>a DEF Dump, ResultType, Recorded, Complete
  <2>3. CASE ~ (Record(w) \/ Dump(w))
    BY <1>2, <2>3, <1>a
       DEF WorkerNext, Take, Get, Patch, Spawn, WorkerError, Enrol, Communicate, Strike, Restore,
           Put, ResultType, resultVars
  <2> QED
    BY <2>1, <2>2, <2>3
<1>3. CASE Signal \/ HandlerNext
  BY <1>3, <1>a, HandlerFrame DEF ResultType
<1>4. CASE UNCHANGED vars \/ \E s \in WS : ChildEnds(s)
  BY <1>a, <1>4, ChildFrame, StutterFrame DEF ResultType
<1> QED
  BY <1>1, <1>2, <1>3, <1>4 DEF Next

-----------------------------------------------------------------------------
(* The threads' places.                                                    *)
LEMMA SignalledStep == Types /\ Signalled /\ [Next]_vars => Signalled'
<1> SUFFICES ASSUME Types, Signalled, [Next]_vars PROVE Signalled'
  OBVIOUS
<1> USE DEF Signalled
<1>a. SignalType
  BY DEF Types
<1>1. CASE MainNext
  BY <1>1, MainFrame
<1>2. ASSUME NEW w \in Workers, WorkerNext(w) PROVE Signalled'
  BY <1>2, WorkerFrame
<1>3. CASE Signal
  BY <1>3, <1>a, HandlerFrame DEF Signal, SignalType
<1>4. CASE HandlerNext
  BY <1>4, <1>a, HandlerFrame
     DEF HandlerNext, KillSnapshot, Terminate, HandlerClear, HandlerRemove, HandlerExit, Handler,
         SignalType
<1>5. CASE UNCHANGED vars \/ \E s \in WS : ChildEnds(s)
  BY <1>5, ChildFrame, StutterFrame
<1> QED
  BY <1>1, <1>2, <1>3, <1>4, <1>5 DEF Next

LEMMA MainAtStep == Types /\ MainAt /\ Quiet /\ [Next]_vars => MainAt'
<1> SUFFICES ASSUME Types, MainAt, Quiet, [Next]_vars PROVE MainAt'
  OBVIOUS
<1> USE DEF MainAt, Making
<1>a. MainType /\ PoolType
  BY DEF Types
<1>1. CASE Discard
  <2>1. cur = 0 /\ main = "discard"
    BY <1>1 DEF Discard
  <2>2. CASE main' = "mkdtemp"
    <3>1. cur' = 1 /\ pool' = <<cur>>
      BY <1>1, <2>2, Setup DEF Discard
    <3> QED
      BY <2>1, <2>2, <3>1
  <2>3. CASE main' # "mkdtemp"
    BY <1>1, <2>3 DEF Discard
  <2> QED
    BY <2>2, <2>3
<1>2. CASE Clone
  <2>1. main = "clone" /\ pool' = Append(pool, cur) /\ pool \in Seq(Int) /\ cur \in Int
    BY <1>2, <1>a, Setup DEF Clone, MainType, PoolType, WS
  <2>2. CASE main' = "mkdtemp"
    <3>1. cur' = cur + 1
      BY <1>2, <2>2 DEF Clone
    <3>2. ASSUME NEW i \in 1 .. Len(pool') PROVE pool'[i] < cur'
      <4>1. CASE i = Len(pool) + 1
        BY <2>1, <3>1, <4>1
      <4>2. CASE i # Len(pool) + 1
        <5>1. i \in 1 .. Len(pool) /\ pool'[i] = pool[i]
          BY <2>1, <4>2
        <5>2. pool[i] < cur /\ pool[i] \in Int
          BY <2>1, <5>1
        <5> QED
          BY <5>1, <5>2, <2>1, <3>1
      <4> QED
        BY <4>1, <4>2
    <3> QED
      BY <2>2, <3>2
  <2>3. CASE main' # "mkdtemp"
    BY <1>2, <2>3 DEF Clone
  <2> QED
    BY <2>2, <2>3
<1>3. CASE MainNext /\ ~ Discard /\ ~ Clone
  BY <1>3
     DEF MainNext, TakeLock, Mkdtemp, Register, Build, BuildFails, Stale, Popen, Add, Wait, MapNext,
         MapDone, Shutdown, Clear, Remove, Exit, Leave, Main, mainVars, poolVars
<1>4. ASSUME NEW w \in Workers, WorkerNext(w) PROVE MainAt'
  BY <1>4, WorkersRun, WorkerFrame
<1>5. CASE Signal \/ HandlerNext
  <2>1. main' = main \/ main' = "exited"
    BY <1>5 DEF Signal, HandlerNext, KillSnapshot, Terminate, HandlerClear, HandlerRemove,
                HandlerExit, mainVars
  <2> QED
    BY <2>1, <1>5, HandlerFrame DEF Types
<1>6. CASE UNCHANGED vars \/ \E s \in WS : ChildEnds(s)
  BY <1>6, ChildFrame, StutterFrame
<1> QED
  BY <1>1, <1>2, <1>3, <1>4, <1>5, <1>6 DEF Next

LEMMA QuietStep == Types /\ Signalled /\ Quiet /\ [Next]_vars => Quiet'
<1> SUFFICES ASSUME Types, Signalled, Quiet, [Next]_vars PROVE Quiet'
  OBVIOUS
<1> USE DEF Quiet
<1>1. CASE MainNext
  <2>1. worker' = worker /\ handler = "off" /\ signals = 0
    BY <1>1, MainFrame DEF Signalled
  <2>2. CASE Shutdown
    BY <2>1, <2>2 DEF Shutdown, poolVars
  <2>3. CASE ~ Shutdown
    BY <2>1, <2>3, <1>1
       DEF MainNext, TakeLock, Mkdtemp, Register, Build, BuildFails, Stale, Popen, Add, Wait,
           Discard, Clone, MapNext, MapDone, Clear, Remove, Exit, Leave, Main, mainVars, poolVars,
           LockedSteps
  <2> QED
    BY <2>2, <2>3
<1>2. ASSUME NEW w \in Workers, WorkerNext(w) PROVE Quiet'
  BY <1>2, WorkersRun, WorkerFrame
<1>3. CASE Signal \/ HandlerNext
  <2>1. signals' # 0
    <3>1. SignalType
      BY DEF Types
    <3>2. CASE Signal
      BY <3>1, <3>2 DEF Signal, SignalType
    <3>3. CASE HandlerNext
      BY <3>1, <3>3, HandlerFrame
         DEF HandlerNext, KillSnapshot, Terminate, HandlerClear, HandlerRemove, HandlerExit,
             Handler, Signalled, SignalType
    <3> QED
      BY <1>3, <3>2, <3>3
  <2>2. main' = main \/ main' = "exited"
    BY <1>3 DEF Signal, HandlerNext, KillSnapshot, Terminate, HandlerClear, HandlerRemove,
                HandlerExit, mainVars
  <2> QED
    BY <2>1, <2>2, <1>3, HandlerFrame DEF Types
<1>4. CASE UNCHANGED vars \/ \E s \in WS : ChildEnds(s)
  BY <1>4, ChildFrame, StutterFrame
<1> QED
  BY <1>1, <1>2, <1>3, <1>4 DEF Next

-----------------------------------------------------------------------------
(* The workspaces.                                                         *)
LEMMA Others ==
  ASSUME PoolType, NEW w \in Workers, WorkerNext(w)
  PROVE  \A v \in Workers : v # w => worker'[v] = worker[v]
  BY DEF WorkerNext, Take, Get, Patch, Spawn, WorkerError, Enrol, Communicate, Strike, Restore,
         Put, Record, Dump, Goto, PoolType

(* Between Get and Put a worker keeps its mutant and its workspace.        *)
LEMMA SuiteDoes ==
  ASSUME PoolType, NEW w \in Workers,
         \/ Patch(w) \/ Spawn(w) \/ WorkerError(w) \/ Enrol(w) \/ Communicate(w) \/ Strike(w)
         \/ Restore(w)
  PROVE  /\ worker[w] \in Task /\ worker[w].at \in Owning /\ worker'[w].at \in Owning
         /\ worker'[w].ws = worker[w].ws /\ worker'[w].m = worker[w].m
         /\ pool' = pool
<1>1. worker[w].at \in Owning
  BY DEF Patch, Spawn, WorkerError, Enrol, Communicate, Strike, Restore, At, Owning
<1>2. worker[w] \in Task /\ w \in DOMAIN worker
  BY <1>1, Working DEF Owning, PoolType
<1>3. worker'[w].at \in Owning
  BY <1>2 DEF Patch, Spawn, WorkerError, Enrol, Communicate, Strike, Restore, Goto, Owning, Task
<1>4. worker'[w].ws = worker[w].ws /\ worker'[w].m = worker[w].m
  BY <1>2 DEF Patch, Spawn, WorkerError, Enrol, Communicate, Strike, Restore, Goto, Task
<1>5. pool' = pool
  BY DEF Patch, Spawn, WorkerError, Enrol, Communicate, Strike, Restore
<1> QED
  BY <1>1, <1>2, <1>3, <1>4, <1>5

LEMMA GetDoes ==
  ASSUME PoolType, NEW w \in Workers, Get(w)
  PROVE  /\ worker[w] \in Task /\ worker[w].at = "get"
         /\ pool # <<>> /\ Head(pool) = pool[1] /\ pool' = Tail(pool)
         /\ worker'[w].at = "patch" /\ worker'[w].ws = pool[1] /\ worker'[w].m = worker[w].m
         /\ ~ worker[w].failed => ~ worker'[w].failed
<1>1. worker[w] \in Task /\ w \in DOMAIN worker /\ worker[w].at = "get"
  BY Working DEF Get, At, PoolType
<1>2. Head(pool) = pool[1] /\ pool # <<>> /\ pool' = Tail(pool)
  BY DEF Get, PoolType
<1> QED
  BY <1>1, <1>2 DEF Get, Task

LEMMA PutDoes ==
  ASSUME PoolType, NEW w \in Workers, Put(w)
  PROVE  /\ worker[w] \in Task /\ worker[w].at = "put" /\ pool' = Append(pool, worker[w].ws)
         /\ worker'[w].at \in {"idle", "record"}
         /\ worker'[w].at = "record" =>
              /\ ~ worker[w].failed /\ worker'[w] = [worker[w] EXCEPT !.at = "record"]
              /\ worker'[w].m = worker[w].m /\ worker'[w].failed = worker[w].failed
              /\ worker'[w].saw = worker[w].saw /\ worker'[w].out = worker[w].out
<1>1. worker[w] \in Task /\ w \in DOMAIN worker /\ worker[w].at = "put"
  BY Working DEF Put, At, PoolType
<1> QED
  BY <1>1, Records DEF Put, Goto, Task

LEMMA RecordDoes ==
  ASSUME PoolType, NEW w \in Workers, Record(w)
  PROVE  /\ worker[w] \in Task /\ worker[w].at = "record" /\ worker'[w].at = "dump"
         /\ worker'[w].m = worker[w].m /\ worker'[w].failed = worker[w].failed
         /\ worker'[w].saw = worker[w].saw /\ worker'[w].out = worker[w].out
<1>1. worker[w] \in Task /\ w \in DOMAIN worker /\ worker[w].at = "record"
  BY Working DEF Record, At, PoolType
<1> QED
  BY <1>1 DEF Record, Goto, Task

LEMMA DumpDoes ==
  ASSUME PoolType, NEW w \in Workers, Dump(w)
  PROVE  /\ worker[w] \in Task /\ worker[w].at = "dump" /\ worker'[w] = Idle
         /\ worker'[w].at = "idle" /\ task' = [task EXCEPT ![worker[w].m] = "done"]
<1>1. worker[w] \in Task /\ w \in DOMAIN worker /\ worker[w].at = "dump"
  BY Working DEF Dump, At, PoolType
<1> QED
  BY <1>1, Records DEF Dump

LEMMA PoolStep == Types /\ MainAt /\ Quiet /\ PoolInv /\ [Next]_vars => PoolInv'
<1> SUFFICES ASSUME Types, MainAt, Quiet, PoolInv, [Next]_vars PROVE PoolInv'
  OBVIOUS
<1>a. MainType /\ PoolType
  BY DEF Types
<1>1. CASE MainNext
  <2>1. worker' = worker
    BY <1>1, MainFrame
  <2>2. CASE pool' = pool
    BY <2>1, <2>2 DEF PoolInv, Holds
  <2>3. CASE Discard /\ pool' # pool
    <3>1. pool' = <<cur>> /\ \A w \in Workers : worker[w].at = "idle"
      BY <2>3, Records DEF Discard, Quiet
    <3> QED
      BY <2>1, <3>1 DEF PoolInv, Holds, Owning
  <2>4. CASE Clone
    <3>1. pool' = Append(pool, cur) /\ \A w \in Workers : worker[w].at = "idle"
      BY <2>4, Records DEF Clone, Quiet
    <3>2. pool \in Seq(Int) /\ cur \in Int /\ \A i \in 1 .. Len(pool) : pool[i] < cur
      BY <2>4, <1>a, Setup DEF Clone, PoolType, MainType, MainAt, Making, WS
    <3>3. \A i, j \in 1 .. Len(pool') : i # j => pool'[i] # pool'[j]
      BY <3>1, <3>2 DEF PoolInv
    <3> QED
      BY <2>1, <3>1, <3>3 DEF PoolInv, Holds, Owning
  <2> QED
    BY <1>1, <2>2, <2>3, <2>4
       DEF MainNext, TakeLock, Mkdtemp, Register, Build, BuildFails, Stale, Popen, Add, Wait,
           Discard, MapNext, MapDone, Shutdown, Clear, Remove, Exit, Leave, poolVars
<1>2. ASSUME NEW w \in Workers, WorkerNext(w) PROVE PoolInv'
  <2>o. \A v \in Workers : v # w => worker'[v] = worker[v]
    BY <1>2, <1>a, Others
  <2>1. CASE Get(w)
    <3>a. pool # <<>> /\ pool' = Tail(pool) /\ worker'[w].ws = pool[1]
      BY ONLY <2>1, <1>a, w \in Workers, GetDoes
    <3>b. pool \in Seq(WS)
      BY ONLY <1>a DEF PoolType
    <3>1. \A i \in 1 .. Len(pool') : pool'[i] = pool[i + 1] /\ i + 1 \in 1 .. Len(pool)
      BY ONLY <3>a, <3>b
    <3>2. 1 \in 1 .. Len(pool) /\ pool[1] \in WS
      BY ONLY <3>a, <3>b
    <3>3. \A i \in 1 .. Len(pool') : pool'[i] # pool[1]
      BY <3>1, <3>2 DEF PoolInv
    <3>4. \A s \in WS : Holds(w, s)' => s = pool[1]
      BY ONLY <3>a DEF Holds
    <3>5. \A v \in Workers : \A s \in WS : v # w => (Holds(v, s)' <=> Holds(v, s))
      BY <2>o DEF Holds
    <3>6. \A i, j \in 1 .. Len(pool') : i # j => pool'[i] # pool'[j]
      BY <3>1 DEF PoolInv
    <3>7. \A i \in 1 .. Len(pool') : pool'[i] \in WS
      BY <3>1, <1>a DEF PoolType
    <3>8. \A i \in 1 .. Len(pool') : \A v \in Workers : ~ Holds(v, pool[i])'
      <4> SUFFICES ASSUME NEW i \in 1 .. Len(pool'), NEW v \in Workers
                   PROVE  ~ (worker'[v].at \in Owning /\ worker'[v].ws = pool'[i])
        BY DEF Holds
      <4>1. CASE v = w
        BY ONLY <4>1, <3>3, <3>a, i \in 1 .. Len(pool')
      <4>2. CASE v # w
        BY <4>2, <3>1, <2>o DEF PoolInv, Holds
      <4> QED
        BY <4>1, <4>2
    <3>10. \A x, v \in Workers : \A s \in WS : Holds(x, s)' /\ Holds(v, s)' => x = v
      BY <3>2, <3>4, <3>5 DEF PoolInv
    <3> QED
      BY <3>6, <3>8, <3>10 DEF PoolInv
  <2>2. CASE Put(w)
    <3>1. worker[w].ws \in WS /\ Holds(w, worker[w].ws) /\ \A s \in WS : ~ Holds(w, s)'
      BY <2>2, <1>a, PutDoes DEF Holds, Owning, Task
    <3>2. \A v \in Workers : \A s \in WS : v # w => (Holds(v, s)' <=> Holds(v, s))
      BY <2>o DEF Holds
    <3>3. \A i \in 1 .. Len(pool') :
            \/ i \in 1 .. Len(pool) /\ pool'[i] = pool[i]
            \/ i = Len(pool) + 1 /\ pool'[i] = worker[w].ws
      <4>1. pool \in Seq(WS) /\ pool' = Append(pool, worker[w].ws)
        BY <2>2, <1>a, PutDoes DEF PoolType
      <4> QED
        BY <4>1, <3>1
    <3>4. \A i \in 1 .. Len(pool) : pool[i] # worker[w].ws
      BY <3>1 DEF PoolInv
    <3>5. \A i, j \in 1 .. Len(pool') : i # j => pool'[i] # pool'[j]
      BY <3>3, <3>4 DEF PoolInv
    <3>6. \A s \in WS : \A v \in Workers :
            (s = worker[w].ws \/ \E i \in 1 .. Len(pool) : s = pool[i]) => ~ Holds(v, s)'
      BY <3>1, <3>2 DEF PoolInv
    <3>7. \A i \in 1 .. Len(pool') : pool'[i] \in WS
      BY <3>1, <3>3, <1>a DEF PoolType
    <3>8. \A i \in 1 .. Len(pool') : \A v \in Workers : ~ Holds(v, pool[i])'
      <4> SUFFICES ASSUME NEW i \in 1 .. Len(pool'), NEW v \in Workers
                   PROVE  ~ (worker'[v].at \in Owning /\ worker'[v].ws = pool'[i])
        BY DEF Holds
      <4> DEFINE s == pool'[i]
      <4>1. s \in WS /\ (s = worker[w].ws \/ \E j \in 1 .. Len(pool) : s = pool[j])
        BY <3>3, <3>7
      <4> HIDE DEF s
      <4>2. ~ (worker'[v].at \in Owning /\ worker'[v].ws = s)
        BY <4>1, <3>6 DEF Holds
      <4> QED
        BY <4>2 DEF s
    <3>9. \A x, v \in Workers : \A s \in WS : Holds(x, s)' /\ Holds(v, s)' => x = v
      BY <3>1, <3>2 DEF PoolInv
    <3> QED
      BY <3>5, <3>8, <3>9 DEF PoolInv
  <2>3. CASE \/ Patch(w) \/ Spawn(w) \/ WorkerError(w) \/ Enrol(w) \/ Communicate(w) \/ Strike(w)
             \/ Restore(w)
    <3>1. \A v \in Workers : \/ worker'[v].at \in Owning /\ worker'[v].ws = worker[v].ws
                             \/ worker'[v] = worker[v]
      BY <2>o, <2>3, <1>a, SuiteDoes
    <3>2. pool' = pool /\ worker[w].at \in Owning
      BY <2>3, <1>a, SuiteDoes
    <3>3. \A v \in Workers : (worker'[v].at \in Owning <=> worker[v].at \in Owning)
                             /\ worker'[v].ws = worker[v].ws
      BY <2>o, <2>3, <1>a, SuiteDoes
    <3> QED
      BY <3>2, <3>3 DEF PoolInv, Holds
  <2>4. CASE Take(w) \/ Record(w) \/ Dump(w)
    <3>1. pool' = pool
      BY <2>4 DEF Take, Record, Dump
    <3>2. worker[w].at \notin Owning /\ worker'[w].at \notin Owning
      <4>1. CASE Take(w)
        BY <4>1, <1>a, TakeDoes, Records DEF Take, At, PoolType, Owning
      <4>2. CASE Record(w)
        BY <4>2, <1>a DEF Record, At, Goto, PoolType, Owning
      <4>3. CASE Dump(w)
        BY <4>3, <1>a, Records DEF Dump, At, PoolType, Owning
      <4> QED
        BY <2>4, <4>1, <4>2, <4>3
    <3> QED
      BY <2>o, <3>1, <3>2 DEF PoolInv, Holds
  <2> QED
    BY <1>2, <2>1, <2>2, <2>3, <2>4 DEF WorkerNext
<1>3. CASE Signal \/ HandlerNext
  BY <1>3, HandlerFrame DEF Types, PoolInv, Holds
<1>4. CASE UNCHANGED vars \/ \E s \in WS : ChildEnds(s)
  BY <1>4, ChildFrame, StutterFrame DEF PoolInv, Holds
<1> QED
  BY <1>1, <1>2, <1>3, <1>4 DEF Next

LEMMA PatchedStay ==
  ASSUME PoolType, NEW w \in Workers, WorkerNext(w), ~ Patch(w), ~ Restore(w)
  PROVE  /\ tree' = tree
         /\ \A v \in Workers : /\ worker'[v].at \in Patched <=> worker[v].at \in Patched
                               /\ worker[v].at \in Patched =>
                                    worker'[v].ws = worker[v].ws /\ worker'[v].m = worker[v].m
<1>1. tree' = tree
  BY DEF WorkerNext, Take, Get, Spawn, WorkerError, Enrol, Communicate, Strike, Put, Record, Dump,
         diskVars
<1>2. worker'[w].at \in Patched <=> worker[w].at \in Patched
  <2>1. CASE Get(w) \/ Put(w)
    <3>1. worker[w].at \in {"get", "put"} /\ worker'[w].at \in {"patch", "idle", "record"}
      BY <2>1, GetDoes, PutDoes
    <3> QED
      BY <3>1 DEF Patched
  <2>2. CASE Take(w)
    BY <2>2, TakeDoes, Records DEF Take, At, PoolType, Patched
  <2>3. CASE Record(w) \/ Dump(w)
    <3>1. worker[w].at \in {"record", "dump"}
      BY <2>3 DEF Record, Dump, At
    <3>2. worker'[w].at \in {"dump", "idle"}
      BY <2>3, RecordDoes, DumpDoes
    <3> QED
      BY <3>1, <3>2 DEF Patched
  <2>4. CASE Spawn(w) \/ WorkerError(w) \/ Enrol(w) \/ Communicate(w) \/ Strike(w)
    <3>1. worker[w] \in Task /\ w \in DOMAIN worker
      BY <2>4, SuiteDoes DEF PoolType
    <3>2. worker[w].at \in Patched
      BY <2>4 DEF Spawn, WorkerError, Enrol, Communicate, Strike, At, Patched
    <3>3. worker'[w].at \in Patched
      BY <2>4, <3>1 DEF Spawn, WorkerError, Enrol, Communicate, Strike, Goto, Patched, Task
    <3> QED
      BY <3>2, <3>3
  <2> QED
    BY <2>1, <2>2, <2>3, <2>4 DEF WorkerNext
<1>3. worker[w].at \in Patched => worker'[w].ws = worker[w].ws /\ worker'[w].m = worker[w].m
  <2>1. CASE Spawn(w) \/ WorkerError(w) \/ Enrol(w) \/ Communicate(w) \/ Strike(w)
    BY <2>1, SuiteDoes
  <2>2. CASE Take(w) \/ Get(w) \/ Put(w) \/ Record(w) \/ Dump(w)
    BY <2>2 DEF Take, Get, Put, Record, Dump, At, Patched
  <2> QED
    BY <2>1, <2>2 DEF WorkerNext
<1> QED
  BY <1>1, <1>2, <1>3, Others

LEMMA TreesStep == Types /\ Quiet /\ PoolInv /\ Trees /\ [Next]_vars => Trees'
<1> SUFFICES ASSUME Types, Quiet, PoolInv, Trees, [Next]_vars PROVE Trees'
  OBVIOUS
<1>a. MainType /\ PoolType /\ DiskType
  BY DEF Types
<1>1. CASE MainNext
  <2>1. worker' = worker
    BY <1>1, MainFrame
  <2>2. CASE Clone
    <3>1. \A w \in Workers : worker[w].at = "idle"
      BY <2>2, Records DEF Clone, Quiet
    <3>2. \A s \in WS : tree[s] = {}
      BY <3>1 DEF Trees, Patched
    <3>3. \A s \in WS : tree'[s] = {}
      BY <2>2, <3>2, Setup, <1>a DEF Clone, DiskType
    <3> QED
      BY <2>1, <3>1, <3>3 DEF Trees, Patched
  <2>3. CASE ~ Clone
    <3>1. tree' = tree
      BY <1>1, <2>3
         DEF MainNext, TakeLock, Mkdtemp, Register, Build, BuildFails, Stale, Popen, Add, Wait,
             Discard, MapNext, MapDone, Shutdown, Clear, Remove, Exit, Leave, diskVars
    <3> QED
      BY <2>1, <3>1 DEF Trees
  <2> QED
    BY <2>2, <2>3
<1>2. ASSUME NEW w \in Workers, WorkerNext(w) PROVE Trees'
  <2> DEFINE s == worker[w].ws
             m == worker[w].m
  <2>o. \A v \in Workers : v # w => worker'[v] = worker[v]
    BY <1>2, <1>a, Others
  <2>1. CASE ~ Patch(w) /\ ~ Restore(w)
    <3>1. /\ tree' = tree
          /\ \A v \in Workers : /\ worker'[v].at \in Patched <=> worker[v].at \in Patched
                                /\ worker[v].at \in Patched =>
                                     worker'[v].ws = worker[v].ws /\ worker'[v].m = worker[v].m
      BY <1>2, <1>a, <2>1, PatchedStay
    <3> QED
      BY <3>1 DEF Trees
  <2>2. CASE Patch(w) \/ Restore(w)
    <3>1. /\ worker[w] \in Task /\ worker[w].at \in Owning /\ s \in WS
          /\ worker'[w].ws = s /\ worker'[w].m = m
      BY <2>2, <1>a, SuiteDoes DEF Task
    <3>2. \A v \in Workers : (v # w /\ worker[v].at \in Patched) => worker[v].ws # s
      BY <3>1 DEF PoolInv, Holds, Owning, Patched
    <3>3. \A x \in WS : x # s => tree'[x] = tree[x]
      BY <2>2, <3>1, <1>a DEF Patch, Restore, DiskType
    <3>4. \A v \in Workers : (v # w /\ worker[v].at \in Patched) => worker[v].ws \in WS
      BY <1>a, Working DEF Patched, Task
    <3>5. \A v \in Workers : (v # w /\ worker'[v].at \in Patched) =>
            tree'[worker'[v].ws] = {worker'[v].m}
      BY <2>o, <3>2, <3>3, <3>4 DEF Trees
    <3>6. CASE Patch(w)
      <4>1. worker[w].at = "patch" /\ worker'[w].at = "popen"
        BY <3>6, <1>a DEF Patch, At, Goto, PoolType
      <4>2. tree[s] = {}
        BY <3>1, <3>2, <4>1 DEF Trees, Patched
      <4>3. tree'[s] = {m}
        BY <3>1, <3>6, <4>2, <1>a DEF Patch, DiskType
      <4>4. \A x \in WS : tree'[x] = {} \/ \E v \in Workers : worker'[v].at \in Patched /\ worker'[v].ws = x
        <5> SUFFICES ASSUME NEW x \in WS, x # s, tree[x] # {}
                     PROVE  \E v \in Workers : worker'[v].at \in Patched /\ worker'[v].ws = x
          BY <3>1, <3>3, <4>1 DEF Patched
        <5>1. PICK v \in Workers : worker[v].at \in Patched /\ worker[v].ws = x
          BY DEF Trees
        <5> QED
          BY <5>1, <2>o
      <4> QED
        BY <3>1, <3>5, <4>3, <4>4 DEF Trees
    <3>7. CASE Restore(w)
      <4>1. worker[w].at = "restore" /\ worker'[w].at = "put"
        BY <3>7, <1>a DEF Restore, At, Goto, PoolType
      <4>2. tree[s] = {m}
        BY <4>1 DEF Trees, Patched
      <4>3. tree'[s] = {}
        BY <3>1, <3>7, <4>2, <1>a DEF Restore, DiskType
      <4>4. \A x \in WS : tree'[x] = {} \/ \E v \in Workers : worker'[v].at \in Patched /\ worker'[v].ws = x
        <5> SUFFICES ASSUME NEW x \in WS, x # s, tree[x] # {}
                     PROVE  \E v \in Workers : worker'[v].at \in Patched /\ worker'[v].ws = x
          BY <3>3, <4>3
        <5>1. PICK v \in Workers : worker[v].at \in Patched /\ worker[v].ws = x
          BY DEF Trees
        <5> QED
          BY <5>1, <2>o
      <4> QED
        BY <3>5, <4>1, <4>4 DEF Trees, Patched
    <3> QED
      BY <2>2, <3>6, <3>7
  <2> QED
    BY <2>1, <2>2
<1>3. CASE Signal \/ HandlerNext
  BY <1>3, HandlerFrame DEF Types, Trees
<1>4. CASE UNCHANGED vars \/ \E s \in WS : ChildEnds(s)
  BY <1>4, ChildFrame, StutterFrame DEF Trees
<1> QED
  BY <1>1, <1>2, <1>3, <1>4 DEF Next

(* Whose forge a worker waits for has started.                             *)
LEMMA StartedStep == Types /\ Quiet /\ PoolInv /\ Started /\ [Next]_vars => Started'
<1> SUFFICES ASSUME Types, Quiet, PoolInv, Started, [Next]_vars PROVE Started'
  OBVIOUS
<1>a. MainType /\ PoolType /\ DiskType
  BY DEF Types
<1>b. \A v \in Workers : worker[v].at \in InSuite => worker[v].ws \in WS /\ worker[v].at \in Owning
  BY <1>a, Working DEF InSuite, Task, Owning
<1>1. CASE MainNext
  <2>1. worker' = worker
    BY <1>1, MainFrame
  <2>2. CASE Popen \/ Wait
    <3>1. \A w \in Workers : worker[w].at = "idle"
      BY <2>2, Records DEF Popen, Wait, Main, Quiet
    <3> QED
      BY <2>1, <3>1 DEF Started, InSuite
  <2>3. CASE ~ (Popen \/ Wait)
    <3>1. child' = child
      BY <1>1, <2>3
         DEF MainNext, TakeLock, Mkdtemp, Register, Build, BuildFails, Stale, Add, Discard, Clone,
             MapNext, MapDone, Shutdown, Clear, Remove, Exit, Leave, diskVars
    <3> QED
      BY <2>1, <3>1 DEF Started
  <2> QED
    BY <2>2, <2>3
<1>2. ASSUME NEW w \in Workers, WorkerNext(w) PROVE Started'
  <2>o. \A v \in Workers : v # w => worker'[v] = worker[v]
    BY <1>2, <1>a, Others
  <2>1. CASE Spawn(w)
    <3>1. /\ worker[w] \in Task /\ worker'[w].ws = worker[w].ws /\ worker[w].ws \in WS
          /\ child' = [child EXCEPT ![worker[w].ws] = "running"]
      BY <2>1, <1>a, SuiteDoes DEF Spawn, Task
    <3> QED
      BY <2>o, <3>1, <1>a, <1>b DEF Started, DiskType
  <2>2. CASE Communicate(w)
    <3>1. /\ worker[w] \in Task /\ worker[w].at \in Owning /\ worker[w].ws \in WS
          /\ worker'[w].at = "discard"
          /\ child' = [child EXCEPT ![worker[w].ws] = "none"]
      <4>1. /\ worker[w] \in Task /\ worker[w].at \in Owning /\ w \in DOMAIN worker
        BY <2>2, <1>a, SuiteDoes DEF PoolType
      <4> QED
        BY <4>1, <2>2 DEF Communicate, Task
    <3>2. \A v \in Workers : (v # w /\ worker[v].at \in InSuite) => worker[v].ws # worker[w].ws
      BY <3>1, <1>b DEF PoolInv, Holds
    <3> QED
      BY <2>o, <3>1, <3>2, <1>a, <1>b DEF Started, DiskType, InSuite
  <2>3. CASE ~ (Spawn(w) \/ Communicate(w))
    <3>1. child' = child
      BY <1>2, <2>3
         DEF WorkerNext, Take, Get, Patch, WorkerError, Enrol, Strike, Restore, Put, Record, Dump,
             diskVars
    <3>2. worker'[w].at \in InSuite => worker[w].at \in InSuite /\ worker'[w].ws = worker[w].ws
      <4>1. CASE Enrol(w)
        BY <4>1, <1>a, SuiteDoes DEF Enrol, At, InSuite
      <4>2. CASE Take(w)
        BY <4>2, <1>a, TakeDoes, Records DEF Take, At, PoolType, InSuite
      <4>3. CASE Get(w) \/ Put(w)
        <5>1. worker'[w].at \in {"patch", "idle", "record"}
          BY <4>3, <1>a, GetDoes, PutDoes
        <5> QED
          BY <5>1 DEF InSuite
      <4>4. CASE Record(w) \/ Dump(w)
        <5>1. worker'[w].at \in {"dump", "idle"}
          BY <4>4, <1>a, RecordDoes, DumpDoes
        <5> QED
          BY <5>1 DEF InSuite
      <4>5. CASE Patch(w) \/ WorkerError(w) \/ Strike(w) \/ Restore(w)
        <5>1. worker[w] \in Task /\ w \in DOMAIN worker
          BY <4>5, <1>a, SuiteDoes DEF PoolType
        <5>2. worker'[w].at \in {"popen", "restore", "put"}
          BY <4>5, <5>1 DEF Patch, WorkerError, Strike, Restore, Goto, Task
        <5> QED
          BY <5>2 DEF InSuite
      <4> QED
        BY <1>2, <2>3, <4>1, <4>2, <4>3, <4>4, <4>5 DEF WorkerNext
    <3> QED
      BY <2>o, <3>1, <3>2 DEF Started
  <2> QED
    BY <2>1, <2>2, <2>3
<1>3. CASE Signal \/ HandlerNext
  <2>1. worker' = worker
    BY <1>3, HandlerFrame DEF Types
  <2>2. \A s \in WS : child[s] # "none" => child'[s] # "none"
    <3>1. CASE Terminate
      BY <3>1, <1>a DEF Terminate, DiskType
    <3>2. CASE ~ Terminate
      BY <1>3, <3>2
         DEF Signal, HandlerNext, KillSnapshot, HandlerClear, HandlerRemove, HandlerExit, diskVars
    <3> QED
      BY <3>1, <3>2
  <2> QED
    BY <2>1, <2>2, <1>b DEF Started
<1>4. ASSUME NEW s \in WS, ChildEnds(s) PROVE Started'
  <2>1. worker' = worker
    BY <1>4, ChildFrame
  <2>2. \A x \in WS : child[x] # "none" => child'[x] # "none"
    BY <1>4, <1>a DEF ChildEnds, DiskType, Outcomes
  <2> QED
    BY <2>1, <2>2, <1>b DEF Started
<1>5. CASE UNCHANGED vars
  BY <1>5, StutterFrame DEF Started
<1> QED
  BY <1>1, <1>2, <1>3, <1>4, <1>5 DEF Next

(* What a worker has seen is its own mutant's tree.                        *)
LEMMA SeenStep == Types /\ Trees /\ Started /\ Seen /\ [Next]_vars => Seen'
<1> SUFFICES ASSUME Types, Trees, Started, Seen, [Next]_vars PROVE Seen'
  OBVIOUS
<1>a. PoolType /\ DiskType
  BY DEF Types
<1>1. CASE MainNext
  BY <1>1, MainFrame DEF Seen
<1>2. ASSUME NEW w \in Workers, WorkerNext(w) PROVE Seen'
  <2>o. \A v \in Workers : v # w => worker'[v] = worker[v]
    BY <1>2, <1>a, Others
  <2> SUFFICES
        /\ worker'[w].at \in Ended =>
             worker'[w].failed \/ (worker'[w].saw = {worker'[w].m} /\ worker'[w].out # "none")
        /\ (worker'[w].at # "idle" /\ worker'[w].failed) => worker'[w].at \in {"restore", "put"}
    BY <2>o DEF Seen
  <2>s. /\ worker[w].at \in Ended =>
             worker[w].failed \/ (worker[w].saw = {worker[w].m} /\ worker[w].out # "none")
        /\ (worker[w].at # "idle" /\ worker[w].failed) => worker[w].at \in {"restore", "put"}
    BY DEF Seen
  <2>1. CASE Take(w)
    BY <2>1, <2>s, <1>a, TakeDoes DEF Take, PoolType, Ended
  <2>2. CASE Get(w)
    BY <2>2, <2>s, <1>a, GetDoes DEF Ended
  <2>3. CASE Put(w)
    <3>1. CASE worker'[w].at = "record"
      BY <2>3, <3>1, <2>s, <1>a, PutDoes DEF Ended
    <3>2. CASE worker'[w].at = "idle"
      BY <3>2 DEF Ended
    <3> QED
      BY <2>3, <3>1, <3>2, <1>a, PutDoes
  <2>4. CASE Record(w)
    BY <2>4, <2>s, <1>a, RecordDoes DEF Ended
  <2>5. CASE Dump(w)
    BY <2>5, <1>a, DumpDoes DEF Ended
  <2>6. CASE Communicate(w)
    <3>1. worker[w] \in Task /\ w \in DOMAIN worker /\ worker[w].at = "wait"
      BY <2>6, <1>a, Working DEF Communicate, At, PoolType
    <3>2. tree[worker[w].ws] = {worker[w].m} /\ child[worker[w].ws] # "none"
      BY <3>1 DEF Trees, Started, Patched, InSuite
    <3>3. /\ worker'[w].at = "discard" /\ worker'[w].m = worker[w].m
          /\ worker'[w].failed = worker[w].failed /\ worker'[w].saw = tree[worker[w].ws]
          /\ worker'[w].out # "none"
      BY <2>6, <3>1, <3>2 DEF Communicate, Task
    <3> QED
      BY <3>1, <3>2, <3>3, <2>s
  <2>7. CASE Strike(w)
    <3>1. worker[w] \in Task /\ w \in DOMAIN worker /\ worker[w].at = "discard"
      BY <2>7, <1>a, Working DEF Strike, At, PoolType
    <3>2. /\ worker'[w].at \in {"popen", "restore"} /\ worker'[w].m = worker[w].m
          /\ worker'[w].failed = worker[w].failed /\ worker'[w].saw = worker[w].saw
          /\ worker'[w].out = worker[w].out
      BY <2>7, <3>1 DEF Strike, Task
    <3> QED
      BY <3>1, <3>2, <2>s DEF Ended
  <2>8. CASE WorkerError(w)
    <3>1. worker[w] \in Task /\ w \in DOMAIN worker
      BY <2>8, <1>a, Working DEF WorkerError, At, PoolType
    <3>2. worker'[w].at = "restore" /\ worker'[w].failed
      BY <2>8, <3>1 DEF WorkerError, Task
    <3> QED
      BY <3>2
  <2>9. CASE Patch(w) \/ Spawn(w) \/ Enrol(w) \/ Restore(w)
    <3>1. worker[w] \in Task /\ w \in DOMAIN worker
      BY <2>9, <1>a, Working DEF Patch, Spawn, Enrol, Restore, At, PoolType
    <3>2. /\ worker'[w].m = worker[w].m /\ worker'[w].failed = worker[w].failed
          /\ worker'[w].saw = worker[w].saw /\ worker'[w].out = worker[w].out
      BY <2>9, <3>1 DEF Patch, Spawn, Enrol, Restore, Goto, Task
    <3>3. CASE Restore(w)
      <4>1. worker[w].at = "restore" /\ worker'[w].at = "put"
        BY <3>1, <3>3 DEF Restore, At, Goto, Task
      <4> QED
        BY <4>1, <3>2, <2>s DEF Ended
    <3>4. CASE Patch(w) \/ Spawn(w) \/ Enrol(w)
      <4>1. worker[w].at \in {"patch", "popen", "add"} /\ worker'[w].at \in {"popen", "add", "wait"}
        BY <3>1, <3>4 DEF Patch, Spawn, Enrol, At, Goto, Task
      <4> QED
        BY <4>1, <3>2, <2>s DEF Ended
    <3> QED
      BY <2>9, <3>3, <3>4
  <2> QED
    BY <1>2, <2>1, <2>2, <2>3, <2>4, <2>5, <2>6, <2>7, <2>8, <2>9 DEF WorkerNext
<1>3. CASE Signal \/ HandlerNext
  BY <1>3, HandlerFrame DEF Types, Seen
<1>4. CASE UNCHANGED vars \/ \E s \in WS : ChildEnds(s)
  BY <1>4, ChildFrame, StutterFrame DEF Seen
<1> QED
  BY <1>1, <1>2, <1>3, <1>4 DEF Next

-----------------------------------------------------------------------------
LEMMA InitCInv == Init => CInv
<1> SUFFICES ASSUME Init PROVE CInv
  OBVIOUS
<1>1. \A w \in Workers : worker[w].at = "idle"
  BY Records DEF Init
<1>2. Signalled /\ MainAt /\ Quiet
  BY DEF Init, Signalled, MainAt, Quiet
<1>3. PoolInv /\ Trees /\ Started /\ Seen
  BY <1>1 DEF Init, PoolInv, Holds, Owning, Trees, Patched, Started, InSuite, Seen, Ended
<1> QED
  BY <1>2, <1>3, InitTypes DEF CInv

LEMMA StepCInv == CInv /\ [Next]_vars => CInv'
  BY MainTypeStep, SignalTypeStep, DiskTypeStep, PoolTypeStep, ResultTypeStep, SignalledStep,
     MainAtStep, QuietStep, PoolStep, TreesStep, StartedStep, SeenStep DEF CInv, Types

LEMMA CampaignInv == Spec => []CInv
  BY InitCInv, StepCInv, PTL DEF Spec

(* Only Record adds a verdict, and only Record and Dump write the file.    *)
LEMMA ResultsKept ==
  ASSUME SignalType, [Next]_vars, \A w \in Workers : ~ Record(w)
  PROVE  results' = results
<1>1. CASE MainNext
  BY <1>1, MainFrame
<1>2. ASSUME NEW w \in Workers, WorkerNext(w) PROVE results' = results
  BY <1>2 DEF WorkerNext, Take, Get, Patch, Spawn, WorkerError, Enrol, Communicate, Strike,
              Restore, Put, Dump, resultVars
<1>3. CASE Signal \/ HandlerNext
  BY <1>3, HandlerFrame
<1>4. CASE UNCHANGED vars \/ \E s \in WS : ChildEnds(s)
  BY <1>4, ChildFrame, StutterFrame
<1> QED
  BY <1>1, <1>2, <1>3, <1>4 DEF Next

LEMMA FileKept ==
  ASSUME SignalType, [Next]_vars, \A w \in Workers : ~ Record(w) /\ ~ Dump(w)
  PROVE  file' = file
<1>1. CASE MainNext
  BY <1>1, MainFrame
<1>2. ASSUME NEW w \in Workers, WorkerNext(w) PROVE file' = file
  BY <1>2 DEF WorkerNext, Take, Get, Patch, Spawn, WorkerError, Enrol, Communicate, Strike,
              Restore, Put, resultVars
<1>3. CASE Signal \/ HandlerNext
  BY <1>3, HandlerFrame
<1>4. CASE UNCHANGED vars \/ \E s \in WS : ChildEnds(s)
  BY <1>4, ChildFrame, StutterFrame
<1> QED
  BY <1>1, <1>2, <1>3, <1>4 DEF Next

(* The verdict that Record writes.                                         *)
LEMMA RecordWrites ==
  ASSUME CInv, NEW w \in Workers, Record(w)
  PROVE  /\ worker[w].m \in Selected /\ worker[w].saw = {worker[w].m}
         /\ results'[worker[w].m].saw = {worker[w].m} /\ results'[worker[w].m] # None
         /\ \A x \in Selected : x # worker[w].m => results'[x] = results[x]
         /\ file' = [whole |-> FALSE, ids |-> {}, complete |-> FALSE]
<1>1. worker[w] \in Task /\ worker[w].at = "record" /\ worker[w].m \in Selected
  BY RecordDoes DEF CInv, Types, Task
<1>2. worker[w].saw = {worker[w].m} /\ worker[w].out \in {"TIMEOUT"} \cup Outcomes
  BY <1>1 DEF CInv, Seen, Ended, Task
<1>3. /\ results'[worker[w].m].saw = {worker[w].m}
      /\ results'[worker[w].m].verdict = Verdict(worker[w].out)
      /\ \A x \in Selected : x # worker[w].m => results'[x] = results[x]
  BY <1>1, <1>2 DEF Record, CInv, Types, ResultType
<1>4. results'[worker[w].m] # None
  <2>1. Verdict(worker[w].out) # "none"
    BY <1>2, VerdictIs DEF Verdicts
  <2> QED
    BY <1>3, <2>1, Records
<1> QED
  BY <1>1, <1>2, <1>3, <1>4 DEF Record

(* run_mutant, run_suite and the pool of workspaces: every verdict is of   *)
(* the tree with its own mutant in it and no other, for any number of      *)
(* mutants, workers, exceptions and signals.                               *)
THEOREM CampaignVerdictIsOfItsMutant == Spec => []VerdictIsOfItsMutant
<1>1. Init => VerdictIsOfItsMutant
  BY DEF Init, VerdictIsOfItsMutant
<1>2. CInv /\ VerdictIsOfItsMutant /\ [Next]_vars => VerdictIsOfItsMutant'
  <2> SUFFICES ASSUME CInv, VerdictIsOfItsMutant, [Next]_vars PROVE VerdictIsOfItsMutant'
    OBVIOUS
  <2>1. ASSUME NEW w \in Workers, Record(w) PROVE VerdictIsOfItsMutant'
    BY <2>1, RecordWrites DEF VerdictIsOfItsMutant
  <2>2. CASE \A w \in Workers : ~ Record(w)
    BY <2>2, ResultsKept DEF VerdictIsOfItsMutant, CInv, Types
  <2> QED
    BY <2>1, <2>2
<1> QED
  BY <1>1, <1>2, CampaignInv, PTL DEF Spec

-----------------------------------------------------------------------------
(* Finite sets.                                                            *)
LEMMA SelectedFinite == IsFiniteSet(Selected)
<1>1. IsFiniteSet(1 .. Len(Todo))
  BY Setup, FS_Interval
<1>2. Selected = {Todo[j] : j \in 1 .. Len(Todo)}
  BY DEF Selected
<1> DEFINE f == [j \in 1 .. Len(Todo) |-> Todo[j]]
<1>3. f \in Surjection(1 .. Len(Todo), Selected)
  BY <1>2 DEF Surjection
<1> QED
  BY <1>1, <1>3, FS_Surjection

(* write_results: what it says is complete is the whole catalogue.         *)
CompleteIsAll == file.complete => Full /\ file.whole /\ file.ids = Catalogue

LEMMA CompleteStep == CInv /\ CompleteIsAll /\ [Next]_vars => CompleteIsAll'
<1> SUFFICES ASSUME CInv, CompleteIsAll, [Next]_vars PROVE CompleteIsAll'
  OBVIOUS
<1>1. ASSUME NEW w \in Workers, Record(w) PROVE CompleteIsAll'
  BY <1>1, RecordWrites DEF CompleteIsAll
<1>2. ASSUME NEW w \in Workers, Dump(w) PROVE CompleteIsAll'
  <2>1. file' = [whole |-> TRUE, ids |-> Recorded, complete |-> Complete(Recorded)]
    BY <1>2 DEF Dump
  <2>2. CASE Complete(Recorded)
    <3>1. Full /\ Selected = Catalogue /\ Cardinality(Recorded) = Cardinality(Selected)
      BY <2>2, CampaignAssumption DEF Complete
    <3>2. Recorded \subseteq Selected
      BY DEF Recorded
    <3>3. Recorded = Selected
      BY <3>1, <3>2, SelectedFinite, FS_Subset
    <3> QED
      BY <2>1, <3>1, <3>3 DEF CompleteIsAll
  <2>3. CASE ~ Complete(Recorded)
    BY <2>1, <2>3 DEF CompleteIsAll
  <2> QED
    BY <2>2, <2>3
<1>3. CASE \A w \in Workers : ~ Record(w) /\ ~ Dump(w)
  BY <1>3, FileKept DEF CompleteIsAll, CInv, Types
<1> QED
  BY <1>1, <1>2, <1>3

-----------------------------------------------------------------------------
(* The results file.                                                       *)
LEMMA WrittenStep == CInv /\ Written /\ [Next]_vars => Written'
<1> SUFFICES ASSUME CInv, Written, [Next]_vars PROVE Written'
  OBVIOUS
<1>a. PoolType /\ ResultType /\ SignalType
  BY DEF CInv, Types
<1>1. CASE MainNext
  BY <1>1, MainFrame DEF Written, Recorded
<1>2. ASSUME NEW w \in Workers, WorkerNext(w) PROVE Written'
  <2>o. \A v \in Workers : v # w => worker'[v] = worker[v]
    BY <1>2, <1>a, Others
  <2>1. CASE Record(w)
    <3>1. worker'[w].at = "dump" /\ \A v \in Workers : v # w => worker'[v].at # "dump"
      BY <2>1, <2>o, <1>a, RecordDoes DEF Record
    <3> QED
      BY <3>1 DEF Written
  <2>2. CASE Dump(w)
    <3>1. worker[w].at = "dump" /\ worker'[w].at = "idle"
      BY <2>2, <1>a, DumpDoes
    <3>2. file' = [whole |-> TRUE, ids |-> Recorded, complete |-> Complete(Recorded)]
          /\ results' = results
      BY <2>2 DEF Dump
    <3>3. Recorded' = Recorded
      BY <3>2 DEF Recorded
    <3> QED
      BY <2>o, <3>1, <3>2, <3>3 DEF Written
  <2>3. CASE ~ (Record(w) \/ Dump(w))
    <3>1. file' = file /\ results' = results
      BY <1>2, <2>3
         DEF WorkerNext, Take, Get, Patch, Spawn, WorkerError, Enrol, Communicate, Strike, Restore,
             Put, resultVars
    <3>2. worker'[w].at # "dump" /\ worker[w].at # "dump"
      <4>1. CASE Take(w)
        BY <4>1, <1>a, TakeDoes DEF Take, At, PoolType
      <4>2. CASE Get(w) \/ Put(w)
        BY <4>2, <1>a, GetDoes, PutDoes
      <4>3. CASE ~ (Take(w) \/ Get(w) \/ Put(w))
        BY <1>2, <2>3, <4>3, <1>a, SuiteDoes DEF WorkerNext, Owning
      <4> QED
        BY <4>1, <4>2, <4>3
    <3> QED
      BY <2>o, <3>1, <3>2 DEF Written, Recorded
  <2> QED
    BY <2>1, <2>2, <2>3
<1>3. CASE Signal \/ HandlerNext
  BY <1>3, <1>a, HandlerFrame DEF Written, Recorded
<1>4. CASE UNCHANGED vars \/ \E s \in WS : ChildEnds(s)
  BY <1>4, ChildFrame, StutterFrame DEF Written, Recorded
<1> QED
  BY <1>1, <1>2, <1>3, <1>4 DEF Next

LEMMA InitWritten == Init => Written
<1> SUFFICES ASSUME Init PROVE Written
  OBVIOUS
<1>1. \A w \in Workers : worker[w].at = "idle"
  BY Records DEF Init
<1>2. Recorded = {}
  BY DEF Init, Recorded
<1>3. ~ Complete({})
  <2>1. Todo[1] \in Selected /\ Len(Todo) >= 1
    BY Setup
  <2>2. Selected # {}
    BY <2>1
  <2>3. Full => Cardinality(Catalogue) # 0
    BY <2>2, SelectedFinite, FS_EmptySet, CampaignAssumption
  <2> QED
    BY <2>3, FS_EmptySet DEF Complete
<1> QED
  BY <1>1, <1>2, <1>3 DEF Init, Written

(* write_results under the lock, and the pool's shutdown: a run without    *)
(* signals leaves a whole file with every verdict in it.                   *)
THEOREM CampaignVerdictsWritten == Spec => []VerdictsWritten
<1>1. CInv /\ Written => VerdictsWritten
  <2> SUFFICES ASSUME CInv, Written, main = "exited", signals = 0
               PROVE  file.whole /\ file.ids = Recorded
    BY DEF VerdictsWritten
  <2>1. \A w \in Workers : worker[w].at = "idle"
    BY Records DEF CInv, Quiet
  <2> QED
    BY <2>1 DEF Written
<1> QED
  BY <1>1, InitWritten, WrittenStep, CampaignInv, PTL DEF Spec

-----------------------------------------------------------------------------
(* The exit status.                                                        *)
LEMMA ResultsStay ==
  ASSUME CInv, [Next]_vars
  PROVE  \A m \in Selected : results[m] # None => results'[m] # None
<1>1. ASSUME NEW w \in Workers, Record(w)
      PROVE  \A m \in Selected : results[m] # None => results'[m] # None
  BY <1>1, RecordWrites
<1>2. CASE \A w \in Workers : ~ Record(w)
  BY <1>2, ResultsKept DEF CInv, Types
<1> QED
  BY <1>1, <1>2

LEMMA AbortStays ==
  ASSUME CInv, [Next]_vars
  PROVE  abort => abort'
<1>1. CASE Signal \/ HandlerNext
  BY <1>1 DEF Signal, HandlerNext, KillSnapshot, Terminate, HandlerClear, HandlerRemove,
              HandlerExit
<1> QED
  BY <1>1, MainFrame, WorkerFrame, ChildFrame, StutterFrame DEF Next

LEMMA TasksJudgedStep == CInv /\ TasksJudged /\ [Next]_vars => TasksJudged'
<1> SUFFICES ASSUME CInv, TasksJudged, [Next]_vars PROVE TasksJudged'
  OBVIOUS
<1>a. PoolType /\ ResultType /\ SignalType
  BY DEF CInv, Types
<1>b. \A m \in Selected : results[m] # None => results'[m] # None
  BY ResultsStay
<1>c. abort => abort'
  BY AbortStays
<1>d. \A v \in Workers : worker[v].at = "dump" => worker[v].m \in Selected
  BY <1>a, Working DEF Task
<1>1. CASE worker' = worker /\ task' = task
  BY <1>1, <1>b, <1>c, <1>d DEF TasksJudged
<1>2. ASSUME NEW w \in Workers, WorkerNext(w) PROVE TasksJudged'
  <2>o. \A v \in Workers : v # w => worker'[v] = worker[v]
    BY <1>2, <1>a, Others
  <2>1. CASE Take(w)
    <3>1. worker'[w].at # "dump"
      BY <2>1, <1>a, TakeDoes DEF Take, At, PoolType
    <3>2. \A m \in Selected : task'[m] = task[m] \/ (abort /\ task'[m] = "skipped")
      BY <2>1, <1>a DEF Take, PoolType
    <3> QED
      BY <2>o, <3>1, <3>2, <1>b, <1>c, <1>d DEF TasksJudged
  <2>2. CASE Put(w)
    <3>1. worker'[w].at # "dump"
      BY <2>2, <1>a, PutDoes
    <3>2. \A m \in Selected : task'[m] = task[m] \/ task'[m] = "failed"
      BY <2>2, <1>a DEF Put, PoolType
    <3> QED
      BY <2>o, <3>1, <3>2, <1>b, <1>c, <1>d DEF TasksJudged
  <2>3. CASE Record(w)
    <3>1. worker'[w].m = worker[w].m /\ results'[worker[w].m] # None
      BY <2>3, <1>a, RecordDoes, RecordWrites
    <3>2. task' = task
      BY <2>3 DEF Record
    <3> QED
      BY <2>o, <3>1, <3>2, <1>b, <1>c, <1>d DEF TasksJudged
  <2>4. CASE Dump(w)
    <3>1. worker[w].at = "dump" /\ worker'[w].at = "idle" /\ worker[w].m \in Selected
          /\ task' = [task EXCEPT ![worker[w].m] = "done"]
      BY <2>4, <1>a, <1>d, DumpDoes
    <3>2. results'[worker[w].m] # None
      BY <3>1, <1>b DEF TasksJudged
    <3>3. \A m \in Selected : task'[m] = task[m] \/ m = worker[w].m
      BY <3>1, <1>a DEF PoolType
    <3>4. task'[worker[w].m] = "done"
      BY <3>1, <1>a DEF PoolType
    <3> QED
      BY <2>o, <3>1, <3>2, <3>3, <3>4, <1>b, <1>c, <1>d DEF TasksJudged
  <2>5. CASE ~ (Take(w) \/ Put(w) \/ Record(w) \/ Dump(w))
    <3>1. task' = task
      BY <1>2, <2>5
         DEF WorkerNext, Get, Patch, Spawn, WorkerError, Enrol, Communicate, Strike, Restore
    <3>2. worker'[w].at # "dump"
      BY <1>2, <2>5, <1>a, GetDoes, SuiteDoes DEF WorkerNext, Owning
    <3> QED
      BY <2>o, <3>1, <3>2, <1>b, <1>c, <1>d DEF TasksJudged
  <2> QED
    BY <2>1, <2>2, <2>3, <2>4, <2>5
<1> QED
  BY <1>1, <1>2, <1>a, MainFrame, HandlerFrame, ChildFrame, StutterFrame DEF Next

LEMMA MapJudgedStep == CInv /\ TasksJudged /\ MapJudged /\ [Next]_vars => MapJudged'
<1> SUFFICES ASSUME CInv, TasksJudged, MapJudged, [Next]_vars PROVE MapJudged'
  OBVIOUS
<1>a. PoolType /\ MainType /\ SignalType
  BY DEF CInv, Types
<1>b. \A j \in 1 .. next - 1 : abort' \/ results'[Todo[j]] # None
  <2> SUFFICES ASSUME NEW j \in 1 .. next - 1, ~ abort' PROVE results'[Todo[j]] # None
    OBVIOUS
  <2>1. Todo[j] \in Selected
    BY <1>a, Setup DEF MainType
  <2>2. results[Todo[j]] # None
    BY AbortStays DEF MapJudged
  <2> QED
    BY <2>1, <2>2, ResultsStay
<1>1. CASE MapNext
  <2>1. next \in 1 .. Len(Todo) /\ Todo[next] \in Selected /\ task[Todo[next]] # "todo"
    BY <1>1, <1>a, Setup DEF MapNext, MainType
  <2>2. CASE task[Todo[next]] = "failed"
    <3>1. next' = next /\ code' = 1
      BY <1>1, <2>2 DEF MapNext
    <3> QED
      BY <3>1, <1>b DEF MapJudged, Running
  <2>3. CASE task[Todo[next]] # "failed"
    <3>1. next' = next + 1 /\ main' = "map" /\ results' = results /\ abort' = abort
      BY <1>1, <2>3, MainFrame DEF MapNext, MainNext
    <3>2. abort \/ results[Todo[next]] # None
      BY <2>1, <2>3, <1>a DEF PoolType, TasksJudged
    <3> QED
      BY <2>1, <3>1, <3>2, <1>b, <1>a DEF MapJudged, MainType
  <2> QED
    BY <2>2, <2>3
<1>2. CASE MapDone
  <2>1. next' = next /\ next > Len(Todo)
    BY <1>2 DEF MapDone
  <2> QED
    BY <2>1, <1>b DEF MapJudged
<1>3. CASE ~ MapNext /\ ~ MapDone
  <2>1. next' = next
    <3>1. CASE MainNext
      BY <3>1, <1>3
         DEF MainNext, TakeLock, Mkdtemp, Register, Build, BuildFails, Stale, Popen, Add, Wait,
             Discard, Clone, Shutdown, Clear, Remove, Exit, Leave, mainVars
    <3> QED
      BY <3>1, <1>a, WorkerFrame, HandlerFrame, ChildFrame, StutterFrame DEF Next
  <2>2. (code' = Running /\ main' \in {"shutdown", "clear", "remove"}) =>
          code = Running /\ main \in {"shutdown", "clear", "remove"}
    <3>1. CASE MainNext
      BY <3>1, <1>3
         DEF MainNext, TakeLock, Mkdtemp, Register, Build, BuildFails, Stale, Popen, Add, Wait,
             Discard, Clone, Shutdown, Clear, Remove, Exit, Leave, Main, mainVars, Running
    <3>2. CASE Signal \/ HandlerNext
      BY <3>2 DEF Signal, HandlerNext, KillSnapshot, Terminate, HandlerClear, HandlerRemove,
                  HandlerExit, mainVars
    <3> QED
      BY <3>1, <3>2, WorkerFrame, ChildFrame, StutterFrame DEF Next
  <2> QED
    BY <2>1, <2>2, <1>b DEF MapJudged
<1> QED
  BY <1>1, <1>2, <1>3

(* Who exits with a verdict on the campaign has one on every mutant.       *)
LEMMA ExitJudges ==
  ASSUME CInv, MapJudged, Exit, code = Running, code' = 0
  PROVE  ZeroMeansJudged'
<1>1. main = "remove" /\ signals = 0 /\ ~ abort /\ results' = results /\ Status = 0
  BY MainFrame DEF Exit, Main, MainNext, CInv, Signalled
<1>2. next = Len(Todo) + 1
  BY <1>1, Setup DEF MapJudged, CInv, Types, MainType
<1>3. \A m \in Selected : results[m].verdict \in Verdicts
  <2> SUFFICES ASSUME NEW m \in Selected PROVE results[m].verdict \in Verdicts
    OBVIOUS
  <2>1. PICK j \in 1 .. Len(Todo) : m = Todo[j]
    BY DEF Selected
  <2>2. results[m] # None
    BY <1>1, <1>2, <2>1, Setup DEF MapJudged
  <2> QED
    BY <2>2, Records DEF CInv, Types, ResultType
<1>4. /\ \A m \in Selected : results[m].verdict # "UNATTRIB"
      /\ \A m \in Selected \ Equivalent : results[m].verdict \in {"KILLED", "none"}
      /\ \A m \in Selected \cap Equivalent : results[m].verdict # "KILLED"
  BY <1>1 DEF Status
<1> QED
  BY <1>1, <1>3, <1>4 DEF ZeroMeansJudged, Verdicts

LEMMA ZeroStep ==
  CInv /\ MapJudged /\ ZeroAtEnd /\ ZeroMeansJudged /\ [Next]_vars => (ZeroAtEnd /\ ZeroMeansJudged)'
<1> SUFFICES ASSUME CInv, MapJudged, ZeroAtEnd, ZeroMeansJudged, [Next]_vars
             PROVE  (ZeroAtEnd /\ ZeroMeansJudged)'
  OBVIOUS
<1>1. CASE code = 0
  <2>1. main = "exited" /\ handler = "off" /\ signals = 0
    BY <1>1 DEF ZeroAtEnd, CInv, Signalled
  <2>2. ~ MainNext
    BY <2>1 DEF MainNext, TakeLock, Mkdtemp, Register, Build, BuildFails, Stale, Popen, Add, Wait,
                Discard, Clone, MapNext, MapDone, Shutdown, Clear, Remove, Exit, Main, LockedSteps
  <2>3. ~ (Signal \/ HandlerNext)
    BY <2>1 DEF Signal, HandlerNext, KillSnapshot, Terminate, HandlerClear, HandlerRemove,
                HandlerExit, Handler
  <2>4. main' = main /\ signals' = signals /\ results' = results /\ code' = code
    BY <2>1, <2>2, <2>3, WorkerFrame, ChildFrame, StutterFrame DEF Next
  <2> QED
    BY <2>4 DEF ZeroAtEnd, ZeroMeansJudged
<1>2. CASE code # 0 /\ code' = 0
  <2>1. Exit
    <3>1. CASE MainNext
      BY <3>1, <1>2 DEF MainNext, TakeLock, Mkdtemp, Register, Build, BuildFails, Stale, Popen, Add,
                        Wait, Discard, Clone, MapNext, MapDone, Shutdown, Clear, Remove, Leave,
                        mainVars
    <3>2. CASE Signal \/ HandlerNext
      BY <3>2, <1>2 DEF Signal, HandlerNext, KillSnapshot, Terminate, HandlerClear, HandlerRemove,
                        HandlerExit, mainVars
    <3> QED
      BY <1>2, <3>1, <3>2, WorkerFrame, ChildFrame, StutterFrame DEF Next
  <2>2. code = Running
    BY <2>1, <1>2 DEF Exit
  <2>3. main' = "exited" /\ signals' = 0
    BY <2>1, MainFrame DEF Exit, Main, MainNext, CInv, Signalled
  <2> QED
    BY <1>2, <2>1, <2>2, <2>3, ExitJudges DEF ZeroAtEnd
<1>3. CASE code' # 0
  BY <1>3 DEF ZeroAtEnd, ZeroMeansJudged
<1> QED
  BY <1>1, <1>2, <1>3

Judging == TasksJudged /\ MapJudged /\ ZeroAtEnd /\ ZeroMeansJudged

LEMMA InitJudging == Init => Judging
<1> SUFFICES ASSUME Init PROVE Judging
  OBVIOUS
<1>1. \A w \in Workers : worker[w].at = "idle"
  BY Records DEF Init
<1>2. TasksJudged
  BY <1>1 DEF Init, TasksJudged
<1>3. MapJudged /\ ZeroAtEnd /\ ZeroMeansJudged
  BY DEF Init, MapJudged, ZeroAtEnd, ZeroMeansJudged, Running
<1> QED
  BY <1>2, <1>3 DEF Judging

LEMMA StepJudging == CInv /\ Judging /\ [Next]_vars => Judging'
  BY TasksJudgedStep, MapJudgedStep, ZeroStep DEF Judging

(* main's exit status: 0 says that every selected mutant was judged, that  *)
(* each was killed, and that no mutant pinned as equivalent was.           *)
THEOREM CampaignZeroMeansJudged == Spec => []ZeroMeansJudged
<1>1. Judging => ZeroMeansJudged
  BY DEF Judging
<1> QED
  BY InitJudging, StepJudging, <1>1, CampaignInv, PTL DEF Spec

(* With status 0 of a full run, every mutant of the catalogue is recorded. *)
LEMMA ZeroIsComplete ==
  ASSUME CInv, Written, ZeroAtEnd, ZeroMeansJudged, Full, code = 0
  PROVE  file.complete
<1>1. \A w \in Workers : worker[w].at # "dump"
  BY Records DEF ZeroAtEnd, CInv, Quiet
<1>2. Recorded = Selected
  BY Records DEF ZeroMeansJudged, Recorded
<1>3. Complete(Recorded)
  BY <1>2, CampaignAssumption DEF Complete
<1> QED
  BY <1>1, <1>3 DEF Written

(* write_results, the pool's shutdown and main's exit status: the file is  *)
(* marked complete with a verdict for the whole catalogue only, and is so  *)
(* marked when a full run exits with 0.                                    *)
THEOREM CampaignCompleteIsWhole == Spec => []CompleteIsWholeCampaign
<1> DEFINE WInv == Judging /\ Written /\ CompleteIsAll
<1>1. Init => WInv
  BY InitJudging, InitWritten DEF Init, CompleteIsAll
<1>2. CInv /\ WInv /\ [Next]_vars => WInv'
  BY StepJudging, WrittenStep, CompleteStep
<1>3. CInv /\ WInv => CompleteIsWholeCampaign
  BY ZeroIsComplete DEF Judging, CompleteIsAll, CompleteIsWholeCampaign
<1> QED
  BY <1>1, <1>2, <1>3, CampaignInv, PTL DEF Spec

-----------------------------------------------------------------------------
(* What a run leaves behind.                                               *)
LEMMA ChildrenStep == CInv /\ Children /\ [Next]_vars => Children'
<1> SUFFICES ASSUME CInv, Children, [Next]_vars, signals' = 0, NEW s \in WS, child'[s] # "none"
             PROVE  \/ s = cur' /\ main' \in InSuite
                    \/ \E w \in Workers : worker'[w].at \in InSuite /\ worker'[w].ws = s
  BY DEF Children
<1>a. MainType /\ PoolType /\ DiskType /\ SignalType
  BY DEF CInv, Types
<1>1. CASE MainNext
  <2>1. worker' = worker /\ signals = 0
    BY <1>1, MainFrame
  <2>2. CASE Popen
    BY <2>2, <2>1, <1>a DEF Popen, Main, InSuite, Children, DiskType, MainType
  <2>3. CASE Wait
    <3>1. main = "wait" /\ child[s] # "none" /\ s # cur
      BY <2>3, <1>a DEF Wait, Main, DiskType, MainType
    <3> QED
      BY <2>1, <3>1 DEF Children
  <2>4. CASE ~ (Popen \/ Wait)
    <3>1. child' = child
      BY <1>1, <2>4
         DEF MainNext, TakeLock, Mkdtemp, Register, Build, BuildFails, Stale, Add, Discard, Clone,
             MapNext, MapDone, Shutdown, Clear, Remove, Exit, Leave, diskVars
    <3>2. main \in InSuite => main' \in InSuite /\ cur' = cur
      BY <1>1, <2>4
         DEF MainNext, TakeLock, Mkdtemp, Register, Build, BuildFails, Stale, Add, Discard, Clone,
             MapNext, MapDone, Shutdown, Clear, Remove, Exit, Main, InSuite, mainVars
    <3> QED
      BY <2>1, <3>1, <3>2 DEF Children
  <2> QED
    BY <2>2, <2>3, <2>4
<1>2. ASSUME NEW w \in Workers, WorkerNext(w)
      PROVE  \/ s = cur' /\ main' \in InSuite
             \/ \E v \in Workers : worker'[v].at \in InSuite /\ worker'[v].ws = s
  <2>o. /\ \A v \in Workers : v # w => worker'[v] = worker[v]
        /\ cur' = cur /\ main' = main /\ signals = 0
    BY <1>2, <1>a, Others, WorkerFrame
  <2>1. CASE Spawn(w)
    <3>1. worker'[w].at = "add" /\ worker'[w].ws = worker[w].ws /\ worker[w].at = "popen"
          /\ worker[w].ws \in WS
      <4>1. worker[w] \in Task /\ w \in DOMAIN worker
        BY <2>1, <1>a, SuiteDoes DEF PoolType
      <4> QED
        BY <4>1, <2>1 DEF Spawn, At, Goto, Task
    <3>2. CASE s = worker[w].ws
      BY <3>1, <3>2 DEF InSuite
    <3>3. CASE s # worker[w].ws
      <4>1. child[s] # "none"
        BY <2>1, <3>1, <3>3, <1>a DEF Spawn, DiskType
      <4> QED
        BY <2>o, <3>1, <4>1 DEF Children, InSuite
    <3> QED
      BY <3>2, <3>3
  <2>2. CASE Communicate(w)
    <3>1. worker[w] \in Task /\ worker[w].ws \in WS
      BY <2>2, <1>a, SuiteDoes DEF Task
    <3>2. s # worker[w].ws /\ child[s] # "none"
      BY <2>2, <3>1, <1>a DEF Communicate, DiskType
    <3> QED
      BY <2>o, <3>2 DEF Children
  <2>3. CASE ~ (Spawn(w) \/ Communicate(w))
    <3>1. child' = child
      BY <1>2, <2>3
         DEF WorkerNext, Take, Get, Patch, WorkerError, Enrol, Strike, Restore, Put, Record, Dump,
             diskVars
    <3>2. worker[w].at \in InSuite => worker'[w].at \in InSuite /\ worker'[w].ws = worker[w].ws
      <4>1. CASE Enrol(w)
        <5>1. worker[w] \in Task /\ w \in DOMAIN worker
          BY <4>1, <1>a, SuiteDoes DEF PoolType
        <5> QED
          BY <4>1, <5>1 DEF Enrol, Goto, Task, InSuite
      <4>2. CASE ~ Enrol(w)
        BY <1>2, <2>3, <4>2
           DEF WorkerNext, Take, Get, Patch, WorkerError, Strike, Restore, Put, Record, Dump, At,
               InSuite
      <4> QED
        BY <4>1, <4>2
    <3> QED
      BY <2>o, <3>1, <3>2 DEF Children
  <2> QED
    BY <2>1, <2>2, <2>3
<1>3. ~ (Signal \/ HandlerNext)
  BY <1>a, HandlerFrame DEF Signal, HandlerNext, KillSnapshot, Terminate, HandlerClear,
     HandlerRemove, HandlerExit, Handler, CInv, Signalled, SignalType
<1>4. ASSUME NEW x \in WS, ChildEnds(x)
      PROVE  \/ s = cur' /\ main' \in InSuite
             \/ \E w \in Workers : worker'[w].at \in InSuite /\ worker'[w].ws = s
  <2>1. child[s] # "none"
    BY <1>4, <1>a DEF ChildEnds, DiskType
  <2> QED
    BY <1>4, <2>1, ChildFrame DEF Children
<1>5. CASE UNCHANGED vars
  BY <1>5, StutterFrame DEF Children
<1> QED
  BY <1>1, <1>2, <1>3, <1>4, <1>5 DEF Next

LEMMA DisksStep == CInv /\ Disks /\ [Next]_vars => Disks'
<1> SUFFICES ASSUME CInv, Disks, [Next]_vars, signals' = 0 PROVE Disks'
  BY DEF Disks
<1>a. MainType /\ DiskType /\ SignalType
  BY DEF CInv, Types
<1>1. CASE MainNext
  <2>1. signals = 0 /\ signals' = 0
    BY <1>1, MainFrame
  <2>2. CASE Mkdtemp
    BY <2>1, <2>2 DEF Mkdtemp, Main, Disks
  <2>3. CASE Register
    BY <2>1, <2>3 DEF Register, Main, Disks, diskVars
  <2>4. CASE Clear
    BY <2>1, <2>4 DEF Clear, Main, Disks, diskVars
  <2>5. CASE Remove
    BY <2>1, <2>5, <1>a DEF Remove, Disks, DiskType, mainVars
  <2>6. CASE Exit
    BY <2>1, <2>6 DEF Exit, Main, Disks, diskVars
  <2>7. CASE ~ (Mkdtemp \/ Register \/ Clear \/ Remove \/ Exit)
    <3>1. disk' = disk /\ registered' = registered /\ paths' = paths
      BY <1>1, <2>7
         DEF MainNext, TakeLock, Build, BuildFails, Stale, Popen, Add, Wait, Discard, Clone,
             MapNext, MapDone, Shutdown, Leave, diskVars
    <3>2. /\ main \notin {"remove", "exited"} /\ main' \notin {"remove", "exited"}
          /\ main = "register" => main' = "register" /\ cur' = cur
      BY <1>1, <2>7
         DEF MainNext, TakeLock, Build, BuildFails, Stale, Popen, Add, Wait, Discard, Clone,
             MapNext, MapDone, Shutdown, Leave, Main, LockedSteps, mainVars
    <3> QED
      BY <2>1, <3>1, <3>2 DEF Disks
  <2> QED
    BY <2>2, <2>3, <2>4, <2>5, <2>6, <2>7
<1>2. ASSUME NEW w \in Workers, WorkerNext(w) PROVE Disks'
  BY <1>2, WorkerFrame DEF Disks
<1>3. ~ (Signal \/ HandlerNext)
  BY <1>a, HandlerFrame DEF Signal, HandlerNext, KillSnapshot, Terminate, HandlerClear,
     HandlerRemove, HandlerExit, Handler, CInv, Signalled, SignalType
<1>4. CASE UNCHANGED vars \/ \E s \in WS : ChildEnds(s)
  BY <1>4, ChildFrame, StutterFrame DEF Disks
<1> QED
  BY <1>1, <1>2, <1>3, <1>4 DEF Next

(* make_workspace, cleanup_workspaces and run_suite: "removed on success,  *)
(* on failure, on exception" -- a run without signals leaves no workspace  *)
(* and no forge behind.                                                    *)
THEOREM CampaignNothingLeft == Spec => []NothingLeft
<1>1. Init => Children /\ Disks
  BY DEF Init, Children, Disks
<1>2. CInv /\ Children /\ Disks => NothingLeft
  <2> SUFFICES ASSUME CInv, Children, Disks, main = "exited", signals = 0
               PROVE  (Keep \/ disk = {}) /\ \A s \in WS : child[s] # "running"
    BY DEF NothingLeft
  <2>1. \A w \in Workers : worker[w].at = "idle"
    BY Records DEF CInv, Quiet
  <2> QED
    BY <2>1 DEF Children, Disks, InSuite
<1> QED
  BY <1>1, <1>2, ChildrenStep, DisksStep, CampaignInv, PTL DEF Spec

-----------------------------------------------------------------------------
(* The state of the campaign is well typed; the pool never holds more      *)
(* workspaces than there are.                                              *)
THEOREM CampaignTypeCorrect == Spec => []TypeOK
<1>1. CInv => TypeOK
  <2> SUFFICES ASSUME CInv PROVE TypeOK
    OBVIOUS
  <2>a. Types
    BY DEF CInv
  <2>1. Len(pool) <= Jobs
    <3>1. pool \in Seq(WS) /\ Len(pool) \in Nat /\ pool \in [1 .. Len(pool) -> WS]
      BY <2>a DEF Types, PoolType
    <3>2. pool \in Injection(1 .. Len(pool), WS)
      BY <3>1 DEF Injection, IsInjective, CInv, PoolInv
    <3>3. IsFiniteSet(WS) /\ Cardinality(WS) = Jobs
      <4>1. Jobs - 1 \in Int /\ 0 \in Int /\ Jobs - 1 - 0 + 1 = Jobs
        BY Setup
      <4>2. /\ IsFiniteSet(0 .. Jobs - 1)
            /\ Cardinality(0 .. Jobs - 1) = IF 0 > Jobs - 1 THEN 0 ELSE (Jobs - 1) - 0 + 1
        BY <4>1, FS_Interval, Zenon
      <4>3. Cardinality(0 .. Jobs - 1) = Jobs
        BY <4>2, Setup
      <4> QED
        BY <4>2, <4>3 DEF WS
    <3>4. Cardinality(1 .. Len(pool)) = Len(pool)
      BY <3>1, FS_Interval
    <3> QED
      BY <3>2, <3>3, <3>4, FS_Injection
  <2>2. \A m \in Selected : results[m].verdict \in Verdicts \cup {"none"}
    BY <2>a, Records DEF Types, ResultType
  <2> QED
    BY <2>a, <2>1, <2>2 DEF TypeOK, Types, MainType, DiskType, PoolType
<1> QED
  BY <1>1, CampaignInv, PTL
=============================================================================
