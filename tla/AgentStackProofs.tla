--------------------------- MODULE AgentStackProofs ---------------------------
(***************************************************************************)
(* What the agent's stack keeps, for every set of copies, of verbs and of  *)
(* budgets, in two parts.                                                  *)
(*                                                                         *)
(* The copies: SnapshotIsOwn, whatever the verbs' programs.  A copy that   *)
(* is still unfinished when its call is gone has been cancelled, a         *)
(* cancelled copy is never built, and the copies that may still be swapped *)
(* in hold the lock, which the call's own copy had to wait for.            *)
(*                                                                         *)
(* The verbs: each verb's program has its checks before the step they are  *)
(* for, and nothing the server does between them undoes what a check       *)
(* found.  So the two verbs of the system suite write the test database of *)
(* a project whose services are stamped with the digest they took, no verb *)
(* stops, starts or migrates production, and migrate upgrades the stack it *)
(* announced, unless the owner launched a project or rebuilt an image      *)
(* after the last check that looks at it.  And every program spends after  *)
(* its last check: whatever the owner does, a refusal costs nothing and a  *)
(* stop is made good.                                                      *)
(***************************************************************************)
EXTENDS AgentStack, FiniteSetTheorems, TLAPS

(* The copies. *)

Copying == AtStep({"snapshot"})

CopiesTyped ==
    copies \in [Gens -> [st : {"none", "waiting", "copying", "built", "swapping", "done", "aborted",
                               "broken"},
                         cancel : BOOLEAN]]

\* The threads inside the lock are its holder's.
LockHeld == \A g \in Gens : copies[g].st \in {"copying", "built", "swapping"} => dirs.lock = g

\* Only the call's own copy is unfinished and not cancelled.
OrphansCancelled ==
    \A g \in Gens : copies[g].st \in {"waiting", "copying", "built", "swapping"} /\ g # call.gen
                      => copies[g].cancel

NoneSwaps == \A g \in Gens : copies[g].st \notin {"built", "swapping"}

\* Once its copy is done, and from then on, the call's copy is live and no other can replace it.
OwnIsLive ==
    call.gen # None =>
      /\ call.gen \in Gens
      /\ ~Copying => copies[call.gen].st = "none"
      /\ ~Copying \/ copies[call.gen].st = "done" => dirs.live = call.gen /\ NoneSwaps

\* The fields this argument reads are there to be updated.
Fields ==
    /\ {"verb", "pc", "gen", "mode", "digest", "charged", "stopped", "seen"} \subseteq DOMAIN call
    /\ {"live", "new", "old", "lock"} \subseteq DOMAIN dirs

IInv == Fields /\ CopiesTyped /\ LockHeld /\ OrphansCancelled /\ OwnIsLive

-----------------------------------------------------------------------------
\* The fields of a call.
CallFields == {"verb", "pc", "gen", "mode", "digest", "charged", "stopped", "seen"}

\* A step of another kind than the snapshot's: the call goes on with its copy, or is over.
LEMMA QuietLemma ==
    ASSUME IInv, ~Copying, UNCHANGED <<copies, dirs>>,
           call'.gen \in {None, call.gen}, CallFields \subseteq DOMAIN call'
    PROVE  IInv'
  BY DEF IInv, Fields, CallFields, CopiesTyped, LockHeld, OrphansCancelled, OwnIsLive, NoneSwaps,
         Copying

\* A step that leaves the call's place, the copies and the directories alone.
LEMMA IdleLemma ==
    ASSUME IInv, UNCHANGED <<copies, dirs>>, CallFields \subseteq DOMAIN call',
           call'.verb = call.verb, call'.pc = call.pc, call'.mode = call.mode, call'.gen = call.gen
    PROVE  IInv'
  <1>1. Copying' <=> Copying
    BY DEF Copying, AtStep, Current, Running
  <1> QED BY <1>1 DEF IInv, Fields, CallFields, CopiesTyped, LockHeld, OrphansCancelled, OwnIsLive, NoneSwaps

\* What Advance and Finish do to the call's copy.
LEMMA AdvanceLemma ==
    ASSUME NEW c, CallFields \subseteq DOMAIN c, Advance(c)
    PROVE  call'.gen \in {None, c.gen} /\ CallFields \subseteq DOMAIN call'
  <1>1. CASE c.pc = Len(Program(c.verb, c.mode))
    BY <1>1 DEF Advance, Idle, CallFields
  <1>2. CASE c.pc # Len(Program(c.verb, c.mode))
    <2>1. call' = [c EXCEPT !.pc = @ + 1]
      BY <1>2 DEF Advance
    <2> QED BY <2>1 DEF CallFields
  <1> QED BY <1>1, <1>2

LEMMA FinishLemma ==
    ASSUME NEW status, Finish(status)
    PROVE  call' = Idle /\ call'.gen = None /\ CallFields \subseteq DOMAIN call'
  BY DEF Finish, Idle, CallFields

\* A step named otherwise is not the snapshot's.
LEMMA OtherStep ==
    ASSUME NEW steps, AtStep(steps), "snapshot" \notin steps
    PROVE  ~Copying
  BY DEF AtStep, Copying

-----------------------------------------------------------------------------
\* The checks and the docker steps keep the copies and the directories.
LEMMA ChecksKeep == ASSUME IInv, Checks PROVE IInv'
  <1> USE DEF IInv, Fields, CallFields
  <1>1. ASSUME NEW step, step # "snapshot", Judged(step) PROVE IInv'
    <2>1. ~Copying /\ UNCHANGED <<copies, dirs>>
      BY <1>1, OtherStep DEF Judged
    <2>2. CASE Advance(call) BY <2>1, <2>2, AdvanceLemma, QuietLemma
    <2>3. CASE Finish("refused") BY <2>1, <2>3, FinishLemma, QuietLemma
    <2> QED BY <1>1, <2>2, <2>3 DEF Judged
  <1>2. CASE OutsideCheck
    BY <1>1, <1>2 DEF OutsideCheck, TrustedCopies, BindSources, EnvFiles, Steering, GeneratedCode,
       Revisions, FewStores, DevImages, Worktree, MountSources, TestPaths
  <1>3. CASE ModeGuard
    <2>1. ~Copying /\ UNCHANGED <<copies, dirs>>
      BY <1>3, OtherStep DEF ModeGuard
    <2> DEFINE c == [call EXCEPT !.mode = ModeOf(project.modes), !.seen = @ \cup Looked]
    <2>2. CallFields \subseteq DOMAIN c /\ c.gen = call.gen OBVIOUS
    <2>3. CASE Advance(c) BY <2>1, <2>2, <2>3, AdvanceLemma, QuietLemma
    <2>4. CASE Finish("refused") BY <2>1, <2>4, FinishLemma, QuietLemma
    <2> QED BY <1>3, <2>3, <2>4 DEF ModeGuard
  <1>4. CASE StackCheck
    <2>1. ~Copying /\ UNCHANGED <<copies, dirs>>
      BY <1>4, OtherStep DEF StackCheck
    <2> DEFINE c == [call EXCEPT !.seen = @ \cup Looked]
    <2>2. CallFields \subseteq DOMAIN c /\ c.gen = call.gen OBVIOUS
    <2>3. CASE Advance(c) BY <2>1, <2>2, <2>3, AdvanceLemma, QuietLemma
    <2>4. CASE Finish("refused") BY <2>1, <2>4, FinishLemma, QuietLemma
    <2> QED BY <1>4, <2>3, <2>4 DEF StackCheck
  <1>5. CASE Charge
    <2>1. ~Copying /\ UNCHANGED <<copies, dirs>>
      BY <1>5, OtherStep DEF Charge
    <2> DEFINE c == [call EXCEPT !.charged = TRUE]
    <2>2. CallFields \subseteq DOMAIN c /\ c.gen = call.gen OBVIOUS
    <2>3. CASE Advance(c) BY <2>1, <2>2, <2>3, AdvanceLemma, QuietLemma
    <2>4. CASE Finish("refused") BY <2>1, <2>4, FinishLemma, QuietLemma
    <2> QED BY <1>5, <2>3, <2>4 DEF Charge
  <1> QED BY <1>2, <1>3, <1>4, <1>5 DEF Checks

LEMMA DockerStepsKeep == ASSUME IInv, DockerSteps PROVE IInv'
  <1> USE DEF IInv, Fields, CallFields
  \* Every docker step is at a step of its own and then advances (with the digest or the stop
  \* noted in the call) or finishes.
  <1>1. ~Copying /\ UNCHANGED <<copies, dirs>>
    BY OtherStep DEF DockerSteps, Digests, QuietStep, Bases, Network, Read, ClientBuild, WriteSeed,
       DevBuild, Ran, TestBuild, Down, Up, Tools, Restart, WriteStep
  <1> DEFINE d == [call EXCEPT !.digest = checkout]
             t == [call EXCEPT !.stopped = TRUE]
  <1>2. /\ CallFields \subseteq DOMAIN d /\ d.gen = call.gen
        /\ CallFields \subseteq DOMAIN t /\ t.gen = call.gen
    OBVIOUS
  <1>3. \/ Advance(call) \/ Advance(d) \/ Advance(t) \/ \E status : Finish(status)
    BY DEF DockerSteps, Digests, QuietStep, Bases, Network, Read, ClientBuild, WriteSeed,
       DevBuild, Ran, TestBuild, Down, Up, Tools, Restart, WriteStep
  <1>4. CASE Advance(call) BY <1>1, <1>4, AdvanceLemma, QuietLemma
  <1>5. CASE Advance(d) BY <1>1, <1>2, <1>5, AdvanceLemma, QuietLemma
  <1>6. CASE Advance(t) BY <1>1, <1>2, <1>6, AdvanceLemma, QuietLemma
  <1>7. ASSUME NEW status, Finish(status) PROVE IInv'
    BY <1>1, <1>7, FinishLemma, QuietLemma
  <1> QED BY <1>3, <1>4, <1>5, <1>6, <1>7

-----------------------------------------------------------------------------
\* The steps of the snapshot threads.
LEMMA StartCopyKeeps == ASSUME IInv, NEW g \in Gens, StartCopy(g) PROVE IInv'
  <1>1. call' = [call EXCEPT !.gen = g] /\ call'.gen = g /\ g # None
    BY NoneAssumption DEF StartCopy, IInv, Fields
  <1>2. Copying'
    BY <1>1 DEF StartCopy, Copying, AtStep, Current, Running, Idle, IInv, Fields
  <1>3. copies' = [copies EXCEPT ![g] = [st |-> "waiting", cancel |-> FALSE]]
    BY DEF StartCopy
  <1>4. call.gen = None /\ UNCHANGED dirs
    BY DEF StartCopy
  <1>5. CopiesTyped' /\ LockHeld' /\ OrphansCancelled'
    BY <1>1, <1>3, <1>4, NoneAssumption DEF IInv, CopiesTyped, LockHeld, OrphansCancelled
  <1>6. copies'[g].st = "waiting"
    BY <1>3 DEF IInv, CopiesTyped
  <1>7. OwnIsLive'
    BY <1>1, <1>2, <1>6 DEF OwnIsLive
  <1>8. Fields'
    BY <1>1, <1>4 DEF IInv, Fields
  <1> QED BY <1>5, <1>7, <1>8 DEF IInv

\* A thread's step leaves the call as it is.
LEMMA CopyThreadKeeps == ASSUME IInv, NEW g \in Gens, CopyThread(g) PROVE IInv'
  <1> USE DEF IInv, CopiesTyped, LockHeld, OrphansCancelled, OwnIsLive, NoneSwaps
  <1>1. UNCHANGED call /\ (Copying' <=> Copying)
    BY DEF CopyThread, Acquire, CopyBuilt, CopyAborted, CopyBroken, SwapOut, SwapIn, CopyForgotten, Copying,
       AtStep, Current, Running
  <1>2. CASE Acquire(g)
    BY <1>1, <1>2, NoneAssumption DEF Acquire, Fields
  <1>3. CASE CopyBuilt(g)
    BY <1>1, <1>3 DEF CopyBuilt, Fields
  <1>4. CASE CopyAborted(g)
    BY <1>1, <1>4 DEF CopyAborted, Fields
  <1>5. CASE SwapOut(g)
    BY <1>1, <1>5 DEF SwapOut, Fields
  <1>6. CASE SwapIn(g)
    BY <1>1, <1>6 DEF SwapIn, Fields
  <1>7. CASE CopyForgotten(g)
    BY <1>1, <1>7 DEF CopyForgotten, NoCopy, Fields
  <1>8. CASE CopyBroken(g)
    <2>1. copies' = [copies EXCEPT ![g].st = "broken"] /\ Fields'
      BY <1>1, <1>8 DEF CopyBroken, Fields
    <2>2. CASE copies[g].st = "waiting"
      <3>1. dirs'.lock = dirs.lock /\ dirs'.live = dirs.live
        BY <1>8, <2>2 DEF CopyBroken, Fields
      <3> QED BY <1>1, <2>1, <2>2, <3>1
    <2>3. CASE copies[g].st \in {"built", "swapping"}
      <3>1. dirs.lock = g /\ \A h \in Gens \ {g} : copies[h].st \notin {"copying", "built", "swapping"}
        BY <2>3
      <3>2. call.gen # None => Copying /\ copies[call.gen].st # "done"
        BY <2>3
      <3>3. call.gen # None => copies'[call.gen].st # "done"
        BY <2>1, <3>2
      <3> QED BY <1>1, <2>1, <2>3, <3>1, <3>2, <3>3
    <2> QED BY <1>8, <2>2, <2>3 DEF CopyBroken
  <1> QED BY <1>2, <1>3, <1>4, <1>5, <1>6, <1>7, <1>8 DEF CopyThread

LEMMA CopyAwaitedKeeps == ASSUME IInv, CopyAwaited PROVE IInv'
  <1> USE DEF IInv, CopiesTyped, LockHeld, OrphansCancelled, OwnIsLive, NoneSwaps
  <1>1. call.gen \in Gens /\ UNCHANGED dirs /\ copies' = [copies EXCEPT ![call.gen] = NoCopy]
    BY DEF CopyAwaited
  <1>2. CopiesTyped' /\ LockHeld'
    BY <1>1 DEF NoCopy
  <1>3. CASE copies[call.gen].st = "done" /\ Advance(call)
    <2>1. call'.gen \in {None, call.gen} /\ CallFields \subseteq DOMAIN call'
      BY <1>3, AdvanceLemma DEF Fields, CallFields
    <2>2. OrphansCancelled'
      BY <1>1, <2>1, NoneAssumption DEF NoCopy
    <2>3. OwnIsLive'
      BY <1>1, <1>3, <2>1, NoneAssumption DEF NoCopy
    <2>4. Fields'
      BY <1>1, <2>1 DEF Fields, CallFields
    <2> QED BY <1>2, <2>2, <2>3, <2>4
  <1>4. CASE Finish("refused") \/ Finish("error")
    <2>1. call'.gen = None /\ CallFields \subseteq DOMAIN call'
      BY <1>4, FinishLemma
    <2> QED BY <1>1, <1>2, <2>1 DEF NoCopy, Fields, CallFields
  <1> QED BY <1>3, <1>4 DEF CopyAwaited

\* The call that is cut off cancels its copy; every other unfinished one already was.
LEMMA TimeoutKeeps == ASSUME IInv, Timeout PROVE IInv'
  <1> USE DEF IInv, CopiesTyped, LockHeld, OrphansCancelled, OwnIsLive, NoneSwaps
  <1>1. call'.gen = None /\ CallFields \subseteq DOMAIN call' /\ UNCHANGED dirs
    BY FinishLemma DEF Timeout
  <1>2. CASE Copying /\ call.gen # None
    <2>1. copies' = [copies EXCEPT ![call.gen].cancel = TRUE]
      BY <1>2 DEF Timeout, Copying
    <2> QED BY <1>1, <1>2, <2>1 DEF Fields, CallFields
  <1>3. CASE ~(Copying /\ call.gen # None)
    <2>1. UNCHANGED copies
      BY <1>3 DEF Timeout, Copying
    <2> QED BY <1>1, <1>3, <2>1 DEF Fields, CallFields
  <1> QED BY <1>2, <1>3

-----------------------------------------------------------------------------
LEMMA InitIInv == Init => IInv
  BY NoneAssumption DEF Init, IInv, Fields, CopiesTyped, LockHeld, OrphansCancelled, OwnIsLive,
     NoneSwaps, NoCopy, Idle

LEMMA StepIInv == ASSUME IInv, [Next]_vars PROVE IInv'
  <1>1. ASSUME NEW v \in offered, StartVerb(v) PROVE IInv'
    <2>1. ~Copying /\ UNCHANGED <<copies, dirs>>
      BY <1>1 DEF StartVerb, Copying, AtStep
    <2>2. call'.gen = None /\ CallFields \subseteq DOMAIN call'
      BY <1>1 DEF StartVerb, Idle, CallFields
    <2> QED BY <2>1, <2>2, QuietLemma
  <1>2. CASE Checks BY <1>2, ChecksKeep
  <1>3. CASE DockerSteps BY <1>3, DockerStepsKeep
  <1>4. CASE \E g \in Gens : StartCopy(g) \/ CopyThread(g)
    BY <1>4, StartCopyKeeps, CopyThreadKeeps
  <1>5. CASE CopyAwaited BY <1>5, CopyAwaitedKeeps
  <1>6. CASE Timeout BY <1>6, TimeoutKeeps
  <1>7. CASE ServerRestart
    <2>1. call'.gen = None /\ CallFields \subseteq DOMAIN call'
      BY <1>7, FinishLemma DEF ServerRestart
    <2>2. copies' = [g \in Gens |-> NoCopy] /\ dirs' = [dirs EXCEPT !.lock = None]
      BY <1>7 DEF ServerRestart
    <2> QED BY <2>1, <2>2 DEF IInv, Fields, CallFields, CopiesTyped, LockHeld, OrphansCancelled,
              OwnIsLive, NoneSwaps, NoCopy
  <1>8. CASE Tick \/ OperatorLaunch \/ OperatorBuild \/ CheckoutEdited \/ UNCHANGED vars
    <2>1. UNCHANGED <<copies, dirs>> /\ (UNCHANGED call \/ \E what : Unseen(what))
      BY <1>8 DEF Tick, OperatorLaunch, OperatorBuild, CheckoutEdited, vars
    <2>2. /\ CallFields \subseteq DOMAIN call' /\ call'.gen = call.gen
          /\ call'.verb = call.verb /\ call'.pc = call.pc /\ call'.mode = call.mode
      BY <2>1 DEF Unseen, IInv, Fields, CallFields
    <2> QED BY <2>1, <2>2, IdleLemma
  <1> QED BY <1>1, <1>2, <1>3, <1>4, <1>5, <1>6, <1>7, <1>8 DEF Next

\* For every set of copies, verbs and budgets: a system-suite verb that is past its snapshot
\* builds from its own copy.  No thread of an earlier, timed-out call swaps the live snapshot
\* under it (refresh_snapshot and its cancel event, tools/agent_mcp/stack.py).
THEOREM SnapshotIsOwnAlways == Spec => []SnapshotIsOwn
  <1>1. Init => IInv
    BY InitIInv
  <1>2. IInv /\ [Next]_vars => IInv'
    BY StepIInv
  <1>3. IInv => SnapshotIsOwn
    BY DEF IInv, OwnIsLive, SnapshotIsOwn, Copying
  <1> QED BY <1>1, <1>2, <1>3, PTL DEF Spec

-------------------------------------------------------------------------------
(* The verbs. *)

\* The verbs of the system suite, and those that change the project.
Suites    == {"run_system_tests", "seed_dump"}
Launchers == {"down", "restart", "up", "tools", "test_up", "migrate"}

\* The fields of a project, and: the test database is mounted by the test files only.
Whole(p) ==
    /\ {"modes", "running", "db", "stamp"} \subseteq DOMAIN p
    /\ p.db = "test" => p.modes = {"TEST"}

Typed ==
    /\ offered \subseteq Verbs
    /\ CallFields \subseteq DOMAIN call
    /\ Whole(project)
    /\ Running => call.verb \in Verbs /\ call.pc \in 1 .. Len(Program(call.verb, call.mode))

-----------------------------------------------------------------------------
\* The programs: where the rails are, and what they are before.
LEMMA SuitePath ==
    ASSUME NEW v \in Suites, NEW m
    PROVE  /\ Len(Program(v, m)) \in 1 .. 20 /\ Len(Program(v, m)) > 2
           /\ \A i \in 1 .. Len(Program(v, m)) :
                /\ Program(v, m)[i] = "mode" <=> i = 2
                /\ Program(v, m)[i] = "mount" <=> i = 6
                /\ Program(v, m)[i] = "dataStore" <=> i = 7
                /\ Program(v, m)[i] = "digests" <=> i = 8
                /\ Program(v, m)[i] = "runningStamps" <=> i = 9
                /\ Program(v, m)[i] \in {"suite", "produce"} => i > 9
                /\ Program(v, m)[i] \notin {"down", "up", "restart", "tools", "migrate"}
  <1>1. CASE v = "run_system_tests"
    <2>1. Program(v, m) = RunSystemTestsProgram BY <1>1 DEF Program
    <2> QED BY <2>1 DEF RunSystemTestsProgram, SuiteRails
  <1>2. CASE v = "seed_dump"
    <2>1. Program(v, m) = SeedDumpProgram BY <1>2 DEF Program
    <2> QED BY <2>1 DEF SeedDumpProgram, SuiteRails
  <1> QED BY <1>1, <1>2 DEF Suites

LEMMA LauncherPath ==
    ASSUME NEW v \in Launchers, NEW m
    PROVE  /\ Len(Program(v, m)) \in 1 .. 20 /\ Len(Program(v, m)) > 1
           /\ \A i \in 1 .. Len(Program(v, m)) :
                /\ Program(v, m)[i] = "mode" <=> i = 1
                /\ Program(v, m)[i] \notin {"suite", "produce", "mount"}
  <1>1. CASE v = "down"
    <2>1. Program(v, m) = DownProgram BY <1>1 DEF Program
    <2> QED BY <2>1 DEF DownProgram
  <1>2. CASE v = "restart"
    <2>1. Program(v, m) = RestartProgram BY <1>2 DEF Program
    <2> QED BY <2>1 DEF RestartProgram
  <1>3. CASE v = "up"
    <2>1. Program(v, m) = UpProgram BY <1>3 DEF Program
    <2> QED BY <2>1 DEF UpProgram
  <1>4. CASE v = "tools"
    <2>1. Program(v, m) = ToolsProgram BY <1>4 DEF Program
    <2> QED BY <2>1 DEF ToolsProgram
  <1>5. CASE v = "test_up"
    <2>1. Program(v, m) = TestUpProgram BY <1>5 DEF Program
    <2> QED BY <2>1 DEF TestUpProgram
  <1>6. CASE v = "migrate"
    <2>1. Program(v, m) = MigrateProgram(m) BY <1>6 DEF Program
    <2>2. CASE m = "TEST" BY <2>1, <2>2 DEF MigrateProgram
    <2>3. CASE m # "TEST" BY <2>1, <2>3 DEF MigrateProgram
    <2> QED BY <2>2, <2>3
  <1> QED BY <1>1, <1>2, <1>3, <1>4, <1>5, <1>6 DEF Launchers

LEMMA OtherPath ==
    ASSUME NEW v \in Verbs \ (Suites \cup Launchers), NEW m
    PROVE  /\ Len(Program(v, m)) \in 1 .. 20
           /\ \A i \in 1 .. Len(Program(v, m)) :
                /\ Program(v, m)[i] = "mode" => v = "migrate_status" /\ i = 1
                /\ Program(v, m)[i] \notin {"suite", "produce", "down", "up", "restart", "tools", "migrate"}
  <1>1. CASE v \in {"build", "test_build"}
    <2>1. Program(v, m) \in {BuildProgram, TestBuildProgram} BY <1>1 DEF Program
    <2> QED BY <2>1 DEF BuildProgram, TestBuildProgram
  <1>2. CASE v \in {"ps", "logs"}
    <2>1. Program(v, m) = ReadProgram BY <1>2 DEF Program
    <2> QED BY <2>1 DEF ReadProgram
  <1>3. CASE v = "migrate_status"
    <2>1. Program(v, m) = MigrateStatusProgram BY <1>3 DEF Program
    <2> QED BY <1>3, <2>1 DEF MigrateStatusProgram
  <1>4. CASE v \in {"db_tables", "http_get"}
    <2>1. Program(v, m) \in {TablesProgram, HttpGetProgram} BY <1>4 DEF Program
    <2> QED BY <2>1 DEF TablesProgram, HttpGetProgram
  <1> QED BY <1>1, <1>2, <1>3, <1>4 DEF Verbs, Suites, Launchers

\* A mode is noted where the program of any mode goes on.
LEMMA PathLengths ==
    ASSUME NEW v \in Verbs, NEW m
    PROVE  /\ Len(Program(v, m)) \in 1 .. 20
           /\ \A n : \A i \in 1 .. Len(Program(v, m)) : Program(v, m)[i] = "mode" => i < Len(Program(v, n))
  <1>1. CASE v \in Suites
    <2>1. Len(Program(v, m)) \in 1 .. 20 BY <1>1, SuitePath
    <2>2. ASSUME NEW n, NEW i \in 1 .. Len(Program(v, m)), Program(v, m)[i] = "mode"
          PROVE  i < Len(Program(v, n))
      <3>1. i = 2 BY <1>1, <2>2, SuitePath
      <3>2. 2 < Len(Program(v, n)) BY <1>1, SuitePath
      <3> QED BY <3>1, <3>2
    <2> QED BY <2>1, <2>2
  <1>2. CASE v \in Launchers
    <2>1. Len(Program(v, m)) \in 1 .. 20 BY <1>2, LauncherPath
    <2>2. ASSUME NEW n, NEW i \in 1 .. Len(Program(v, m)), Program(v, m)[i] = "mode"
          PROVE  i < Len(Program(v, n))
      <3>1. i = 1 BY <1>2, <2>2, LauncherPath
      <3>2. 1 < Len(Program(v, n)) BY <1>2, LauncherPath
      <3> QED BY <3>1, <3>2
    <2> QED BY <2>1, <2>2
  <1>3. CASE v \in Verbs \ (Suites \cup Launchers)
    <2>1. Len(Program(v, m)) \in 1 .. 20 BY <1>3, OtherPath
    <2>2. ASSUME NEW n, NEW i \in 1 .. Len(Program(v, m)), Program(v, m)[i] = "mode"
          PROVE  i < Len(Program(v, n))
      <3>1. v = "migrate_status" /\ i = 1 BY <1>3, <2>2, OtherPath
      <3>2. Program(v, n) = MigrateStatusProgram BY <3>1 DEF Program
      <3> QED BY <3>1, <3>2 DEF MigrateStatusProgram
    <2> QED BY <2>1, <2>2
  <1> QED BY <1>1, <1>2, <1>3

-----------------------------------------------------------------------------
\* Where a call that runs stands.
LEMMA Place ==
    ASSUME Typed, Running
    PROVE  /\ call.verb \in Verbs /\ call.pc \in 1 .. Len(Program(call.verb, call.mode)) /\ call.pc \in Nat
           /\ Len(Program(call.verb, call.mode)) \in 1 .. 20
           /\ call.verb \in Suites =>
                /\ Current = "mode" <=> call.pc = 2
                /\ Current = "mount" <=> call.pc = 6
                /\ Current = "dataStore" <=> call.pc = 7
                /\ Current = "digests" <=> call.pc = 8
                /\ Current = "runningStamps" <=> call.pc = 9
                /\ Current \notin {"down", "up", "restart", "tools", "migrate"}
           /\ call.verb \in Launchers => (Current = "mode" <=> call.pc = 1) /\ Current # "mount"
           /\ Current \in {"suite", "produce"} => call.verb \in Suites /\ call.pc > 9
           /\ Current \in {"down", "up", "restart", "tools", "migrate"} => call.verb \in Launchers /\ call.pc > 1
  <1>1. /\ call.verb \in Verbs /\ call.pc \in 1 .. Len(Program(call.verb, call.mode))
        /\ Current = Program(call.verb, call.mode)[call.pc]
    BY DEF Typed, Current
  <1>2. Len(Program(call.verb, call.mode)) \in 1 .. 20 BY <1>1, PathLengths
  <1>3. call.pc \in Nat BY <1>1, <1>2
  <1>4. CASE call.verb \in Suites
    BY <1>1, <1>2, <1>3, <1>4, SuitePath DEF Suites, Launchers
  <1>5. CASE call.verb \in Launchers
    BY <1>1, <1>2, <1>3, <1>5, LauncherPath DEF Suites, Launchers
  <1>6. CASE call.verb \notin Suites \cup Launchers
    BY <1>1, <1>2, <1>3, <1>6, OtherPath
  <1> QED BY <1>4, <1>5, <1>6

-----------------------------------------------------------------------------
(* What a step does to the call, whatever the verb, the owner and the threads do beside it. *)

\* The call goes on as c after a check that passed or a docker step that did not fail.
Passes(c) ==
    /\ CallFields \subseteq DOMAIN c /\ c.verb = call.verb /\ c.pc = call.pc
    /\ Advance(c)
    /\ c.mode # call.mode => Current = "mode"
    /\ Current = "mode" => /\ "PROD" \notin project.modes /\ \A m, n \in project.modes : m = n
                           /\ c.mode = ModeOf(project.modes) /\ c.mode \in Accepted(call.verb)
    /\ c.digest # call.digest => Current = "digests"
    /\ c.charged # call.charged => Current = "charge"
    /\ c.stopped # call.stopped => Current = "down"
    /\ "project" \in c.seen => "project" \in call.seen \/ Current \in {"mode", "mount"}
    /\ "image" \in c.seen => "image" \in call.seen \/ Current = "imageStamps"
    /\ Current \in {"mount", "dataStore", "imageStamps", "runningStamps"} => StackCheckPasses

\* The call stays where it is: it waits for a copy, has been looked away from, or is not concerned.
Aside ==
    /\ CallFields \subseteq DOMAIN call'
    /\ call'.verb = call.verb /\ call'.pc = call.pc /\ call'.mode = call.mode
    /\ call'.digest = call.digest /\ call'.charged = call.charged /\ call'.stopped = call.stopped
    /\ call'.seen \subseteq call.seen
    /\ UNCHANGED answer

\* The call is over, goes on, stays, or is new.
CallMoves ==
    \/ Running /\ call' = Idle
    \/ Running /\ \E c : Passes(c)
    \/ Aside
    \/ call' = Idle /\ answer' = "none"
    \/ \E v \in offered : ~Running /\ call' = [Idle EXCEPT !.verb = v, !.pc = 1] /\ answer' = None

\* The steps whose checks the argument is about, or that note something in the call.
Rails == {"mode", "mount", "dataStore", "imageStamps", "runningStamps", "digests", "charge", "down"}

LEMMA ChecksMove == ASSUME Typed, Checks PROVE CallMoves
  <1> USE DEF Typed, CallMoves, Finish
  <1>1. ASSUME NEW step, step \notin Rails, Judged(step) PROVE CallMoves
    <2>1. Running /\ Current = step
      BY <1>1 DEF Judged, AtStep
    <2>2. CASE Advance(call) BY <1>1, <2>1, <2>2 DEF Passes, Rails
    <2> QED BY <1>1, <2>1, <2>2 DEF Judged
  <1>2. CASE OutsideCheck
    BY <1>1, <1>2 DEF OutsideCheck, TrustedCopies, BindSources, EnvFiles, Steering, GeneratedCode,
       Revisions, FewStores, DevImages, Worktree, MountSources, TestPaths, Rails
  <1>3. CASE ModeGuard
    <2> DEFINE c == [call EXCEPT !.mode = ModeOf(project.modes), !.seen = @ \cup Looked]
    <2>1. Running /\ Current = "mode" BY <1>3 DEF ModeGuard, AtStep
    <2>2. /\ CallFields \subseteq DOMAIN c /\ c.verb = call.verb /\ c.pc = call.pc /\ c.digest = call.digest
          /\ c.charged = call.charged /\ c.stopped = call.stopped /\ c.mode = ModeOf(project.modes)
          /\ c.seen = call.seen \cup Looked
      BY DEF CallFields
    <2>3. Looked = {"project"} BY <2>1 DEF Looked
    <2>4. CASE /\ "PROD" \notin project.modes /\ \A m, n \in project.modes : m = n
               /\ ModeOf(project.modes) \in Accepted(call.verb) /\ Advance(c)
      <3> HIDE DEF c
      <3>1. Passes(c) BY <2>1, <2>2, <2>3, <2>4 DEF Passes
      <3> QED BY <2>1, <3>1
    <2> HIDE DEF c
    <2> QED BY <1>3, <2>1, <2>4 DEF ModeGuard, c
  <1>4. CASE StackCheck
    <2> DEFINE c == [call EXCEPT !.seen = @ \cup Looked]
    <2>1. Running /\ Current \notin {"mode", "digests", "charge", "down"} BY <1>4 DEF StackCheck, AtStep
    <2>2. /\ CallFields \subseteq DOMAIN c /\ c.verb = call.verb /\ c.pc = call.pc /\ c.digest = call.digest
          /\ c.charged = call.charged /\ c.stopped = call.stopped /\ c.mode = call.mode
          /\ c.seen = call.seen \cup Looked
      BY DEF CallFields
    <2>3. /\ "project" \in Looked => Current \in {"mode", "mount"}
          /\ "image" \in Looked => Current = "imageStamps"
      BY DEF Looked
    <2>4. CASE StackCheckPasses /\ Advance(c)
      <3> HIDE DEF c
      <3>1. Passes(c) BY <2>1, <2>2, <2>3, <2>4 DEF Passes
      <3> QED BY <2>1, <3>1
    <2> HIDE DEF c
    <2> QED BY <1>4, <2>1, <2>4 DEF StackCheck, c
  <1>5. CASE Charge
    <2> DEFINE c == [call EXCEPT !.charged = TRUE]
    <2>1. Running /\ Current = "charge" BY <1>5 DEF Charge, AtStep
    <2>2. /\ CallFields \subseteq DOMAIN c /\ c.verb = call.verb /\ c.pc = call.pc /\ c.digest = call.digest
          /\ c.stopped = call.stopped /\ c.mode = call.mode /\ c.seen = call.seen
      BY DEF CallFields
    <2>3. CASE Advance(c)
      <3> HIDE DEF c
      <3>1. Passes(c) BY <2>1, <2>2, <2>3 DEF Passes
      <3> QED BY <2>1, <3>1
    <2> HIDE DEF c
    <2> QED BY <1>5, <2>1, <2>3 DEF Charge, c
  <1> QED BY <1>2, <1>3, <1>4, <1>5 DEF Checks

LEMMA DockerStepsMove == ASSUME Typed, DockerSteps PROVE CallMoves
  <1> USE DEF Typed, CallMoves, Finish
  <1>1. CASE Digests
    <2> DEFINE c == [call EXCEPT !.digest = checkout]
    <2>1. Running /\ Current = "digests" BY <1>1 DEF Digests, AtStep
    <2>2. /\ CallFields \subseteq DOMAIN c /\ c.verb = call.verb /\ c.pc = call.pc /\ c.seen = call.seen
          /\ c.stopped = call.stopped /\ c.mode = call.mode /\ c.charged = call.charged
      BY DEF CallFields
    <2>3. CASE Advance(c)
      <3> HIDE DEF c
      <3>1. Passes(c) BY <2>1, <2>2, <2>3 DEF Passes
      <3> QED BY <2>1, <3>1
    <2> HIDE DEF c
    <2> QED BY <1>1, <2>1, <2>3 DEF Digests, c
  <1>2. CASE Down
    <2> DEFINE c == [call EXCEPT !.stopped = TRUE]
    <2>1. Running /\ Current = "down" BY <1>2 DEF Down, AtStep
    <2>2. /\ CallFields \subseteq DOMAIN c /\ c.verb = call.verb /\ c.pc = call.pc /\ c.digest = call.digest
          /\ c.mode = call.mode /\ c.charged = call.charged /\ c.seen = call.seen
      BY DEF CallFields
    <2>3. CASE Advance(c)
      <3> HIDE DEF c
      <3>1. Passes(c) BY <2>1, <2>2, <2>3 DEF Passes
      <3> QED BY <2>1, <3>1
    <2> HIDE DEF c
    <2> QED BY <1>2, <2>1, <2>3 DEF Down, c
  <1>3. CASE QuietStep \/ TestBuild \/ Up \/ Tools \/ Restart \/ WriteStep
    <2>1. Running /\ Current \notin Rails
      BY <1>3 DEF QuietStep, Bases, Network, Read, ClientBuild, WriteSeed, DevBuild, Ran, TestBuild, Up, Tools,
         Restart, WriteStep, AtStep, Rails
    <2>2. Advance(call) \/ call' = Idle
      BY <1>3 DEF QuietStep, Bases, Network, Read, ClientBuild, WriteSeed, DevBuild, Ran, TestBuild, Up, Tools,
         Restart, WriteStep
    <2>3. CASE Advance(call) BY <2>1, <2>3 DEF Passes, Rails
    <2> QED BY <2>1, <2>2, <2>3
  <1> QED BY <1>1, <1>2, <1>3 DEF DockerSteps

LEMMA CallSteps == ASSUME Typed, [Next]_vars PROVE CallMoves
  <1> USE DEF CallMoves, Finish
  <1>1. ASSUME NEW v \in offered, StartVerb(v) PROVE CallMoves
    BY <1>1 DEF StartVerb
  <1>2. ASSUME NEW g \in Gens, StartCopy(g) PROVE CallMoves
    <2>1. call' = [call EXCEPT !.gen = g] /\ UNCHANGED answer
      BY <1>2 DEF StartCopy
    <2>2. Aside
      BY <2>1 DEF Aside, Typed, CallFields
    <2> QED BY <2>2
  <1>3. ASSUME UNCHANGED call, UNCHANGED answer PROVE CallMoves
    BY <1>3 DEF Aside, Typed
  <1>4. ASSUME NEW g \in Gens, CopyThread(g) PROVE CallMoves
    <2>1. UNCHANGED call /\ UNCHANGED answer
      BY <1>4 DEF CopyThread, Acquire, CopyBuilt, CopyAborted, CopyBroken, SwapOut, SwapIn, CopyForgotten
    <2> QED BY <1>3, <2>1
  <1>5. CASE CopyAwaited
    <2>1. Running /\ Current = "snapshot" BY <1>5 DEF CopyAwaited, AtStep
    <2>2. CASE Advance(call) BY <2>1, <2>2 DEF Passes, Typed
    <2> QED BY <1>5, <2>1, <2>2 DEF CopyAwaited
  <1>6. CASE Timeout \/ ServerRestart
    BY <1>6 DEF Timeout, ServerRestart
  <1>7. CASE Tick \/ CheckoutEdited \/ UNCHANGED vars
    <2>1. UNCHANGED call /\ UNCHANGED answer
      BY <1>7 DEF Tick, CheckoutEdited, vars
    <2> QED BY <1>3, <2>1
  <1>8. CASE OperatorLaunch \/ OperatorBuild
    <2>1. PICK what : Unseen(what)
      BY <1>8 DEF OperatorLaunch, OperatorBuild
    <2>2. UNCHANGED answer
      BY <1>8 DEF OperatorLaunch, OperatorBuild
    <2>3. Aside
      BY <2>1, <2>2 DEF Unseen, Aside, Typed, CallFields
    <2> QED BY <2>3
  <1> QED BY <1>1, <1>2, <1>4, <1>5, <1>6, <1>7, <1>8, ChecksMove, DockerStepsMove DEF Next

\* Where a call that passed a step stands.
LEMMA PassesTo ==
    ASSUME Typed, Running, NEW c, Passes(c)
    PROVE  \/ call' = Idle
           \/ /\ Running' /\ CallFields \subseteq DOMAIN call' /\ UNCHANGED answer
              /\ call'.verb = call.verb /\ call'.mode = c.mode /\ call'.digest = c.digest
              /\ call'.charged = c.charged /\ call'.stopped = c.stopped /\ call'.seen = c.seen
              /\ call'.pc = call.pc + 1
              /\ call'.pc \in 1 .. Len(Program(call'.verb, call'.mode))
  <1>1. /\ CallFields \subseteq DOMAIN c /\ c.verb = call.verb /\ c.pc = call.pc /\ Advance(c)
        /\ call.verb \in Verbs /\ call.pc \in Nat \ {0}
    BY Place DEF Passes
  <1>2. Len(Program(c.verb, c.mode)) \in Nat /\ Len(Program(c.verb, c.mode)) >= c.pc
    <2>1. CASE c.mode = call.mode BY <1>1, <2>1, Place
    <2>2. CASE Current = "mode"
      <3>1. Current = Program(call.verb, call.mode)[call.pc] BY DEF Current
      <3>2. call.pc < Len(Program(call.verb, c.mode)) BY <2>2, <3>1, Place, PathLengths
      <3>3. Len(Program(call.verb, c.mode)) \in Nat BY <1>1, PathLengths
      <3> QED BY <1>1, <3>2, <3>3
    <2> QED BY <2>1, <2>2 DEF Passes
  <1>3. CASE c.pc = Len(Program(c.verb, c.mode))
    BY <1>1, <1>3 DEF Advance
  <1>4. CASE c.pc # Len(Program(c.verb, c.mode))
    <2>1. call' = [c EXCEPT !.pc = c.pc + 1] /\ UNCHANGED answer
      BY <1>1, <1>4 DEF Advance
    <2>2. /\ CallFields \subseteq DOMAIN call'
          /\ call'.verb = c.verb /\ call'.mode = c.mode /\ call'.digest = c.digest
          /\ call'.charged = c.charged /\ call'.stopped = c.stopped /\ call'.seen = c.seen
          /\ call'.pc = c.pc + 1
      BY <1>1, <2>1 DEF CallFields
    <2>3. Running'
      BY <1>1, <2>2 DEF Running
    <2> QED BY <1>1, <1>2, <1>4, <2>1, <2>2, <2>3
  <1> QED BY <1>3, <1>4

-----------------------------------------------------------------------------
(* What a step does to the project and the images. *)

\* A project made of this one, or anew, by a verb: whole, and none of production that was not.
Made(p) == Whole(p) /\ ("PROD" \notin project.modes => "PROD" \notin p.modes)

LEMMA LaunchesMake ==
    ASSUME Typed
    PROVE  /\ Made(project) /\ Made(EmptyProject) /\ Made([project EXCEPT !.running = {}])
           /\ Made(Started(UpMode)) /\ \A p \in LeftByUp(UpMode) : Made(p)
           /\ Made(WithPostgres)
           /\ Made(Restarted) /\ \A p \in LeftByRestart : Made(p)
  <1> USE DEF Made, Whole
  <1>1. Whole(project)
    BY DEF Typed
  <1>2. \A run : Made([project EXCEPT !.running = run])
    <2> TAKE run
    <2>1. DOMAIN [project EXCEPT !.running = run] = DOMAIN project
      OBVIOUS
    <2>2. [project EXCEPT !.running = run].db = project.db /\ [project EXCEPT !.running = run].modes = project.modes
      BY <1>1
    <2> QED BY <1>1, <2>1, <2>2
  <1>3. ASSUME NEW m \in {"DEV", "TEST"}, NEW run
        PROVE  Made(Started(m)) /\ Made([Started(m) EXCEPT !.running = run])
    BY DEF Started
  <1>4. UpMode \in {"DEV", "TEST"}
    BY DEF UpMode
  <1>5. \A p \in LeftByUp(UpMode) : Made(p)
    BY <1>1, <1>3, <1>4 DEF LeftByUp
  <1>6. Made(WithPostgres)
    BY <1>2, <1>3 DEF WithPostgres
  <1>7. Made(Restarted)
    BY <1>2 DEF Restarted
  <1>8. \A p \in LeftByRestart : Made(p)
    BY <1>1, <1>2, <1>7 DEF LeftByRestart
  <1>9. Made(EmptyProject)
    BY NoneAssumption DEF EmptyProject
  <1>10. Made(project)
    BY <1>1
  <1>11. Made([project EXCEPT !.running = {}])
    BY <1>2
  <1>12. Made(Started(UpMode))
    BY <1>3, <1>4
  <1> HIDE DEF Made, Whole
  <1> QED BY <1>5, <1>6, <1>7, <1>8, <1>9, <1>10, <1>11, <1>12

\* The project changes by a verb that launches, by a call's end, or behind the call's back.
ProjectMoves ==
    \/ UNCHANGED project
    \/ "project" \notin call'.seen
    \/ Running /\ Current \in {"down", "up", "restart", "tools"} /\ Made(project')

ImageMoves ==
    \/ UNCHANGED testImage
    \/ "image" \notin call'.seen
    \/ Running /\ Current = "build"

LEMMA StackMoves == ASSUME Typed, [Next]_vars PROVE Whole(project') /\ ProjectMoves /\ ImageMoves
  <1> USE DEF ProjectMoves, ImageMoves
  <1>1. ASSUME UNCHANGED <<project, testImage>> PROVE Whole(project') /\ ProjectMoves /\ ImageMoves
    BY <1>1 DEF Typed, Whole
  <1>2. ASSUME NEW v \in offered, StartVerb(v) PROVE UNCHANGED <<project, testImage>>
    BY <1>2 DEF StartVerb
  <1>3. CASE Checks
    <2>1. UNCHANGED <<project, testImage>>
      BY <1>3 DEF Checks, OutsideCheck, TrustedCopies, BindSources, EnvFiles, Steering, GeneratedCode, Revisions,
         FewStores, DevImages, Worktree, MountSources, TestPaths, Judged, ModeGuard, StackCheck, Charge
    <2> QED BY <1>1, <2>1
  <1>4. CASE DockerSteps
    <2>1. CASE Digests \/ QuietStep \/ WriteStep
      <3>1. UNCHANGED <<project, testImage>>
        BY <2>1 DEF Digests, QuietStep, Bases, Network, Read, ClientBuild, WriteSeed, DevBuild, Ran, WriteStep
      <3> QED BY <1>1, <3>1
    <2>2. CASE TestBuild
      <3>1. UNCHANGED project /\ Running /\ Current = "build"
        BY <2>2 DEF TestBuild, AtStep
      <3> QED BY <3>1 DEF Typed, Whole
    <2>3. CASE Down \/ Up \/ Tools \/ Restart
      <3>1. UNCHANGED testImage /\ Running /\ Current \in {"down", "up", "restart", "tools"}
        BY <2>3 DEF Down, Up, Tools, Restart, AtStep
      <3>2. Made(project')
        <4>1. CASE Down BY <4>1, LaunchesMake DEF Down
        <4>2. CASE Up BY <4>2, LaunchesMake DEF Up
        <4>3. CASE Tools BY <4>3, LaunchesMake DEF Tools
        <4>4. CASE Restart BY <4>4, LaunchesMake DEF Restart
        <4> QED BY <2>3, <4>1, <4>2, <4>3, <4>4
      <3> QED BY <3>1, <3>2 DEF Made
    <2> QED BY <1>4, <2>1, <2>2, <2>3 DEF DockerSteps
  <1>5. ASSUME NEW g \in Gens, StartCopy(g) \/ CopyThread(g) PROVE UNCHANGED <<project, testImage>>
    BY <1>5 DEF StartCopy, CopyThread, Acquire, CopyBuilt, CopyAborted, CopyBroken, SwapOut, SwapIn, CopyForgotten
  <1>6. CASE CopyAwaited \/ Tick \/ ServerRestart \/ CheckoutEdited \/ UNCHANGED vars
    <2>1. UNCHANGED <<project, testImage>>
      BY <1>6 DEF CopyAwaited, Tick, ServerRestart, CheckoutEdited, vars
    <2> QED BY <1>1, <2>1
  <1>7. CASE Timeout
    <2>1. call'.seen = {}
      BY <1>7 DEF Timeout, Finish, Idle
    <2>2. \/ project' \in {project, [project EXCEPT !.running = {}], EmptyProject, WithPostgres}
          \/ project' \in LeftByUp(UpMode)
          \/ project' \in LeftByRestart
      BY <1>7 DEF Timeout
    <2>3. Made(project')
      BY <2>2, LaunchesMake
    <2> QED BY <2>1, <2>3 DEF Made
  <1>8. CASE OperatorLaunch
    <2>1. UNCHANGED testImage /\ "project" \notin call'.seen
      BY <1>8 DEF OperatorLaunch, Unseen, Typed, CallFields
    <2>2. Whole(project')
      <3>1. /\ Whole(EmptyProject) /\ Whole(Started("DEV")) /\ Whole(Started("TEST"))
            /\ Whole([Started("TEST") EXCEPT !.db = "own"])
            /\ Whole([Started("DEV") EXCEPT !.modes = {"PROD"}])
            /\ Whole([Started("DEV") EXCEPT !.modes = {"DEV", "TEST"}])
        BY NoneAssumption DEF Whole, EmptyProject, Started
      <3>2. \/ project' = EmptyProject \/ project' = Started("DEV") \/ project' = Started("TEST")
            \/ project' = [Started("TEST") EXCEPT !.db = "own"]
            \/ project' = [Started("DEV") EXCEPT !.modes = {"PROD"}]
            \/ project' = [Started("DEV") EXCEPT !.modes = {"DEV", "TEST"}]
        BY <1>8 DEF OperatorLaunch
      <3> HIDE DEF Whole
      <3> QED BY <3>1, <3>2, Zenon
    <2> QED BY <2>1, <2>2
  <1>9. CASE OperatorBuild
    <2>1. UNCHANGED project /\ "image" \notin call'.seen
      BY <1>9 DEF OperatorBuild, Unseen, Typed, CallFields
    <2> QED BY <2>1 DEF Typed, Whole
  <1> QED BY <1>1, <1>2, <1>3, <1>4, <1>5, <1>6, <1>7, <1>8, <1>9 DEF Next

\* What agents are offered is settled once.
LEMMA OfferStays == ASSUME [Next]_vars PROVE UNCHANGED offered
  <1>1. CASE Checks
    BY <1>1 DEF Checks, OutsideCheck, TrustedCopies, BindSources, EnvFiles, Steering, GeneratedCode, Revisions,
       FewStores, DevImages, Worktree, MountSources, TestPaths, Judged, ModeGuard, StackCheck, Charge
  <1>2. CASE DockerSteps
    BY <1>2 DEF DockerSteps, Digests, QuietStep, Bases, Network, Read, ClientBuild, WriteSeed, DevBuild, Ran,
       TestBuild, WriteStep, Down, Up, Tools, Restart
  <1>3. ASSUME NEW g \in Gens, StartCopy(g) \/ CopyThread(g) PROVE UNCHANGED offered
    BY <1>3 DEF StartCopy, CopyThread, Acquire, CopyBuilt, CopyAborted, CopyBroken, SwapOut, SwapIn, CopyForgotten
  <1>4. CASE CopyAwaited \/ Tick \/ Timeout \/ ServerRestart \/ OperatorLaunch \/ OperatorBuild \/ CheckoutEdited \/ UNCHANGED vars
    BY <1>4 DEF CopyAwaited, Tick, Timeout, ServerRestart, OperatorLaunch, OperatorBuild, CheckoutEdited, vars
  <1>5. ASSUME NEW v \in offered, StartVerb(v) PROVE UNCHANGED offered
    BY <1>5 DEF StartVerb
  <1> QED BY <1>1, <1>2, <1>3, <1>4, <1>5 DEF Next

\* A new call stands at the first step of its program.
LEMMA FirstStep ==
    ASSUME Typed, NEW v \in offered, call' = [Idle EXCEPT !.verb = v, !.pc = 1]
    PROVE  /\ CallFields \subseteq DOMAIN call' /\ call'.verb = v /\ v \in Verbs /\ call'.pc = 1
           /\ ~call'.charged /\ ~call'.stopped /\ call'.seen = {}
           /\ call'.pc \in 1 .. Len(Program(call'.verb, call'.mode))
  <1>1. CallFields \subseteq DOMAIN call' /\ call'.verb = v /\ v \in Verbs /\ call'.pc = 1
    BY DEF Typed, Idle, CallFields
  <1>2. ~call'.charged /\ ~call'.stopped /\ call'.seen = {}
    BY DEF Idle
  <1>3. PICK n : n = Len(Program(v, call'.mode)) OBVIOUS
  <1>4. n \in 1 .. 20 BY <1>1, <1>3, PathLengths
  <1>5. call'.pc \in 1 .. n BY <1>1, <1>4
  <1> QED BY <1>1, <1>2, <1>3, <1>5

LEMMA StepTyped == ASSUME Typed, [Next]_vars PROVE Typed'
  <1>1. offered' \subseteq Verbs /\ Whole(project')
    BY OfferStays, StackMoves DEF Typed
  <1>2. CASE call' = Idle
    BY <1>1, <1>2 DEF Typed, Running, Idle, CallFields
  <1>3. ASSUME NEW c, Running, Passes(c), call' # Idle PROVE Typed'
    BY <1>1, <1>3, PassesTo DEF Typed
  <1>4. CASE Aside
    BY <1>1, <1>4 DEF Typed, Aside, Running
  <1>5. ASSUME NEW v \in offered, call' = [Idle EXCEPT !.verb = v, !.pc = 1] PROVE Typed'
    BY <1>1, <1>5, FirstStep DEF Typed
  <1> QED BY <1>2, <1>3, <1>4, <1>5, CallSteps DEF CallMoves

-----------------------------------------------------------------------------
(* What the checks have established. *)

\* What a system-suite verb knows by its place in its program, of a project it has seen last.
SuiteRailed ==
    Running /\ call.verb \in Suites /\ "project" \in call.seen =>
        /\ call.pc > 2 => project.modes = {"TEST"}
        /\ call.pc > 6 => project.db = "test"
        /\ call.pc > 7 => "data_store" \in project.running
        /\ call.pc > 9 => project.stamp = call.digest

\* Past its first check a verb that changes the project has seen no production container.
LauncherRailed ==
    Running /\ call.verb \in Launchers /\ "project" \in call.seen /\ call.pc > 1 =>
        "PROD" \notin project.modes

SInv == Typed /\ SuiteRailed /\ LauncherRailed

LEMMA PassesRailed ==
    ASSUME SInv, [Next]_vars, Running, NEW c, Passes(c), call' # Idle
    PROVE  SuiteRailed' /\ LauncherRailed'
  <1> USE DEF SInv
  <1>1. /\ Running' /\ call'.verb = call.verb /\ call'.mode = c.mode /\ call'.digest = c.digest
        /\ call'.seen = c.seen /\ call'.pc = call.pc + 1 /\ call.pc \in Nat
    BY PassesTo, Place
  <1>2. ASSUME call.verb \in Suites, "project" \in call'.seen
        PROVE  /\ call'.pc > 2 => project'.modes = {"TEST"}
               /\ call'.pc > 6 => project'.db = "test"
               /\ call'.pc > 7 => "data_store" \in project'.running
               /\ call'.pc > 9 => project'.stamp = call'.digest
    <2>1. /\ Current = "mode" <=> call.pc = 2
          /\ Current = "mount" <=> call.pc = 6
          /\ Current = "dataStore" <=> call.pc = 7
          /\ Current = "digests" <=> call.pc = 8
          /\ Current = "runningStamps" <=> call.pc = 9
          /\ Current \notin {"down", "up", "restart", "tools", "migrate"}
      BY <1>2, Place
    <2>2. UNCHANGED project
      BY <1>2, <2>1, StackMoves DEF ProjectMoves
    <2>3. CASE call.pc = 2
      <3>1. c.mode = "TEST" /\ c.mode = ModeOf(project.modes) /\ \A m, n \in project.modes : m = n
        BY <1>2, <2>1, <2>3 DEF Passes, Accepted, Suites
      <3>2. project.modes # {} /\ "TEST" \in project.modes
        BY <3>1, NoneAssumption DEF ModeOf
      <3>3. project.modes = {"TEST"}
        BY <3>1, <3>2
      <3> QED BY <1>1, <2>2, <2>3, <3>3
    <2>4. CASE call.pc = 6
      <3>1. project.db = "test"
        BY <2>1, <2>4 DEF Passes, StackCheckPasses
      <3>2. project.modes = {"TEST"}
        BY <3>1 DEF Typed, Whole
      <3> QED BY <1>1, <2>2, <2>4, <3>1, <3>2
    <2>5. CASE call.pc \notin {2, 6}
      <3>1. /\ "project" \in call.seen
            /\ call.pc = 7 => "data_store" \in project.running
            /\ call.pc = 9 => ("data_store" \in project.running => project.stamp = call.digest)
            /\ call.pc # 8 => c.digest = call.digest
        BY <1>1, <1>2, <2>1, <2>5 DEF Passes, StackCheckPasses
      <3>2. /\ call.pc > 2 => project.modes = {"TEST"}
            /\ call.pc > 6 => project.db = "test"
            /\ call.pc > 7 => "data_store" \in project.running
            /\ call.pc > 9 => project.stamp = call.digest
        BY <1>2, <3>1 DEF SuiteRailed
      <3> QED BY <1>1, <2>2, <2>5, <3>1, <3>2
    <2> QED BY <2>3, <2>4, <2>5
  <1>3. ASSUME call.verb \in Launchers, "project" \in call'.seen
        PROVE  "PROD" \notin project'.modes
    <2>1. "PROD" \notin project.modes
      <3>1. CASE call.pc = 1
        BY <1>3, <3>1, Place DEF Passes
      <3>2. CASE call.pc # 1
        <4>1. "project" \in call.seen /\ call.pc > 1
          BY <1>1, <1>3, <3>2, Place DEF Passes
        <4> QED BY <1>3, <4>1 DEF LauncherRailed
      <3> QED BY <3>1, <3>2
    <2> QED BY <1>3, <2>1, StackMoves DEF ProjectMoves, Made
  <1> QED BY <1>1, <1>2, <1>3 DEF SuiteRailed, LauncherRailed

LEMMA StepSInv == ASSUME SInv, [Next]_vars PROVE SInv'
  <1> USE DEF SInv
  <1>1. Typed'
    BY StepTyped
  <1>2. CASE call' = Idle
    BY <1>1, <1>2 DEF SuiteRailed, LauncherRailed, Running, Idle
  <1>3. ASSUME NEW c, Running, Passes(c), call' # Idle PROVE SInv'
    BY <1>1, <1>3, PassesRailed
  <1>4. CASE Aside
    <2>1. /\ Running' <=> Running
          /\ call'.verb = call.verb /\ call'.pc = call.pc /\ call'.digest = call.digest
          /\ call'.seen \subseteq call.seen
      BY <1>4 DEF Aside, Running
    <2>2. SuiteRailed'
      <3>1. SUFFICES ASSUME Running, call.verb \in Suites, "project" \in call'.seen
                     PROVE  UNCHANGED project
        BY <2>1 DEF SuiteRailed
      <3> QED BY <3>1, Place, StackMoves DEF ProjectMoves
    <2>3. LauncherRailed'
      <3>1. SUFFICES ASSUME Running, call.verb \in Launchers, "project" \in call'.seen, call.pc > 1
                     PROVE  "PROD" \notin project'.modes
        BY <2>1 DEF LauncherRailed
      <3>2. "PROD" \notin project.modes
        BY <2>1, <3>1 DEF LauncherRailed
      <3>3. UNCHANGED project \/ Made(project')
        BY <3>1, StackMoves DEF ProjectMoves
      <3> QED BY <3>2, <3>3 DEF Made
    <2> QED BY <1>1, <2>2, <2>3
  <1>5. ASSUME NEW v \in offered, call' = [Idle EXCEPT !.verb = v, !.pc = 1] PROVE SInv'
    BY <1>1, <1>5, FirstStep DEF SuiteRailed, LauncherRailed
  <1> QED BY <1>2, <1>3, <1>4, <1>5, CallSteps DEF CallMoves

LEMMA InitSInv == Init => SInv
  BY VerbsAssumption, NoneAssumption DEF Init, SInv, Typed, Whole, SuiteRailed, LauncherRailed, Running, Idle, CallFields, EmptyProject

\* The suite and the seed producer write the test database of a project started from the test files,
\* whose running services are stamped with the digest the call took, and no verb stops, starts or
\* migrates a project that held a production container when the verb read its mode: for every set of
\* verbs, copies and budgets, whatever the owner edits, builds and launches beside it, but for a launch
\* after the verb's last look at the mode or the mount (check_mode_guard, tools/agent_mcp/runner.py).
THEOREM SuiteWritesOnlyTestAlways == Spec => []SuiteWritesOnlyTest
  <1>1. Init => SInv
    BY InitSInv
  <1>2. SInv /\ [Next]_vars => SInv'
    BY StepSInv
  <1>3. SInv => SuiteWritesOnlyTest
    <2> SUFFICES ASSUME SInv, Running, "project" \in call.seen PROVE SuiteWritesOnlyTest
      BY DEF SuiteWritesOnlyTest, AtStep
    <2>1. Current \in {"suite", "produce"} => call.verb \in Suites /\ call.pc > 9 /\ call.pc \in Nat
      BY Place DEF SInv
    <2>2. Current \in {"down", "up", "restart", "tools", "migrate"} => call.verb \in Launchers /\ call.pc > 1
      BY Place DEF SInv
    <2>3. AtStep({"suite", "produce"}) =>
            project.modes = {"TEST"} /\ project.db = "test" /\ project.stamp = call.digest
      BY <2>1 DEF AtStep, SInv, SuiteRailed
    <2>4. AtStep({"down", "up", "restart", "tools", "migrate"}) => "PROD" \notin project.modes
      BY <2>2 DEF AtStep, SInv, LauncherRailed
    <2> QED BY <2>3, <2>4 DEF SuiteWritesOnlyTest
  <1> QED BY <1>1, <1>2, <1>3, PTL DEF Spec

-----------------------------------------------------------------------------
(* What a charge and a stop commit the rest of a program to. *)

\* The steps that may follow a charge: work, and no check.
Spending == {"digests", "bases", "build", "down", "network", "up", "restart", "tools", "migrate",
             "suite", "clientBuild", "produce", "writeSeed"}

LEMMA ChargePath ==
    ASSUME NEW v \in Verbs, NEW m
    PROVE  \A i, j \in 1 .. Len(Program(v, m)) :
             /\ i < j /\ Program(v, m)[i] = "charge" => Program(v, m)[j] \in Spending
             /\ i < j /\ Program(v, m)[i] = "down" => Program(v, m)[j] \in {"network", "up"}
             /\ Program(v, m)[j] = "produce" => v = "seed_dump"
  <1> USE DEF Spending
  <1>1. CASE v \in {"down", "restart"}
    <2>1. Program(v, m) \in {DownProgram, RestartProgram} BY <1>1 DEF Program
    <2> QED BY <2>1 DEF DownProgram, RestartProgram
  <1>2. CASE v = "up"
    <2>1. Program(v, m) = UpProgram BY <1>2 DEF Program
    <2> QED BY <2>1 DEF UpProgram
  <1>3. CASE v = "test_up"
    <2>1. Program(v, m) = TestUpProgram BY <1>3 DEF Program
    <2> QED BY <2>1 DEF TestUpProgram
  <1>4. CASE v \in {"tools", "build", "test_build"}
    <2>1. Program(v, m) \in {ToolsProgram, BuildProgram, TestBuildProgram} BY <1>4 DEF Program
    <2> QED BY <2>1 DEF ToolsProgram, BuildProgram, TestBuildProgram
  <1>5. CASE v = "migrate"
    <2>1. Program(v, m) = MigrateProgram(m) BY <1>5 DEF Program
    <2>2. CASE m = "TEST" BY <2>1, <2>2 DEF MigrateProgram
    <2>3. CASE m # "TEST" BY <2>1, <2>3 DEF MigrateProgram
    <2> QED BY <2>2, <2>3
  <1>6. CASE v = "run_system_tests"
    <2>1. Program(v, m) = RunSystemTestsProgram BY <1>6 DEF Program
    <2> QED BY <2>1 DEF RunSystemTestsProgram, SuiteRails
  <1>7. CASE v = "seed_dump"
    <2>1. Program(v, m) = SeedDumpProgram BY <1>7 DEF Program
    <2>2. \A i \in 1 .. Len(Program(v, m)) :
            /\ Program(v, m)[i] = "charge" => i = 12
            /\ Program(v, m)[i] # "down"
      BY <2>1 DEF SeedDumpProgram, SuiteRails
    <2>3. \A i \in 1 .. Len(Program(v, m)) : 12 < i => Program(v, m)[i] \in Spending
      BY <2>1 DEF SeedDumpProgram, SuiteRails
    <2> QED BY <1>7, <2>2, <2>3
  <1>8. CASE v \in {"migrate_status", "ps", "logs", "db_tables", "http_get"}
    <2>1. Program(v, m) \in {MigrateStatusProgram, ReadProgram, TablesProgram, HttpGetProgram}
      BY <1>8 DEF Program
    <2> QED BY <2>1 DEF MigrateStatusProgram, ReadProgram, TablesProgram, HttpGetProgram
  <1> QED BY <1>1, <1>2, <1>3, <1>4, <1>5, <1>6, <1>7, <1>8 DEF Verbs

\* The steps a call still has before it.
Rest == {Program(call.verb, call.mode)[i] : i \in call.pc .. Len(Program(call.verb, call.mode))}

\* A charged call has no check left, a call that stopped the project only its start; and while
\* a call runs there is no answer.
Committed ==
    Running => /\ call.verb \in offered
               /\ answer = None
               /\ call.charged => Rest \subseteq Spending
               /\ call.stopped => Rest \subseteq {"network", "up"}

KInv == Typed /\ Committed

\* What a passed step leaves to do: the rest of the program of the mode it goes on in.
LEMMA PassesRest ==
    ASSUME Typed, Committed, Running, NEW c, Passes(c), Running'
    PROVE  /\ call'.charged => Rest' \subseteq Spending
           /\ call'.stopped => Rest' \subseteq {"network", "up"}
  <1> DEFINE here == Program(call.verb, call.mode)
             there == Program(call.verb, c.mode)
  <1>1. /\ call'.verb = call.verb /\ call'.mode = c.mode /\ call'.pc = call.pc + 1
        /\ call'.charged = c.charged /\ call'.stopped = c.stopped
    BY PassesTo DEF Running, Idle
  <1>2. /\ call.verb \in Verbs /\ call.pc \in Nat /\ call.pc \in 1 .. Len(here)
        /\ Len(here) \in Nat /\ Len(there) \in Nat /\ Current = here[call.pc] /\ Current \in Rest
    <2>1. call.verb \in Verbs /\ call.pc \in Nat /\ call.pc \in 1 .. Len(here) /\ Current = here[call.pc]
      BY Place DEF Current
    <2>2. Len(here) \in Nat /\ Len(there) \in Nat
      BY <2>1, PathLengths
    <2>3. call.pc \in call.pc .. Len(here)
      BY <2>1, <2>2
    <2> QED BY <2>1, <2>2, <2>3 DEF Rest
  <1>3. CASE Current = "mode"
    <2>1. ~call.charged /\ ~call.stopped
      BY <1>2, <1>3 DEF Committed, Spending
    <2>2. ~c.charged /\ ~c.stopped
      BY <1>3, <2>1 DEF Passes
    <2> QED BY <1>1, <2>2
  <1>4. CASE Current # "mode"
    <2>1. there = here
      BY <1>4 DEF Passes
    <2>2. Rest' = {here[i] : i \in (call.pc + 1) .. Len(here)}
      BY <1>1, <2>1 DEF Rest
    <2>3. \A i \in (call.pc + 1) .. Len(here) : i \in 1 .. Len(here) /\ call.pc < i /\ i \in call.pc .. Len(here)
      BY <1>2
    <2>4. Rest' \subseteq Rest
      BY <2>2, <2>3 DEF Rest
    <2>5. \A i, j \in 1 .. Len(here) :
            /\ i < j /\ here[i] = "charge" => here[j] \in Spending
            /\ i < j /\ here[i] = "down" => here[j] \in {"network", "up"}
      BY <1>2, ChargePath
    <2> HIDE DEF here
    <2>6. Current = "charge" => Rest' \subseteq Spending
      BY <1>2, <2>2, <2>3, <2>5
    <2>7. Current = "down" => Rest' \subseteq {"network", "up"}
      BY <1>2, <2>2, <2>3, <2>5
    <2>8. call'.charged => call.charged \/ Current = "charge"
      BY <1>1 DEF Passes
    <2>9. call'.stopped => call.stopped \/ Current = "down"
      BY <1>1 DEF Passes
    <2> QED BY <2>4, <2>6, <2>7, <2>8, <2>9 DEF Committed
  <1> QED BY <1>3, <1>4

LEMMA StepKInv == ASSUME KInv, [Next]_vars PROVE KInv'
  <1> USE DEF KInv
  <1>1. Typed' /\ UNCHANGED offered
    BY StepTyped, OfferStays
  <1>2. CASE call' = Idle
    BY <1>1, <1>2 DEF Committed, Running, Idle
  <1>3. ASSUME NEW c, Running, Passes(c), call' # Idle PROVE KInv'
    <2>1. Running' /\ call'.verb = call.verb /\ UNCHANGED answer
      BY <1>3, PassesTo
    <2> QED BY <1>1, <1>3, <2>1, PassesRest DEF Committed
  <1>4. CASE Aside
    <2>1. Rest' = Rest
      BY <1>4 DEF Rest, Aside
    <2> QED BY <1>1, <1>4, <2>1 DEF Committed, Aside, Running
  <1>5. ASSUME NEW v \in offered, call' = [Idle EXCEPT !.verb = v, !.pc = 1], answer' = None PROVE KInv'
    <2>1. call'.verb = v /\ ~call'.charged /\ ~call'.stopped
      BY <1>5, FirstStep
    <2> QED BY <1>1, <1>5, <2>1 DEF Committed
  <1> QED BY <1>2, <1>3, <1>4, <1>5, CallSteps DEF CallMoves

LEMMA InitKInv == Init => KInv
  BY InitSInv DEF SInv, Init, KInv, Committed, Running, Idle

\* Once a call has stopped the project nothing but the network is between it and the up, for
\* every set of verbs, copies and budgets and whatever the owner does beside it: every check,
\* the digests and the pull of the base images come before the stop (tools/agent_mcp/runner.py).
THEOREM StoppedIsRestartedAlways == Spec => []StoppedIsRestarted
  <1>1. Init => KInv
    BY InitKInv
  <1>2. KInv /\ [Next]_vars => KInv'
    BY StepKInv
  <1>3. KInv => StoppedIsRestarted
    <2> SUFFICES ASSUME KInv, Running, call.stopped PROVE AtStep({"network", "up"})
      BY DEF StoppedIsRestarted
    <2>1. call.pc \in call.pc .. Len(Program(call.verb, call.mode))
      BY Place DEF KInv
    <2>2. Current \in Rest
      BY <2>1 DEF Rest, Current
    <2> QED BY <2>2 DEF KInv, Committed, AtStep
  <1> QED BY <1>1, <1>2, <1>3, PTL DEF Spec

-----------------------------------------------------------------------------
(* Refusals. *)

\* A passed step is no refusal.
LEMMA AdvanceAnswers ==
    ASSUME Running, Committed, NEW c, Advance(c)
    PROVE  answer' # "refused" /\ answer' \in Answers \cup {None}
  <1>1. answer = None /\ "ok" \in Answers /\ None # "refused"
    BY NoneAssumption DEF Committed, Answers
  <1> QED BY <1>1 DEF Advance

\* A call is refused by a check, or by the seed producer, and the step leaves the project alone.
LEMMA RefusedBy ==
    ASSUME KInv, Next, Running, answer' = "refused"
    PROVE  UNCHANGED project /\ (Current \notin Spending \/ Current = "produce")
  <1> USE DEF KInv
  <1>1. ASSUME NEW step, step \notin Spending, Judged(step)
        PROVE  UNCHANGED project /\ Current \notin Spending
    BY <1>1 DEF Judged, AtStep
  <1>2. CASE Checks
    <2>1. CASE OutsideCheck
      BY <1>1, <2>1 DEF OutsideCheck, TrustedCopies, BindSources, EnvFiles, Steering, GeneratedCode,
         Revisions, FewStores, DevImages, Worktree, MountSources, TestPaths, Spending
    <2>2. CASE ModeGuard \/ StackCheck \/ Charge
      BY <2>2 DEF ModeGuard, StackCheck, Charge, AtStep, Spending
    <2> QED BY <1>2, <2>1, <2>2 DEF Checks
  <1>3. CASE DockerSteps
    <2>1. \A c : ~Advance(c) /\ \A status : Finish(status) => status = "refused"
      BY <1>3, AdvanceAnswers DEF Finish
    <2>2. ~Digests /\ ~TestBuild /\ ~Down /\ ~Up /\ ~Tools /\ ~Restart
      BY <2>1 DEF Digests, TestBuild, Down, Up, Tools, Restart
    <2>3. ~QuietStep
      BY <2>1 DEF QuietStep, Bases, Network, Read, ClientBuild, WriteSeed, DevBuild, Ran
    <2>4. WriteStep => UNCHANGED project /\ Current = "produce"
      BY <2>1 DEF WriteStep
    <2> QED BY <1>3, <2>2, <2>3, <2>4 DEF DockerSteps
  <1>4. CASE CopyAwaited
    BY <1>4 DEF CopyAwaited, AtStep, Spending
  <1>5. ASSUME NEW g \in Gens, StartCopy(g) \/ CopyThread(g) PROVE FALSE
    <2>1. UNCHANGED answer
      BY <1>5 DEF StartCopy, CopyThread, Acquire, CopyBuilt, CopyAborted, CopyBroken, SwapOut, SwapIn, CopyForgotten
    <2> QED BY <2>1, NoneAssumption DEF Committed, Answers
  <1>6. ~Timeout /\ ~ServerRestart
    BY DEF Timeout, ServerRestart, Finish
  <1>7. ~(Tick \/ OperatorLaunch \/ OperatorBuild \/ CheckoutEdited)
    BY NoneAssumption DEF Tick, OperatorLaunch, OperatorBuild, CheckoutEdited, Committed, Answers
  <1>8. ASSUME NEW v \in offered, StartVerb(v) PROVE FALSE
    BY <1>8 DEF StartVerb
  <1> QED BY <1>2, <1>3, <1>4, <1>5, <1>6, <1>7, <1>8 DEF Next

\* A call that ends refused left the project as it found it and was not charged, except when the
\* seed producer itself refuses, for every set of verbs, copies and budgets: in every program the
\* charge comes after the last check (VerbRefused in tools/agent_mcp/runner.py).
THEOREM RefusalIsCleanAlways == Spec => RefusalIsClean
  <1>1. Init => KInv
    BY InitKInv
  <1>2. KInv /\ [Next]_vars => KInv'
    BY StepKInv
  <1> DEFINE Clean == Running /\ answer' = "refused" =>
                        /\ ~call.stopped /\ project' = project
                        /\ call.charged => call.verb = "seed_dump"
  <1>3. KInv /\ [Next]_vars => [Clean]_vars
    <2> SUFFICES ASSUME KInv, Next, Running, answer' = "refused" PROVE Clean
      OBVIOUS
    <2>1. UNCHANGED project /\ (Current \notin Spending \/ Current = "produce")
      BY RefusedBy
    <2>2. /\ call.verb \in Verbs
          /\ call.pc \in 1 .. Len(Program(call.verb, call.mode))
          /\ call.pc \in call.pc .. Len(Program(call.verb, call.mode))
      BY Place DEF KInv
    <2>3. Current \in Rest
      BY <2>2 DEF Rest, Current
    <2>4. ~call.stopped
      BY <2>1, <2>3 DEF KInv, Committed, Spending
    <2>5. call.charged => Current = "produce"
      BY <2>1, <2>3 DEF KInv, Committed
    <2>6. Current = "produce" => call.verb = "seed_dump"
      BY <2>2, ChargePath DEF Current
    <2> QED BY <2>1, <2>4, <2>5, <2>6
  <1> QED BY <1>1, <1>2, <1>3, PTL DEF Spec, RefusalIsClean

-----------------------------------------------------------------------------
(* The types of the state. *)

ChargesTyped == charges \in Seq(0 .. BudgetWindow)

DirsTyped ==
    dirs \in [live : Gens \cup {None}, new : Gens \cup {None}, old : Gens \cup {None}, lock : Gens \cup {None}]

Types == answer \in Answers \cup {None} /\ ChargesTyped /\ DirsTyped

\* The elements of a sequence, of its end and of a longer one.
LEMMA SeqLemma ==
    ASSUME NEW S, NEW s \in Seq(S)
    PROVE  /\ DOMAIN s = 1 .. Len(s) /\ Len(s) \in Nat
           /\ \A i \in DOMAIN s : s[i] \in S
           /\ \A x \in S : Append(s, x) \in Seq(S)
           /\ \A n \in Nat : SubSeq(s, n + 1, Len(s)) \in Seq(S)
  <1>1. DOMAIN s = 1 .. Len(s) /\ Len(s) \in Nat /\ \A i \in DOMAIN s : s[i] \in S
    OBVIOUS
  <1>2. \A x \in S : Append(s, x) \in Seq(S)
    OBVIOUS
  <1>3. ASSUME NEW n \in Nat PROVE SubSeq(s, n + 1, Len(s)) \in Seq(S)
    <2>1. \A i \in (n + 1) .. Len(s) : s[i] \in S
      BY <1>1
    <2> QED BY <1>1, <2>1
  <1> QED BY <1>1, <1>2, <1>3

\* What is left of the charges is charges.
LEMMA KeptTyped == ASSUME ChargesTyped PROVE Kept \in Seq(0 .. BudgetWindow)
  <1> DEFINE left == {i \in DOMAIN charges : ~InWindow(charges[i])}
             gone == Cardinality(left)
  <1>1. charges \in Seq(0 .. BudgetWindow) /\ DOMAIN charges = 1 .. Len(charges) /\ Len(charges) \in Nat
    BY SeqLemma DEF ChargesTyped
  <1>2. IsFiniteSet(1 .. Len(charges))
    BY <1>1, FS_Interval
  <1>3. left \subseteq 1 .. Len(charges)
    BY <1>1
  <1>4. IsFiniteSet(left)
    BY <1>2, <1>3, FS_Subset
  <1>5. gone \in Nat
    BY <1>4, FS_CardinalityType
  <1>6. Kept = SubSeq(charges, gone + 1, Len(charges))
    BY DEF Kept
  <1> HIDE DEF gone
  <1> QED BY <1>1, <1>5, <1>6, SeqLemma

LEMMA TypesStay == ASSUME KInv, Types, [Next]_vars PROVE Types'
  <1> USE DEF KInv, Types
  <1>1. ASSUME NEW c, Running, Advance(c) PROVE answer' \in Answers \cup {None}
    BY <1>1, AdvanceAnswers
  <1>2. ASSUME NEW status \in Answers, Finish(status) PROVE answer' \in Answers \cup {None}
    BY <1>2 DEF Finish
  <1>3. {"ok", "refused", "failed", "timeout", "error", "none"} \subseteq Answers
    BY DEF Answers
  <1>4. ASSUME NEW v \in offered, StartVerb(v) PROVE Types'
    BY <1>4 DEF StartVerb, ChargesTyped, DirsTyped
  <1>5. CASE Checks
    <2>1. ASSUME NEW step, Judged(step) PROVE Types'
      BY <1>1, <1>2, <1>3, <2>1 DEF Judged, AtStep, ChargesTyped, DirsTyped
    <2>2. CASE OutsideCheck
      BY <2>1, <2>2 DEF OutsideCheck, TrustedCopies, BindSources, EnvFiles, Steering, GeneratedCode,
         Revisions, FewStores, DevImages, Worktree, MountSources, TestPaths
    <2>3. CASE ModeGuard \/ StackCheck
      BY <1>1, <1>2, <1>3, <2>3 DEF ModeGuard, StackCheck, AtStep, ChargesTyped, DirsTyped
    <2>4. CASE Charge
      <3>1. charges' = Kept \/ charges' = Append(Kept, 0)
        BY <2>4 DEF Charge
      <3>2. ChargesTyped'
        <4>1. 0 \in 0 .. BudgetWindow BY BudgetAssumption
        <4>2. Append(Kept, 0) \in Seq(0 .. BudgetWindow) BY <4>1, KeptTyped, SeqLemma
        <4> QED BY <3>1, <4>2, KeptTyped DEF ChargesTyped
      <3>3. answer' \in Answers \cup {None} /\ UNCHANGED dirs
        BY <1>1, <1>2, <1>3, <2>4 DEF Charge, AtStep
      <3> QED BY <3>2, <3>3 DEF DirsTyped
    <2> QED BY <1>5, <2>2, <2>3, <2>4 DEF Checks
  <1>6. CASE DockerSteps
    <2>1. UNCHANGED <<charges, dirs>> /\ Running
      BY <1>6 DEF DockerSteps, Digests, QuietStep, Bases, Network, Read, ClientBuild, WriteSeed, DevBuild, Ran,
         TestBuild, WriteStep, Down, Up, Tools, Restart, AtStep
    <2>2. answer' \in Answers \cup {None}
      BY <1>1, <1>2, <1>3, <1>6, <2>1 DEF DockerSteps, Digests, QuietStep, Bases, Network, Read, ClientBuild,
         WriteSeed, DevBuild, Ran, TestBuild, WriteStep, Down, Up, Tools, Restart
    <2> QED BY <2>1, <2>2 DEF ChargesTyped, DirsTyped
  <1>7. ASSUME NEW g \in Gens, StartCopy(g) \/ CopyThread(g) PROVE Types'
    <2>1. UNCHANGED <<answer, charges>>
      BY <1>7 DEF StartCopy, CopyThread, Acquire, CopyBuilt, CopyAborted, CopyBroken, SwapOut, SwapIn, CopyForgotten
    <2>2. DirsTyped'
      BY <1>7 DEF StartCopy, CopyThread, Acquire, CopyBuilt, CopyAborted, CopyBroken, SwapOut, SwapIn, CopyForgotten, DirsTyped
    <2> QED BY <2>1, <2>2 DEF ChargesTyped
  <1>8. CASE CopyAwaited
    BY <1>1, <1>2, <1>3, <1>8 DEF CopyAwaited, AtStep, ChargesTyped, DirsTyped
  <1>9. CASE Tick
    <2>1. \A i \in DOMAIN charges : charges[i] \in 0 .. BudgetWindow
      BY SeqLemma DEF ChargesTyped
    <2>2. \A i \in DOMAIN charges :
            (IF charges[i] < BudgetWindow THEN charges[i] + 1 ELSE charges[i]) \in 0 .. BudgetWindow
      BY <2>1, BudgetAssumption
    <2>3. DOMAIN charges = 1 .. Len(charges) /\ Len(charges) \in Nat
      BY DEF ChargesTyped
    <2>4. charges' \in Seq(0 .. BudgetWindow)
      BY <1>9, <2>2, <2>3 DEF Tick
    <2> QED BY <1>9, <2>4 DEF Tick, ChargesTyped, DirsTyped
  <1>10. CASE Timeout
    BY <1>2, <1>3, <1>10 DEF Timeout, ChargesTyped, DirsTyped
  <1>11. CASE ServerRestart
    BY <1>2, <1>3, <1>11 DEF ServerRestart, ChargesTyped, DirsTyped
  <1>12. CASE OperatorLaunch \/ OperatorBuild \/ CheckoutEdited \/ UNCHANGED vars
    BY <1>12 DEF OperatorLaunch, OperatorBuild, CheckoutEdited, vars, ChargesTyped, DirsTyped
  <1> QED BY <1>4, <1>5, <1>6, <1>7, <1>8, <1>9, <1>10, <1>11, <1>12 DEF Next

\* The type invariant of the agent stack, for every set of verbs, copies and budgets.
THEOREM TypeOKAlways == Spec => []TypeOK
  <1> DEFINE Inv == KInv /\ IInv /\ Types
  <1>1. Init => Inv
    BY InitKInv, InitIInv DEF Init, Types, Answers, ChargesTyped, DirsTyped
  <1>2. Inv /\ [Next]_vars => Inv'
    BY StepKInv, StepIInv, TypesStay
  <1>3. Inv => TypeOK
    BY DEF TypeOK, KInv, Typed, Committed, IInv, CopiesTyped, Types, ChargesTyped, DirsTyped
  <1> QED BY <1>1, <1>2, <1>3, PTL DEF Spec

-----------------------------------------------------------------------------
(* What migrate has established. *)

LEMMA MigratePath ==
    ASSUME NEW m
    PROVE  /\ Len(Program("migrate", m)) \in Nat
           /\ \A i \in 1 .. Len(Program("migrate", m)) :
                /\ Program("migrate", m)[i] = "mode" <=> i = 1
                /\ Program("migrate", m)[i] = "migrate" => i > 1
                /\ Program("migrate", m)[i] \notin {"down", "up", "restart", "tools", "build"}
                /\ m = "TEST" => /\ Program("migrate", m)[i] = "digests" <=> i = 9
                                 /\ Program("migrate", m)[i] = "imageStamps" <=> i = 10
                                 /\ Program("migrate", m)[i] = "runningStamps" <=> i = 11
                                 /\ Program("migrate", m)[i] = "migrate" => i > 11
  <1>1. PICK p : p = Program("migrate", m) OBVIOUS
  <1>2. p = MigrateProgram(m) BY <1>1 DEF Program
  <1>3. CASE m = "TEST"
    <2>1. p = <<"mode", "copies", "binds", "envFiles", "versions", "postgres", "fewStores">>
              \o <<"testImages", "digests", "imageStamps", "runningStamps">> \o <<"charge", "bases", "migrate">>
      BY <1>2, <1>3 DEF MigrateProgram
    <2>2. /\ Len(p) \in Nat
          /\ \A i \in 1 .. Len(p) : (p[i] = "mode" <=> i = 1) /\ (p[i] = "migrate" => i > 11)
      BY <2>1
    <2>3. \A i \in 1 .. Len(p) :
            (p[i] = "digests" <=> i = 9) /\ (p[i] = "imageStamps" <=> i = 10) /\ (p[i] = "runningStamps" <=> i = 11)
      BY <2>1
    <2>4. \A i \in 1 .. Len(p) : p[i] \notin {"down", "up", "restart", "tools", "build"}
      BY <2>1
    <2> QED BY <1>1, <2>2, <2>3, <2>4
  <1>4. CASE m # "TEST"
    <2>1. /\ Len(p) \in Nat
          /\ \A i \in 1 .. Len(p) :
               /\ (p[i] = "mode" <=> i = 1) /\ (p[i] = "migrate" => i > 1)
               /\ p[i] \notin {"down", "up", "restart", "tools", "build"}
      BY <1>2, <1>4 DEF MigrateProgram
    <2> QED BY <1>1, <1>4, <2>1
  <1> QED BY <1>3, <1>4

LEMMA MigrateOnly ==
    ASSUME NEW v \in Launchers \ {"migrate"}, NEW m, NEW i \in 1 .. Len(Program(v, m))
    PROVE  Program(v, m)[i] # "migrate"
  <1>1. CASE v \in {"down", "restart"}
    <2>1. Program(v, m) \in {DownProgram, RestartProgram} BY <1>1 DEF Program
    <2> QED BY <2>1 DEF DownProgram, RestartProgram
  <1>2. CASE v = "up"
    <2>1. Program(v, m) = UpProgram BY <1>2 DEF Program
    <2> QED BY <2>1 DEF UpProgram
  <1>3. CASE v \in {"tools", "test_up"}
    <2>1. Program(v, m) \in {ToolsProgram, TestUpProgram} BY <1>3 DEF Program
    <2> QED BY <2>1 DEF ToolsProgram, TestUpProgram
  <1> QED BY <1>1, <1>2, <1>3 DEF Launchers

Migrating == Running /\ call.verb = "migrate"

\* What migrate knows by its place in its program, of a project and of images it has seen last.
MigrateRailed ==
    Migrating /\ call.pc > 1 =>
        /\ "project" \in call.seen =>
             /\ project.modes = {call.mode}
             /\ call.mode = "TEST" /\ call.pc > 11 =>
                  ("data_store" \in project.running => project.stamp = call.digest)
        /\ "image" \in call.seen /\ call.mode = "TEST" /\ call.pc > 10 => testImage = call.digest

\* migrate itself changes neither.
LEMMA Undisturbed ==
    ASSUME Typed, [Next]_vars, Migrating
    PROVE  /\ "project" \in call'.seen => UNCHANGED project
           /\ "image" \in call'.seen => UNCHANGED testImage
  <1>1. Running /\ call.verb = "migrate"
    BY DEF Migrating
  <1>2. Current \notin {"down", "up", "restart", "tools", "build"}
    BY <1>1, Place, MigratePath DEF Current
  <1> QED BY <1>2, StackMoves DEF ProjectMoves, ImageMoves

LEMMA PassesMigrate ==
    ASSUME Typed, MigrateRailed, [Next]_vars, Migrating, NEW c, Passes(c), call' # Idle
    PROVE  MigrateRailed'
  <1>1. /\ Running /\ call.verb = "migrate" /\ call'.mode = c.mode /\ call'.digest = c.digest
        /\ call'.seen = c.seen /\ call'.pc = call.pc + 1
    BY PassesTo DEF Migrating
  <1>2. /\ call.pc \in Nat /\ call.pc \in 1 .. Len(Program("migrate", call.mode))
        /\ Current = Program("migrate", call.mode)[call.pc]
    BY <1>1, Place DEF Current
  <1>3. (Current = "mode" <=> call.pc = 1) /\ Current # "mount"
    BY <1>1, Place DEF Launchers
  <1>4. CASE Current = "mode"
    <2>1. /\ \A x, y \in project.modes : x = y
          /\ c.mode = ModeOf(project.modes) /\ c.mode \in {"DEV", "TEST"}
      BY <1>1, <1>4 DEF Passes, Accepted
    <2>2. project.modes = {c.mode}
      BY <2>1, NoneAssumption DEF ModeOf
    <2>3. "project" \in call'.seen => project'.modes = {call'.mode}
      BY <1>1, <2>2, Undisturbed
    <2> QED BY <1>1, <1>3, <1>4, <2>3 DEF MigrateRailed
  <1>5. CASE Current # "mode"
    <2>1. /\ call.pc > 1 /\ c.mode = call.mode
          /\ "project" \in call'.seen => "project" \in call.seen
      BY <1>1, <1>2, <1>3, <1>5 DEF Passes
    <2>2. ASSUME "project" \in call'.seen PROVE project'.modes = {call'.mode}
      BY <1>1, <2>1, <2>2, Undisturbed DEF MigrateRailed, Migrating
    <2>3. ASSUME call.mode = "TEST"
          PROVE  /\ call.pc > 9 => Current # "digests"
                 /\ Current = "imageStamps" <=> call.pc = 10
                 /\ Current = "runningStamps" <=> call.pc = 11
      BY <1>2, <2>3, MigratePath
    <2>4. ASSUME call.mode = "TEST", "project" \in call'.seen, call'.pc > 11
          PROVE  "data_store" \in project.running => project.stamp = call'.digest
      <3>1. call'.digest = call.digest
        BY <1>1, <1>2, <2>3, <2>4 DEF Passes
      <3>2. CASE call.pc = 11
        BY <2>3, <2>4, <3>1, <3>2 DEF Passes, StackCheckPasses
      <3>3. CASE call.pc > 11
        BY <2>1, <2>4, <3>1, <3>3 DEF MigrateRailed, Migrating
      <3> QED BY <1>1, <1>2, <2>4, <3>2, <3>3
    <2>5. ASSUME call.mode = "TEST", "image" \in call'.seen, call'.pc > 10
          PROVE  testImage = call'.digest
      <3>1. call'.digest = call.digest
        BY <1>1, <1>2, <2>3, <2>5 DEF Passes
      <3>2. CASE call.pc = 10
        BY <2>3, <2>5, <3>1, <3>2 DEF Passes, StackCheckPasses
      <3>3. CASE call.pc > 10
        <4>1. "image" \in call.seen
          BY <1>1, <2>3, <2>5, <3>3 DEF Passes
        <4> QED BY <2>1, <2>5, <3>1, <3>3, <4>1 DEF MigrateRailed, Migrating
      <3> QED BY <1>1, <1>2, <2>5, <3>2, <3>3
    <2> QED BY <1>1, <2>1, <2>2, <2>4, <2>5, Undisturbed DEF MigrateRailed
  <1> QED BY <1>4, <1>5

LEMMA StepMigrate ==
    ASSUME Typed, MigrateRailed, [Next]_vars
    PROVE  MigrateRailed'
  <1>1. CASE call' = Idle
    BY <1>1 DEF MigrateRailed, Migrating, Running, Idle
  <1>2. ASSUME NEW c, Running, Passes(c), call' # Idle PROVE MigrateRailed'
    <2>1. call'.verb = call.verb
      BY <1>2, PassesTo
    <2> QED BY <1>2, <2>1, PassesMigrate DEF Migrating, MigrateRailed
  <1>3. CASE Aside
    <2>1. /\ Migrating' <=> Migrating
          /\ call'.pc = call.pc /\ call'.mode = call.mode /\ call'.digest = call.digest
          /\ call'.seen \subseteq call.seen
      BY <1>3 DEF Aside, Migrating, Running
    <2> QED BY <2>1, Undisturbed DEF MigrateRailed
  <1>4. ASSUME NEW v \in offered, call' = [Idle EXCEPT !.verb = v, !.pc = 1] PROVE MigrateRailed'
    <2>1. call'.pc = 1
      BY <1>4, FirstStep
    <2> QED BY <2>1 DEF MigrateRailed
  <1> QED BY <1>1, <1>2, <1>3, <1>4, CallSteps DEF CallMoves

\* migrate upgrades the stack of the mode it announced, and in TEST mode with the code that the
\* one-off's image and the running services are both stamped with, for every set of verbs, copies and
\* budgets, whatever the owner edits beside it, but for a launch after the verb read the mode and a
\* build of the images after it read their stamp (migrate's checks, tools/agent_mcp/runner.py).
THEOREM MigratesWhatRunsAlways == Spec => []MigratesWhatRuns
  <1> DEFINE Inv == Typed /\ MigrateRailed
  <1>1. Init => Inv
    BY InitSInv DEF SInv, Init, MigrateRailed, Migrating, Running, Idle
  <1>2. Inv /\ [Next]_vars => Inv'
    BY StepTyped, StepMigrate
  <1>3. Inv => MigratesWhatRuns
    <2> SUFFICES ASSUME Inv, AtStep({"migrate"}) PROVE MigratesWhatRuns
      BY DEF MigratesWhatRuns
    <2>1. Running /\ Current = "migrate"
      BY DEF AtStep
    <2>2. /\ call.verb \in Launchers /\ call.pc \in Nat
          /\ call.pc \in 1 .. Len(Program(call.verb, call.mode))
          /\ Program(call.verb, call.mode)[call.pc] = "migrate"
      BY <2>1, Place DEF Current
    <2>3. call.verb = "migrate"
      BY <2>2, MigrateOnly
    <2>4. call.pc > 1 /\ (call.mode = "TEST" => call.pc > 11)
      BY <2>2, <2>3, MigratePath
    <2> QED BY <2>1, <2>2, <2>3, <2>4 DEF MigrateRailed, Migrating, MigratesWhatRuns
  <1> QED BY <1>1, <1>2, <1>3, PTL DEF Spec
=============================================================================
