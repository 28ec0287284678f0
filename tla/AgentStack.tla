------------------------------ MODULE AgentStack ------------------------------
(***************************************************************************)
(* The agent stack: the server through which agents run fixed verbs on     *)
(* the owner's one compose project (tools/agent_mcp).  A verb is a program *)
(* of checks and docker steps; verbs run one at a time, a refusal runs     *)
(* nothing after it, every state-changing verb is charged to a rolling     *)
(* budget, and the two system-suite verbs build their client from a        *)
(* snapshot of a worktree that a thread copies beside the event loop and   *)
(* that may outlive the verb that asked for it.  The owner acts on the     *)
(* same project from the host.                                             *)
(***************************************************************************)
EXTENDS Naturals, Sequences, FiniteSets

CONSTANTS
    Gens,          \* the copies of a worktree that may exist at one time
    Versions,      \* the contents the checkout's source may have
    BudgetLimit,   \* charged verbs a window may hold
    BudgetWindow,  \* its length, in ticks
    Mixed,         \* the stamps of the :test images when a build left them half done: no one version's
    VerbGroups,    \* the sets of verbs agents may be offered in one behaviour
    None           \* no generation, no version, no mode

Verbs == {"down", "restart", "build", "up", "tools", "test_build", "test_up", "migrate", "migrate_status",
          "run_system_tests", "seed_dump", "ps", "logs", "db_tables", "http_get"}

\* How a call ends; "none" is the answer of a server that has had no call yet.
Answers == {"none", "ok", "refused", "failed", "timeout", "error"}

ASSUME VerbsAssumption == \A group \in VerbGroups : group \subseteq Verbs
ASSUME BudgetAssumption == BudgetLimit \in Nat /\ BudgetWindow \in Nat
ASSUME NoneAssumption == None \notin Gens \cup {"DEV", "TEST", "PROD", "test", "own"} \cup Answers \cup Verbs
ASSUME MixedAssumption == Mixed \notin Versions /\ Mixed # None

VARIABLES
    offered,    \* the verbs agents call in this behaviour
    call,       \* the call in progress, or Idle
    answer,     \* the status the last call ended with, None while one runs
    charges,    \* the ages of the budget's charges, oldest first
    project,    \* the compose project's containers
    testImage,  \* the source version the :test images are stamped with
    checkout,   \* the source version of the root checkout
    copies,     \* the snapshot threads
    dirs        \* the snapshot directories and the lock over them

vars == <<offered, call, answer, charges, project, testImage, checkout, copies, dirs>>

-----------------------------------------------------------------------------
(* The programs of the verbs. *)

DownProgram    == <<"mode", "steering", "charge", "down">>

RestartProgram == <<"mode", "binds", "steering", "charge", "restart">>

BuildProgram   == <<"copies", "generated", "charge", "digests", "bases", "build">>

UpProgram ==
    <<"mode", "copies", "binds", "envFiles", "steering", "generated", "devImages", "charge",
      "digests", "bases", "down", "network", "up">>

\* Mutant: tools is charged before its last check.
EarlyChargedTools == <<"mode", "copies", "binds", "charge", "envFiles", "network", "tools">>

ToolsProgram == <<"mode", "copies", "binds", "envFiles", "charge", "network", "tools">>

TestBuildProgram == <<"copies", "generated", "charge", "digests", "bases", "build">>

\* Mutant: the bases are left to the up itself, after the down.
LateBasesTestUp ==
    <<"mode", "copies", "binds", "envFiles", "steering", "testImages", "digests", "imageStamps",
      "charge", "down", "bases", "up">>

TestUpProgram ==
    <<"mode", "copies", "binds", "envFiles", "steering", "testImages", "digests", "imageStamps",
      "charge", "bases", "down", "up">>

\* Mutant: TEST mode trusts the image's stamp for what runs.
ImageStampMigrate(mode) ==
    <<"mode", "copies", "binds", "envFiles", "versions", "postgres", "fewStores">>
    \o (IF mode = "TEST" THEN <<"testImages", "digests", "imageStamps">> ELSE <<"devImages">>)
    \o <<"charge", "bases", "migrate">>

\* migrate: in TEST mode the images bake the code in, so their stamps are compared as well.
MigrateProgram(mode) ==
    <<"mode", "copies", "binds", "envFiles", "versions", "postgres", "fewStores">>
    \o (IF mode = "TEST" THEN <<"testImages", "digests", "imageStamps", "runningStamps">>
                         ELSE <<"devImages">>)
    \o <<"charge", "bases", "migrate">>

MigrateStatusProgram == <<"mode", "dataStore", "read">>

\* Mutant: the mode label stands for the database.
UnmountedRails == <<"mode", "copies", "envFiles", "postgres", "dataStore", "digests", "runningStamps">>

\* What run_system_tests and seed_dump hold before anything is copied or charged.
SuiteRails ==
    <<"mode", "copies", "envFiles", "postgres", "mount", "dataStore", "digests", "runningStamps">>

RunSystemTestsProgram ==
    <<"worktree">> \o SuiteRails \o <<"snapshot", "mountSources", "testPaths", "charge", "bases", "suite">>

SeedDumpProgram ==
    <<"worktree">> \o SuiteRails
    \o <<"snapshot", "mountSources", "charge", "bases", "clientBuild", "produce", "writeSeed">>

ReadProgram    == <<"read">>              \* ps, logs
TablesProgram  == <<"postgres", "read">>  \* db_tables
HttpGetProgram == <<"dataStore", "read">> \* http_get

Program(verb, mode) ==
    CASE verb = "down" -> DownProgram
      [] verb = "restart" -> RestartProgram
      [] verb = "build" -> BuildProgram
      [] verb = "up" -> UpProgram
      [] verb = "tools" -> ToolsProgram
      [] verb = "test_build" -> TestBuildProgram
      [] verb = "test_up" -> TestUpProgram
      [] verb = "migrate" -> MigrateProgram(mode)
      [] verb = "migrate_status" -> MigrateStatusProgram
      [] verb = "run_system_tests" -> RunSystemTestsProgram
      [] verb = "seed_dump" -> SeedDumpProgram
      [] verb \in {"ps", "logs"} -> ReadProgram
      [] verb = "db_tables" -> TablesProgram
      [] verb = "http_get" -> HttpGetProgram

\* The modes a verb's guard accepts; None is the empty project.
Accepted(verb) ==
    CASE verb \in {"down", "restart", "up", "test_up"} -> {"DEV", "TEST", None}
      [] verb = "tools" -> {"DEV", None}
      [] verb \in {"migrate", "migrate_status"} -> {"DEV", "TEST"}
      [] verb \in {"run_system_tests", "seed_dump"} -> {"TEST"}

-----------------------------------------------------------------------------
(* The call in progress.  Its field `seen` is history: what the call has looked at, the project *)
(* or the :test images, and the owner has not changed since.                                    *)

Idle == [verb |-> None, pc |-> 0, mode |-> None, digest |-> None, gen |-> None,
         charged |-> FALSE, stopped |-> FALSE, seen |-> {}]

Running == call.verb # None

\* The step the call is about to run.
Current == Program(call.verb, call.mode)[call.pc]
AtStep(steps) == Running /\ Current \in steps

\* Mutant: the end of the program is not noticed.
AdvancePastEnd(c) ==
    IF c.pc > Len(Program(c.verb, c.mode))
      THEN call' = Idle /\ answer' = "ok"
      ELSE call' = [c EXCEPT !.pc = @ + 1] /\ UNCHANGED answer

\* The call's next step, or its end: the last step of a program answers 'ok'.
Advance(c) ==
    IF c.pc = Len(Program(c.verb, c.mode))
      THEN call' = Idle /\ answer' = "ok"
      ELSE call' = [c EXCEPT !.pc = @ + 1] /\ UNCHANGED answer

\* The finally clause of call(): whatever the status, the next verb may run.
Finish(status) == call' = Idle /\ answer' = status

\* A verb is called while none runs; a second caller is told 'busy' and changes nothing.
StartVerb(v) ==
    /\ ~Running
    /\ v \in offered
    /\ call' = [Idle EXCEPT !.verb = v, !.pc = 1]
    /\ answer' = None
    /\ UNCHANGED <<offered, charges, project, testImage, checkout, copies, dirs>>

-----------------------------------------------------------------------------
(* Checks: each passes, or refuses the call with nothing run after it. *)

\* A check of files and refs outside this model, so it may go either way.
Judged(step) ==
    /\ AtStep({step})
    /\ \/ Advance(call)
       \/ Finish("refused")
    /\ UNCHANGED <<offered, charges, project, testImage, checkout, copies, dirs>>

\* The baked compose files, Dockerfile and scripts equal the checkout's.
TrustedCopies == Judged("copies")

\* No component of a bind source is a link.
BindSources == Judged("binds")

\* No env file is a link or special.
EnvFiles == Judged("envFiles")

\* Nothing beside the stack directory would steer compose.
Steering == Judged("steering")

\* The generated code is from the current protos.
GeneratedCode == Judged("generated")

\* The checkout holds revision files.
Revisions == Judged("versions")

\* At most one data_store runs.
FewStores == Judged("fewStores")

\* The :dev images exist.
DevImages == Judged("devImages")

\* The name is that of one of this repository's worktrees.
Worktree == Judged("worktree")

\* The snapshot holds every mount source, and no link.
MountSources == Judged("mountSources")

\* The paths lie under tests/system in the snapshot.
TestPaths == Judged("testPaths")

OutsideCheck ==
    \/ TrustedCopies \/ BindSources \/ EnvFiles \/ Steering \/ GeneratedCode \/ Revisions
    \/ FewStores \/ DevImages \/ Worktree \/ MountSources \/ TestPaths

\* What the current check looks at anew.
Looked ==
    CASE Current \in {"mode", "mount"} -> {"project"}
      [] Current = "imageStamps" -> {"image"}
      [] OTHER -> {}

\* check_mode_guard over the labels of the project's containers.
ModeOf(modes) == IF modes = {} THEN None ELSE CHOOSE m \in modes : TRUE

ModeGuard ==
    /\ AtStep({"mode"})
    /\ LET modes == project.modes
       IN IF /\ "PROD" \notin modes
             /\ \A m, n \in modes : m = n
             /\ ModeOf(modes) \in Accepted(call.verb)
            THEN Advance([call EXCEPT !.mode = ModeOf(modes), !.seen = @ \cup Looked])
            ELSE Finish("refused")
    /\ UNCHANGED <<offered, charges, project, testImage, checkout, copies, dirs>>

\* The checks whose answer is in the project, the images or the digests taken by this call.
StackCheckPasses ==
    CASE Current = "postgres" -> "postgres" \in project.running
      [] Current = "dataStore" -> "data_store" \in project.running
      [] Current = "mount" -> project.db = "test"
      [] Current = "testImages" -> testImage # None
      [] Current = "imageStamps" -> testImage = call.digest
      [] Current = "runningStamps" ->
            "data_store" \in project.running => project.stamp = call.digest

StackCheck ==
    /\ AtStep({"postgres", "dataStore", "mount", "testImages", "imageStamps", "runningStamps"})
    /\ IF StackCheckPasses THEN Advance([call EXCEPT !.seen = @ \cup Looked]) ELSE Finish("refused")
    /\ UNCHANGED <<offered, charges, project, testImage, checkout, copies, dirs>>

\* DevBudget.charge: forget what left the window, then count this verb or refuse it.
InWindow(age) == age < BudgetWindow

\* Oldest first, so what left the window is in front.
Kept ==
    LET gone == Cardinality({i \in DOMAIN charges : ~InWindow(charges[i])})
    IN SubSeq(charges, gone + 1, Len(charges))

Charge ==
    /\ AtStep({"charge"})
    /\ IF Len(Kept) >= BudgetLimit
         THEN /\ charges' = Kept
              /\ Finish("refused")
         ELSE /\ charges' = Append(Kept, 0)
              /\ Advance([call EXCEPT !.charged = TRUE])
    /\ UNCHANGED <<offered, project, testImage, checkout, copies, dirs>>

\* An hour passes for the charges, one tick at a time; an age is not counted past the window.
Tick ==
    /\ \E i \in DOMAIN charges : charges[i] < BudgetWindow
    /\ charges' = [i \in DOMAIN charges |->
                     IF charges[i] < BudgetWindow THEN charges[i] + 1 ELSE charges[i]]
    /\ UNCHANGED <<offered, call, answer, project, testImage, checkout, copies, dirs>>

-----------------------------------------------------------------------------
(* Docker steps. *)

\* The source digests of the root checkout, from the trusted script.
Digests ==
    /\ AtStep({"digests"})
    /\ \/ Advance([call EXCEPT !.digest = checkout])
       \/ Finish("failed")
    /\ UNCHANGED <<offered, charges, project, testImage, checkout, copies, dirs>>

\* A step that reads, or that changes nothing this model keeps.
Ran(step) ==
    /\ AtStep({step})
    /\ \/ Advance(call)
       \/ \E status \in {"failed", "error"} : Finish(status)
    /\ UNCHANGED <<offered, charges, project, testImage, checkout, copies, dirs>>

\* The base images are pulled before the first step that builds, once per verb.
Bases == Ran("bases")

\* The devnet network: look, else create, else look again.
Network == Ran("network")

\* ps, logs and the fixed programs run by exec.
Read == Ran("read")

\* test_client, built from the snapshot.
ClientBuild == Ran("clientBuild")

\* The seed's two files, written into the share directory.
WriteSeed == Ran("writeSeed")

\* build: the :dev images, stamped with the digests.
DevBuild == call.verb = "build" /\ Ran("build")

QuietStep == Bases \/ Network \/ Read \/ ClientBuild \/ WriteSeed \/ DevBuild

\* How a build that failed or was killed leaves the images: as they were, all built, or some.
LeftByBuild == {testImage, call.digest} \cup (IF testImage = None THEN {} ELSE {Mixed})

\* test_build: the :test images are built from the checkout and stamped with the digests.
TestBuild ==
    /\ AtStep({"build"})
    /\ call.verb = "test_build"
    /\ \/ testImage' = call.digest /\ Advance(call)
       \/ testImage' \in LeftByBuild /\ Finish("failed")
    /\ UNCHANGED <<offered, charges, project, checkout, copies, dirs>>

Services == {"postgres", "data_store"}

EmptyProject == [modes |-> {}, running |-> {}, db |-> None, stamp |-> None]

\* What the project holds when MODE was started from the files this server uses.
Started(mode) ==
    [modes |-> {mode}, running |-> Services,
     db |-> IF mode = "TEST" THEN "test" ELSE "own",
     stamp |-> IF mode = "TEST" THEN testImage ELSE None]

\* docker compose down: all containers gone, or (a failed one) stopped where they are.
Down ==
    /\ AtStep({"down"})
    /\ \/ /\ project' = EmptyProject
          /\ Advance([call EXCEPT !.stopped = TRUE])
       \/ /\ \/ UNCHANGED project
             \/ project' = [project EXCEPT !.running = {}]
          /\ Finish("failed")
    /\ UNCHANGED <<offered, charges, testImage, checkout, copies, dirs>>

\* An up that fails or is killed: no container yet, some or all of them running.
LeftByUp(mode) == {project, Started(mode)} \cup {[Started(mode) EXCEPT !.running = up] : up \in {{}, {"postgres"}}}

UpMode == IF call.verb = "test_up" THEN "TEST" ELSE "DEV"

\* The up of either mode: healthy, or failed.
Up ==
    /\ AtStep({"up"})
    /\ \/ project' = Started(UpMode) /\ Advance(call)
       \/ project' \in LeftByUp(UpMode) /\ Finish("failed")
    /\ UNCHANGED <<offered, charges, testImage, checkout, copies, dirs>>

\* tools starts pgAdmin, and postgres with it when it is down, from the dev files.
WithPostgres ==
    IF project.modes = {} THEN [Started("DEV") EXCEPT !.running = {"postgres"}]
                          ELSE [project EXCEPT !.running = @ \cup {"postgres"}]

Tools ==
    /\ AtStep({"tools"})
    /\ \/ project' = WithPostgres /\ Advance(call)
       \/ project' \in {project, WithPostgres} /\ Finish("failed")
    /\ UNCHANGED <<offered, charges, testImage, checkout, copies, dirs>>

\* restart of the service named, never postgres: it keeps the container and what it runs, and starts
\* one that was stopped.  One that fails or is killed may have stopped it only.
Restarted == [project EXCEPT !.running = @ \cup {"data_store"}]
LeftByRestart == {project, Restarted, [project EXCEPT !.running = @ \ {"data_store"}]}

Restart ==
    /\ AtStep({"restart"})
    /\ \/ /\ project.modes # {}
          /\ project' \in {project, Restarted}
          /\ Advance(call)
       \/ /\ project' \in IF project.modes = {} THEN {project} ELSE LeftByRestart
          /\ Finish("failed")
    /\ UNCHANGED <<offered, charges, testImage, checkout, copies, dirs>>

\* Steps that write the database of the running postgres: they answer the call, and may have
\* written whatever the answer is.  The seed producer may itself refuse (exit status 3).
WriteStep ==
    /\ AtStep({"migrate", "suite", "produce"})
    /\ \/ Advance(call)
       \/ Finish("failed")
       \/ Current = "produce" /\ Finish("refused")
    /\ UNCHANGED <<offered, charges, project, testImage, checkout, copies, dirs>>

-----------------------------------------------------------------------------
(* The snapshot of a worktree. *)

NoCopy == [st |-> "none", cancel |-> FALSE]

\* The call hands the copy to a thread and awaits it.
StartCopy(g) ==
    /\ AtStep({"snapshot"})
    /\ call.gen = None
    /\ copies[g].st = "none"
    /\ g \notin {dirs.live, dirs.new, dirs.old}
    /\ call' = [call EXCEPT !.gen = g]
    /\ copies' = [copies EXCEPT ![g] = [st |-> "waiting", cancel |-> FALSE]]
    /\ UNCHANGED <<offered, answer, charges, project, testImage, checkout, dirs>>

\* The thread takes _SNAPSHOT_LOCK and clears what an earlier copy left.
Acquire(g) ==
    /\ copies[g].st = "waiting"
    /\ dirs.lock = None
    /\ copies' = [copies EXCEPT ![g].st = "copying"]
    /\ dirs' = [dirs EXCEPT !.lock = g, !.new = None, !.old = None]
    /\ UNCHANGED <<offered, call, answer, charges, project, testImage, checkout>>

\* Mutant: the copy does not look at its cancel event.
CopyBuiltAnyway(g) ==
    /\ copies[g].st = "copying"
    /\ copies' = [copies EXCEPT ![g].st = "built"]
    /\ dirs' = [dirs EXCEPT !.new = g]
    /\ UNCHANGED <<offered, call, answer, charges, project, testImage, checkout>>

\* The copy is complete and verified; a cancelled one is never.
CopyBuilt(g) ==
    /\ copies[g].st = "copying"
    /\ ~copies[g].cancel
    /\ copies' = [copies EXCEPT ![g].st = "built"]
    /\ dirs' = [dirs EXCEPT !.new = g]
    /\ UNCHANGED <<offered, call, answer, charges, project, testImage, checkout>>

\* A refused or cancelled copy, or one an OSError broke, removes source.new and leaves source as it was.
CopyAborted(g) ==
    /\ copies[g].st = "copying"
    /\ \E st \in {"aborted", "broken"} : copies' = [copies EXCEPT ![g].st = st]
    /\ dirs' = [dirs EXCEPT !.lock = None, !.new = None]
    /\ UNCHANGED <<offered, call, answer, charges, project, testImage, checkout>>

\* An OSError outside the copying: while an earlier copy's leavings are cleared, at either rename
\* (after the first no snapshot is live), or while the old copy is removed.  The lock is released.
CopyBroken(g) ==
    /\ \/ /\ copies[g].st = "waiting" /\ dirs.lock = None
          /\ dirs' \in {dirs, [dirs EXCEPT !.new = None]}
       \/ /\ copies[g].st = "built"
          /\ dirs' = [dirs EXCEPT !.lock = None]
       \/ /\ copies[g].st = "swapping"
          /\ dirs' \in {[dirs EXCEPT !.lock = None], [dirs EXCEPT !.live = g, !.new = None, !.lock = None]}
    /\ copies' = [copies EXCEPT ![g].st = "broken"]
    /\ UNCHANGED <<offered, call, answer, charges, project, testImage, checkout>>

\* os.rename(live, old), when there is a live snapshot.
SwapOut(g) ==
    /\ copies[g].st = "built"
    /\ copies' = [copies EXCEPT ![g].st = "swapping"]
    /\ dirs' = [dirs EXCEPT !.old = dirs.live, !.live = None]
    /\ UNCHANGED <<offered, call, answer, charges, project, testImage, checkout>>

\* os.rename(new, live), the old copy removed and the lock released.
SwapIn(g) ==
    /\ copies[g].st = "swapping"
    /\ copies' = [copies EXCEPT ![g].st = "done"]
    /\ dirs' = [dirs EXCEPT !.live = g, !.new = None, !.old = None, !.lock = None]
    /\ UNCHANGED <<offered, call, answer, charges, project, testImage, checkout>>

\* The awaited thread's result reaches the call.
CopyAwaited ==
    /\ AtStep({"snapshot"})
    /\ call.gen # None
    /\ \/ copies[call.gen].st = "done" /\ Advance(call)
       \/ copies[call.gen].st = "aborted" /\ Finish("refused")
       \/ copies[call.gen].st = "broken" /\ Finish("error")
    /\ copies' = [copies EXCEPT ![call.gen] = NoCopy]
    /\ UNCHANGED <<offered, charges, project, testImage, checkout, dirs>>

\* A copy whose call is gone ends unobserved.
CopyForgotten(g) ==
    /\ copies[g].st \in {"done", "aborted", "broken"}
    /\ call.gen # g
    /\ copies' = [copies EXCEPT ![g] = NoCopy]
    /\ UNCHANGED <<offered, call, answer, charges, project, testImage, checkout, dirs>>

-----------------------------------------------------------------------------
(* What ends a call from outside. *)

\* asyncio.timeout: the step's process group is killed, or the copy thread told to stop; what
\* the step had done by then stays done.
Timeout ==
    /\ Running
    /\ Finish("timeout")
    /\ project' \in CASE AtStep({"down"}) -> {project, [project EXCEPT !.running = {}], EmptyProject}
                      [] AtStep({"up"}) -> LeftByUp(UpMode)
                      [] AtStep({"tools"}) -> {project, WithPostgres}
                      [] AtStep({"restart"}) /\ project.modes # {} -> LeftByRestart
                      [] OTHER -> {project}
    /\ testImage' \in IF AtStep({"build"}) /\ call.verb = "test_build" THEN LeftByBuild ELSE {testImage}
    /\ copies' = IF AtStep({"snapshot"}) /\ call.gen # None
                   THEN [copies EXCEPT ![call.gen].cancel = TRUE]
                   ELSE copies
    /\ UNCHANGED <<offered, charges, checkout, dirs>>

\* The server is restarted: its memory, the lock and its threads are gone, the directories stay.
ServerRestart ==
    /\ Finish("none")
    /\ charges' = <<>>
    /\ copies' = [g \in Gens |-> NoCopy]
    /\ dirs' = [dirs EXCEPT !.lock = None]
    /\ UNCHANGED <<offered, project, testImage, checkout>>

\* What the owner changes while a call runs the call has no longer seen.
Unseen(what) == call' = [call EXCEPT !.seen = @ \ {what}]

\* The owner, from the host: any launch or stop of the project, by make or by hand.
OperatorLaunch ==
    /\ project' \in {EmptyProject, Started("DEV"), Started("TEST"),
                     [Started("TEST") EXCEPT !.db = "own"],
                     [Started("DEV") EXCEPT !.modes = {"PROD"}],
                     [Started("DEV") EXCEPT !.modes = {"DEV", "TEST"}]}
    /\ Unseen("project")
    /\ UNCHANGED <<offered, answer, charges, testImage, checkout, copies, dirs>>

\* The owner rebuilds the :test images with make.
OperatorBuild ==
    /\ testImage' = checkout
    /\ Unseen("image")
    /\ UNCHANGED <<offered, answer, charges, project, checkout, copies, dirs>>

\* Someone edits the checkout, whatever runs.
CheckoutEdited ==
    /\ checkout' \in Versions
    /\ UNCHANGED <<offered, call, answer, charges, project, testImage, copies, dirs>>

-----------------------------------------------------------------------------
Init ==
    /\ offered \in VerbGroups
    /\ call = Idle
    /\ answer = "none"
    /\ charges = <<>>
    /\ project = EmptyProject
    /\ testImage = None
    /\ checkout \in Versions
    /\ copies = [g \in Gens |-> NoCopy]
    /\ dirs = [live |-> None, new |-> None, old |-> None, lock |-> None]

Checks == OutsideCheck \/ ModeGuard \/ StackCheck \/ Charge
DockerSteps == Digests \/ QuietStep \/ TestBuild \/ Down \/ Up \/ Tools \/ Restart \/ WriteStep
CopyThread(g) ==
    Acquire(g) \/ CopyBuilt(g) \/ CopyAborted(g) \/ CopyBroken(g) \/ SwapOut(g) \/ SwapIn(g)
    \/ CopyForgotten(g)

Next ==
    \/ \E v \in offered : StartVerb(v)
    \/ Checks
    \/ DockerSteps
    \/ \E g \in Gens : StartCopy(g) \/ CopyThread(g)
    \/ CopyAwaited
    \/ Tick
    \/ Timeout
    \/ ServerRestart
    \/ OperatorLaunch
    \/ OperatorBuild
    \/ CheckoutEdited

Spec == Init /\ [][Next]_vars

-----------------------------------------------------------------------------
(* Properties. *)

TypeOK ==
    /\ Running => /\ call.verb \in offered
                  /\ call.pc \in 1..Len(Program(call.verb, call.mode))
    /\ answer \in Answers \cup {None}
    /\ charges \in Seq(0..BudgetWindow)
    /\ copies \in [Gens -> [st : {"none", "waiting", "copying", "built", "swapping", "done",
                                  "aborted", "broken"},
                            cancel : BOOLEAN]]
    /\ dirs \in [live : Gens \cup {None}, new : Gens \cup {None},
                 old : Gens \cup {None}, lock : Gens \cup {None}]

\* A call that is past its snapshot builds from its own copy: no copy of an earlier call that
\* timed out, still running in its thread, replaces or removes the live snapshot under it.
SnapshotIsOwn ==
    Running /\ call.gen # None /\ ~AtStep({"snapshot"}) => dirs.live = call.gen

\* The system suite and the seed producer write only the test database of a project started from
\* the test files, whose running services are stamped with the digest the call took of the checkout:
\* an owner's launch gets past the checks only after the last one that looks at the mount.  And no
\* verb stops, starts or migrates a project that held a production container when its mode was read.
SuiteWritesOnlyTest ==
    "project" \in call.seen =>
        /\ AtStep({"suite", "produce"}) =>
              /\ project.modes = {"TEST"}
              /\ project.db = "test"
              /\ project.stamp = call.digest
        /\ AtStep({"down", "up", "restart", "tools", "migrate"}) => "PROD" \notin project.modes

\* migrate upgrades the stack of the mode it announced, and in TEST mode with the code that both
\* the one-off's image and the running services are stamped with, unless the owner launched a
\* project or rebuilt the image behind its checks.
MigratesWhatRuns ==
    AtStep({"migrate"}) =>
        /\ "project" \in call.seen =>
             /\ project.modes = {call.mode}
             /\ call.mode = "TEST" /\ "data_store" \in project.running => project.stamp = call.digest
        /\ call.mode = "TEST" /\ "image" \in call.seen => testImage = call.digest

\* A call that ends refused left the project as it found it and was not charged, except when
\* the seed producer itself refuses.
RefusalIsClean ==
    [][Running /\ answer' = "refused" =>
         /\ ~call.stopped /\ project' = project
         /\ call.charged => call.verb = "seed_dump"]_vars

\* Once a call has stopped the project nothing but the network is between it and the up: no
\* refusal, failed digest or failed pull leaves the project down.
StoppedIsRestarted == Running /\ call.stopped => AtStep({"network", "up"})
=============================================================================
