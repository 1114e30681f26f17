------------------------------ MODULE SuiteRun -------------------------------
(***************************************************************************)
(* Test suites (components/testSuite.ts) and the commands `test' and `run' *)
(* (cmd/kiwiCLI.ts): recipes are archived, a runner is set up, they run in *)
(* it by runRecipesFromArchive, their statistics are fetched, the runner is*)
(* torn down.                                                              *)
(***************************************************************************)
EXTENDS Runners, SequencesExt

CONSTANT
  Programs  \* what the command line may ask for: a sequence of suites, or one run

Hooks == {"beforeAll", "beforeEach", "afterEach", "afterAll"}

(* run: it is the command `run'; local: it needs no container; clean: each *)
(* test has a runner of its own; broken: it lacks a dependency.            *)
SuiteConfigs ==
  [run : BOOLEAN, ids : Seq(STRING), hooks : SUBSET Hooks, local : BOOLEAN, clean : BOOLEAN,
   mocks : SUBSET STRING, broken : BOOLEAN]

(* A suite has a test (`min(1)').                                          *)
ASSUME ProgramsAssumption ==
  \A program \in Programs :
    /\ program \in Seq(SuiteConfigs)
    /\ \A s \in DOMAIN program :
         IF program[s].run THEN Len(program) = 1 ELSE program[s].ids # <<>>

VARIABLES
  suites,   \* the suites, or the run
  over,     \* how many of them are over
  at,       \* the test at hand, of the suite at hand
  reports,  \* what is known of every test of every suite
  left,     \* the recipes the process in the runner has yet to run
  stats,    \* the statistics file it has written
  runs      \* every call of runRecipesFromArchive, and what ran in it

suiteVars == <<suites, over, at, reports, left, stats, runs>>
vars == <<step, containers, runner, faults, suites, over, at, reports, left, stats, runs>>

(* The sets of recipes that one call runs: each test between `beforeEach'  *)
(* and `afterEach'; `beforeAll' and `afterAll' are tests of their own.     *)
Hook(suite, hook) == IF hook \in suite.hooks THEN <<hook>> ELSE <<>>

TestRecipes(suite) ==
  IF suite.run THEN <<suite.ids>>
  ELSE LET alone(hook) == [i \in DOMAIN Hook(suite, hook) |-> <<hook>>]
       IN alone("beforeAll")
          \o [i \in DOMAIN suite.ids |->
                Hook(suite, "beforeEach") \o <<suite.ids[i]>> \o Hook(suite, "afterEach")]
          \o alone("afterAll")

Null == [state |-> "null", stats |-> <<>>]

Init ==
  /\ suites \in Programs
  /\ step = "next" /\ over = 0 /\ at = 0
  /\ containers = <<>> /\ runner = NewRunner(FALSE) /\ faults = 0
  /\ reports = [s \in DOMAIN suites |-> [i \in DOMAIN TestRecipes(suites[s]) |-> Null]]
  /\ left = <<>> /\ stats = <<>> /\ runs = <<>>

Suite == suites[over + 1]

(* An archive cannot be made of recipes of the same id, or that lack a     *)
(* dependency.                                                             *)
Archivable(suite) == IsInjective(suite.ids) /\ ~suite.broken

PrepareArchive ==
  /\ step = "next" /\ over < Len(suites)
  /\ IF Archivable(Suite)
     THEN /\ step' = FirstStep(Suite.local)
          /\ runner' = NewRunner(Suite.local)
          /\ UNCHANGED over
     ELSE over' = over + 1 /\ UNCHANGED <<step, runner>>
  /\ at' = 0
  /\ UNCHANGED <<containers, faults, suites, reports, left, stats, runs>>

Prepare == (SetUp \/ UploadArchive) /\ UNCHANGED suiteVars

SetReport(report) == reports' = [reports EXCEPT ![over + 1][at'] = report]

(* Mutant of TakeUp: the test that comes last is taken up first.           *)
TakeUpLast ==
  /\ step = "test"
  /\ at' = Len(reports[over + 1]) - at
  /\ SetReport([state |-> "started", stats |-> <<>>])
  /\ step' = "exec"
  /\ UNCHANGED <<containers, runner, faults, suites, over, left, stats, runs>>

TakeUp ==
  /\ step = "test"
  /\ at' = at + 1
  /\ SetReport([state |-> "started", stats |-> <<>>])
  /\ step' = "exec"
  /\ UNCHANGED <<containers, runner, faults, suites, over, left, stats, runs>>

(* The process in the runner: it may fail before it runs anything.         *)
Exec ==
  /\ step = "exec"
  /\ \/ ~Alive /\ FoundDead /\ step' = "failed" /\ UNCHANGED <<left, runs>>
     \/ /\ Alive
        /\ \/ runner.intact /\ step' = "inside" /\ UNCHANGED faults
              /\ left' = TestRecipes(Suite)[at]
              /\ runs' = Append(runs, [suite |-> over + 1, test |-> at,
                                       container |-> runner.id, ran |-> <<>>])
           \/ (IF runner.intact THEN Command("bad") ELSE UNCHANGED faults)
              /\ step' = "failed" /\ UNCHANGED <<left, runs>>
        /\ UNCHANGED <<containers, runner>>
  /\ stats' = <<>>
  /\ UNCHANGED <<suites, over, at, reports>>

(* The first recipe that fails is the last to run.                         *)
AfterFailure(ok) == IF ok THEN Tail(left) ELSE <<>>

(* The mocks of a test are with the recipe that is archived, but are not   *)
(* part of what the archive keeps of it.                                   *)
Mocked(id) == FALSE

(* A process in a container runs on when the command that waits for it was *)
(* killed, as long as it is followed: until its statistics are fetched.    *)
OnItsOwn == step \in {"log", "stats"} /\ ~runner.local

RunRecipe(ok) ==
  /\ step = "inside" \/ OnItsOwn
  /\ left # <<>> /\ Alive
  /\ runs' = [runs EXCEPT ![Len(runs)].ran =
                Append(@, [id |-> Head(left), ok |-> ok, mocked |-> Mocked(Head(left))])]
  /\ left' = AfterFailure(ok)
  /\ UNCHANGED <<step, containers, runner, faults, suites, over, at, reports, stats>>

AfterRun == IF runner.local THEN "stats" ELSE "log"

(* The statistics are written once all is done.                            *)
FinishRun ==
  /\ step = "inside" \/ (OnItsOwn /\ stats # runs[Len(runs)].ran)
  /\ left = <<>> /\ Alive
  /\ stats' = runs[Len(runs)].ran
  /\ step' = IF step # "inside" THEN step ELSE AfterRun
  /\ UNCHANGED <<containers, runner, faults, suites, over, at, reports, left, runs>>

(* The container dies with the process in it.                              *)
RunDies ==
  /\ step = "inside" /\ FoundDead
  /\ step' = "failed" /\ left' = <<>>
  /\ UNCHANGED <<suites, over, at, reports, stats, runs>>

(* The command is killed, which passes for its end: on the machine it is   *)
(* the process itself, in a container only what waits for it.              *)
RunLost ==
  /\ step = "inside" /\ Alive /\ Command("lost")
  /\ step' = AfterRun
  /\ left' = IF runner.local THEN <<>> ELSE left
  /\ UNCHANGED <<containers, runner, suites, over, at, reports, stats, runs>>

(* The log file is fetched whatever became of the process; without it the  *)
(* run fails.                                                              *)
DownloadLog ==
  /\ step = "log"
  /\ \/ FoundDead /\ step' = "failed"
     \/ /\ Alive
        /\ \E outcome \in Outcomes :
             Command(outcome) /\ step' = IF outcome = "bad" THEN "failed" ELSE "stats"
        /\ UNCHANGED <<containers, runner>>
  /\ UNCHANGED suiteVars

(* Mutant of Kept: the statistics of whatever ran last.                    *)
KeptOld(got) == IF got THEN stats ELSE IF runs = <<>> THEN <<>> ELSE runs[1].ran

Kept(got) == IF got THEN stats ELSE <<>>

Clean == Suite.clean

(* Without statistics the test is reported all the same.                   *)
FetchStats ==
  /\ step = "stats"
  /\ at' = at
  /\ \/ FoundDead /\ SetReport([state |-> "reported", stats |-> Kept(FALSE)])
     \/ /\ Alive
        /\ \E outcome \in Outcomes :
             /\ Command(outcome)
             /\ SetReport([state |-> "reported", stats |-> Kept(outcome = "done")])
        /\ UNCHANGED <<containers, runner>>
  /\ step' = IF Clean \/ at = Len(reports[over + 1]) THEN "done" ELSE "test"
  /\ UNCHANGED <<suites, over, left, stats, runs>>

(* The runner is torn down after the last test, or each, and when anything *)
(* failed; then the suite is over.                                         *)
EndRunner ==
  /\ \/ step \in {"done", "failed"}
     \/ step = "setUpFailed" /\ ~Suite.run
  /\ LET again == step = "done" /\ Clean /\ at < Len(reports[over + 1]) IN
       /\ TearDown(IF again THEN FirstStep(Suite.local) ELSE "next")
       /\ over' = IF again THEN over ELSE over + 1
  /\ UNCHANGED <<suites, at, reports, left, stats, runs>>

(* The command `run' sets its runner up outside of what it protects.       *)
Abandon ==
  /\ step = "setUpFailed" /\ Suite.run
  /\ step' = "next" /\ over' = over + 1
  /\ UNCHANGED <<containers, runner, faults, suites, at, reports, left, stats, runs>>

Inside == (\E ok \in BOOLEAN : RunRecipe(ok)) \/ FinishRun \/ RunDies \/ RunLost
Work == PrepareArchive \/ Prepare \/ TakeUp \/ Exec \/ Inside \/ DownloadLog \/ FetchStats
        \/ EndRunner \/ Abandon

Next == Work \/ (Die /\ UNCHANGED suiteVars)

(* Commands end; containers need not die.                                  *)
Spec == Init /\ [][Next]_vars /\ WF_vars(Work)

-----------------------------------------------------------------------------
Finished == step = "next" /\ over = Len(suites)

(* "Make sure to always terminate runners" (testSuite.ts:224): whatever    *)
(* fails, no container runs on but the one at hand, unless its name was    *)
(* lost or it could not be killed; `run' leaves one it could not set up.   *)
ContainersGone ==
  \A id \in DOMAIN containers : containers[id].up /\ containers[id].told =>
    /\ id = runner.id
    /\ step = "next" => suites[over].run

RunsOf(s, i) == {r \in DOMAIN runs : runs[r].suite = s /\ runs[r].test = i}

(* "Null means the whole test setup has failed" (testSuite.ts:56), and what*)
(* is reported of a test is what ran for it, to its end, or nothing.       *)
ReportsTrue ==
  \A s \in DOMAIN reports : \A i \in DOMAIN reports[s] :
    LET report == reports[s][i] IN
      /\ report.state # "started" \/ s = over + 1 \/ (s <= over /\ report.stats = <<>>)
      /\ report.state = "null" => RunsOf(s, i) = {}
      /\ report.stats # <<>> => \E r \in DOMAIN runs : RunsOf(s, i) = {r} /\ report.stats = runs[r].ran

(* The reports are those SuiteReport promises; every suite is over in the  *)
(* end, whatever became of the ones before it.                             *)
Report == INSTANCE SuiteReport WITH
  tests <- [s \in DOMAIN suites |-> Len(reports[s])],
  reports <- [s \in DOMAIN reports |-> [i \in DOMAIN reports[s] |-> reports[s][i].state]],
  over <- over
ReportSpec == Report!Spec

=============================================================================
