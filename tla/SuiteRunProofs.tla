--------------------------- MODULE SuiteRunProofs ----------------------------
(***************************************************************************)
(* Proofs about SuiteRun: no container is left running, what is reported of*)
(* a test is what ran for it, and the reports are those SuiteReport        *)
(* promises, for every sequence of suites and however many things fail.    *)
(***************************************************************************)
EXTENDS SuiteRun, SequenceTheorems, TLAPS

PreparingSteps == {"build", "run", "ready", "node", "version", "bundle", "archive"}
RunningSteps == {"inside", "log", "stats"}
TestingSteps == {"exec"} \cup RunningSteps
StepNames ==
  {"next", "test", "done", "failed", "setUpFailed"} \cup PreparingSteps \cup TestingSteps

\* The hooks have ids of their own.
RecipeIds == STRING \cup Hooks
RanRecipes == Seq([id : RecipeIds, ok : BOOLEAN, mocked : BOOLEAN])
Calls == [suite : Nat, test : Nat, container : Int, ran : RanRecipes]
TestReports == [state : {"null", "started", "reported"}, stats : RanRecipes]
RunnerStates == [local : BOOLEAN, id : Int, dead : BOOLEAN, intact : BOOLEAN, tries : Nat]

RunnersOK ==
  /\ step \in StepNames
  /\ containers \in Seq([up : BOOLEAN, told : BOOLEAN])
  /\ runner \in RunnerStates /\ runner.id <= Len(containers)
  /\ faults \in Nat

SuitesOK ==
  /\ suites \in Programs
  /\ over \in Nat /\ over <= Len(suites) /\ (step # "next" => over < Len(suites))
  /\ at \in Nat
  /\ reports \in Seq(Seq(TestReports)) /\ Len(reports) = Len(suites)
  /\ \A s \in 1 .. Len(suites) : Len(reports[s]) = Len(TestRecipes(suites[s]))
  /\ step # "next" => at <= Len(reports[over + 1])
  /\ step \in PreparingSteps \cup {"test"} => at < Len(reports[over + 1])
  /\ step \in TestingSteps => at >= 1
  /\ step \in RunningSteps => runs # <<>>
  /\ left \in Seq(RecipeIds) /\ stats \in RanRecipes
  /\ runs \in Seq(Calls)

TypeOK == RunnersOK /\ SuitesOK

(* Only the container at hand may run on, and once there is none at hand   *)
(* only that of a run.                                                     *)
RunsOn(id) == containers[id].up /\ containers[id].told
OfRun == over > 0 /\ suites[over].run

ContainerInv ==
  /\ \A id \in 1 .. Len(containers) :
       RunsOn(id) => id = runner.id /\ ~runner.dead /\ (step = "next" => OfRun)
  /\ runner.dead => runner.id > 0
  /\ step \in {"build", "run"} => runner.id = 0

(* Tests are taken up and reported in their order.                         *)
Progress(i) ==
  IF i > at THEN "null" ELSE IF i = at /\ step \in TestingSteps THEN "started" ELSE "reported"

TestsInOrder ==
  \A s \in 1 .. Len(reports) : \A i \in 1 .. Len(reports[s]) :
    LET report == reports[s][i] IN
    /\ report.state # "reported" => report.stats = <<>>
    /\ s > over + 1 \/ (s = over + 1 /\ step = "next") => report.state = "null"
    /\ s = over + 1 /\ step \notin {"next", "failed", "setUpFailed"} => report.state = Progress(i)

(* Every call was for a test that was taken up, one call for each; the last*)
(* is that of the test at hand, and the statistics are those of this call, *)
(* written once nothing is left to run.                                    *)
IsCall(r, s, i) == runs[r].suite = s /\ runs[r].test = i
LastIsOf(s, i) == runs # <<>> /\ IsCall(Len(runs), s, i)

CallsTold ==
  /\ \A r \in 1 .. Len(runs) :
       /\ runs[r].suite \in 1 .. Len(reports) /\ runs[r].test \in 1 .. Len(reports[runs[r].suite])
       /\ reports[runs[r].suite][runs[r].test].state # "null"
       /\ \A q \in 1 .. Len(runs) : IsCall(q, runs[r].suite, runs[r].test) => q = r
       /\ step = "exec" => ~IsCall(r, over + 1, at)
  /\ step \in RunningSteps => LastIsOf(over + 1, at)
  /\ step \in RunningSteps /\ stats # <<>> =>
       step # "inside" /\ left = <<>> /\ stats = runs[Len(runs)].ran
StatsTold ==
  \A s \in 1 .. Len(reports) : \A i \in 1 .. Len(reports[s]) :
    reports[s][i].stats # <<>> =>
      \E r \in 1 .. Len(runs) : IsCall(r, s, i) /\ reports[s][i].stats = runs[r].ran

-----------------------------------------------------------------------------
(* What is archived of a suite: as many sets of recipes as it has tests and*)
(* hooks around all of them.                                               *)
LEMMA SuiteFacts ==
  ASSUME NEW program \in Programs, NEW s \in 1 .. Len(program)
  PROVE  /\ Len(program) \in Nat /\ program[s] \in SuiteConfigs
         /\ program[s].run => Len(program) = 1
         /\ ~program[s].run => program[s].ids # <<>>
BY ProgramsAssumption

LEMMA ConcatFacts ==
  ASSUME NEW S, NEW s \in Seq(S), NEW t \in Seq(S)
  PROVE  /\ s \o t \in Seq(S) /\ Len(s \o t) \in Nat
         /\ Len(s \o t) >= Len(s) /\ Len(s \o t) >= Len(t)
BY ConcatProperties, LenProperties

LEMMA TestRecipesFacts ==
  ASSUME NEW program \in Programs, NEW s \in 1 .. Len(program)
  PROVE  TestRecipes(program[s]) \in Seq(Seq(RecipeIds)) /\ Len(TestRecipes(program[s])) >= 1
<1> DEFINE suite == program[s]
           alone(hook) == [i \in DOMAIN Hook(suite, hook) |-> <<hook>>]
           tests == [i \in DOMAIN suite.ids |->
                       Hook(suite, "beforeEach") \o <<suite.ids[i]>> \o Hook(suite, "afterEach")]
<1>1. suite \in SuiteConfigs /\ (~suite.run => suite.ids # <<>>)
  BY SuiteFacts
<1>2. suite.ids \in Seq(RecipeIds) /\ Len(suite.ids) \in Nat /\ DOMAIN suite.ids = 1 .. Len(suite.ids)
  <2>1. suite.ids \in Seq(STRING) /\ STRING \subseteq RecipeIds
    BY <1>1 DEF SuiteConfigs, RecipeIds
  <2> HIDE DEF suite
  <2> QED
    BY <2>1, SeqMonotonic, LenProperties
<1>3. CASE suite.run
  BY <1>1, <1>2, <1>3 DEF TestRecipes
<1>4. CASE ~suite.run
  <2>1. ASSUME NEW hook \in Hooks
        PROVE  Hook(suite, hook) \in Seq(RecipeIds) /\ alone(hook) \in Seq(Seq(RecipeIds))
    <3>0. hook \in RecipeIds
      BY DEF RecipeIds
    <3>1. CASE hook \in suite.hooks
      BY <3>0, <3>1 DEF Hook
    <3>2. CASE hook \notin suite.hooks
      BY <3>2 DEF Hook
    <3> QED
      BY <3>1, <3>2
  <2>2. tests \in Seq(Seq(RecipeIds)) /\ Len(tests) = Len(suite.ids)
    <3>1. ASSUME NEW i \in DOMAIN suite.ids PROVE tests[i] \in Seq(RecipeIds)
      <4>1. suite.ids[i] \in RecipeIds /\ <<suite.ids[i]>> \in Seq(RecipeIds)
        BY <1>2
      <4>2. Hook(suite, "beforeEach") \in Seq(RecipeIds) /\ Hook(suite, "afterEach") \in Seq(RecipeIds)
        BY <2>1 DEF Hooks
      <4>3. tests[i] = (Hook(suite, "beforeEach") \o <<suite.ids[i]>>) \o Hook(suite, "afterEach")
        OBVIOUS
      <4> HIDE DEF tests
      <4> QED
        BY <4>1, <4>2, <4>3, ConcatFacts
    <3>2. tests \in [1 .. Len(suite.ids) -> Seq(RecipeIds)]
      BY <1>2, <3>1
    <3> HIDE DEF tests, suite
    <3> QED
      BY <1>2, <3>2
  <2>3. Len(suite.ids) >= 1
    BY <1>1, <1>2, <1>4, EmptySeq
  <2>4. TestRecipes(suite) = (alone("beforeAll") \o tests) \o alone("afterAll")
    BY <1>4 DEF TestRecipes
  <2>5. alone("beforeAll") \in Seq(Seq(RecipeIds)) /\ alone("afterAll") \in Seq(Seq(RecipeIds))
    BY <2>1 DEF Hooks
  <2> HIDE DEF tests, alone, suite
  <2>6. PICK first, last \in Seq(Seq(RecipeIds)) : TestRecipes(suite) = (first \o tests) \o last
    BY <2>4, <2>5
  <2>7. /\ first \o tests \in Seq(Seq(RecipeIds)) /\ Len(first \o tests) \in Nat
        /\ Len(first \o tests) >= Len(tests)
    BY <2>2, <2>6, ConcatFacts
  <2>8. TestRecipes(suite) \in Seq(Seq(RecipeIds)) /\ Len(TestRecipes(suite)) >= Len(first \o tests)
    BY <2>6, <2>7, ConcatFacts
  <2>9. Len(tests) \in Nat /\ Len(TestRecipes(suite)) \in Nat
    BY <2>2, <2>8, LenProperties
  <2>10. TestRecipes(suite) \in Seq(Seq(RecipeIds)) /\ Len(TestRecipes(suite)) >= 1
    BY <1>2, <2>2, <2>3, <2>7, <2>8, <2>9
  <2> QED
    BY <2>10 DEF suite
<1> QED
  BY <1>3, <1>4

-----------------------------------------------------------------------------
(* What the runners do: where an action leads to, and what it leaves alone.*)
LEMMA CommandFacts ==
  ASSUME faults \in Nat, NEW outcome, Command(outcome)
  PROVE  faults' \in Nat
BY DEF Command

LEMMA FoundDeadFacts ==
  ASSUME RunnersOK, FoundDead
  PROVE  /\ runner' \in RunnerStates /\ runner'.id = runner.id
         /\ runner'.dead => runner.id > 0 /\ ~Up(runner.id)
         /\ runner'.local = runner.local
         /\ containers' = containers /\ faults' = faults
<1>1. ~Up(runner.id)
  BY DEF FoundDead, Alive
<1>2. /\ runner' = [runner EXCEPT !.dead = runner.id > 0]
      /\ containers' = containers /\ faults' = faults
  BY DEF FoundDead
<1>3. (runner.id > 0) \in BOOLEAN
  BY DEF RunnersOK, RunnerStates
<1>4. /\ runner' \in RunnerStates /\ runner'.id = runner.id /\ runner'.local = runner.local
      /\ runner'.dead = (runner.id > 0)
  BY <1>2, <1>3 DEF RunnersOK, RunnerStates
<1> QED
  BY <1>1, <1>2, <1>4

LEMMA InRunnerFacts ==
  ASSUME RunnersOK, NEW uses \in BOOLEAN, NEW next, NEW failed, InRunner(uses, next, failed)
  PROVE  /\ runner' \in RunnerStates /\ runner'.id = runner.id
         /\ runner'.dead => runner.dead \/ (runner.id > 0 /\ ~Up(runner.id))
         /\ containers' = containers /\ faults' \in Nat /\ step' \in {next, failed}
<1>1. CASE FoundDead /\ step' = failed
  BY <1>1, FoundDeadFacts DEF RunnersOK
<1>2. CASE RunCommand(uses, next, failed)
  <2>1. CASE uses /\ ~runner.intact /\ step' = failed /\ UNCHANGED <<runner, faults>>
    BY <1>2, <2>1 DEF RunCommand, RunnersOK
  <2>2. ASSUME NEW outcome \in Outcomes, Command(outcome),
               step' = IF outcome = "bad" THEN failed ELSE next,
               runner' = [runner EXCEPT !.intact = @ /\ outcome = "done"]
        PROVE  /\ runner' \in RunnerStates /\ runner'.id = runner.id
               /\ runner'.dead = runner.dead /\ faults' \in Nat /\ step' \in {next, failed}
    BY <2>2, CommandFacts DEF RunnersOK, RunnerStates
  <2> QED
    BY <1>2, <2>1, <2>2 DEF RunCommand
<1> QED
  BY <1>1, <1>2 DEF InRunner, InContainer, OnMachine

(* A container is only ever added by DockerRun.                            *)
LEMMA PrepareFacts ==
  ASSUME RunnersOK, Prepare
  PROVE  /\ step \in PreparingSteps
         /\ step' \in (PreparingSteps \ {"build"}) \cup {"test", "failed", "setUpFailed"}
         /\ runner' \in RunnerStates /\ faults' \in Nat
         /\ UNCHANGED suiteVars
         /\ \/ /\ containers' = containers /\ runner'.id = runner.id
               /\ runner'.dead => runner.dead \/ (runner.id > 0 /\ ~Up(runner.id))
               /\ step' = "run" => step = "build"
            \/ DockerRun /\ step' \in {"setUpFailed", "ready"}
<1>1. CASE BuildImage
  BY <1>1, CommandFacts DEF BuildImage, RunnersOK, RunnerStates, PreparingSteps, Prepare
<1>2. CASE DockerRun
  <2>1. step = "run" /\ UNCHANGED suiteVars
    BY <1>2 DEF DockerRun, Prepare
  <2>2. ASSUME NEW outcome \in Outcomes, Command(outcome),
               step' = IF outcome = "bad" THEN "setUpFailed" ELSE "ready",
               containers' = Created(outcome # "bad", outcome = "done"),
               runner' = [runner EXCEPT !.id = CASE outcome = "done" -> Len(containers')
                                                 [] outcome = "lost" -> -1
                                                 [] OTHER -> @]
        PROVE  runner' \in RunnerStates /\ faults' \in Nat /\ step' \in {"setUpFailed", "ready"}
    <3>1. faults' \in Nat
      BY <2>2, CommandFacts DEF RunnersOK
    <3>2. Len(containers') \in Int
      BY <2>2 DEF Created, RunnersOK
    <3>3. runner.id \in Int /\ runner \in RunnerStates
      BY DEF RunnersOK, RunnerStates
    <3>4. PICK n \in Int : runner' = [runner EXCEPT !.id = n]
      <4>1. CASE outcome = "done"
        BY <2>2, <3>2, <4>1
      <4>2. CASE outcome = "lost"
        <5>1. PICK n \in Int : n = -1
          OBVIOUS
        <5>2. runner' = [runner EXCEPT !.id = n]
          BY <2>2, <4>2, <5>1
        <5> QED
          BY <5>2
      <4>3. CASE outcome = "bad"
        BY <2>2, <3>3, <4>3
      <4> QED
        BY <2>2, <4>1, <4>2, <4>3 DEF Outcomes
    <3>5. runner' \in RunnerStates
      BY <3>3, <3>4 DEF RunnerStates
    <3> QED
      BY <2>2, <3>1, <3>5
  <2>3. runner' \in RunnerStates /\ faults' \in Nat /\ step' \in {"setUpFailed", "ready"}
    <3>1. CASE ~runner.intact
      BY <1>2, <3>1 DEF DockerRun, RunnersOK, runnerVars
    <3>2. CASE runner.intact
      BY <1>2, <2>2, <3>2 DEF DockerRun
    <3> QED
      BY <3>1, <3>2
  <2> QED
    BY <1>2, <2>1, <2>3 DEF PreparingSteps
<1>3. CASE WaitReady
  <2>1. CASE FoundDead /\ step' = "setUpFailed"
    BY <1>3, <2>1, FoundDeadFacts DEF WaitReady, RunnersOK, PreparingSteps, Prepare
  <2> QED
    BY <1>3, <2>1 DEF WaitReady, RunnersOK, RunnerStates, PreparingSteps, Prepare, runnerVars
<1>4. CASE UploadNode \/ CheckVersion \/ UploadBundle \/ UploadArchive
  <2>1. PICK uses \in BOOLEAN, next \in {"version", "bundle", "archive", "test"},
             failed \in {"setUpFailed", "failed"} :
          InRunner(uses, next, failed) /\ step \in {"node", "version", "bundle", "archive"}
    BY <1>4 DEF UploadNode, CheckVersion, UploadBundle, UploadArchive
  <2>2. /\ runner' \in RunnerStates /\ runner'.id = runner.id
        /\ runner'.dead => runner.dead \/ (runner.id > 0 /\ ~Up(runner.id))
        /\ containers' = containers /\ faults' \in Nat /\ step' \in {next, failed}
    BY <2>1, InRunnerFacts
  <2> QED
    BY <2>1, <2>2 DEF PreparingSteps, Prepare
<1> QED
  BY <1>1, <1>2, <1>3, <1>4 DEF Prepare, SetUp

LEMMA TearDownFacts ==
  ASSUME RunnersOK, NEW next, TearDown(next)
  PROVE  /\ containers' \in Seq([up : BOOLEAN, told : BOOLEAN]) /\ Len(containers') = Len(containers)
         /\ \A id \in 1 .. Len(containers) :
              /\ id # runner.id \/ runner.dead => containers'[id] = containers[id]
              /\ id = runner.id /\ ~runner.dead => ~(containers'[id].up /\ containers'[id].told)
         /\ runner' = NewRunner(runner.local) /\ faults' \in Nat /\ step' = next
<1>1. PICK outcome \in Killed :
        /\ outcome # "none" => Command(outcome)
        /\ outcome = "none" => UNCHANGED faults
        /\ containers' = CASE outcome = "done" -> [containers EXCEPT ![runner.id].up = FALSE]
                           [] outcome = "none" -> containers
                           [] OTHER -> [containers EXCEPT ![runner.id].told = FALSE]
  BY DEF TearDown
<1>2. faults' \in Nat
  BY <1>1, CommandFacts DEF RunnersOK
<1>3. runner' = NewRunner(runner.local) /\ step' = next
  BY DEF TearDown
<1>4. CASE outcome = "none"
  BY <1>1, <1>2, <1>3, <1>4 DEF Killed, RunnersOK
<1>5. CASE outcome # "none"
  <2>1. runner.id \in 1 .. Len(containers) /\ ~runner.dead /\ outcome \in {"done", "bad", "lost"}
    BY <1>1, <1>5 DEF Killed, RunnersOK, RunnerStates
  <2>2. PICK n \in 1 .. Len(containers) : n = runner.id
    BY <2>1
  <2>3. containers \in Seq([up : BOOLEAN, told : BOOLEAN])
    BY DEF RunnersOK
  <2>4. containers[n] \in [up : BOOLEAN, told : BOOLEAN]
    BY <2>3, ElementOfSeq
  <2>5. PICK c \in [up : BOOLEAN, told : BOOLEAN] :
          containers' = [containers EXCEPT ![n] = c] /\ ~(c.up /\ c.told)
    <3>1. CASE outcome = "done"
      <4>1. PICK c : c = [containers[n] EXCEPT !.up = FALSE]
        OBVIOUS
      <4>2. c \in [up : BOOLEAN, told : BOOLEAN] /\ c.up = FALSE
        BY <2>4, <4>1
      <4>3. containers' = [containers EXCEPT ![n] = c]
        BY <1>1, <2>2, <3>1, <4>1
      <4> QED
        BY <4>2, <4>3, Zenon
    <3>2. CASE outcome # "done"
      <4>1. PICK c : c = [containers[n] EXCEPT !.told = FALSE]
        OBVIOUS
      <4>2. c \in [up : BOOLEAN, told : BOOLEAN] /\ c.told = FALSE
        BY <2>4, <4>1
      <4>3. containers' = [containers EXCEPT ![n] = c]
        BY <1>1, <1>5, <2>2, <3>2, <4>1
      <4> QED
        BY <4>2, <4>3, Zenon
    <3> QED
      BY <3>1, <3>2
  <2> QED
    BY <1>2, <1>3, <2>1, <2>2, <2>3, <2>5
<1> QED
  BY <1>4, <1>5

(* The steps of the process in the runner, whoever still waits for it.     *)
LEMMA InsideFacts ==
  ASSUME Inside
  PROVE  /\ step \in RunningSteps /\ step' \in RunningSteps \cup {"failed"}
         /\ UNCHANGED <<suites, over, at, reports>>
<1>1. ASSUME NEW ok \in BOOLEAN, RunRecipe(ok) PROVE step \in RunningSteps /\ step' = step
  BY <1>1 DEF RunRecipe, OnItsOwn, RunningSteps
<1>2. CASE FinishRun
  BY <1>2 DEF FinishRun, OnItsOwn, AfterRun, RunningSteps
<1>3. CASE RunDies \/ RunLost
  BY <1>3 DEF RunDies, RunLost, AfterRun, RunningSteps
<1>4. UNCHANGED <<suites, over, at, reports>>
  BY DEF Inside, RunRecipe, FinishRun, RunDies, RunLost
<1> QED
  BY <1>1, <1>2, <1>3, <1>4 DEF Inside, RunningSteps

(* A step while tests are run leaves the container at hand as it is.       *)
Steady ==
  /\ containers' = containers
  /\ runner' \in RunnerStates /\ runner'.id = runner.id
  /\ runner'.dead => runner.dead \/ (runner.id > 0 /\ ~Up(runner.id))
  /\ faults' \in Nat

LEMMA TestingSteady ==
  ASSUME RunnersOK, TakeUp \/ Exec \/ Inside \/ DownloadLog \/ FetchStats
  PROVE  Steady /\ step # "next" /\ step' \in {"test", "done", "failed"} \cup TestingSteps
<1>1. ASSUME FoundDead PROVE Steady
  BY <1>1, FoundDeadFacts DEF Steady, RunnersOK
<1>2. ASSUME UNCHANGED <<containers, runner>>, faults' \in Nat PROVE Steady
  BY <1>2 DEF Steady, RunnersOK
<1>3. faults \in Nat /\ \A outcome : Command(outcome) => faults' \in Nat
  BY CommandFacts DEF RunnersOK
<1>4. CASE TakeUp
  BY <1>2, <1>3, <1>4 DEF TakeUp, TestingSteps, RunningSteps
<1>5. CASE Exec
  <2>1. step = "exec" /\ step' \in {"failed", "inside"}
    BY <1>5 DEF Exec
  <2>2. FoundDead \/ (UNCHANGED <<containers, runner>> /\ (UNCHANGED faults \/ Command("bad")))
    BY <1>5 DEF Exec
  <2> QED
    BY <1>1, <1>2, <1>3, <2>1, <2>2 DEF TestingSteps, RunningSteps
<1>6. CASE Inside
  <2>1. step \in RunningSteps /\ step' \in RunningSteps \cup {"failed"}
    BY <1>6, InsideFacts
  <2>2. FoundDead \/ (UNCHANGED <<containers, runner>> /\ (UNCHANGED faults \/ Command("lost")))
    BY <1>6 DEF Inside, RunRecipe, FinishRun, RunDies, RunLost
  <2> QED
    BY <1>1, <1>2, <1>3, <2>1, <2>2 DEF TestingSteps, RunningSteps
<1>7. CASE DownloadLog
  <2>1. step = "log" /\ step' \in {"failed", "stats"}
    BY <1>7 DEF DownloadLog
  <2>2. FoundDead \/ (UNCHANGED <<containers, runner>> /\ \E outcome \in Outcomes : Command(outcome))
    BY <1>7 DEF DownloadLog
  <2> QED
    BY <1>1, <1>2, <1>3, <2>1, <2>2 DEF TestingSteps, RunningSteps
<1>8. CASE FetchStats
  <2>1. step = "stats" /\ step' \in {"done", "test"}
    BY <1>8 DEF FetchStats
  <2>2. FoundDead \/ (UNCHANGED <<containers, runner>> /\ \E outcome \in Outcomes : Command(outcome))
    BY <1>8 DEF FetchStats
  <2> QED
    BY <1>1, <1>2, <1>3, <2>1, <2>2 DEF TestingSteps, RunningSteps
<1> QED
  BY <1>4, <1>5, <1>6, <1>7, <1>8

LEMMA SuiteAtHand ==
  ASSUME TypeOK, over < Len(suites)
  PROVE  /\ over + 1 \in 1 .. Len(suites) /\ Suite \in SuiteConfigs
         /\ Suite.run => Len(suites) = 1
BY SuiteFacts DEF TypeOK, SuitesOK, Suite

LEMMA CreatedFacts ==
  ASSUME RunnersOK, NEW up \in BOOLEAN, NEW told \in BOOLEAN, containers' = Created(up, told)
  PROVE  /\ containers' \in Seq([up : BOOLEAN, told : BOOLEAN])
         /\ Len(containers') = Len(containers) + 1
         /\ \A id \in 1 .. Len(containers) : containers'[id] = containers[id]
         /\ containers'[Len(containers')] = [up |-> up, told |-> told]
BY DEF Created, RunnersOK

(* A container whose name is told is the one at hand.                      *)
LEMMA DockerRunFacts ==
  ASSUME RunnersOK, DockerRun
  PROVE  \/ containers' = containers /\ runner' = runner
         \/ \E up, told \in BOOLEAN :
              /\ containers' = Created(up, told) /\ runner'.dead = runner.dead
              /\ runner'.id \in {runner.id, -1, Len(containers')}
              /\ told => runner'.id = Len(containers')
<1>1. CASE ~runner.intact
  BY <1>1 DEF DockerRun, runnerVars
<1>2. CASE runner.intact
  <2>1. PICK outcome \in Outcomes :
          /\ containers' = Created(outcome # "bad", outcome = "done")
          /\ runner' = [runner EXCEPT !.id = CASE outcome = "done" -> Len(containers')
                                              [] outcome = "lost" -> -1
                                              [] OTHER -> @]
    BY <1>2 DEF DockerRun
  <2>2. PICK id : runner' = [runner EXCEPT !.id = id]
                  /\ id = CASE outcome = "done" -> Len(containers')
                             [] outcome = "lost" -> -1
                             [] OTHER -> runner.id
    BY <2>1
  <2>3. runner'.id = id /\ runner'.dead = runner.dead
    BY <2>2 DEF RunnersOK, RunnerStates
  <2>4. id \in {runner.id, -1, Len(containers')} /\ (outcome = "done" => id = Len(containers'))
    <3>1. CASE outcome = "done"
      BY <2>2, <3>1
    <3>2. CASE outcome = "lost"
      BY <2>2, <3>2
    <3>3. CASE outcome = "bad"
      BY <2>2, <3>3
    <3> QED
      BY <2>1, <3>1, <3>2, <3>3 DEF Outcomes
  <2>5. (outcome # "bad") \in BOOLEAN /\ (outcome = "done") \in BOOLEAN
    OBVIOUS
  <2> QED
    BY <2>1, <2>3, <2>4, <2>5, Zenon
<1> QED
  BY <1>1, <1>2

LEMMA DieFacts ==
  ASSUME RunnersOK, Die
  PROVE  /\ containers' \in Seq([up : BOOLEAN, told : BOOLEAN]) /\ Len(containers') = Len(containers)
         /\ \A id \in 1 .. Len(containers) :
              /\ containers'[id].up => containers[id].up
              /\ containers'[id].told = containers[id].told
         /\ faults' \in Nat /\ UNCHANGED <<step, runner>>
<1>1. containers \in Seq([up : BOOLEAN, told : BOOLEAN])
  BY DEF RunnersOK
<1>2. PICK n \in 1 .. Len(containers) : containers' = [containers EXCEPT ![n].up = FALSE]
  <2>1. DOMAIN containers = 1 .. Len(containers)
    BY <1>1, LenProperties
  <2>2. \E id \in DOMAIN containers : containers' = [containers EXCEPT ![id].up = FALSE]
    BY Zenon DEF Die
  <2> QED
    BY <2>1, <2>2, Zenon
<1>3. containers[n] \in [up : BOOLEAN, told : BOOLEAN]
  BY <1>1, ElementOfSeq
<1>4. PICK c : c = [containers[n] EXCEPT !.up = FALSE]
  OBVIOUS
<1>5. c \in [up : BOOLEAN, told : BOOLEAN] /\ c.up = FALSE /\ c.told = containers[n].told
  BY <1>3, <1>4
<1>6. containers' = [containers EXCEPT ![n] = c]
  BY <1>2, <1>4
<1>7. /\ containers' \in Seq([up : BOOLEAN, told : BOOLEAN]) /\ Len(containers') = Len(containers)
      /\ \A id \in 1 .. Len(containers) : containers'[id] = IF id = n THEN c ELSE containers[id]
  BY <1>1, <1>5, <1>6
<1>8. faults' \in Nat /\ UNCHANGED <<step, runner>>
  BY DEF Die, RunnersOK
<1>9. ASSUME NEW id \in 1 .. Len(containers)
      PROVE  (containers'[id].up => containers[id].up) /\ containers'[id].told = containers[id].told
  BY <1>5, <1>7, Zenon
<1> QED
  BY <1>7, <1>8, <1>9

LEMMA RunnersStep ==
  ASSUME TypeOK, [Next]_vars
  PROVE  RunnersOK'
<1>0. RunnersOK
  BY DEF TypeOK
<1>1. CASE UNCHANGED vars
  BY <1>0, <1>1 DEF vars, RunnersOK
<1>2. CASE PrepareArchive
  <2>1. Suite.local \in BOOLEAN
    BY <1>2, SuiteAtHand DEF PrepareArchive, SuiteConfigs
  <2>2. step' \in StepNames /\ runner' \in {runner, NewRunner(Suite.local)}
        /\ UNCHANGED <<containers, faults>>
    BY <1>2 DEF PrepareArchive, FirstStep, StepNames, PreparingSteps
  <2>3. NewRunner(Suite.local) \in RunnerStates /\ NewRunner(Suite.local).id = 0
    BY <2>1 DEF NewRunner, RunnerStates
  <2>4. runner' \in RunnerStates /\ runner'.id <= Len(containers)
    BY <1>0, <2>2, <2>3 DEF RunnersOK
  <2> QED
    BY <1>0, <2>2, <2>4 DEF RunnersOK
<1>3. CASE Prepare
  <2>1. step' \in StepNames /\ runner' \in RunnerStates /\ faults' \in Nat
    BY <1>0, <1>3, PrepareFacts DEF StepNames
  <2>2. CASE containers' = containers /\ runner'.id = runner.id
    BY <1>0, <2>1, <2>2 DEF RunnersOK
  <2>3. CASE DockerRun
    <3>1. CASE containers' = containers /\ runner' = runner
      BY <1>0, <2>1, <3>1 DEF RunnersOK
    <3>2. ASSUME NEW up \in BOOLEAN, NEW told \in BOOLEAN, containers' = Created(up, told),
                 runner'.id \in {runner.id, -1, Len(containers')}
          PROVE  RunnersOK'
      <4>1. /\ containers' \in Seq([up : BOOLEAN, told : BOOLEAN])
            /\ Len(containers') = Len(containers) + 1
        BY <1>0, <3>2, CreatedFacts
      <4>2. Len(containers) \in Nat /\ runner.id <= Len(containers) /\ runner.id \in Int
        BY <1>0 DEF RunnersOK, RunnerStates
      <4>3. runner'.id <= Len(containers')
        BY <3>2, <4>1, <4>2
      <4> QED
        BY <2>1, <4>1, <4>3 DEF RunnersOK
    <3> QED
      BY <1>0, <2>3, <3>1, <3>2, DockerRunFacts
  <2> QED
    BY <1>0, <1>3, <2>2, <2>3, PrepareFacts
<1>4. CASE TakeUp \/ Exec \/ Inside \/ DownloadLog \/ FetchStats
  <2>1. Steady /\ step' \in StepNames
    BY <1>0, <1>4, TestingSteady DEF StepNames
  <2> QED
    BY <1>0, <2>1 DEF Steady, RunnersOK
<1>5. CASE EndRunner
  <2>1. PICK next \in {"next", "version", "build"} : TearDown(next)
    BY <1>5 DEF EndRunner, FirstStep
  <2>2. /\ containers' \in Seq([up : BOOLEAN, told : BOOLEAN]) /\ Len(containers') = Len(containers)
        /\ runner' = NewRunner(runner.local) /\ faults' \in Nat /\ step' = next
    BY <1>0, <2>1, TearDownFacts
  <2> QED
    BY <1>0, <2>2 DEF RunnersOK, NewRunner, RunnerStates, StepNames, PreparingSteps
<1>6. CASE Abandon
  BY <1>0, <1>6 DEF Abandon, RunnersOK, StepNames
<1>7. CASE Die
  BY <1>0, <1>7, DieFacts DEF RunnersOK
<1> QED
  BY <1>1, <1>2, <1>3, <1>4, <1>5, <1>6, <1>7 DEF Next, Work

-----------------------------------------------------------------------------
(* No container runs on but the one at hand.                               *)
LEMMA ContainerStep ==
  ASSUME TypeOK, ContainerInv, [Next]_vars
  PROVE  ContainerInv'
<1>0. RunnersOK /\ Len(containers) \in Nat /\ runner.id \in Int
  BY DEF TypeOK, RunnersOK, RunnerStates
<1>same. ASSUME containers' = containers
         PROVE  \A id : RunsOn(id)' <=> RunsOn(id)
  BY <1>same DEF RunsOn
<1>up. \A id \in 1 .. Len(containers) : RunsOn(id) => Up(id)
  BY DEF RunsOn, Up
<1>1. CASE UNCHANGED vars
  BY <1>1, <1>same DEF vars, ContainerInv, OfRun
<1>2. CASE PrepareArchive
  <2>1. /\ over < Len(suites) /\ step = "next" /\ containers' = containers
        /\ step' # "next" => runner'.id = 0
        /\ runner' \in {runner, NewRunner(Suite.local)}
    BY <1>2 DEF PrepareArchive, NewRunner, FirstStep
  <2>2. ~OfRun
    <3> SUFFICES ASSUME OfRun PROVE FALSE
      OBVIOUS
    <3>1. over \in 1 .. Len(suites) /\ suites[over].run
      BY DEF TypeOK, SuitesOK, OfRun
    <3>2. Len(suites) = 1
      BY <3>1, SuiteFacts DEF TypeOK, SuitesOK
    <3> QED
      BY <2>1, <3>1, <3>2
  <2>3. \A id \in 1 .. Len(containers) : ~RunsOn(id)
    BY <2>1, <2>2 DEF ContainerInv
  <2>4. runner'.dead => runner'.id > 0
    BY <2>1 DEF ContainerInv, NewRunner
  <2> QED
    BY <1>same, <2>1, <2>3, <2>4 DEF ContainerInv
<1>3. CASE Prepare
  <2>1. step' # "next" /\ step' # "build"
    BY <1>0, <1>3, PrepareFacts DEF PreparingSteps
  <2>2. CASE /\ containers' = containers /\ runner'.id = runner.id
             /\ runner'.dead => runner.dead \/ (runner.id > 0 /\ ~Up(runner.id))
             /\ step' = "run" => step = "build"
    <3>1. /\ runner'.dead => runner'.id > 0
          /\ \A id \in 1 .. Len(containers) : RunsOn(id) => ~runner'.dead
      BY <1>0, <1>up, <2>2 DEF ContainerInv
    <3> QED
      BY <1>same, <2>1, <2>2, <3>1 DEF ContainerInv
  <2>3. CASE DockerRun /\ step' # "run"
    <3>1. runner.id = 0 /\ ~runner.dead
      BY <2>3 DEF DockerRun, ContainerInv
    <3>2. \A id \in 1 .. Len(containers) : ~RunsOn(id)
      BY <1>0, <3>1 DEF ContainerInv
    <3>3. CASE containers' = containers /\ runner' = runner
      BY <1>same, <2>1, <2>3, <3>1, <3>2, <3>3 DEF ContainerInv
    <3>4. ASSUME NEW up \in BOOLEAN, NEW told \in BOOLEAN,
                 containers' = Created(up, told), runner'.dead = runner.dead,
                 told => runner'.id = Len(containers')
          PROVE  ContainerInv'
      <4>1. /\ Len(containers') = Len(containers) + 1
            /\ \A id \in 1 .. Len(containers) : containers'[id] = containers[id]
            /\ containers'[Len(containers')] = [up |-> up, told |-> told]
        BY <1>0, <3>4, CreatedFacts
      <4>2. \A id \in 1 .. Len(containers) : ~RunsOn(id)'
        BY <3>2, <4>1 DEF RunsOn
      <4>3. RunsOn(Len(containers))' => told
        BY <4>1 DEF RunsOn
      <4>4. \A id \in 1 .. Len(containers') : RunsOn(id)' => id = Len(containers') /\ told
        BY <1>0, <4>1, <4>2, <4>3
      <4> QED
        BY <2>1, <2>3, <3>1, <3>4, <4>4 DEF ContainerInv
    <3> QED
      BY <1>0, <2>3, <3>3, <3>4, DockerRunFacts
  <2> QED
    BY <1>0, <1>3, <2>2, <2>3, PrepareFacts
<1>4. CASE TakeUp \/ Exec \/ Inside \/ DownloadLog \/ FetchStats
  <2>1. Steady /\ step' \notin {"next", "build", "run"}
    BY <1>0, <1>4, TestingSteady DEF TestingSteps, RunningSteps
  <2>2. /\ runner'.dead => runner'.id > 0
        /\ \A id \in 1 .. Len(containers) : RunsOn(id) => ~runner'.dead
    BY <1>0, <1>up, <2>1 DEF Steady, ContainerInv
  <2> QED
    BY <1>0, <1>same, <2>1, <2>2 DEF Steady, ContainerInv
<1>5. CASE EndRunner
  <2>1. PICK next : TearDown(next)
    BY <1>5 DEF EndRunner
  <2>2. /\ Len(containers') = Len(containers)
        /\ \A id \in 1 .. Len(containers) :
              /\ id # runner.id \/ runner.dead => containers'[id] = containers[id]
              /\ id = runner.id /\ ~runner.dead => ~(containers'[id].up /\ containers'[id].told)
        /\ runner' = NewRunner(runner.local)
    BY <1>0, <2>1, TearDownFacts
  <2>3. ASSUME NEW id \in 1 .. Len(containers) PROVE ~RunsOn(id)'
    <3>1. CASE id = runner.id /\ ~runner.dead
      BY <2>2, <3>1 DEF RunsOn
    <3>2. CASE id # runner.id \/ runner.dead
      <4>1. RunsOn(id)' <=> RunsOn(id)
        BY <2>2, <3>2 DEF RunsOn
      <4>2. ~RunsOn(id)
        BY <3>2 DEF ContainerInv
      <4> QED
        BY <4>1, <4>2
    <3> QED
      BY <3>1, <3>2
  <2>4. runner'.id = 0 /\ ~runner'.dead
    BY <2>2 DEF NewRunner
  <2> QED
    BY <2>2, <2>3, <2>4 DEF ContainerInv
<1>6. CASE Abandon
  <2>1. /\ step' = "next" /\ over < Len(suites) /\ Suite.run /\ over' = over + 1
        /\ UNCHANGED <<containers, runner, suites>>
    BY <1>6 DEF Abandon, TypeOK, SuitesOK
  <2>2. OfRun'
    BY <2>1 DEF TypeOK, SuitesOK, Suite, OfRun
  <2> QED
    BY <1>same, <2>1, <2>2 DEF ContainerInv
<1>7. CASE Die /\ UNCHANGED suiteVars
  <2>1. /\ Len(containers') = Len(containers)
        /\ \A id \in 1 .. Len(containers) :
              /\ containers'[id].up => containers[id].up
              /\ containers'[id].told = containers[id].told
        /\ UNCHANGED <<step, runner>>
    BY <1>0, <1>7, DieFacts
  <2>2. \A id \in 1 .. Len(containers) : RunsOn(id)' => RunsOn(id)
    BY <2>1 DEF RunsOn
  <2>3. OfRun' <=> OfRun
    BY <1>7 DEF suiteVars, OfRun
  <2> QED
    BY <2>1, <2>2, <2>3 DEF ContainerInv
<1> QED
  BY <1>1, <1>2, <1>3, <1>4, <1>5, <1>6, <1>7 DEF Next, Work

-----------------------------------------------------------------------------
(* What the steps do to the reports and to the calls.                      *)
LEMMA SetReportFacts ==
  ASSUME TypeOK, over < Len(suites), at' \in 1 .. Len(reports[over + 1]),
         NEW report \in TestReports, SetReport(report)
  PROVE  /\ reports' \in Seq(Seq(TestReports)) /\ Len(reports') = Len(reports)
         /\ \A s \in 1 .. Len(reports) :
              /\ Len(reports'[s]) = Len(reports[s])
              /\ \A i \in 1 .. Len(reports[s]) :
                   reports'[s][i] = IF s = over + 1 /\ i = at' THEN report ELSE reports[s][i]
<1>1. reports \in Seq(Seq(TestReports)) /\ over + 1 \in 1 .. Len(reports)
  BY DEF TypeOK, SuitesOK
<1>2. PICK n \in 1 .. Len(reports) : n = over + 1
  BY <1>1
<1>3. PICK tests \in Seq(TestReports) : tests = reports[n]
  BY <1>1, ElementOfSeq
<1>4. PICK set : set = [tests EXCEPT ![at'] = report]
  OBVIOUS
<1>5. at' \in 1 .. Len(tests)
  BY <1>2, <1>3
<1>6. /\ set \in Seq(TestReports) /\ Len(set) = Len(tests)
      /\ \A i \in 1 .. Len(tests) : set[i] = IF i = at' THEN report ELSE tests[i]
  BY <1>4, <1>5, ExceptSeq
<1>7. reports' = [reports EXCEPT ![n] = set]
  BY <1>2, <1>3, <1>4 DEF SetReport
<1>8. /\ reports' \in Seq(Seq(TestReports)) /\ Len(reports') = Len(reports)
      /\ \A s \in 1 .. Len(reports) : reports'[s] = IF s = n THEN set ELSE reports[s]
  BY <1>1, <1>6, <1>7, ExceptSeq
<1>9. ASSUME NEW s \in 1 .. Len(reports)
      PROVE  /\ Len(reports'[s]) = Len(reports[s])
             /\ \A i \in 1 .. Len(reports[s]) :
                  reports'[s][i] = IF s = over + 1 /\ i = at' THEN report ELSE reports[s][i]
  <2>1. CASE s = n
    BY <1>2, <1>3, <1>6, <1>8, <2>1
  <2>2. CASE s # n
    BY <1>2, <1>8, <2>2
  <2> QED
    BY <2>1, <2>2
<1> QED
  BY <1>8, <1>9

(* A recipe that ran is added to the call that it ran in.                  *)
LEMMA RunRecipeFacts ==
  ASSUME TypeOK, NEW ok \in BOOLEAN, RunRecipe(ok)
  PROVE  /\ left' \in Seq(RecipeIds) /\ runs' \in Seq(Calls) /\ Len(runs') = Len(runs) /\ runs # <<>>
         /\ \A r \in 1 .. Len(runs) :
              /\ runs'[r].suite = runs[r].suite /\ runs'[r].test = runs[r].test
              /\ r # Len(runs) => runs'[r] = runs[r]
<1>1. runs \in Seq(Calls) /\ left \in Seq(RecipeIds) /\ left # <<>> /\ runs # <<>>
  BY DEF TypeOK, SuitesOK, RunRecipe, OnItsOwn, RunningSteps
<1>2. Head(left) \in RecipeIds /\ Tail(left) \in Seq(RecipeIds)
  BY <1>1
<1>3. left' \in Seq(RecipeIds)
  BY <1>2 DEF RunRecipe, AfterFailure
<1>4. PICK ran : ran = [id |-> Head(left), ok |-> ok, mocked |-> Mocked(Head(left))]
  OBVIOUS
<1>5. ran \in [id : RecipeIds, ok : BOOLEAN, mocked : BOOLEAN]
  BY <1>2, <1>4 DEF Mocked
<1>6. PICK n \in 1 .. Len(runs) : n = Len(runs)
  BY <1>1, EmptySeq
<1>7. PICK call \in Calls : call = runs[n]
  BY <1>1, ElementOfSeq
<1>8. PICK new : new = [call EXCEPT !.ran = Append(call.ran, ran)]
  OBVIOUS
<1>9. new \in Calls /\ new.suite = call.suite /\ new.test = call.test
  <2>1. Append(call.ran, ran) \in RanRecipes
    BY <1>5 DEF Calls, RanRecipes
  <2> QED
    BY <1>8, <2>1 DEF Calls
<1>10. runs' = [runs EXCEPT ![n] = new]
  BY <1>4, <1>6, <1>7, <1>8 DEF RunRecipe
<1> QED
  BY <1>1, <1>3, <1>6, <1>7, <1>9, <1>10, ExceptSeq

(* The tests of the suite at hand.                                         *)
LEMMA TestsAtHand ==
  ASSUME TypeOK, over < Len(suites)
  PROVE  /\ over + 1 \in 1 .. Len(reports) /\ reports[over + 1] \in Seq(TestReports)
         /\ Len(reports[over + 1]) \in Nat /\ Len(reports[over + 1]) >= 1
         /\ \A i \in 1 .. Len(reports[over + 1]) : TestRecipes(Suite)[i] \in Seq(RecipeIds)
<1>1. PICK n \in 1 .. Len(suites) : n = over + 1
  BY DEF TypeOK, SuitesOK
<1>2. /\ reports[n] \in Seq(TestReports) /\ Len(reports) = Len(suites)
      /\ Len(reports[n]) = Len(TestRecipes(suites[n]))
  BY <1>1, ElementOfSeq DEF TypeOK, SuitesOK
<1>3. TestRecipes(suites[n]) \in Seq(Seq(RecipeIds)) /\ Len(TestRecipes(suites[n])) >= 1
  BY TestRecipesFacts DEF TypeOK, SuitesOK
<1>4. \A i \in 1 .. Len(TestRecipes(suites[n])) : TestRecipes(suites[n])[i] \in Seq(RecipeIds)
  BY <1>3, ElementOfSeq
<1> QED
  BY <1>1, <1>2, <1>3, <1>4, LenProperties DEF Suite

LEMMA SuitesStep ==
  ASSUME TypeOK, [Next]_vars
  PROVE  SuitesOK'
<1>0. SuitesOK /\ RunnersOK /\ Len(reports) \in Nat /\ Len(suites) \in Nat
  BY SuiteFacts, LenProperties DEF TypeOK, SuitesOK
<1>1. CASE UNCHANGED vars
  BY <1>0, <1>1 DEF vars, SuitesOK
<1>2. CASE PrepareArchive
  <2>1. /\ over < Len(suites) /\ step = "next" /\ at' = 0
        /\ UNCHANGED <<suites, reports, left, stats, runs>>
        /\ \/ over' = over /\ step' \in {"build", "version"}
           \/ over' = over + 1 /\ step' = "next"
    BY <1>2 DEF PrepareArchive, FirstStep
  <2>2. Len(reports[over + 1]) \in Nat /\ Len(reports[over + 1]) >= 1
    BY <2>1, TestsAtHand
  <2>3. CASE over' = over /\ step' \in {"build", "version"}
    BY <1>0, <2>1, <2>2, <2>3 DEF SuitesOK, TestingSteps, RunningSteps
  <2>4. CASE over' = over + 1 /\ step' = "next"
    BY <1>0, <2>1, <2>4 DEF SuitesOK, TestingSteps, RunningSteps, PreparingSteps
  <2> QED
    BY <2>1, <2>3, <2>4
<1>3. CASE Prepare
  <2>1. /\ step \in PreparingSteps /\ UNCHANGED suiteVars
        /\ step' \in PreparingSteps \cup {"test", "failed", "setUpFailed"}
    BY <1>0, <1>3, PrepareFacts
  <2> QED
    BY <1>0, <2>1 DEF SuitesOK, suiteVars, TestingSteps, RunningSteps, PreparingSteps
<1>4. CASE Die /\ UNCHANGED suiteVars
  BY <1>0, <1>4, DieFacts DEF SuitesOK, suiteVars
<1>5. CASE EndRunner \/ Abandon
  <2>1. /\ step \in {"done", "failed", "setUpFailed"} /\ UNCHANGED <<suites, at, reports, left, stats, runs>>
        /\ \/ over' = over + 1 /\ step' = "next"
           \/ over' = over /\ step' \in {"build", "version"} /\ at < Len(reports[over + 1])
    BY <1>5 DEF EndRunner, Abandon, FirstStep, TearDown
  <2>2. over < Len(suites) /\ at <= Len(reports[over + 1])
    BY <1>0, <2>1 DEF SuitesOK
  <2>3. CASE over' = over /\ step' \in {"build", "version"} /\ at < Len(reports[over + 1])
    BY <1>0, <2>1, <2>2, <2>3 DEF SuitesOK, TestingSteps, RunningSteps
  <2>4. CASE over' = over + 1 /\ step' = "next"
    BY <1>0, <2>1, <2>2, <2>4 DEF SuitesOK, TestingSteps, RunningSteps, PreparingSteps
  <2> QED
    BY <2>1, <2>3, <2>4
<1>6. ASSUME step # "next", UNCHANGED <<suites, over, reports>>, at' = at, left' \in Seq(RecipeIds),
             stats' \in RanRecipes, runs' \in Seq(Calls), at >= 1,
             step' \in {"failed"} \cup TestingSteps,
             step' \in RunningSteps => runs' # <<>>
      PROVE  SuitesOK'
  BY <1>0, <1>6 DEF SuitesOK, TestingSteps, RunningSteps, PreparingSteps
<1>7. CASE TakeUp
  <2>1. step = "test" /\ at' = at + 1 /\ step' = "exec" /\ UNCHANGED <<suites, over, left, stats, runs>>
        /\ SetReport([state |-> "started", stats |-> <<>>])
    BY <1>7 DEF TakeUp
  <2>2. over < Len(suites) /\ at \in Nat /\ at < Len(reports[over + 1])
    BY <1>0, <2>1 DEF SuitesOK
  <2>3. [state |-> "started", stats |-> <<>>] \in TestReports
    BY DEF TestReports, RanRecipes
  <2>4. Len(reports[over + 1]) \in Nat /\ over + 1 \in 1 .. Len(reports)
    BY <2>2, TestsAtHand
  <2>5. /\ reports' \in Seq(Seq(TestReports)) /\ Len(reports') = Len(reports)
        /\ \A s \in 1 .. Len(reports) : Len(reports'[s]) = Len(reports[s])
    BY <2>1, <2>2, <2>3, <2>4, SetReportFacts
  <2> QED
    BY <1>0, <2>1, <2>2, <2>4, <2>5 DEF SuitesOK, TestingSteps, RunningSteps, PreparingSteps
<1>8. CASE Exec
  <2>1. /\ step = "exec" /\ UNCHANGED <<suites, over, at, reports>> /\ stats' = <<>>
        /\ \/ step' = "failed" /\ UNCHANGED <<left, runs>>
           \/ /\ step' = "inside" /\ left' = TestRecipes(Suite)[at]
              /\ runs' = Append(runs, [suite |-> over + 1, test |-> at,
                                        container |-> runner.id, ran |-> <<>>])
    BY <1>8 DEF Exec
  <2>2. /\ over < Len(suites) /\ at \in Nat /\ at >= 1 /\ at <= Len(reports[over + 1])
        /\ over \in Nat /\ left \in Seq(RecipeIds) /\ runs \in Seq(Calls) /\ runner.id \in Int
    BY <1>0, <2>1 DEF SuitesOK, TestingSteps, RunningSteps, RunnersOK, RunnerStates
  <2>3. TestRecipes(Suite)[at] \in Seq(RecipeIds)
    BY <2>2, TestsAtHand
  <2>4. PICK call : call = [suite |-> over + 1, test |-> at, container |-> runner.id, ran |-> <<>>]
    OBVIOUS
  <2>5. call \in Calls
    BY <2>2, <2>4 DEF Calls, RanRecipes
  <2>6. Append(runs, call) \in Seq(Calls) /\ Append(runs, call) # <<>>
    BY <2>2, <2>5
  <2>7. stats' \in RanRecipes
    BY <2>1 DEF RanRecipes
  <2> QED
    BY <1>6, <2>1, <2>2, <2>3, <2>4, <2>6, <2>7 DEF TestingSteps, RunningSteps
<1>9. CASE Inside
  <2>1. /\ step \in RunningSteps /\ step' \in RunningSteps \cup {"failed"}
        /\ UNCHANGED <<suites, over, at, reports>>
    BY <1>9, InsideFacts
  <2>2. /\ step # "next" /\ at >= 1 /\ step' \in {"failed"} \cup TestingSteps
        /\ left \in Seq(RecipeIds) /\ runs \in Seq(Calls) /\ stats \in RanRecipes /\ runs # <<>>
    BY <1>0, <2>1 DEF SuitesOK, TestingSteps, RunningSteps
  <2>3. ASSUME NEW ok \in BOOLEAN, RunRecipe(ok) PROVE SuitesOK'
    <3>1. /\ left' \in Seq(RecipeIds) /\ runs' \in Seq(Calls) /\ Len(runs') = Len(runs)
      BY <2>3, RunRecipeFacts
    <3>2. stats' = stats
      BY <2>3 DEF RunRecipe
    <3>3. runs' # <<>>
      BY <2>2, <3>1, EmptySeq
    <3> QED
      BY <1>6, <2>1, <2>2, <3>1, <3>2, <3>3
  <2>4. CASE FinishRun
    <3>1. PICK n \in 1 .. Len(runs) : n = Len(runs)
      BY <2>2, EmptySeq
    <3>2. runs[n] \in Calls
      BY <2>2, ElementOfSeq
    <3>3. stats' = runs[n].ran /\ UNCHANGED <<left, runs>>
      BY <2>4, <3>1 DEF FinishRun
    <3>4. stats' \in RanRecipes
      BY <3>2, <3>3 DEF Calls
    <3> QED
      BY <1>6, <2>1, <2>2, <3>3, <3>4
  <2>5. CASE RunDies \/ RunLost
    <3>1. (left' = left \/ left' = <<>>) /\ UNCHANGED <<stats, runs>>
      BY <2>5 DEF RunDies, RunLost
    <3>2. left' \in Seq(RecipeIds)
      <4>1. <<>> \in Seq(RecipeIds)
        OBVIOUS
      <4> QED
        BY <2>2, <3>1, <4>1
    <3> QED
      BY <1>6, <2>1, <2>2, <3>1, <3>2
  <2> QED
    BY <1>9, <2>3, <2>4, <2>5 DEF Inside
<1>10. CASE DownloadLog
  <2>1. step = "log" /\ step' \in {"failed", "stats"} /\ UNCHANGED suiteVars
    BY <1>10 DEF DownloadLog
  <2>2. /\ at >= 1 /\ left \in Seq(RecipeIds) /\ runs \in Seq(Calls) /\ stats \in RanRecipes
        /\ runs # <<>>
    BY <1>0, <2>1 DEF SuitesOK, TestingSteps, RunningSteps
  <2> QED
    BY <1>6, <2>1, <2>2 DEF suiteVars, TestingSteps, RunningSteps
<1>11. CASE FetchStats
  <2>1. /\ step = "stats" /\ at' = at /\ UNCHANGED <<suites, over, left, stats, runs>>
        /\ \E got \in BOOLEAN : SetReport([state |-> "reported", stats |-> Kept(got)])
        /\ step' \in {"done", "test"} /\ (step' = "test" => at # Len(reports[over + 1]))
    BY <1>11 DEF FetchStats
  <2>2. PICK got \in BOOLEAN : SetReport([state |-> "reported", stats |-> Kept(got)])
    BY <2>1
  <2>3. /\ over < Len(suites) /\ at \in Nat /\ at >= 1 /\ at <= Len(reports[over + 1])
        /\ stats \in RanRecipes
    BY <1>0, <2>1 DEF SuitesOK, TestingSteps, RunningSteps
  <2>4. [state |-> "reported", stats |-> Kept(got)] \in TestReports
    BY <2>3 DEF TestReports, Kept, RanRecipes
  <2>5. Len(reports[over + 1]) \in Nat /\ over + 1 \in 1 .. Len(reports)
    BY <2>3, TestsAtHand
  <2>6. /\ reports' \in Seq(Seq(TestReports)) /\ Len(reports') = Len(reports)
        /\ \A s \in 1 .. Len(reports) : Len(reports'[s]) = Len(reports[s])
    BY <2>1, <2>2, <2>3, <2>4, <2>5, SetReportFacts
  <2> QED
    BY <1>0, <2>1, <2>3, <2>5, <2>6 DEF SuitesOK, TestingSteps, RunningSteps, PreparingSteps
<1> QED
  BY <1>1, <1>2, <1>3, <1>4, <1>5, <1>7, <1>8, <1>9, <1>10, <1>11 DEF Next, Work

-----------------------------------------------------------------------------
(* What is reported.                                                       *)
Ended == {"next", "failed", "setUpFailed"}

(* How far the suites are: a step prepares the suite at hand, ends it, goes*)
(* on with it, takes up its next test, or reports the one at hand.         *)
GoesOn ==
  /\ UNCHANGED <<suites, over, reports>>
  /\ step # "next" /\ step' # "next" /\ at' = at
  /\ step' \in Ended \/ (step \notin Ended /\ (step \in TestingSteps <=> step' \in TestingSteps))
Begins ==
  /\ UNCHANGED <<suites, over, reports, runs>>
  /\ over < Len(suites) /\ step = "next" /\ at' = 0 /\ step' \in PreparingSteps
Ends ==
  /\ UNCHANGED <<suites, reports, runs>>
  /\ over < Len(suites) /\ over' = over + 1 /\ step' = "next"
TakesUp ==
  /\ UNCHANGED <<suites, over, runs>>
  /\ step = "test" /\ step' = "exec" /\ at' = at + 1
  /\ SetReport([state |-> "started", stats |-> <<>>])
Reports(got) ==
  /\ UNCHANGED <<suites, over, runs>>
  /\ step = "stats" /\ step' \in {"test", "done"} /\ at' = at
  /\ SetReport([state |-> "reported", stats |-> Kept(got)])

LEMMA Steps ==
  ASSUME TypeOK, [Next]_vars
  PROVE  \/ UNCHANGED <<suites, over, reports, at, step, runs, stats, left>>
         \/ GoesOn \/ Begins \/ Ends \/ TakesUp \/ \E got \in BOOLEAN : Reports(got)
<1>0. RunnersOK /\ (step # "next" => over < Len(suites))
  BY DEF TypeOK, SuitesOK
<1>1. CASE UNCHANGED vars
  BY <1>1 DEF vars
<1>2. CASE PrepareArchive
  BY <1>2 DEF PrepareArchive, FirstStep, Begins, Ends, PreparingSteps
<1>3. CASE Prepare
  <2>1. /\ step \in PreparingSteps /\ UNCHANGED suiteVars
        /\ step' \in PreparingSteps \cup {"test", "failed", "setUpFailed"}
    BY <1>0, <1>3, PrepareFacts
  <2> QED
    BY <2>1 DEF GoesOn, suiteVars, PreparingSteps, TestingSteps, RunningSteps, Ended
<1>4. CASE Die /\ UNCHANGED suiteVars
  BY <1>0, <1>4, DieFacts DEF suiteVars
<1>5. CASE EndRunner
  BY <1>0, <1>5 DEF EndRunner, FirstStep, TearDown, GoesOn, Ends, TestingSteps, RunningSteps, Ended
<1>6. CASE Abandon
  BY <1>0, <1>6 DEF Abandon, Ends
<1>7. CASE TakeUp
  BY <1>7 DEF TakeUp, TakesUp
<1>8. CASE FetchStats
  BY <1>8 DEF FetchStats, Reports
<1>9. CASE Exec
  BY <1>9 DEF Exec, GoesOn, TestingSteps, RunningSteps, Ended
<1>10. CASE Inside
  BY <1>10, InsideFacts DEF GoesOn, TestingSteps, RunningSteps, Ended
<1>11. CASE DownloadLog
  BY <1>11 DEF DownloadLog, GoesOn, TestingSteps, RunningSteps, Ended, suiteVars
<1> QED
  BY <1>1, <1>2, <1>3, <1>4, <1>5, <1>6, <1>7, <1>8, <1>9, <1>10, <1>11 DEF Next, Work

(* Taking up a test, or reporting it, changes the report of this test only.*)
IsSet(report) ==
  /\ at' \in 1 .. Len(reports[over + 1]) /\ over + 1 \in 1 .. Len(reports)
  /\ Len(reports') = Len(reports)
  /\ \A s \in 1 .. Len(reports) :
       /\ Len(reports'[s]) = Len(reports[s])
       /\ \A i \in 1 .. Len(reports[s]) :
            reports'[s][i] = IF s = over + 1 /\ i = at' THEN report ELSE reports[s][i]

LEMMA TakesUpFacts ==
  ASSUME TypeOK, TakesUp
  PROVE  \E report \in TestReports : report.state = "started" /\ report.stats = <<>> /\ IsSet(report)
<1>1. PICK report : report = [state |-> "started", stats |-> <<>>]
  OBVIOUS
<1>2. report \in TestReports /\ report.state = "started" /\ report.stats = <<>>
  BY <1>1 DEF TestReports, RanRecipes
<1>3. /\ over < Len(suites) /\ at \in Nat /\ at < Len(reports[over + 1]) /\ at' = at + 1
      /\ SetReport(report)
  BY <1>1 DEF TakesUp, TypeOK, SuitesOK
<1>4. at' \in 1 .. Len(reports[over + 1]) /\ over + 1 \in 1 .. Len(reports)
  BY <1>3, TestsAtHand
<1> QED
  BY <1>2, <1>3, <1>4, SetReportFacts DEF IsSet

LEMMA ReportsFacts ==
  ASSUME TypeOK, NEW got \in BOOLEAN, Reports(got)
  PROVE  \E report \in TestReports : report.state = "reported" /\ report.stats = Kept(got) /\ IsSet(report)
<1>1. PICK report : report = [state |-> "reported", stats |-> Kept(got)]
  OBVIOUS
<1>2. report \in TestReports /\ report.state = "reported" /\ report.stats = Kept(got)
  BY <1>1 DEF TestReports, RanRecipes, Kept, TypeOK, SuitesOK
<1>3. /\ over < Len(suites) /\ at \in Nat /\ at >= 1 /\ at <= Len(reports[over + 1]) /\ at' = at
      /\ SetReport(report)
  BY <1>1 DEF Reports, TypeOK, SuitesOK, TestingSteps, RunningSteps
<1>4. at' \in 1 .. Len(reports[over + 1]) /\ over + 1 \in 1 .. Len(reports)
  BY <1>3, TestsAtHand
<1> QED
  BY <1>2, <1>3, <1>4, SetReportFacts DEF IsSet

LEMMA TestsStep ==
  ASSUME TypeOK, TestsInOrder, [Next]_vars
  PROVE  TestsInOrder'
<1>0. /\ Len(reports) \in Nat /\ over \in Nat /\ at \in Nat
      /\ \A s \in 1 .. Len(reports) : \A i \in 1 .. Len(reports[s]) : i \in Nat /\ s \in Nat
  BY LenProperties DEF TypeOK, SuitesOK
<1>1. CASE UNCHANGED <<suites, over, reports, at, step, runs, stats, left>>
  BY <1>1 DEF TestsInOrder, Progress
<1>2. CASE GoesOn
  BY <1>0, <1>2 DEF GoesOn, TestsInOrder, Progress, Ended
<1>3. CASE Begins
  BY <1>0, <1>3 DEF Begins, TestsInOrder, Progress, TestingSteps, RunningSteps, PreparingSteps
<1>4. CASE Ends
  BY <1>0, <1>4 DEF Ends, TestsInOrder
<1>5. CASE TakesUp
  <2>1. PICK report \in TestReports : report.state = "started" /\ report.stats = <<>> /\ IsSet(report)
    BY <1>5, TakesUpFacts
  <2>2. over' = over /\ at' = at + 1 /\ step = "test" /\ step' = "exec"
    BY <1>5 DEF TakesUp
  <2>3. step \notin TestingSteps /\ step' \in TestingSteps
    BY <2>2 DEF TestingSteps, RunningSteps
  <2> QED
    BY <1>0, <2>1, <2>2, <2>3 DEF IsSet, TestsInOrder, Progress, Ended
<1>6. ASSUME NEW got \in BOOLEAN, Reports(got) PROVE TestsInOrder'
  <2>1. PICK report \in TestReports : report.state = "reported" /\ IsSet(report)
    BY <1>6, ReportsFacts
  <2>2. over' = over /\ at' = at /\ step = "stats" /\ step' \in {"test", "done"}
    BY <1>6 DEF Reports
  <2> QED
    BY <1>0, <2>1, <2>2 DEF IsSet, TestsInOrder, Progress, TestingSteps, RunningSteps, Ended
<1> QED
  BY <1>1, <1>2, <1>3, <1>4, <1>5, <1>6, Steps

(* The calls, one for each test that was taken up.                         *)
LEMMA CallsStep ==
  ASSUME TypeOK, TestsInOrder, CallsTold, [Next]_vars
  PROVE  CallsTold'
<1>0. RunnersOK /\ SuitesOK /\ Len(runs) \in Nat /\ Len(reports) \in Nat
  BY LenProperties DEF TypeOK, SuitesOK
<1>1. ASSUME UNCHANGED <<over, reports, runs>>,
             step' \notin TestingSteps \/ UNCHANGED <<step, at, stats, left>>
      PROVE  CallsTold'
  BY <1>1 DEF CallsTold, IsCall, LastIsOf, TestingSteps, RunningSteps
<1>2. CASE UNCHANGED <<suites, over, reports, at, step, runs, stats, left>>
  BY <1>1, <1>2
<1>3. CASE Begins
  BY <1>1, <1>3 DEF Begins, PreparingSteps, TestingSteps, RunningSteps
<1>4. CASE Ends
  BY <1>4 DEF Ends, CallsTold, IsCall, RunningSteps
<1>5. CASE TakesUp
  <2>1. PICK report \in TestReports : report.state = "started" /\ IsSet(report)
    BY <1>5, TakesUpFacts
  <2>2. UNCHANGED <<over, runs>> /\ step' = "exec" /\ at' = at + 1 /\ step = "test" /\ at \in Nat
    BY <1>0, <1>5 DEF TakesUp, SuitesOK
  <2>3. ASSUME NEW r \in 1 .. Len(runs)
        PROVE  /\ runs[r].suite \in 1 .. Len(reports') /\ runs[r].test \in 1 .. Len(reports'[runs[r].suite])
               /\ reports'[runs[r].suite][runs[r].test].state # "null"
               /\ ~IsCall(r, over + 1, at')
    <3>1. reports[over + 1][at'].state = "null"
      BY <2>1, <2>2 DEF IsSet, TestsInOrder, Progress
    <3> QED
      BY <2>1, <3>1 DEF CallsTold, IsSet, IsCall
  <2> QED
    BY <2>2, <2>3 DEF CallsTold, IsCall, RunningSteps
<1>6. ASSUME NEW got \in BOOLEAN, Reports(got) PROVE CallsTold'
  <2>1. PICK report \in TestReports : report.state = "reported" /\ IsSet(report)
    BY <1>6, ReportsFacts
  <2>2. UNCHANGED <<over, runs>> /\ step' \in {"test", "done"}
    BY <1>6 DEF Reports
  <2>3. ASSUME NEW r \in 1 .. Len(runs)
        PROVE  /\ runs[r].suite \in 1 .. Len(reports') /\ runs[r].test \in 1 .. Len(reports'[runs[r].suite])
               /\ reports'[runs[r].suite][runs[r].test].state # "null"
    BY <2>1 DEF CallsTold, IsSet
  <2> QED
    BY <2>2, <2>3 DEF CallsTold, IsCall, RunningSteps
<1>7. CASE Prepare
  <2>1. UNCHANGED suiteVars /\ step' \in PreparingSteps \cup {"test", "failed", "setUpFailed"}
    BY <1>0, <1>7, PrepareFacts
  <2> QED
    BY <1>1, <2>1 DEF suiteVars, PreparingSteps, TestingSteps, RunningSteps
<1>8. CASE PrepareArchive \/ EndRunner \/ Abandon
  <2>1. Begins \/ Ends \/ (UNCHANGED <<over, reports, runs>> /\ step' \notin TestingSteps)
    BY <1>8 DEF PrepareArchive, EndRunner, Abandon, TearDown, FirstStep, Begins, Ends, PreparingSteps,
       TestingSteps, RunningSteps, TypeOK, SuitesOK
  <2> QED
    BY <1>1, <1>3, <1>4, <2>1
<1>9. CASE Exec
  <2>1. CASE step' = "failed" /\ UNCHANGED runs
    BY <1>1, <1>9, <2>1 DEF Exec, TestingSteps, RunningSteps
  <2>2. CASE step' # "failed"
    <3>1. PICK call : call = [suite |-> over + 1, test |-> at, container |-> runner.id, ran |-> <<>>]
      OBVIOUS
    <3>2. /\ step = "exec" /\ step' = "inside" /\ runs' = Append(runs, call) /\ stats' = <<>>
          /\ UNCHANGED <<over, at, reports>>
      BY <1>9, <2>2, <3>1 DEF Exec
    <3>3. /\ over + 1 \in 1 .. Len(reports) /\ at \in 1 .. Len(reports[over + 1])
          /\ runs \in Seq(Calls) /\ over \in Nat /\ at \in Nat /\ runner.id \in Int
      BY <1>0, <3>2, TestsAtHand DEF SuitesOK, TestingSteps, RunningSteps, RunnersOK, RunnerStates
    <3>4. call \in Calls /\ call.suite = over + 1 /\ call.test = at
      BY <3>1, <3>3 DEF Calls, RanRecipes
    <3>5. /\ Len(runs') = Len(runs) + 1 /\ runs' # <<>>
          /\ \A r \in 1 .. Len(runs) : runs'[r] = runs[r]
          /\ runs'[Len(runs')] = call
      BY <3>2, <3>3, <3>4
    <3>6. reports[over + 1][at].state # "null"
      BY <3>2, <3>3 DEF TestsInOrder, Progress, TestingSteps, RunningSteps
    <3>7. \A r \in 1 .. Len(runs) : ~IsCall(r, over + 1, at)
      BY <3>2 DEF CallsTold
    <3>8. LastIsOf(over + 1, at)'
      BY <3>2, <3>4, <3>5 DEF LastIsOf, IsCall
    <3>9. ASSUME NEW r \in 1 .. Len(runs'), NEW q \in 1 .. Len(runs'), IsCall(q, runs[r].suite, runs[r].test)'
          PROVE  q = r
      <4>0. runs'[q].suite = runs'[r].suite /\ runs'[q].test = runs'[r].test
        BY <3>9 DEF IsCall
      <4>1. CASE r = Len(runs') /\ q # Len(runs')
        BY <1>0, <3>4, <3>5, <3>7, <4>0, <4>1 DEF IsCall
      <4>2. CASE q = Len(runs') /\ r # Len(runs')
        BY <1>0, <3>4, <3>5, <3>7, <4>0, <4>2 DEF IsCall
      <4>3. CASE q # Len(runs') /\ r # Len(runs')
        <5>1. q \in 1 .. Len(runs) /\ r \in 1 .. Len(runs)
          BY <1>0, <3>5, <4>3
        <5>2. IsCall(q, runs[r].suite, runs[r].test)
          BY <3>5, <4>0, <5>1 DEF IsCall
        <5> QED
          BY <5>1, <5>2 DEF CallsTold
      <4> QED
        BY <4>1, <4>2, <4>3
    <3>10. ASSUME NEW r \in 1 .. Len(runs')
           PROVE  /\ runs'[r].suite \in 1 .. Len(reports)
                  /\ runs'[r].test \in 1 .. Len(reports[runs'[r].suite])
                  /\ reports[runs'[r].suite][runs'[r].test].state # "null"
      <4>1. CASE r = Len(runs')
        BY <3>3, <3>4, <3>5, <3>6, <4>1
      <4>2. CASE r # Len(runs')
        BY <1>0, <3>5, <4>2 DEF CallsTold
      <4> QED
        BY <4>1, <4>2
    <3> QED
      BY <3>2, <3>8, <3>9, <3>10 DEF CallsTold, RunningSteps
  <2> QED
    BY <1>9, <2>1, <2>2 DEF Exec
<1>10. CASE Inside
  <2>1. /\ step \in RunningSteps /\ step' \in RunningSteps \cup {"failed"} /\ step' # "exec"
        /\ UNCHANGED <<over, at, reports>> /\ LastIsOf(over + 1, at)
    BY <1>10, InsideFacts DEF CallsTold, RunningSteps
  <2>2. ASSUME NEW ok \in BOOLEAN, RunRecipe(ok) PROVE CallsTold'
    <3>1. /\ Len(runs') = Len(runs) /\ runs # <<>> /\ runs' \in Seq(Calls) /\ runs \in Seq(Calls)
          /\ \A r \in 1 .. Len(runs) : runs'[r].suite = runs[r].suite /\ runs'[r].test = runs[r].test
      BY <1>0, <2>2, RunRecipeFacts DEF SuitesOK
    <3>2. Len(runs) \in 1 .. Len(runs) /\ runs' # <<>>
      BY <3>1, EmptySeq
    <3>3. step' = step /\ stats' = stats /\ left # <<>>
      BY <2>2 DEF RunRecipe
    <3>4. stats = <<>>
      BY <2>1, <3>3 DEF CallsTold
    <3>5. LastIsOf(over + 1, at)'
      BY <2>1, <3>1, <3>2 DEF LastIsOf, IsCall
    <3> QED
      BY <2>1, <3>1, <3>3, <3>4, <3>5 DEF CallsTold, IsCall
  <2>3. CASE FinishRun
    <3>1. stats' = runs[Len(runs)].ran /\ step' # "inside" /\ left = <<>> /\ UNCHANGED <<left, runs>>
      BY <2>3 DEF FinishRun, AfterRun
    <3> QED
      BY <2>1, <3>1 DEF CallsTold, LastIsOf, IsCall
  <2>4. CASE RunDies \/ RunLost
    <3>1. step = "inside" /\ step' # "inside" /\ UNCHANGED <<stats, runs>>
      BY <2>4 DEF RunDies, RunLost, AfterRun
    <3>2. stats = <<>>
      BY <2>1, <3>1 DEF CallsTold
    <3> QED
      BY <2>1, <3>1, <3>2 DEF CallsTold, LastIsOf, IsCall
  <2> QED
    BY <1>10, <2>2, <2>3, <2>4 DEF Inside
<1>11. CASE DownloadLog
  <2>1. step = "log" /\ step' \in {"failed", "stats"} /\ UNCHANGED suiteVars
    BY <1>11 DEF DownloadLog
  <2> QED
    BY <2>1 DEF suiteVars, CallsTold, IsCall, LastIsOf, RunningSteps
<1>12. CASE Die /\ UNCHANGED suiteVars
  BY <1>0, <1>1, <1>12, DieFacts DEF suiteVars
<1>13. CASE UNCHANGED vars
  BY <1>1, <1>13 DEF vars
<1>14. CASE TakeUp \/ FetchStats
  BY <1>5, <1>6, <1>14 DEF TakeUp, TakesUp, FetchStats, Reports
<1> QED
  BY <1>7, <1>8, <1>9, <1>10, <1>11, <1>12, <1>13, <1>14 DEF Next, Work

(* Statistics stay those of the call they were of.                         *)
LEMMA StatsStep ==
  ASSUME TypeOK, TestsInOrder, CallsTold, StatsTold, [Next]_vars
  PROVE  StatsTold'
<1>0. RunnersOK /\ SuitesOK /\ Len(runs) \in Nat
  BY LenProperties DEF TypeOK, SuitesOK
<1>1. ASSUME UNCHANGED <<reports, runs>> PROVE StatsTold'
  BY <1>1 DEF StatsTold, IsCall
<1>2. CASE Exec
  <2>1. CASE UNCHANGED runs
    BY <1>1, <1>2, <2>1 DEF Exec
  <2>2. CASE ~UNCHANGED runs
    <3>1. PICK call : call = [suite |-> over + 1, test |-> at, container |-> runner.id, ran |-> <<>>]
      OBVIOUS
    <3>2. step = "exec" /\ runs' = Append(runs, call) /\ UNCHANGED reports
      BY <1>2, <2>2, <3>1 DEF Exec
    <3>3. /\ runs \in Seq(Calls) /\ over \in Nat /\ at \in Nat /\ runner.id \in Int
      BY <1>0 DEF SuitesOK, RunnersOK, RunnerStates
    <3>4. call \in Calls
      BY <3>1, <3>3 DEF Calls, RanRecipes
    <3>5. Len(runs') = Len(runs) + 1 /\ \A r \in 1 .. Len(runs) : runs'[r] = runs[r]
      BY <3>2, <3>3, <3>4
    <3>6. \A r \in 1 .. Len(runs) : \A s, i : r \in 1 .. Len(runs') /\ (IsCall(r, s, i)' <=> IsCall(r, s, i))
      BY <1>0, <3>5 DEF IsCall
    <3>7. ASSUME NEW s \in 1 .. Len(reports), NEW i \in 1 .. Len(reports[s]), reports[s][i].stats # <<>>
          PROVE  \E r \in 1 .. Len(runs') : IsCall(r, s, i)' /\ reports[s][i].stats = runs'[r].ran
      <4>1. PICK r \in 1 .. Len(runs) : IsCall(r, s, i) /\ reports[s][i].stats = runs[r].ran
        BY <3>7 DEF StatsTold
      <4> QED
        BY <3>5, <3>6, <4>1
    <3> QED
      BY <3>2, <3>7 DEF StatsTold
  <2> QED
    BY <2>1, <2>2
<1>3. ASSUME NEW ok \in BOOLEAN, RunRecipe(ok) PROVE StatsTold'
  <2>1. step \in RunningSteps /\ UNCHANGED reports
    BY <1>3 DEF RunRecipe, OnItsOwn, RunningSteps
  <2>2. /\ Len(runs') = Len(runs)
        /\ \A r \in 1 .. Len(runs) :
             /\ runs'[r].suite = runs[r].suite /\ runs'[r].test = runs[r].test
             /\ r # Len(runs) => runs'[r] = runs[r]
    BY <1>3, RunRecipeFacts
  <2>3. /\ over + 1 \in 1 .. Len(reports) /\ at \in 1 .. Len(reports[over + 1])
    BY <1>0, <2>1, TestsAtHand DEF SuitesOK, TestingSteps, RunningSteps
  <2>4. reports[over + 1][at].stats = <<>>
    BY <1>0, <2>1, <2>3 DEF TestsInOrder, Progress, TestingSteps, RunningSteps, SuitesOK
  <2>5. IsCall(Len(runs), over + 1, at)
    BY <2>1 DEF CallsTold, LastIsOf
  <2>6. ASSUME NEW s \in 1 .. Len(reports), NEW i \in 1 .. Len(reports[s]), reports[s][i].stats # <<>>
        PROVE  \E r \in 1 .. Len(runs) : IsCall(r, s, i)' /\ reports[s][i].stats = runs'[r].ran
    <3>1. PICK r \in 1 .. Len(runs) : IsCall(r, s, i) /\ reports[s][i].stats = runs[r].ran
      BY <2>6 DEF StatsTold
    <3>2. r # Len(runs)
      BY <2>4, <2>5, <2>6, <3>1 DEF IsCall
    <3> QED
      BY <2>2, <3>1, <3>2 DEF IsCall
  <2> QED
    BY <2>1, <2>2, <2>6 DEF StatsTold
<1>4. CASE TakesUp
  <2>1. PICK report \in TestReports : report.stats = <<>> /\ IsSet(report)
    BY <1>4, TakesUpFacts
  <2>2. runs' = runs
    BY <1>4 DEF TakesUp
  <2> QED
    BY <2>1, <2>2 DEF IsSet, StatsTold, IsCall
<1>5. ASSUME NEW got \in BOOLEAN, Reports(got) PROVE StatsTold'
  <2>1. PICK report \in TestReports : report.stats = Kept(got) /\ IsSet(report)
    BY <1>5, ReportsFacts
  <2>2. runs' = runs /\ at' = at /\ step = "stats"
    BY <1>5 DEF Reports
  <2>3. ASSUME report.stats # <<>>
        PROVE  \E r \in 1 .. Len(runs) : IsCall(r, over + 1, at) /\ report.stats = runs[r].ran
    <3>1. report.stats = stats /\ stats # <<>>
      BY <2>1, <2>3 DEF Kept
    <3>2. LastIsOf(over + 1, at) /\ stats = runs[Len(runs)].ran
      BY <2>2, <3>1 DEF CallsTold, RunningSteps
    <3>3. Len(runs) \in 1 .. Len(runs)
      BY <1>0, <3>2, EmptySeq DEF LastIsOf, SuitesOK
    <3> QED
      BY <3>1, <3>2, <3>3 DEF LastIsOf
  <2>4. ASSUME NEW s \in 1 .. Len(reports), NEW i \in 1 .. Len(reports[s]), reports'[s][i].stats # <<>>
        PROVE  \E r \in 1 .. Len(runs) : IsCall(r, s, i) /\ reports'[s][i].stats = runs[r].ran
    <3>1. CASE s = over + 1 /\ i = at
      <4>1. reports'[s][i] = report
        BY <2>1, <2>2, <3>1 DEF IsSet
      <4>2. \E r \in 1 .. Len(runs) : IsCall(r, over + 1, at) /\ report.stats = runs[r].ran
        BY <2>3, <2>4, <4>1
      <4> QED
        BY <3>1, <4>1, <4>2
    <3>2. CASE ~(s = over + 1 /\ i = at)
      <4>1. reports'[s][i] = reports[s][i]
        BY <2>1, <2>2, <3>2 DEF IsSet
      <4> QED
        BY <2>4, <4>1 DEF StatsTold
    <3> QED
      BY <3>1, <3>2
  <2> QED
    BY <2>1, <2>2, <2>4 DEF IsSet, StatsTold, IsCall
<1>6. CASE TakeUp \/ FetchStats
  BY <1>4, <1>5, <1>6 DEF TakeUp, TakesUp, FetchStats, Reports
<1>7. CASE PrepareArchive \/ EndRunner \/ Abandon \/ FinishRun \/ RunDies \/ RunLost
  BY <1>1, <1>7 DEF PrepareArchive, EndRunner, Abandon, FinishRun, RunDies, RunLost
<1>8. CASE Prepare \/ DownloadLog \/ UNCHANGED suiteVars \/ UNCHANGED vars
  BY <1>1, <1>8 DEF Prepare, DownloadLog, suiteVars, vars
<1> QED
  BY <1>2, <1>3, <1>6, <1>7, <1>8 DEF Next, Work, Inside

-----------------------------------------------------------------------------
SuiteInv == TypeOK /\ ContainerInv /\ TestsInOrder /\ CallsTold /\ StatsTold

LEMMA Initially == Init => SuiteInv
<1> SUFFICES ASSUME Init PROVE SuiteInv
  OBVIOUS
<1>1. /\ suites \in Programs /\ step = "next" /\ over = 0 /\ at = 0 /\ containers = <<>> /\ faults = 0
      /\ runner = NewRunner(FALSE) /\ left = <<>> /\ stats = <<>> /\ runs = <<>>
      /\ reports = [s \in DOMAIN suites |-> [i \in DOMAIN TestRecipes(suites[s]) |-> Null]]
  BY DEF Init
<1>2. suites \in Seq(SuiteConfigs) /\ Len(suites) \in Nat /\ DOMAIN suites = 1 .. Len(suites)
  BY <1>1, ProgramsAssumption
<1>3. ASSUME NEW s \in 1 .. Len(suites)
      PROVE  /\ reports[s] \in Seq(TestReports) /\ Len(reports[s]) = Len(TestRecipes(suites[s]))
             /\ \A i \in 1 .. Len(reports[s]) : reports[s][i] = Null
  <2>1. PICK n \in Nat : n = Len(TestRecipes(suites[s])) /\ DOMAIN TestRecipes(suites[s]) = 1 .. n
    BY <1>1, TestRecipesFacts, LenProperties
  <2>2. reports[s] = [i \in 1 .. n |-> Null]
    BY <1>1, <1>2, <2>1
  <2>3. Null \in TestReports
    BY DEF Null, TestReports, RanRecipes
  <2> QED
    BY <2>1, <2>2, <2>3
<1>4. reports \in Seq(Seq(TestReports)) /\ Len(reports) = Len(suites)
  <2>1. DOMAIN reports = 1 .. Len(suites) /\ reports \in [1 .. Len(suites) -> Seq(TestReports)]
    BY <1>1, <1>2, <1>3
  <2> QED
    BY <1>2, <2>1
<1>5. RunnersOK
  BY <1>1 DEF RunnersOK, StepNames, NewRunner, RunnerStates
<1>6. SuitesOK
  BY <1>1, <1>2, <1>3, <1>4 DEF SuitesOK, PreparingSteps, TestingSteps, RunningSteps, RanRecipes
<1>7. ContainerInv
  BY <1>1 DEF ContainerInv, NewRunner
<1>8. TestsInOrder /\ CallsTold /\ StatsTold
  BY <1>1, <1>3, <1>4 DEF TestsInOrder, CallsTold, StatsTold, Null, TestingSteps, RunningSteps
<1> QED
  BY <1>5, <1>6, <1>7, <1>8 DEF SuiteInv, TypeOK

LEMMA SuiteSafe == Spec => []SuiteInv
<1>1. SuiteInv /\ [Next]_vars => SuiteInv'
  <2> SUFFICES ASSUME SuiteInv, [Next]_vars PROVE SuiteInv'
    OBVIOUS
  <2> QED
    BY RunnersStep, SuitesStep, ContainerStep, TestsStep, CallsStep, StatsStep DEF SuiteInv, TypeOK
<1> QED
  BY <1>1, Initially, PTL DEF Spec

(* "Make sure to always terminate runners" (testSuite.ts:224): whatever    *)
(* fails, no container runs on but the one at hand, or that of a run which *)
(* could not be set up.                                                    *)
THEOREM RunnersAreTerminated == Spec => []ContainersGone
<1>1. SuiteInv => ContainersGone
  <2> SUFFICES ASSUME SuiteInv, NEW id \in DOMAIN containers, containers[id].up, containers[id].told
               PROVE  id = runner.id /\ (step = "next" => suites[over].run)
    BY DEF ContainersGone
  <2>1. id \in 1 .. Len(containers)
    BY LenProperties DEF SuiteInv, TypeOK, RunnersOK
  <2>2. RunsOn(id)
    BY DEF RunsOn
  <2> QED
    BY <2>1, <2>2 DEF SuiteInv, ContainerInv, OfRun
<1> QED
  BY <1>1, SuiteSafe, PTL

(* What is reported of a test is what ran for it, in the one call that was *)
(* made for it, or nothing; a test that never was taken up has no call.    *)
THEOREM ReportsAreTrue == Spec => []ReportsTrue
<1>1. SuiteInv => ReportsTrue
  <2> SUFFICES ASSUME SuiteInv, NEW s \in 1 .. Len(reports), NEW i \in 1 .. Len(reports[s])
               PROVE  LET report == reports[s][i] IN
                      /\ report.state # "started" \/ s = over + 1 \/ (s <= over /\ report.stats = <<>>)
                      /\ report.state = "null" => RunsOf(s, i) = {}
                      /\ report.stats # <<>> =>
                           \E r \in DOMAIN runs : RunsOf(s, i) = {r} /\ report.stats = runs[r].ran
    <3>1. SuiteInv => DOMAIN reports = 1 .. Len(reports)
      BY LenProperties DEF SuiteInv, TypeOK, SuitesOK
    <3>2. SuiteInv => \A s \in 1 .. Len(reports) : DOMAIN reports[s] = 1 .. Len(reports[s])
      BY LenProperties, ElementOfSeq DEF SuiteInv, TypeOK, SuitesOK
    <3> QED
      BY <3>1, <3>2 DEF ReportsTrue
  <2>1. DOMAIN runs = 1 .. Len(runs) /\ over \in Nat /\ Len(reports) \in Nat
    BY LenProperties DEF SuiteInv, TypeOK, SuitesOK
  <2>2. reports[s][i].state # "started" \/ s = over + 1 \/ (s <= over /\ reports[s][i].stats = <<>>)
    BY <2>1 DEF SuiteInv, TestsInOrder
  <2>3. reports[s][i].state = "null" => RunsOf(s, i) = {}
    BY <2>1 DEF SuiteInv, CallsTold, RunsOf
  <2>4. ASSUME reports[s][i].stats # <<>>
        PROVE  \E r \in DOMAIN runs : RunsOf(s, i) = {r} /\ reports[s][i].stats = runs[r].ran
    <3>1. PICK r \in 1 .. Len(runs) : IsCall(r, s, i) /\ reports[s][i].stats = runs[r].ran
      BY <2>4 DEF SuiteInv, StatsTold
    <3>2. \A q \in 1 .. Len(runs) : IsCall(q, s, i) <=> q = r
      BY <3>1 DEF SuiteInv, CallsTold, IsCall
    <3>3. RunsOf(s, i) = {r}
      BY <2>1, <3>2 DEF RunsOf, IsCall
    <3> QED
      BY <2>1, <3>1, <3>3
  <2> QED
    BY <2>2, <2>3, <2>4
<1> QED
  BY <1>1, SuiteSafe, PTL

-----------------------------------------------------------------------------
(* The reports are those SuiteReport promises.                             *)
Tests == [s \in DOMAIN suites |-> Len(reports[s])]
States == [s \in DOMAIN reports |-> [i \in DOMAIN reports[s] |-> reports[s][i].state]]

StatesKnown ==
  /\ Tests = [s \in 1 .. Len(reports) |-> Len(reports[s])] /\ Tests \in Seq(Nat)
  /\ States = [s \in 1 .. Len(reports) |-> [i \in 1 .. Len(reports[s]) |-> reports[s][i].state]]
  /\ Len(reports) = Len(suites) /\ Len(reports) \in Nat

LEMMA StatesFacts == TypeOK => StatesKnown
<1> SUFFICES ASSUME TypeOK PROVE StatesKnown
  OBVIOUS
<1>1. Len(reports) = Len(suites) /\ reports \in Seq(Seq(TestReports)) /\ Len(reports) \in Nat
  BY LenProperties DEF TypeOK, SuitesOK
<1>2. DOMAIN suites = 1 .. Len(reports) /\ DOMAIN reports = 1 .. Len(reports)
  BY <1>1, ProgramsAssumption, LenProperties DEF TypeOK, SuitesOK
<1>3. \A s \in 1 .. Len(reports) : Len(reports[s]) \in Nat /\ DOMAIN reports[s] = 1 .. Len(reports[s])
  BY <1>1, ElementOfSeq, LenProperties
<1>4. PICK n \in Nat : n = Len(reports)
  BY <1>1
<1>5. Tests = [s \in 1 .. n |-> Len(reports[s])]
  BY <1>2, <1>4 DEF Tests
<1>6. Tests \in Seq(Nat)
  BY <1>3, <1>4, <1>5
<1>7. States = [s \in 1 .. n |-> [i \in 1 .. Len(reports[s]) |-> reports[s][i].state]]
  BY <1>2, <1>3, <1>4 DEF States
<1> QED
  BY <1>1, <1>4, <1>5, <1>6, <1>7 DEF StatesKnown

(* A test that is taken up, or reported, is so in the abstract reports too.*)
LEMMA SetStates ==
  ASSUME TypeOK, TypeOK', NEW report \in TestReports, IsSet(report)
  PROVE  /\ Tests' = Tests
         /\ States' = [States EXCEPT ![over + 1][at'] = report.state]
<1>0. StatesKnown /\ StatesKnown'
  <2>1. TypeOK' => StatesKnown'
    BY StatesFacts, PTL
  <2> QED
    BY <2>1, StatesFacts
<1>1. PICK n : n = Len(reports)
  OBVIOUS
<1>2. /\ Len(reports') = n
      /\ \A s \in 1 .. n : Len(reports'[s]) = Len(reports[s])
  BY <1>1 DEF IsSet
<1>3. Tests' = Tests
  BY <1>0, <1>1, <1>2 DEF StatesKnown
<1>4. PICK now : now = States'
  OBVIOUS
<1>5. now = [s \in 1 .. n |-> [i \in 1 .. Len(reports[s]) |-> reports'[s][i].state]]
  BY <1>0, <1>2, <1>4 DEF StatesKnown
<1>6. PICK set : set = [States EXCEPT ![over + 1][at'] = report.state]
  OBVIOUS
<1>7. over + 1 \in 1 .. n /\ at' \in 1 .. Len(reports[over + 1])
  BY <1>1 DEF IsSet
<1>8. ASSUME NEW s \in 1 .. n
      PROVE  set[s] = now[s]
  <2>1. CASE s = over + 1
    <3>1. set[s] = [i \in 1 .. Len(reports[s]) |-> IF i = at' THEN report.state ELSE reports[s][i].state]
      BY <1>0, <1>1, <1>6, <1>7, <2>1 DEF StatesKnown
    <3>2. \A i \in 1 .. Len(reports[s]) : reports'[s][i] = IF i = at' THEN report ELSE reports[s][i]
      BY <1>1, <2>1 DEF IsSet
    <3> QED
      BY <1>5, <3>1, <3>2
  <2>2. CASE s # over + 1
    <3>1. set[s] = [i \in 1 .. Len(reports[s]) |-> reports[s][i].state]
      BY <1>0, <1>1, <1>6, <1>7, <2>2 DEF StatesKnown
    <3>2. \A i \in 1 .. Len(reports[s]) : reports'[s][i] = reports[s][i]
      BY <1>1, <2>2 DEF IsSet
    <3> QED
      BY <1>5, <3>1, <3>2
  <2> QED
    BY <2>1, <2>2
<1>9. set = now
  <2>1. set = [s \in 1 .. n |-> set[s]]
    BY <1>0, <1>1, <1>6 DEF StatesKnown
  <2> QED
    BY <1>5, <1>8, <2>1
<1> QED
  BY <1>3, <1>4, <1>6, <1>9

LEMMA ReportStep ==
  ASSUME SuiteInv, SuiteInv', [Next]_vars
  PROVE  [Report!Next]_Report!vars
<1>0. /\ TypeOK /\ TypeOK' /\ TestsInOrder /\ over \in Nat /\ at \in Nat
      /\ Len(reports) = Len(suites) /\ DOMAIN Tests = 1 .. Len(reports)
      /\ \A s \in 1 .. Len(reports) : Tests[s] = Len(reports[s])
      /\ \A s \in 1 .. Len(reports) : \A i \in 1 .. Len(reports[s]) : States[s][i] = reports[s][i].state
  <2>1. TypeOK /\ TypeOK' /\ TestsInOrder
    BY DEF SuiteInv
  <2>2. StatesKnown
    BY <2>1, StatesFacts
  <2>3. over \in Nat /\ at \in Nat
    BY <2>1 DEF TypeOK, SuitesOK
  <2> QED
    BY <2>1, <2>2, <2>3 DEF StatesKnown
<1>1. ASSUME UNCHANGED <<suites, over, reports>> PROVE UNCHANGED Report!vars
  BY <1>1 DEF Report!vars
<1>2. CASE Ends
  <2>1. over + 1 \in DOMAIN Tests /\ over' = over + 1 /\ Tests' = Tests /\ States' = States
    BY <1>0, <1>2 DEF Ends, Tests, States
  <2>2. Report!End(over + 1)
    BY <2>1 DEF Report!End, Report!Current, Report!Suites, Tests, States
  <2> QED
    BY <2>1, <2>2 DEF Report!Next, Report!Suites, Tests
<1>3. CASE TakesUp
  <2>1. PICK report \in TestReports : report.state = "started" /\ IsSet(report)
    BY <1>0, <1>3, TakesUpFacts
  <2>2. over' = over /\ at' = at + 1 /\ step = "test"
    BY <1>3 DEF TakesUp
  <2>3. Tests' = Tests /\ States' = [States EXCEPT ![over + 1][at'] = "started"]
    BY <1>0, <2>1, SetStates
  <2>4. over + 1 \in 1 .. Len(reports) /\ at' \in 1 .. Len(reports[over + 1])
    BY <2>1 DEF IsSet
  <2>5. States[over + 1][at'] = "null"
    BY <1>0, <2>2, <2>4 DEF TestsInOrder, Progress
  <2>6. \A j \in 1 .. at' - 1 : States[over + 1][j] = "reported"
    BY <1>0, <2>2, <2>4 DEF TestsInOrder, Progress, TestingSteps, RunningSteps
  <2>7. PICK s \in DOMAIN Tests, i \in Nat : s = over + 1 /\ i = at' /\ i \in 1 .. Tests[s]
    BY <1>0, <2>4
  <2>8. Report!TakeUp(s, i)
    BY <2>2, <2>3, <2>5, <2>6, <2>7 DEF Report!TakeUp, Report!Current, Report!Suites, Tests, States
  <2> QED
    BY <2>7, <2>8 DEF Report!Next, Report!Suites, Tests
<1>4. ASSUME NEW got \in BOOLEAN, Reports(got) PROVE [Report!Next]_Report!vars
  <2>1. PICK report \in TestReports : report.state = "reported" /\ IsSet(report)
    BY <1>0, <1>4, ReportsFacts
  <2>2. over' = over /\ at' = at /\ step = "stats"
    BY <1>4 DEF Reports
  <2>3. Tests' = Tests /\ States' = [States EXCEPT ![over + 1][at'] = "reported"]
    BY <1>0, <2>1, SetStates
  <2>4. over + 1 \in 1 .. Len(reports) /\ at' \in 1 .. Len(reports[over + 1])
    BY <2>1 DEF IsSet
  <2>5. States[over + 1][at'] = "started"
    BY <1>0, <2>2, <2>4 DEF TestsInOrder, Progress, TestingSteps, RunningSteps
  <2>6. PICK s \in DOMAIN Tests, i \in Nat : s = over + 1 /\ i = at' /\ i \in 1 .. Tests[s]
    BY <1>0, <2>4
  <2>7. Report!Report(s, i)
    BY <2>2, <2>3, <2>5, <2>6 DEF Report!Report, Report!Current, Report!Suites, Tests, States
  <2> QED
    BY <2>6, <2>7 DEF Report!Next, Report!Suites, Tests
<1> QED
  BY <1>0, <1>1, <1>2, <1>3, <1>4, Steps DEF GoesOn, Begins

(* The reports are those SuiteReport promises: the tests of a suite are    *)
(* taken up and reported in their order, and a suite that is over stays as *)
(* it is.  That every suite is over in the end is left to ReportSpec.      *)
THEOREM ReportsInTheirOrder == Spec => Report!Init /\ [][Report!Next]_Report!vars
<1>1. Init => Report!Init
  <2> SUFFICES ASSUME Init PROVE Report!Init
    OBVIOUS
  <2>1. SuiteInv
    BY Initially
  <2>2. StatesKnown
    BY <2>1, StatesFacts DEF SuiteInv
  <2>3. over = 0 /\ step = "next"
    BY DEF Init
  <2>4. \A s \in 1 .. Len(reports) : \A i \in 1 .. Len(reports[s]) : reports[s][i].state = "null"
    BY <2>1, <2>3 DEF SuiteInv, TestsInOrder
  <2>5. States = [s \in DOMAIN Tests |-> [i \in 1 .. Tests[s] |-> "null"]]
    BY <2>2, <2>4 DEF StatesKnown
  <2> QED
    BY <2>2, <2>3, <2>5 DEF StatesKnown, Report!Init, Report!Suites, Tests, States
<1>2. SuiteInv /\ SuiteInv' /\ [Next]_vars => [Report!Next]_Report!vars
  BY ReportStep
<1> QED
  BY <1>1, <1>2, SuiteSafe, PTL DEF Spec
=============================================================================
