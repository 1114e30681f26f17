------------------------------- MODULE Runners -------------------------------
(***************************************************************************)
(* The runners that tests are run in (runners/docker, runners/local): a    *)
(* container that is created, prepared and killed by commands of the docker*)
(* binary, or the machine itself.  Every command may fail, a container may *)
(* die at any time, and a command that was killed itself counts as one that*)
(* went well (util/exec.ts).                                               *)
(***************************************************************************)
EXTENDS Integers, Sequences

CONSTANTS
  MaxFaults,  \* how many things go wrong
  MaxTries    \* how often a container is asked if it is ready

ASSUME RunnersAssumption == MaxFaults \in Nat /\ MaxTries \in Nat \ {0}

VARIABLES
  step,        \* what the program does next
  containers,  \* every container there was
  runner,      \* the runner at hand
  faults       \* how many things went wrong

runnerVars == <<containers, runner, faults>>

(* id: the container, 0 before there is one, -1 if its name was not told;  *)
(* dead: the container was found not to run; intact: everything sent to the*)
(* container has arrived; tries: how often it was asked if it is ready.    *)
NewRunner(local) ==
  [local |-> local, id |-> 0, dead |-> FALSE, intact |-> TRUE, tries |-> 0]

Up(id) == id > 0 /\ containers[id].up

(* A command is done, has a bad exit code, or was killed, which nobody     *)
(* notices.                                                                *)
Outcomes == {"done", "bad", "lost"}
Command(outcome) ==
  /\ outcome \in Outcomes
  /\ outcome # "done" => faults < MaxFaults
  /\ faults' = IF outcome = "done" THEN faults ELSE faults + 1

Alive == runner.local \/ Up(runner.id)
FoundDead ==
  /\ ~Alive
  /\ runner' = [runner EXCEPT !.dead = runner.id > 0]
  /\ UNCHANGED <<containers, faults>>

(* A command whose files may not arrive, and that cannot use what did not. *)
RunCommand(uses, next, failed) ==
  /\ \/ \E outcome \in Outcomes :
          /\ Command(outcome)
          /\ uses /\ outcome = "done" => runner.intact
          /\ step' = IF outcome = "bad" THEN failed ELSE next
          /\ runner' = [runner EXCEPT !.intact = @ /\ outcome = "done"]
     \/ uses /\ ~runner.intact /\ step' = failed /\ UNCHANGED <<runner, faults>>
  /\ UNCHANGED containers

(* Every command for a container is preceded by a look if it runs.         *)
InContainer(uses, next, failed) ==
  /\ ~runner.local
  /\ \/ FoundDead /\ step' = failed
     \/ Up(runner.id) /\ RunCommand(uses, next, failed)
OnMachine(uses, next, failed) == runner.local /\ RunCommand(uses, next, failed)
InRunner(uses, next, failed) == InContainer(uses, next, failed) \/ OnMachine(uses, next, failed)

-----------------------------------------------------------------------------
(* setUp.                                                                  *)

(* An image that was not built is missed when it is run.                   *)
BuildImage ==
  /\ step = "build"
  /\ \E outcome \in Outcomes :
       /\ Command(outcome)
       /\ step' = IF outcome = "bad" THEN "setUpFailed" ELSE "run"
       /\ runner' = [runner EXCEPT !.intact = @ /\ outcome = "done"]
  /\ UNCHANGED containers

(* A container that is created, up or not, and whether its name is told.   *)
Created(up, told) == Append(containers, [up |-> up, told |-> told])

DockerRun ==
  /\ step = "run"
  /\ \/ ~runner.intact /\ step' = "setUpFailed" /\ UNCHANGED runnerVars
     \/ /\ runner.intact
        /\ \E outcome \in Outcomes :
             /\ Command(outcome)
             /\ step' = IF outcome = "bad" THEN "setUpFailed" ELSE "ready"
             /\ containers' = Created(outcome # "bad", outcome = "done")
             /\ runner' = [runner EXCEPT !.id = CASE outcome = "done" -> Len(containers')
                                                  [] outcome = "lost" -> -1
                                                  [] OTHER -> @]

(* A container that is found dead is not asked again.                      *)
WaitReady ==
  /\ step = "ready"
  /\ \/ FoundDead /\ step' = "setUpFailed"
     \/ Alive /\ step' = "node" /\ UNCHANGED runnerVars
     \/ /\ Alive /\ runner.tries + 1 < MaxTries
        /\ step' = "ready"
        /\ runner' = [runner EXCEPT !.tries = @ + 1]
        /\ UNCHANGED <<containers, faults>>
     \/ Alive /\ runner.tries + 1 >= MaxTries /\ step' = "setUpFailed" /\ UNCHANGED runnerVars

(* Node.js is brought into the runner, tried, and then the program itself. *)
UploadNode == step = "node" /\ InRunner(FALSE, "version", "setUpFailed")
CheckVersion == step = "version" /\ InRunner(TRUE, "bundle", "setUpFailed")
UploadBundle == step = "bundle" /\ InRunner(TRUE, "archive", "setUpFailed")

SetUp == BuildImage \/ DockerRun \/ WaitReady \/ UploadNode \/ CheckVersion \/ UploadBundle

(* Where setting up begins: the machine itself needs no container.         *)
FirstStep(local) == IF local THEN "version" ELSE "build"

-----------------------------------------------------------------------------
(* The archive is uploaded and unpacked.                                   *)
UploadArchive == step = "archive" /\ InRunner(FALSE, "test", "failed")

(* Mutant of Killed: a container is only killed if everything went well.   *)
KilledIfIntact ==
  IF runner.id > 0 /\ ~runner.dead /\ runner.intact THEN {"done", "bad", "lost"} ELSE {"none"}

(* What may become of the command that kills the container.                *)
Killed == IF runner.id > 0 /\ ~runner.dead THEN {"done", "bad", "lost"} ELSE {"none"}

(* A container that does not run any more is not killed; one that cannot be*)
(* killed is left.                                                         *)
TearDown(next) ==
  /\ \E outcome \in Killed :
       /\ outcome # "none" => Command(outcome)
       /\ outcome = "none" => UNCHANGED faults
       /\ containers' = CASE outcome = "done" -> [containers EXCEPT ![runner.id].up = FALSE]
                          [] outcome = "none" -> containers
                          [] OTHER -> [containers EXCEPT ![runner.id].told = FALSE]
  /\ runner' = NewRunner(runner.local)
  /\ step' = next

(* A container stops by itself.                                            *)
Die ==
  /\ faults < MaxFaults
  /\ \E id \in DOMAIN containers :
       containers[id].up /\ containers' = [containers EXCEPT ![id].up = FALSE]
  /\ faults' = faults + 1
  /\ UNCHANGED <<step, runner>>
=============================================================================
