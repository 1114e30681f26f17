------------------------------ MODULE TaskRunner ------------------------------
(***************************************************************************)
(* How a recipe is run: lists of tasks, one after the other, and the       *)
(* modules that run lists of their own -- try, loop, switch and recipe     *)
(* (components/task.ts, components/recipe.ts, modules/).                   *)
(*                                                                         *)
(* A program is a tree: a task of a list runs lists, whose tasks run       *)
(* lists.  The JavaScript call stack is the path from the list being run   *)
(* up to the top recipe, so one variable says where control is, and a list *)
(* that is over hands its result to the task it belongs to.                *)
(***************************************************************************)
EXTENDS Naturals, Sequences

CONSTANTS
  Tasks,      \* the tasks, the top recipe included
  Lists,      \* the lists of tasks
  Top,        \* the recipe that is run
  NoList,     \* where the top recipe is
  Steps,      \* the tasks of a list, in order
  Home,       \* the list a task is in
  Owner,      \* the task that runs a list
  Role,       \* what the list is to its owner
  Kind,       \* the module of a task
  Rounds,     \* the retries of a try, the items of a loop
  Above,      \* a task and those whose lists it is in, up to the top
  Scope,      \* the recipe a task is run by
  Checked,    \* the tasks with a failedIf or exitIf condition
  Listeners   \* the tasks that leave a server running

Kinds == {"action", "try", "loop", "switch", "recipe"}
Roles == {"body", "catch", "finally"}
ListsOf(t) == {l \in Lists : Owner[l] = t}
In(t, role) == {l \in ListsOf(t) : Role[l] = role}

ASSUME TypeAssumption ==
  /\ Top \in Tasks
  /\ NoList \notin Lists
  /\ Steps \in [Lists -> Seq(Tasks)]
  /\ Home \in [Tasks -> Lists \cup {NoList}]
  /\ Owner \in [Lists -> Tasks]
  /\ Role \in [Lists -> Roles]
  /\ Kind \in [Tasks -> Kinds]
  /\ Rounds \in [Tasks -> Nat]
  /\ Above \in [Tasks -> SUBSET Tasks]
  /\ Scope \in [Tasks -> Tasks]
  /\ Kind[Top] = "recipe"
  /\ Checked \subseteq Tasks \ {Top} /\ Listeners \subseteq Tasks \ {Top}

(* The program is a tree with Top at its root.                             *)
ASSUME TreeAssumption ==
  /\ \A l \in Lists : \A i \in 1 .. Len(Steps[l]) :
       /\ Home[Steps[l][i]] = l
       /\ \A j \in 1 .. Len(Steps[l]) : Steps[l][i] = Steps[l][j] => i = j
  /\ Home[Top] = NoList /\ Above[Top] = {Top}
  /\ \A t \in Tasks \ {Top} :
       LET p == Owner[Home[t]] IN
       /\ Home[t] \in Lists
       /\ t \notin Above[p] /\ Above[t] = Above[p] \cup {t}
       /\ \A u \in Tasks : t \in Above[u] => p \in Above[u]
       /\ Scope[t] \in Above[p] /\ Kind[Scope[t]] = "recipe"
       /\ Kind[p] = "recipe" => Scope[t] = p
       /\ Kind[p] # "recipe" => Scope[t] = Scope[p]

(* Only a try has lists beside its body; each module but switch has one    *)
(* body, and a switch one for every choice of cases.                       *)
ASSUME ModuleAssumption ==
  \A l \in Lists :
    /\ Kind[Owner[l]] # "action"
    /\ Role[l] # "body" => Kind[Owner[l]] = "try"
    /\ Kind[Owner[l]] # "switch" =>
         \A m \in Lists : Owner[m] = Owner[l] /\ Role[m] = Role[l] => m = l

VARIABLES
  at,       \* the list being run, or just over
  list,     \* the last run of each list
  task,     \* the last run of each task with lists
  hooks,    \* how many shutdown hooks of each recipe are still to be run
  outcome   \* how the run of the top recipe ended

vars == <<at, list, task, hooks, outcome>>

-----------------------------------------------------------------------------
Results == {"ok", "exit", "thrown"}

(* res: not run yet, being run, or the result; ran: the tasks that ran to  *)
(* their end; out: the tasks whose variables the list returns.             *)
Fresh == [res |-> "none", pos |-> 0, ran |-> {}, out |-> {}]
Entered(l) == [Fresh EXCEPT !.res = IF Steps[l] = <<>> THEN "ok" ELSE "go"]
Unresolved == [Fresh EXCEPT !.res = "thrown"]

(* round: retries or items so far; error: there is a last error.           *)
NewTask == [round |-> 0, error |-> FALSE, exit |-> FALSE, out |-> {}]

Init ==
  /\ at = NoList
  /\ list = [l \in Lists |-> Fresh]
  /\ task = [t \in Tasks |-> NewTask]
  /\ hooks = [t \in Tasks |-> 0]
  /\ outcome = "none"

-----------------------------------------------------------------------------
(* The loop over the tasks of a list.                                      *)

Ready(t) ==
  /\ at # NoList
  /\ list[at].res = "go"
  /\ t = Steps[at][list[at].pos + 1]

(* A list goes on, or is over, after a task that did not fail.             *)
Forward(l, res) ==
  IF res = "exit" THEN "exit" ELSE IF list[l].pos + 1 = Len(Steps[l]) THEN "ok" ELSE "go"

Advanced(l, res, ran, out) ==
  [res |-> Forward(l, res), pos |-> list[l].pos + 1,
   ran |-> list[l].ran \cup ran, out |-> list[l].out \cup out]

(* Task t ends with a result; a failure ends its list at once, an exit     *)
(* after the variables of t are recorded.                                  *)
Complete(t, res, out) ==
  LET l == Home[t] IN
  /\ at' = l
  /\ IF t = Top
     THEN outcome' = res /\ UNCHANGED list
     ELSE /\ list' = [list EXCEPT ![l] =
                        IF res = "thrown" THEN [@ EXCEPT !.res = "thrown"]
                        ELSE Advanced(l, res, {t}, out)]
          /\ UNCHANGED outcome

(* The conditions of t looked at after its module returned: failedIf and   *)
(* exitIf, in this order.  A module that threw is not looked at.           *)
Settle(t, res, out) ==
  \E q \in {res} \cup (IF t \in Checked /\ res # "thrown" THEN {"exit", "thrown"} ELSE {}) :
    Complete(t, q, out)

Skip(t) ==
  /\ Ready(t)
  /\ list' = [list EXCEPT ![at] = Advanced(at, "ok", {}, {})]
  /\ UNCHANGED <<at, task, hooks, outcome>>

(* Templates of t that cannot be resolved, or a condition that cannot be   *)
(* evaluated: the module is not run.                                       *)
FailEarly(t) ==
  /\ Ready(t)
  /\ Complete(t, "thrown", {})
  /\ UNCHANGED <<task, hooks>>

(* A listener registers a hook with the recipe it is run by.               *)
Listen(t) == t \in Listeners /\ hooks' = [hooks EXCEPT ![Scope[t]] = @ + 1]

(* A task whose module runs no tasks.                                      *)
RunAction(t) ==
  /\ Ready(t)
  /\ Kind[t] = "action"
  /\ \E res \in Results : Complete(t, res, {t})
  /\ UNCHANGED hooks \/ Listen(t)
  /\ UNCHANGED task

-----------------------------------------------------------------------------
(* The modules that run tasks.                                             *)

(* List l is resolved and begun; templates that cannot be resolved end it. *)
Enter(l, from) ==
  /\ at' = l
  /\ \E s \in {Entered(l), Unresolved} : list' = [from EXCEPT ![l] = s]
  /\ UNCHANGED outcome

(* A new instance of the module: its lists have not been run.              *)
Begin(t) ==
  /\ \E l \in In(t, "body") :
       Enter(l, [m \in Lists |-> IF Owner[m] = t THEN Fresh ELSE list[m]])
  /\ task' = [task EXCEPT ![t] = NewTask]
  /\ UNCHANGED hooks

StartModule(t) == Ready(t) /\ ~(Kind[t] = "loop" /\ Rounds[t] = 0) /\ Begin(t)

StartEmptyLoop(t) ==
  /\ Ready(t)
  /\ Kind[t] = "loop" /\ Rounds[t] = 0
  /\ \E res \in {"ok", "thrown"} : Settle(t, res, {})
  /\ UNCHANGED <<task, hooks>>

Run ==
  /\ at = NoList /\ outcome = "none"
  /\ Begin(Top)

(* List `at' is over, with one of these results, and t handles it.         *)
Over(t, kind, role, results) ==
  /\ at # NoList /\ t = Owner[at]
  /\ Kind[t] = kind /\ Role[at] = role
  /\ list[at].res \in results

Done == {"ok", "exit"}
OutOf(l) == IF list[l].res \in Done THEN list[l].out ELSE {}

Switched(t) ==
  /\ Over(t, "switch", "body", Results)
  /\ Settle(t, list[at].res, OutOf(at))
  /\ UNCHANGED <<task, hooks>>

(* Mutant of LoopNext: the next item is run after an exit.                 *)
LoopNextAfterExit(t) ==
  /\ Over(t, "loop", "body", Done)
  /\ task[t].round + 1 < Rounds[t]
  /\ at' = at /\ list' = [list EXCEPT ![at] = Entered(at)]
  /\ task' = [task EXCEPT ![t].round = @ + 1, ![t].out = @ \cup OutOf(at),
                          ![t].exit = @ \/ list[at].res = "exit"]
  /\ UNCHANGED <<hooks, outcome>>

LoopNext(t) ==
  /\ Over(t, "loop", "body", {"ok"})
  /\ task[t].round + 1 < Rounds[t]
  /\ at' = at /\ list' = [list EXCEPT ![at] = Entered(at)]
  /\ task' = [task EXCEPT ![t].round = @ + 1, ![t].out = @ \cup OutOf(at)]
  /\ UNCHANGED <<hooks, outcome>>

LoopEnd(t) ==
  /\ Over(t, "loop", "body", Results)
  /\ list[at].res = "ok" => task[t].round + 1 = Rounds[t]
  /\ Settle(t, list[at].res, task[t].out \cup OutOf(at))
  /\ UNCHANGED <<task, hooks>>

(* What a try does when its main list and its catch list are behind it;    *)
(* s is what it has gathered.                                              *)
Verdict(s) == IF s.error THEN "thrown" ELSE IF s.exit THEN "exit" ELSE "ok"

Conclude(t, s) ==
  /\ IF In(t, "finally") = {}
     THEN Settle(t, Verdict(s), s.out)
     ELSE \E f \in In(t, "finally") : Enter(f, list)
  /\ task' = [task EXCEPT ![t] = s]
  /\ UNCHANGED hooks

(* The main or the catch list succeeded.                                   *)
Gather(t) ==
  [task[t] EXCEPT !.error = FALSE, !.exit = @ \/ list[at].res = "exit",
                  !.out = @ \cup list[at].out]

TryDone(t) ==
  /\ Over(t, "try", "body", Done)
  /\ Conclude(t, Gather(t))

(* Mutant of Retry: it keeps what the attempt set.                          *)
RetryKeepsVars(t) ==
  /\ Over(t, "try", "body", {"thrown"})
  /\ task[t].round < Rounds[t]
  /\ Enter(at, list)
  /\ task' = [task EXCEPT ![t].round = @ + 1, ![t].error = TRUE, ![t].out = @ \cup list[at].out]
  /\ UNCHANGED hooks

Retry(t) ==
  /\ Over(t, "try", "body", {"thrown"})
  /\ task[t].round < Rounds[t]
  /\ Enter(at, list)
  /\ task' = [task EXCEPT ![t].round = @ + 1, ![t].error = TRUE]
  /\ UNCHANGED hooks

TryFailed(t) ==
  /\ Over(t, "try", "body", {"thrown"})
  /\ task[t].round = Rounds[t]
  /\ \/ /\ \E c \in In(t, "catch") : Enter(c, list)
        /\ task' = [task EXCEPT ![t].error = TRUE]
        /\ UNCHANGED hooks
     \/ In(t, "catch") = {} /\ Conclude(t, [task[t] EXCEPT !.error = TRUE])

Caught(t) ==
  /\ Over(t, "try", "catch", Done)
  /\ Conclude(t, Gather(t))

(* An error of the catch list leaves the module at once.                   *)
CatchFailed(t) ==
  /\ Over(t, "try", "catch", {"thrown"})
  /\ Complete(t, "thrown", {})
  /\ UNCHANGED <<task, hooks>>

(* Mutant of FinallyDone: the last error is forgotten.                     *)
FinallyDoneOk(t) ==
  /\ Over(t, "try", "finally", Done)
  /\ Settle(t, IF task[t].exit THEN "exit" ELSE "ok", task[t].out \cup list[at].out)
  /\ UNCHANGED <<task, hooks>>

(* An exit of the finally list is not looked at; an error leaves at once.  *)
FinallyDone(t) ==
  /\ Over(t, "try", "finally", Done)
  /\ Settle(t, Verdict(task[t]), task[t].out \cup list[at].out)
  /\ UNCHANGED <<task, hooks>>

FinallyFailed(t) ==
  /\ Over(t, "try", "finally", {"thrown"})
  /\ Complete(t, "thrown", {})
  /\ UNCHANGED <<task, hooks>>

(* The shutdown hooks of a recipe are run however its tasks ended; what    *)
(* goes wrong in a hook is logged.                                         *)
ShutDown(t) ==
  /\ Over(t, "recipe", "body", Results)
  /\ hooks[t] > 0
  /\ hooks' = [hooks EXCEPT ![t] = @ - 1]
  /\ UNCHANGED <<at, list, task, outcome>>

(* Mutant of RecipeEnd: an error leaves the hooks behind.                  *)
RecipeEndThrows(t) ==
  /\ Over(t, "recipe", "body", Results)
  /\ hooks[t] = 0 \/ list[at].res = "thrown"
  /\ Settle(t, IF list[at].res = "thrown" THEN "thrown" ELSE "ok", OutOf(at))
  /\ UNCHANGED <<task, hooks>>

(* The caller of a recipe does not hear of an exit.                        *)
RecipeEnd(t) ==
  /\ Over(t, "recipe", "body", Results)
  /\ hooks[t] = 0
  /\ Settle(t, IF list[at].res = "thrown" THEN "thrown" ELSE "ok", OutOf(at))
  /\ UNCHANGED <<task, hooks>>

Try(t) ==
  TryDone(t) \/ Retry(t) \/ TryFailed(t) \/ Caught(t) \/ CatchFailed(t)
  \/ FinallyDone(t) \/ FinallyFailed(t)

Module(t) ==
  \/ StartModule(t) \/ StartEmptyLoop(t)
  \/ Switched(t) \/ LoopNext(t) \/ LoopEnd(t)
  \/ Try(t)
  \/ ShutDown(t) \/ RecipeEnd(t)

Next ==
  \/ Run
  \/ \E t \in Tasks : Skip(t) \/ FailEarly(t) \/ RunAction(t) \/ Module(t)

Spec == Init /\ [][Next]_vars

(* No task hangs: every step of the program is eventually taken.           *)
FairSpec == Spec /\ WF_vars(Next)

-----------------------------------------------------------------------------
ListStates == [res : {"none", "go"} \cup Results, pos : Nat,
               ran : SUBSET Tasks, out : SUBSET Tasks]
TaskStates == [round : Nat, error : BOOLEAN, exit : BOOLEAN, out : SUBSET Tasks]

(* A list that is being run has a task to run, and has run only tasks that *)
(* are behind it.                                                          *)
ListOK(l, s) ==
  /\ s \in ListStates
  /\ s.pos <= Len(Steps[l])
  /\ s.res = "go" => s.pos < Len(Steps[l])
  /\ \A t \in s.ran : \E i \in 1 .. s.pos : t = Steps[l][i]

(* The type invariant of the task runner's state.                          *)
TypeOK ==
  /\ at \in Lists \cup {NoList}
  /\ list \in [Lists -> ListStates] /\ \A l \in Lists : ListOK(l, list[l])
  /\ task \in [Tasks -> TaskStates]
  /\ hooks \in [Tasks -> Nat]
  /\ outcome \in {"none", "ok", "thrown"}

OnStack(t) == at # NoList /\ t \in Above[Owner[at]]
Passed(t) == IF t = Top THEN outcome = "ok" ELSE t \in list[Home[t]].ran

(* A server started by a recipe is shut down before the recipe is left,    *)
(* by whichever way: recipe.ts:385-389.                                    *)
HooksScoped == \A t \in Tasks : hooks[t] > 0 => OnStack(t)

(* "If there are no other `failure catching' methods in place, the         *)
(* recipe's execution will be halted" (abstractModuleBase.schema.ts:13):   *)
(* a task passes although a list of it failed only where a catch list      *)
(* dealt with the failure.                                                 *)
ErrorsHandled ==
  \A l \in Lists :
    list[l].res = "thrown" /\ Passed(Owner[l]) =>
      Role[l] = "body" /\ \E c \in In(Owner[l], "catch") : list[c].res \in Done

(* "The recipe will stop successfully" (exitIf, task.schema.ts:77): after  *)
(* an exit the module runs no list but `finally', and passes the exit on   *)
(* to the list it is in, up to the recipe.  The exit of a task of a        *)
(* finally list goes no further (try/index.ts:116).                        *)
ExitHalts ==
  /\ \A l \in Lists :
       /\ list[l].res = "exit" /\ Role[l] # "finally" /\ Passed(Owner[l])
       /\ Kind[Owner[l]] # "recipe"
       => list[Home[Owner[l]]].res = "exit"
  /\ \A t \in Tasks :
       OnStack(t) /\ task[t].exit => \E f \in In(t, "finally") : list[f].res # "none"

HasRun(t, role) == \E l \in In(t, role) : list[l].res # "none"

(* "The variables returned by the successful task" (try/schema.ts:14): a   *)
(* list returns what its own tasks set, and what the lists they ran set,   *)
(* but nothing a failed attempt of theirs left behind.                     *)
VarsOfSuccess ==
  \A m \in Lists : \A v \in list[m].out :
    \/ v \in list[m].ran
    \/ \E l \in Lists :
         /\ Owner[l] \in list[m].ran
         /\ \/ list[l].res \in Done /\ v \in list[l].out
            \/ Kind[Owner[l]] = "loop" /\ v \in task[Owner[l]].out

=============================================================================
