------------------------------- MODULE VarScopes -------------------------------
(***************************************************************************)
(* The variables of a recipe that runs (util/runContext.ts, task.ts,       *)
(* recipe.ts, modules try, loop, switch and recipe): which lists of tasks  *)
(* share an object of variables and which get a copy, when the templates   *)
(* of a task are rendered and against which object. Several recipes run at *)
(* a time (two reloads of an agent); they share nothing but the variable   *)
(* of the template engine. Lists of tasks nest through recipes only: a     *)
(* task of try, loop and switch is no list itself.                         *)
(***************************************************************************)
EXTENDS Templates, Objects, FiniteSets

CONSTANTS
  Programs,  \* the recipes: [vars, inputs, tasks], see MCVarScopes
  Tasks      \* their tasks, and those nested in them

(* What is written has no markers, and tasks have lists of tasks.          *)
IsWritten(cell) ==
  IF IsTemplate(cell) THEN IsList(cell.parts)
  ELSE /\ IsList(cell.tokens)
       /\ \A i \in DOMAIN cell.tokens : DOMAIN cell.tokens[i] \cap {"mark", "source"} = {}
ASSUME TasksAssumption ==
  /\ \A r \in Programs \cup {t.recipe : t \in Tasks} :
       r.tasks \in Seq(Tasks) /\ \A n \in DOMAIN r.vars : IsWritten(r.vars[n])
  /\ \A t \in Tasks :
       /\ t.task \in Seq(Tasks) /\ t.catch \in Seq(Tasks) /\ t.finally \in Seq(Tasks)
       /\ IsWritten(t.conf) /\ \A n \in DOMAIN t.vars : IsWritten(t.vars[n])

VARIABLES
  program,  \* the recipe each renderer runs
  heap,     \* its objects of variables
  frames,   \* its lists of tasks, each inside a task of the one before
  late      \* the variables that finally lists have put into objects they share

scopes == <<renderContext, render, program, heap, frames, late>>

List(f, p) == heap[p][f.vars]

-----------------------------------------------------------------------------
(* A list of tasks: it prepares (the templates of its tasks are rendered,  *)
(* or the variables of its recipe), runs its tasks, `at' one of them.      *)
(* `prev' is the previous task result, `acc' what the list will return.    *)

Frame(kind, tasks, object, prepare, extra) ==
  [kind |-> kind, tasks |-> tasks, pos |-> 1, vars |-> object, extra |-> extra,
   prepare |-> prepare, done |-> Nothing, at |-> "prepares",
   acc |-> Nothing, prev |-> "none", own |-> object, tries |-> 0]

(* A task that is written in a list is rendered whole: its configuration,  *)
(* under the name "", and the variables it has.                            *)
Confs(tasks) ==
  [k \in UNION {{i} \X (DOMAIN tasks[i].vars \cup {""}) : i \in DOMAIN tasks} |->
     IF k[2] = "" THEN tasks[k[1]].conf ELSE tasks[k[1]].vars[k[2]]]
RecipeFrame(recipe, h, object) ==
  LET aggregated == Over(recipe.vars, h[object])     \* aggregateHostVars
  IN [heap |-> Append(h, aggregated),
      frame |-> Frame("recipe", recipe.tasks, Len(h) + 1, aggregated, recipe.inputs)]

(* What is left to prepare: tasks in their order, variables in some order. *)
Left(f) == DOMAIN f.prepare \ DOMAIN f.done
NextKey(f) == CHOOSE k \in Left(f) : f.kind = "recipe" \/ \A i \in Left(f) : k[1] <= i[1]

(* The text of a rendered task is looked through for templates again.      *)
PartsOf(token) ==
  IF "source" \in DOMAIN token THEN token.source.parts
  ELSE <<[kind |-> "text", text |-> IF "text" \in DOMAIN token THEN token.text ELSE "mark"]>>
Extracted(tokens) ==
  IF \A i \in DOMAIN tokens : "source" \notin DOMAIN tokens[i] THEN [tokens |-> tokens]
  ELSE [parts |-> FlattenSeq([i \in DOMAIN tokens |-> PartsOf(tokens[i])]), oneLine |-> TRUE]

(* Mutant of WithVars: the variables are put into the object itself.       *)
WithVarsAssigned(h, object, added) ==
  [heap |-> [h EXCEPT ![object] = Over(added, @)], object |-> object]

(* withVars: the same object when there is nothing to add.                 *)
WithVars(h, object, added) ==
  IF added = Nothing THEN [heap |-> h, object |-> object]
  ELSE [heap |-> Append(h, Over(added, h[object])), object |-> Len(h) + 1]

ScopesInit ==
  /\ renderContext = FALSE
  /\ render = [p \in Renderers |-> <<>>]
  /\ program \in [Renderers -> Programs]
  /\ LET start(p) == RecipeFrame(program[p], <<Nothing>>, 1)
     IN /\ heap = [p \in Renderers |-> start(p).heap]
        /\ frames = [p \in Renderers |-> <<start(p).frame>>]
  /\ late = [p \in Renderers |-> {}]

Now(p) == Last(frames[p])
Running(p, at) == frames[p] # <<>> /\ Now(p).at = at
Set(p, f) == frames' = [frames EXCEPT ![p] = Append(Front(@), f)]
TaskAt(f) == f.tasks[f.pos]
(* The tasks of a nested list were rendered before it started.             *)
Conf(f) == IF f.kind = "recipe" THEN TaskAt(f).conf ELSE Extracted(f.done[<<f.pos, "">>])
VarsOf(f) ==
  IF f.kind = "recipe" THEN TaskAt(f).vars
  ELSE [n \in DOMAIN TaskAt(f).vars |-> Extracted(f.done[<<f.pos, n>>])]

(* resolveTemplates: a value without templates is left as it is.           *)
Rendering(cell, scope) ==
  IF IsTemplate(cell) THEN <<NewRender(cell, scope)>>
  ELSE <<[template |-> cell, part |-> 1, out |-> Tokens(cell), scope |-> Nothing, at |-> "ended"]>>
Rendered(p) == Len(render[p]) = 1 /\ Resolved(p)
Idle(p) == render' = [render EXCEPT ![p] = <<>>]

-----------------------------------------------------------------------------
(* getResolvedTasksFromSingleOrArraySchema and the variables of a recipe.  *)
Prepare(p) ==
  /\ Running(p, "prepares") /\ render[p] = <<>>
  /\ Left(Now(p)) # {}
  /\ render' = [render EXCEPT ![p] = Rendering(Now(p).prepare[NextKey(Now(p))], List(Now(p), p))]
  /\ UNCHANGED <<renderContext, program, heap, frames, late>>

Prepared(p) ==
  /\ Running(p, "prepares") /\ Rendered(p)
  /\ Set(p, [Now(p) EXCEPT !.done = Over(Sole(NextKey(Now(p)), Top(p).out), @)])
  /\ Idle(p)
  /\ UNCHANGED <<renderContext, program, heap, late>>

Ready(p) == Running(p, "prepares") /\ Left(Now(p)) = {}

Outer(p) == frames[p][Len(frames[p]) - 1]
OverNothing(p) == Now(p).kind = "loop" /\ TaskAt(Outer(p)).items = 0

(* The tasks of a nested list, and the object they run in.                 *)
BeginList(p) ==
  /\ Ready(p) /\ Now(p).kind # "recipe" /\ ~OverNothing(p)
  /\ LET f == Now(p)
         w == WithVars(heap[p], f.vars, f.extra)
     IN /\ heap' = [heap EXCEPT ![p] = w.heap]
        /\ Set(p, [f EXCEPT !.at = "ready", !.vars = w.object])
  /\ UNCHANGED <<renderContext, render, program, late>>

(* The recipe's variables, rendered, and its inputs.                       *)
BeginRecipe(p) ==
  /\ Ready(p) /\ Now(p).kind = "recipe"
  /\ LET f == Now(p)
         object == [n \in DOMAIN f.done |-> [tokens |-> f.done[n]]]
     IN /\ heap' = [heap EXCEPT ![p] = Append(@, object)]
        /\ Set(p, [f EXCEPT !.vars = Len(heap[p]) + 1,
                     !.at = IF f.extra \subseteq DOMAIN object THEN "ready" ELSE "fails"])
  /\ UNCHANGED <<renderContext, render, program, late>>

-----------------------------------------------------------------------------
(* Task.run: the task's own variables, then its templates.                 *)
StartTask(p) ==
  /\ Running(p, "ready") /\ Now(p).pos <= Len(Now(p).tasks)
  /\ LET f == Now(p)
         h == [heap[p] EXCEPT ![f.vars] = Over(Sole("previous", Plain(f.prev)), @)]
         w == WithVars(h, f.vars, VarsOf(f))
     IN /\ heap' = [heap EXCEPT ![p] = w.heap]
        /\ render' = [render EXCEPT ![p] = Rendering(Conf(f), w.heap[w.object])]
        /\ Set(p, [f EXCEPT !.at = "renders", !.own = w.object])
  /\ UNCHANGED <<renderContext, program, late>>

Configured(p, kind) == Running(p, "renders") /\ Rendered(p) /\ TaskAt(Now(p)).kind = kind

(* `out' and `global', in the variables of the list and in what it returns.*)
PutBy(t, out, result) ==
  Over(IF t.global THEN result ELSE Nothing, IF t.out = "" THEN Nothing ELSE Sole(t.out, out))
Shares(f) == f.kind = "finally" /\ f.extra = Nothing

Store(p, depth, out, result) ==
  LET f == frames[p][depth]
      put == PutBy(TaskAt(f), out, result)
      g == [f EXCEPT !.acc = Over(put, @), !.pos = @ + 1, !.at = "ready", !.prev = TaskAt(f).name]
  IN /\ heap' = [heap EXCEPT ![p] = [heap[p] EXCEPT ![f.vars] = Over(put, @)]]
     /\ frames' = [frames EXCEPT ![p] = Append(SubSeq(@, 1, depth - 1), g)]
     /\ late' = IF Shares(f) THEN [late EXCEPT ![p] = @ \cup DOMAIN put] ELSE late

(* A module without tasks: it returns what it was configured with.         *)
RunModule(p) ==
  /\ Configured(p, "module")
  /\ \/ LET out == [tokens |-> Top(p).out]
        IN Store(p, Len(frames[p]), out, Sole(TaskAt(Now(p)).name, out))
     \/ /\ TaskAt(Now(p)).fails
        /\ Set(p, [Now(p) EXCEPT !.at = "fails"])
        /\ UNCHANGED <<heap, late>>
  /\ Idle(p)
  /\ UNCHANGED <<renderContext, program>>

(* A context that is cloned keeps the previous task result.                *)
Nest(p, f) == frames' = [frames EXCEPT ![p] =
                Append(Append(Front(@), [Now(p) EXCEPT !.at = "nests"]), [f EXCEPT !.prev = Now(p).prev])]

RunTry(p) ==
  /\ Configured(p, "try")
  /\ LET t == TaskAt(Now(p))
     IN Nest(p, Frame("try", t.task, Now(p).own, Confs(t.task), Sole("retry", Plain("retry"))))
  /\ Idle(p)
  /\ UNCHANGED <<renderContext, program, heap, late>>

RunLoop(p) ==
  /\ Configured(p, "loop")
  /\ LET t == TaskAt(Now(p))
     IN Nest(p, Frame("loop", t.task, Now(p).own, Confs(t.task), Sole("loop", Plain("item"))))
  /\ Idle(p)
  /\ UNCHANGED <<renderContext, program, heap, late>>

(* A switch renders its tasks in the copy they will run in.                *)
RunSwitch(p) ==
  /\ Configured(p, "switch")
  /\ LET t == TaskAt(Now(p))
         w == WithVars(heap[p], Now(p).own, Sole("switchValue", Plain("value")))
     IN /\ heap' = [heap EXCEPT ![p] = w.heap]
        /\ Nest(p, Frame("switch", t.task, w.object, Confs(t.task), Nothing))
  /\ Idle(p)
  /\ UNCHANGED <<renderContext, program, late>>

RunRecipe(p) ==
  /\ Configured(p, "recipe")
  /\ LET r == RecipeFrame(TaskAt(Now(p)).recipe, heap[p], Now(p).own)
     IN heap' = [heap EXCEPT ![p] = r.heap] /\ Nest(p, r.frame)
  /\ Idle(p)
  /\ UNCHANGED <<renderContext, program, late>>

-----------------------------------------------------------------------------
Follow(p, f) == Set(p, [f EXCEPT !.prev = Outer(p).prev])
Ended(p) == Running(p, "ready") /\ Now(p).pos > Len(Now(p).tasks)

(* The finally list: it runs in the object of the task around it, or in a  *)
(* copy with the error.                                                    *)
Finally(p, extra) ==
  LET list == TaskAt(Outer(p)).finally
  IN Frame("finally", list, Outer(p).own, Confs(list), extra)
HasFinally(p) == TaskAt(Outer(p)).finally # <<>>

(* A list is done: the next item, the finally list, or the task around it. *)
LoopOn(p) ==
  /\ Ended(p) /\ Now(p).kind = "loop" /\ Now(p).tries + 1 < TaskAt(Outer(p)).items
  /\ LET f == Now(p)
         w == WithVars(heap[p], Outer(p).own, f.extra)
     IN /\ heap' = [heap EXCEPT ![p] = w.heap]
        /\ Follow(p, [f EXCEPT !.vars = w.object, !.pos = 1, !.acc = Nothing, !.tries = @ + 1])
  /\ UNCHANGED <<renderContext, render, program, late>>

GoToFinally(p) ==
  /\ Ended(p) /\ Now(p).kind \in {"try", "catch"} /\ HasFinally(p)
  /\ Follow(p, Finally(p, Nothing))
  /\ UNCHANGED <<renderContext, render, program, heap, late>>

(* The error of the list is one of the task around it.                     *)
FailOuter(p) == frames' = [frames EXCEPT ![p] =
                  Append(SubSeq(@, 1, Len(@) - 2), [Outer(p) EXCEPT !.at = "fails"])]

(* A loop without items: its tasks were rendered, and do not run.          *)
LoopOverNothing(p) ==
  /\ Ready(p) /\ OverNothing(p)
  /\ Store(p, Len(frames[p]) - 1, Plain("object"), Nothing)
  /\ UNCHANGED <<renderContext, render, program>>

LastItem(p) == Now(p).kind = "loop" => Now(p).tries + 1 >= TaskAt(Outer(p)).items
Leave(p) ==
  /\ Ended(p) /\ Len(frames[p]) > 1 /\ LastItem(p)
  /\ ~(Now(p).kind \in {"try", "catch"} /\ HasFinally(p))
  /\ IF Now(p).kind = "finally" /\ Now(p).extra # Nothing
     THEN FailOuter(p) /\ UNCHANGED <<heap, late>>
     ELSE Store(p, Len(frames[p]) - 1, Plain("object"),
                IF Now(p).kind \in {"switch", "recipe"} THEN Now(p).acc ELSE Nothing)
  /\ UNCHANGED <<renderContext, render, program>>

(* An error: another attempt, the catch list, the finally list, or on.     *)
Retries(f, t) == f.kind = "try" /\ f.tries < t.max
Catches(f, t) == f.kind = "try" /\ ~Retries(f, t) /\ t.catch # <<>>
Cleans(f, t) == f.kind = "try" /\ ~Retries(f, t) /\ ~Catches(f, t) /\ t.finally # <<>>
Error == Sole("lastError", Plain("error"))
Unwind(p) ==
  /\ Running(p, "fails") /\ Len(frames[p]) > 1
  /\ LET f == Now(p)
         t == TaskAt(Outer(p))
     IN \/ /\ Retries(f, t)
           /\ Follow(p, [Frame("try", t.task, Outer(p).own, Confs(t.task), f.extra)
                           EXCEPT !.tries = f.tries + 1])
        \/ /\ Catches(f, t)
           /\ Follow(p, Frame("catch", t.catch, Outer(p).own, Confs(t.catch), Error))
        \/ Cleans(f, t) /\ Follow(p, Finally(p, Error))
        \/ ~(Retries(f, t) \/ Catches(f, t) \/ Cleans(f, t)) /\ FailOuter(p)
  /\ UNCHANGED <<renderContext, render, program, heap, late>>

(* A filter fails, and with it the task or the list whose template it was. *)
RenderFails(p) ==
  /\ FilterFails(p)
  /\ Set(p, [Now(p) EXCEPT !.at = "fails"])
  /\ UNCHANGED <<program, heap, late>>

RunStep(p) ==
  \/ Prepare(p) \/ Prepared(p) \/ BeginList(p) \/ BeginRecipe(p) \/ StartTask(p)
  \/ RunModule(p) \/ RunTry(p) \/ RunLoop(p) \/ RunSwitch(p) \/ RunRecipe(p)
  \/ LoopOn(p) \/ LoopOverNothing(p) \/ GoToFinally(p) \/ Leave(p) \/ Unwind(p)
  \/ RenderStep(p) /\ UNCHANGED <<program, heap, frames, late>>

(* Templates that name each other are rendered inside each other, and the  *)
(* calls never hand the process back to what else it has to do; they end   *)
(* when its memory is full, and all its recipes end with it.               *)
OutOfMemory(p) ==
  /\ HeapIsFull(p)
  /\ render' = [q \in Renderers |-> <<>>]
  /\ frames' = [q \in Renderers |-> <<>>]
  /\ UNCHANGED <<renderContext, program, heap, late>>

Step(p) == RunStep(p) \/ RenderFails(p) \/ OutOfMemory(p)
ScopesNext == \E p \in Renderers : Step(p)
ScopesSpec == ScopesInit /\ [][ScopesNext]_scopes

(* A recipe waits as long as another one keeps the process to itself, which*)
(* ends: the other one goes on to a filter that waits, to its end or to    *)
(* that of the process. Filters answer or fail.                            *)
FairScopes == ScopesSpec /\ \A p \in Renderers : WF_scopes(Step(p))

-----------------------------------------------------------------------------
Shown(p) ==   \* everything the recipe has rendered
  UNION {UNION {ToSet(cell.tokens) : cell \in {c \in Range(object) : ~IsTemplate(c)}} :
           object \in ToSet(heap[p])}

(* A template named in another one is rendered with it and its source does *)
(* not show, whatever other recipes render meanwhile, as long as no        *)
(* variable comes after a filter that waits (Template.#renderContext).     *)
NestedResolved ==
  \A p \in Renderers : \A token \in Shown(p) : "source" \in DOMAIN token => ~Tame(token.by)

(* What a list of tasks returns is what its tasks have seen: no item,      *)
(* attempt, case, catch list or recipe inside it changes the variables its *)
(* results are in. It is not so of what a finally list has put, and of the *)
(* previous result (context.vars and accumulatedVars, runTasksInContext).  *)
ReturnsWhatWasSeen ==
  \A p \in Renderers : \A i \in DOMAIN frames[p] :
    LET f == frames[p][i]
    IN \A n \in DOMAIN f.acc \ (late[p] \cup {"previous"}) :
         n \in DOMAIN List(f, p) /\ List(f, p)[n] = f.acc[n]

(* Templates in one object, each of which names one of them.               *)
CirclesIn(p) ==
  \E object \in ToSet(heap[p]) :
    \E circle \in SUBSET {n \in DOMAIN object : IsTemplate(object[n])} :
      /\ circle # {}
      /\ \A n \in circle : \E part \in ToSet(object[n].parts) : part.kind = "var" /\ part.name \in circle

Finished(p) == Len(frames[p]) = 1 /\ (Ended(p) \/ Running(p, "fails"))
Died == \A p \in Renderers : frames[p] = <<>>

(* Every recipe ends, whatever is rendered at the same time, unless one of *)
(* the recipes of the process, itself or another, has templates that name  *)
(* each other in a circle: they take the process and all its recipes with  *)
(* them (resolveTemplates, runTasksInContext).                             *)
RecipesEnd ==
  \A p \in Renderers : <>(Finished(p) \/ (Died /\ \E q \in Renderers : CirclesIn(q)))
=============================================================================
