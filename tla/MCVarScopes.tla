------------------------------ MODULE MCVarScopes ------------------------------
(***************************************************************************)
(* Instances of VarScopes for TLC: recipes with templates that name each   *)
(* other, filters that wait, and every module that nests tasks.            *)
(***************************************************************************)
EXTENDS VarScopes, TLC

CONSTANTS p1, p2

Text(x) == [kind |-> "text", text |-> x]
Var(n) == [kind |-> "var", name |-> n]
File == [kind |-> "async", tpl |-> FALSE]
Tpl == [kind |-> "async", tpl |-> TRUE]
T(parts) == [parts |-> parts, oneLine |-> TRUE]
Lines(parts) == [parts |-> parts, oneLine |-> FALSE]

Recipe(object, tasks) == [vars |-> object, inputs |-> {}, tasks |-> tasks]
None == Recipe(Nothing, <<>>)
Task(name, kind, conf) ==
  [name |-> name, kind |-> kind, conf |-> conf, vars |-> Nothing, out |-> "", global |-> FALSE,
   fails |-> FALSE, task |-> <<>>, catch |-> <<>>, finally |-> <<>>, max |-> 0, items |-> 0,
   recipe |-> None]
Put(out, conf) == [Task(out, "module", conf) EXCEPT !.out = out]
Failing(t) == [t EXCEPT !.fails = TRUE]

(* Variables that name each other, before and after filters that wait.     *)
Inner == "a" :> T(<<Text("A")>>) @@ "b" :> T(<<Text("B"), Var("a")>>)
Rendered2 == Recipe(Inner, <<Put("x", T(<<Var("b"), File>>)), Put("y", T(<<Var("x"), Tpl, Var("b")>>))>>)
Circular == Recipe("a" :> T(<<Var("b")>>) @@ "b" :> T(<<Var("a")>>), <<>>)
Multiline == Recipe("a" :> Lines(<<Text("A")>>) @@ "b" :> T(<<Var("a")>>), <<Put("x", T(<<Var("b")>>))>>)

(* Attempts, items and cases that put a variable the list around them has. *)
Tried == Recipe("a" :> T(<<Text("A")>>),
  <<Put("x", T(<<Var("a")>>)),
    [Task("try", "try", Plain("try")) EXCEPT
       !.task = <<Put("x", T(<<Var("a"), Var("retry")>>)), Failing(Put("y", Plain("Y")))>>,
       !.max = 1,
       !.catch = <<Failing(Put("x", T(<<Var("lastError"), Var("previous")>>)))>>,
       !.finally = <<Put("z", T(<<Var("x")>>))>>],
    Put("y", T(<<Var("x"), Var("z")>>))>>)
Uncaught == Recipe(Nothing,
  <<[Task("try", "try", Plain("try")) EXCEPT
       !.task = <<Failing(Put("y", Plain("Y")))>>,
       !.finally = <<Put("z", T(<<Var("lastError")>>))>>]>>)
Looped == Recipe("a" :> Plain("A"),
  <<Put("x", Plain("X")),
    [Task("loop", "loop", Plain("loop")) EXCEPT
       !.task = <<Put("x", T(<<Var("loop"), Var("a")>>))>>, !.items = 2, !.vars = "a" :> Plain("own")],
    Put("y", T(<<Var("x"), Var("a")>>))>>)
Emptied == Recipe("a" :> T(<<Text("A")>>),
  <<[Task("loop", "loop", Plain("loop")) EXCEPT
       !.task = <<Put("x", Plain("X"))>>, !.out = "y"],
    [Task("try", "try", Plain("try")) EXCEPT
       !.task = <<[Put("x", T(<<Var("own")>>)) EXCEPT !.vars = "own" :> T(<<Var("a"), File>>)]>>]>>)
Switched == Recipe(Nothing,
  <<[Task("switch", "switch", Plain("switch")) EXCEPT
       !.task = <<Put("x", T(<<Var("switchValue")>>))>>, !.global = TRUE],
    [Task("recipe", "recipe", T(<<Var("x")>>)) EXCEPT
       !.recipe = [Recipe(Inner, <<Put("x", T(<<Var("b")>>))>>) EXCEPT !.inputs = {"x"}],
       !.global = TRUE, !.out = "y"],
    [Task("recipe", "recipe", Plain("recipe")) EXCEPT
       !.recipe = [Recipe(Inner, <<Put("x", T(<<Var("b")>>))>>) EXCEPT !.inputs = {"z"}]]>>)

MCPrograms == {Rendered2, Circular, Multiline, Tried, Uncaught, Looped, Emptied, Switched}
Inside(tasks) ==
  tasks \cup UNION {ToSet(t.task) \cup ToSet(t.catch) \cup ToSet(t.finally) \cup ToSet(t.recipe.tasks) : t \in tasks}
MCTasks == Inside(Inside(UNION {ToSet(r.tasks) : r \in MCPrograms}))
MCSymmetry == Permutations(Renderers)
=============================================================================
