----------------------------- MODULE MCTaskRunner -----------------------------
(***************************************************************************)
(* A program for TaskRunner, given by the tasks of its lists and what each *)
(* list is; where a task is and what is above it follows.                  *)
(*                                                                         *)
(* The top recipe is a switch P between three recipes' worth of tasks: one *)
(* run of it goes through one of them.  "T.body" is the body of task T.    *)
(***************************************************************************)
EXTENDS TaskRunner, FiniteSets, TLC

MCTop == "top"
MCNoList == "nowhere"

(* Failures.  T, z    T = try a, U  catch c  finally d, one retry          *)
(* U = try x  finally y, without a retry                                   *)
FailSteps == ("P.fail" :> <<"T", "z">>)
          @@ ("T.body" :> <<"a", "U">>) @@ ("T.catch" :> <<"c">>) @@ ("T.finally" :> <<"d">>)
          @@ ("U.body" :> <<"x">>) @@ ("U.finally" :> <<"y">>)
FailOwner == ("P.fail" :> "P")
          @@ ("T.body" :> "T") @@ ("T.catch" :> "T") @@ ("T.finally" :> "T")
          @@ ("U.body" :> "U") @@ ("U.finally" :> "U")

(* Exits.  L, E, w    L = loop over two items of V, b                      *)
(* V = try S  finally v, one retry    S = switch s | nothing               *)
(* E = loop over no items of e                                             *)
ExitSteps == ("P.exit" :> <<"L", "E", "w">>)
          @@ ("L.body" :> <<"V", "b">>) @@ ("E.body" :> <<"e">>)
          @@ ("V.body" :> <<"S">>) @@ ("V.finally" :> <<"v">>)
          @@ ("S.1" :> <<"s">>) @@ ("S.2" :> <<>>)
ExitOwner == ("P.exit" :> "P") @@ ("L.body" :> "L") @@ ("E.body" :> "E")
          @@ ("V.body" :> "V") @@ ("V.finally" :> "V")
          @@ ("S.1" :> "S") @@ ("S.2" :> "S")

(* Hooks.  h, W    W = try R  finally f, one retry                         *)
(* R = recipe i, M    M = loop over two items of g                         *)
HookSteps == ("P.hook" :> <<"h", "W">>)
          @@ ("W.body" :> <<"R">>) @@ ("W.finally" :> <<"f">>)
          @@ ("R.body" :> <<"i", "M">>) @@ ("M.body" :> <<"g">>)
HookOwner == ("P.hook" :> "P") @@ ("W.body" :> "W") @@ ("W.finally" :> "W")
          @@ ("R.body" :> "R") @@ ("M.body" :> "M")

MCSteps == ("top.body" :> <<"P">>) @@ FailSteps @@ ExitSteps @@ HookSteps
MCOwner == ("top.body" :> "top") @@ FailOwner @@ ExitOwner @@ HookOwner

MCRole == [l \in DOMAIN Steps |->
             CASE l = "T.catch" -> "catch"
               [] l \in {"T.finally", "U.finally", "V.finally", "W.finally"} -> "finally"
               [] OTHER -> "body"]

StepsIn(steps) == UNION {{steps[l][i] : i \in 1 .. Len(steps[l])} : l \in DOMAIN steps}
MCTasks == {MCTop} \cup StepsIn(Steps)
MCLists == DOMAIN Steps
MCHome == [t \in MCTasks |->
             IF t = MCTop THEN MCNoList
             ELSE CHOOSE l \in MCLists : \E i \in 1 .. Len(Steps[l]) : Steps[l][i] = t]
MCKind == [t \in MCTasks |->
             CASE t \in {"top", "R"} -> "recipe"
               [] t \in {"T", "U", "V", "W"} -> "try"
               [] t \in {"L", "E", "M"} -> "loop"
               [] t \in {"P", "S"} -> "switch"
               [] OTHER -> "action"]
MCRounds == [t \in MCTasks |->
               CASE t \in {"T", "V", "W"} -> 1 [] t \in {"L", "M"} -> 2 [] OTHER -> 0]

(* No task is more than six tasks below the top.                           *)
Parent(t) == IF t = MCTop THEN MCTop ELSE Owner[MCHome[t]]
Ancestor(n) == LET f[i \in 0 .. 6] == [t \in MCTasks |-> IF i = 0 THEN t ELSE Parent(f[i - 1][t])] IN f[n]
MCAbove == [t \in MCTasks |-> {Ancestor(n)[t] : n \in 0 .. 6}]
MCScope == [t \in MCTasks |->
              LET up == CHOOSE n \in 1 .. 6 :
                          /\ MCKind[Ancestor(n)[t]] = "recipe"
                          /\ \A m \in 1 .. n - 1 : MCKind[Ancestor(m)[t]] # "recipe"
              IN Ancestor(up)[t]]
MCChecked == {"T", "E", "S", "R", "g"}
MCListeners == {"h", "i", "g"}
=============================================================================
