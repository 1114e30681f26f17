--------------------------- MODULE TaskRunnerProofs ---------------------------
(***************************************************************************)
(* Theorems about TaskRunner, for every program.  A task on the stack is   *)
(* the one its list is at (StackInv), so a recipe is left by the step that *)
(* takes it off the stack only, after its last hook (HooksInv).            *)
(***************************************************************************)
EXTENDS TaskRunner, TLAPS

(* What is on the stack is being run by the list it is in.                 *)
StackInv ==
  /\ at # NoList => outcome = "none" /\ list[at].res # "none"
  /\ \A t \in Tasks \ {Top} :
       OnStack(t) => /\ list[Home[t]].res = "go"
                     /\ t = Steps[Home[t]][list[Home[t]].pos + 1]

HooksInv == \A t \in Tasks : hooks[t] > 0 => OnStack(t) /\ Kind[t] = "recipe"

Inv == TypeOK /\ StackInv

-----------------------------------------------------------------------------
(* The tree.                                                               *)

LEMMA ParentFacts ==
  ASSUME NEW l \in Lists
  PROVE  /\ Owner[l] \in Tasks
         /\ Owner[l] \in Above[Owner[l]]
         /\ Owner[l] = Top => Above[Owner[l]] = {Top}
         /\ Owner[l] # Top =>
              LET m == Home[Owner[l]] IN
              /\ m \in Lists /\ Owner[m] \in Tasks
              /\ Owner[l] \notin Above[Owner[m]]
              /\ Above[Owner[l]] = Above[Owner[m]] \cup {Owner[l]}
BY TypeAssumption, TreeAssumption

(* The next task of a list is in that list, and none of those behind it.   *)
LEMMA NextFacts ==
  ASSUME NEW l \in Lists, NEW s, ListOK(l, s), s.res = "go",
         NEW t \in Tasks, t = Steps[l][s.pos + 1]
  PROVE  /\ t # Top /\ Home[t] = l /\ t \notin s.ran
         /\ t \notin Above[Owner[l]] /\ Above[t] = Above[Owner[l]] \cup {t}
         /\ Scope[t] \in Above[Owner[l]] /\ Kind[Scope[t]] = "recipe"
<1> DEFINE p == s.pos + 1
<1>1. s.pos \in Nat /\ p \in 1 .. Len(Steps[l]) /\ Len(Steps[l]) \in Nat
  BY TypeAssumption DEF ListOK, ListStates
<1>2. Home[t] = l
  BY <1>1, TreeAssumption
<1>3. t # Top
  BY <1>2, TreeAssumption, TypeAssumption
<1>4. t \notin s.ran
  <2> SUFFICES ASSUME NEW i \in 1 .. s.pos, t = Steps[l][i] PROVE FALSE
    BY DEF ListOK
  <2>1. i \in 1 .. Len(Steps[l]) /\ p \in 1 .. Len(Steps[l]) /\ i # p
    BY <1>1
  <2>2. \A j, k \in 1 .. Len(Steps[l]) : Steps[l][j] = Steps[l][k] => j = k
    BY TreeAssumption
  <2> HIDE DEF p
  <2>3. Steps[l][i] = Steps[l][p]
    BY DEF p
  <2> QED
    BY <2>1, <2>2, <2>3
<1> QED
  BY <1>2, <1>3, <1>4, TreeAssumption

LEMMA ReadyFacts ==
  ASSUME TypeOK, NEW t \in Tasks, Ready(t)
  PROVE  /\ at \in Lists /\ t # Top /\ Home[t] = at /\ t \notin list[at].ran
         /\ t \notin Above[Owner[at]] /\ Above[t] = Above[Owner[at]] \cup {t}
         /\ Scope[t] \in Above[Owner[at]] /\ Kind[Scope[t]] = "recipe"
         /\ ~OnStack(t) /\ ~Passed(t)
<1>1. at \in Lists /\ ListOK(at, list[at]) /\ list[at].res = "go"
      /\ t = Steps[at][list[at].pos + 1]
  BY DEF Ready, TypeOK
<1>2. /\ t # Top /\ Home[t] = at /\ t \notin list[at].ran
      /\ t \notin Above[Owner[at]] /\ Above[t] = Above[Owner[at]] \cup {t}
      /\ Scope[t] \in Above[Owner[at]] /\ Kind[Scope[t]] = "recipe"
  BY <1>1, NextFacts
<1> QED
  BY <1>1, <1>2 DEF OnStack, Passed

(* A task on the stack has not passed.                                     *)
LEMMA StackFacts ==
  ASSUME Inv, NEW t \in Tasks, OnStack(t)
  PROVE  ~Passed(t) /\ (t # Top => t \notin list[Home[t]].ran)
<1>1. CASE t = Top
  BY <1>1 DEF Inv, StackInv, OnStack, Passed
<1>2. CASE t # Top
  <2>1. Home[t] \in Lists
    BY <1>2, TreeAssumption
  <2>2. ListOK(Home[t], list[Home[t]]) /\ list[Home[t]].res = "go"
        /\ t = Steps[Home[t]][list[Home[t]].pos + 1]
    BY <1>2, <2>1 DEF Inv, TypeOK, StackInv
  <2>3. t \notin list[Home[t]].ran
    BY <2>1, <2>2, NextFacts
  <2> QED
    BY <1>2, <2>3 DEF Passed
<1> QED
  BY <1>1, <1>2

-----------------------------------------------------------------------------
(* What a list may become.                                                 *)

LEMMA EnteredOK ==
  ASSUME NEW l \in Lists
  PROVE  /\ ListOK(l, Fresh) /\ ListOK(l, Entered(l)) /\ ListOK(l, Unresolved)
         /\ Entered(l).res \in {"go", "ok"} /\ Unresolved.res = "thrown"
         /\ Entered(l).ran = {} /\ Unresolved.ran = {} /\ Fresh.ran = {} /\ Fresh.res = "none"
<1>1. Steps[l] \in Seq(Tasks) /\ Len(Steps[l]) \in Nat /\ (Steps[l] # <<>> => 0 < Len(Steps[l]))
  BY TypeAssumption
<1> QED
  BY <1>1 DEF ListOK, ListStates, Results, Fresh, Entered, Unresolved

LEMMA AdvancedOK ==
  ASSUME TypeOK, NEW l \in Lists, list[l].res = "go", NEW q, q = "ok" \/ q = "exit",
         NEW ran, NEW out, out \subseteq Tasks, ran \subseteq Tasks,
         \A u \in ran : u = Steps[l][list[l].pos + 1]
  PROVE  /\ ListOK(l, Advanced(l, q, ran, out))
         /\ Advanced(l, q, ran, out).res = Forward(l, q) /\ Forward(l, q) # "none"
         /\ Advanced(l, q, ran, out).ran = list[l].ran \cup ran
         /\ Advanced(l, q, ran, out).out = list[l].out \cup out
<1> DEFINE s == [res |-> Forward(l, q), pos |-> list[l].pos + 1,
                 ran |-> list[l].ran \cup ran, out |-> list[l].out \cup out]
<1>1. list[l] \in ListStates /\ list[l].pos < Len(Steps[l]) /\ Len(Steps[l]) \in Nat
      /\ \A t \in list[l].ran : \E i \in 1 .. list[l].pos : t = Steps[l][i]
  BY TypeAssumption DEF TypeOK, ListOK
<1>2. list[l].pos \in Nat
  BY <1>1 DEF ListStates
<1>3. s \in ListStates
  BY <1>1, <1>2 DEF ListStates, Forward, Results
<1>4. \A t \in s.ran : \E i \in 1 .. s.pos : t = Steps[l][i]
  BY <1>1, <1>2
<1>5. s.pos <= Len(Steps[l]) /\ (s.res = "go" => s.pos < Len(Steps[l]))
  BY <1>1, <1>2 DEF Forward
<1>6. Advanced(l, q, ran, out) = s
  BY DEF Advanced
<1>7. ListOK(l, s)
  BY <1>3, <1>4, <1>5 DEF ListOK
<1>8. Forward(l, q) # "none"
  BY DEF Forward
<1> QED
  BY <1>6, <1>7, <1>8

-----------------------------------------------------------------------------
(* How a step moves control: to a list of no more tasks on the stack, into *)
(* a list of a task that begins, or out of the top recipe.                 *)

ControlOK ==
  /\ at \in Lists \cup {NoList}
  /\ list \in [Lists -> ListStates] /\ \A l \in Lists : ListOK(l, list[l])
  /\ outcome \in {"none", "ok", "thrown"}
  /\ StackInv

Moves(l, s) ==
  /\ at \in Lists /\ Above[Owner[l]] \subseteq Above[Owner[at]]
  /\ ListOK(l, s) /\ s.res # "none"
  /\ at' = l /\ list' = [list EXCEPT ![l] = s] /\ outcome' = outcome

Descends(t, l, s) ==
  /\ Owner[l] = t
  /\ Ready(t) \/ (t = Top /\ at = NoList /\ outcome = "none")
  /\ ListOK(l, s) /\ s.res # "none"
  /\ at' = l
  /\ list' = [[m \in Lists |-> IF Owner[m] = t THEN Fresh ELSE list[m]] EXCEPT ![l] = s]
  /\ outcome' = outcome

Leaves == at \in Lists /\ Owner[at] = Top /\ at' = NoList /\ UNCHANGED list
          /\ outcome' \in {"ok", "thrown"}

Controls ==
  \/ \E l \in Lists : \E s : Moves(l, s)
  \/ \E t \in Tasks : \E l \in Lists : \E s : Descends(t, l, s)
  \/ Leaves
  \/ UNCHANGED <<at, list, outcome>>

LEMMA ListUpdate ==
  ASSUME TypeOK, NEW l \in Lists, NEW s, ListOK(l, s),
         list' = [list EXCEPT ![l] = s]
  PROVE  /\ list' \in [Lists -> ListStates] /\ \A m \in Lists : ListOK(m, list'[m])
         /\ list'[l] = s /\ \A m \in Lists \ {l} : list'[m] = list[m]
<1>1. s \in ListStates
  BY DEF ListOK
<1> QED
  BY <1>1 DEF TypeOK

LEMMA MovesOK ==
  ASSUME Inv, NEW l \in Lists, NEW s, Moves(l, s)
  PROVE  ControlOK'
<1>1. /\ list' \in [Lists -> ListStates] /\ \A m \in Lists : ListOK(m, list'[m])
      /\ list'[l] = s /\ \A m \in Lists \ {l} : list'[m] = list[m]
  BY ListUpdate DEF Inv, Moves
<1>2. at' = l /\ at \in Lists /\ outcome' = outcome /\ l # NoList
  BY TypeAssumption DEF Moves
<1>3. outcome' = "none" /\ list'[at'].res # "none"
  BY <1>1, <1>2, TypeAssumption DEF Inv, StackInv, Moves
<1>4. ASSUME NEW u \in Tasks \ {Top}, OnStack(u)'
      PROVE  list'[Home[u]].res = "go" /\ u = Steps[Home[u]][list'[Home[u]].pos + 1]
  <2>1. u \in Above[Owner[l]] /\ u \in Above[Owner[at]]
    BY <1>2, <1>4 DEF OnStack, Moves
  <2>2. OnStack(u)
    BY <1>2, <2>1, TypeAssumption DEF OnStack
  <2>3. Home[u] \in Lists /\ Home[u] # l
    BY <2>1, TreeAssumption
  <2> QED
    BY <1>1, <2>2, <2>3 DEF Inv, StackInv
<1>5. StackInv'
  BY <1>3, <1>4 DEF StackInv
<1> QED
  BY <1>1, <1>2, <1>3, <1>5 DEF ControlOK

LEMMA DescendsOK ==
  ASSUME Inv, NEW t \in Tasks, NEW l \in Lists, NEW s, Descends(t, l, s)
  PROVE  /\ ControlOK'
         /\ list'[l] = s
         /\ \A m \in Lists \ {l} : list'[m] = IF Owner[m] = t THEN Fresh ELSE list[m]
         /\ ~OnStack(t) /\ ~Passed(t)
<1> DEFINE base == [m \in Lists |-> IF Owner[m] = t THEN Fresh ELSE list[m]]
<1>1. Fresh \in ListStates /\ s \in ListStates /\ ListOK(l, s)
      /\ \A m \in Lists : ListOK(m, Fresh)
  BY EnteredOK DEF ListOK, Descends
<1>2. base \in [Lists -> ListStates] /\ \A m \in Lists : ListOK(m, base[m])
  BY <1>1 DEF Inv, TypeOK
<1>3. list' = [base EXCEPT ![l] = s]
  BY DEF Descends
<1>4. /\ list' \in [Lists -> ListStates] /\ list'[l] = s
      /\ \A m \in Lists \ {l} : list'[m] = base[m]
  BY <1>1, <1>2, <1>3
<1>5. \A m \in Lists : ListOK(m, list'[m])
  BY <1>1, <1>2, <1>4
<1>6. /\ at' = l /\ Owner[l] = t /\ l # NoList /\ outcome' = outcome /\ s.res # "none"
      /\ outcome \in {"none", "ok", "thrown"}
  BY TypeAssumption DEF Descends, Inv, TypeOK
<1>7. CASE t = Top /\ at = NoList /\ outcome = "none"
  <2>1. \A u \in Tasks : OnStack(u)' => u = Top
    BY <1>6, <1>7, TreeAssumption DEF OnStack
  <2>2. StackInv'
    BY <1>4, <1>6, <1>7, <2>1 DEF StackInv
  <2>3. ~OnStack(t) /\ ~Passed(t)
    BY <1>7 DEF OnStack, Passed
  <2> QED
    BY <1>4, <1>5, <1>6, <2>2, <2>3 DEF ControlOK
<1>8. CASE Ready(t)
  <2>1. /\ at \in Lists /\ t # Top /\ Home[t] = at /\ ~OnStack(t) /\ ~Passed(t)
        /\ t \notin Above[Owner[at]] /\ Above[t] = Above[Owner[at]] \cup {t}
    BY <1>8, ReadyFacts DEF Inv
  <2>2. outcome = "none" /\ at # NoList
    BY <2>1, TypeAssumption DEF Inv, StackInv
  <2>3. Owner[at] \in Above[Owner[at]]
    BY <2>1, ParentFacts
  <2>4. ASSUME NEW u \in Tasks \ {Top}, OnStack(u)'
        PROVE  list'[Home[u]].res = "go" /\ u = Steps[Home[u]][list'[Home[u]].pos + 1]
    <3>1. Home[u] \in Lists /\ (u = t \/ u \in Above[Owner[at]])
      BY <1>6, <2>1, <2>4, TreeAssumption DEF OnStack
    <3>2. Owner[Home[u]] \in Above[Owner[at]]
      <4>1. CASE u = t
        BY <2>1, <2>3, <4>1
      <4>2. CASE u \in Above[Owner[at]]
        BY <2>1, <3>1, <4>2, TypeAssumption, TreeAssumption
      <4> QED
        BY <3>1, <4>1, <4>2
    <3>3. list'[Home[u]] = list[Home[u]]
      BY <1>4, <1>6, <2>1, <3>1, <3>2
    <3>4. CASE u = t
      BY <1>8, <2>1, <3>3, <3>4 DEF Ready
    <3>5. CASE u \in Above[Owner[at]]
      BY <2>2, <3>3, <3>5 DEF Inv, StackInv, OnStack
    <3> QED
      BY <3>1, <3>4, <3>5
  <2>5. StackInv'
    BY <1>4, <1>6, <2>2, <2>4 DEF StackInv
  <2> QED
    BY <1>4, <1>5, <1>6, <2>1, <2>5 DEF ControlOK
<1> QED
  BY <1>7, <1>8 DEF Descends

LEMMA ControlsOK ==
  ASSUME Inv, Controls
  PROVE  ControlOK'
<1>1. CASE Leaves
  BY <1>1, TypeAssumption DEF Leaves, ControlOK, Inv, TypeOK, StackInv, OnStack
<1>2. CASE UNCHANGED <<at, list, outcome>>
  BY <1>2 DEF ControlOK, Inv, TypeOK, StackInv, OnStack
<1> QED
  BY <1>1, <1>2, MovesOK, DescendsOK DEF Controls

-----------------------------------------------------------------------------
(* The step in which a task ends.                                          *)

Ends(t) == t \in Tasks /\ (Ready(t) \/ (at \in Lists /\ t = Owner[at]))

LEMMA EndsFacts ==
  ASSUME Inv, NEW t, Ends(t), t # Top
  PROVE  LET m == Home[t] IN
         /\ m \in Lists /\ list[m].res = "go" /\ t = Steps[m][list[m].pos + 1]
         /\ at \in Lists /\ Above[Owner[m]] \subseteq Above[Owner[at]]
         /\ OnStack(Owner[m]) /\ Owner[m] # t /\ Owner[m] \in Tasks
<1>1. CASE Ready(t)
  <2>1. at \in Lists /\ Home[t] = at /\ t \notin Above[Owner[at]]
    BY <1>1, ReadyFacts DEF Inv, Ends
  <2>2. Owner[at] \in Tasks /\ Owner[at] \in Above[Owner[at]]
    BY <2>1, ParentFacts
  <2> QED
    BY <1>1, <2>1, <2>2, TypeAssumption DEF Ready, OnStack
<1>2. CASE at \in Lists /\ t = Owner[at]
  <2>1. /\ Home[t] \in Lists /\ Owner[Home[t]] \in Tasks /\ t \notin Above[Owner[Home[t]]]
        /\ Above[t] = Above[Owner[Home[t]]] \cup {t} /\ at # NoList
    BY <1>2, ParentFacts, TypeAssumption
  <2>2. Owner[Home[t]] \in Above[Owner[Home[t]]] /\ OnStack(t)
    BY <1>2, <2>1, ParentFacts DEF OnStack
  <2>3. list[Home[t]].res = "go" /\ t = Steps[Home[t]][list[Home[t]].pos + 1]
    BY <2>2 DEF Inv, StackInv, Ends
  <2> QED
    BY <1>2, <2>1, <2>2, <2>3 DEF OnStack
<1> QED
  BY <1>1, <1>2 DEF Ends

LEMMA CompleteFacts ==
  ASSUME Inv, NEW t, Ends(t), t # Top, NEW q \in Results, NEW out \in SUBSET Tasks,
         Complete(t, q, out)
  PROVE  LET m == Home[t] IN
         /\ Moves(m, list'[m])
         /\ \A l \in Lists \ {m} : list'[l] = list[l]
         /\ list'[m].ran = IF q = "thrown" THEN list[m].ran ELSE list[m].ran \cup {t}
         /\ list'[m].out = IF q = "thrown" THEN list[m].out ELSE list[m].out \cup out
         /\ list'[m].res = IF q = "thrown" THEN "thrown" ELSE Forward(m, q)
<1> DEFINE m == Home[t]
           s == IF q = "thrown" THEN [list[m] EXCEPT !.res = "thrown"]
                ELSE Advanced(m, q, {t}, out)
<1>1. /\ m \in Lists /\ list[m].res = "go" /\ t = Steps[m][list[m].pos + 1]
      /\ at \in Lists /\ Above[Owner[m]] \subseteq Above[Owner[at]]
  BY EndsFacts
<1>2. ListOK(m, list[m]) /\ list[m] \in ListStates
  BY <1>1 DEF Inv, TypeOK
<1>3. at' = m /\ list' = [list EXCEPT ![m] = s] /\ outcome' = outcome
  BY DEF Complete
<1>4. /\ ListOK(m, s) /\ s.res # "none"
      /\ s.ran = (IF q = "thrown" THEN list[m].ran ELSE list[m].ran \cup {t})
      /\ s.out = (IF q = "thrown" THEN list[m].out ELSE list[m].out \cup out)
      /\ s.res = (IF q = "thrown" THEN "thrown" ELSE Forward(m, q))
  <2>1. CASE q = "thrown"
    BY <1>2, <2>1 DEF ListOK, ListStates, Results
  <2>2. CASE q # "thrown"
    <3>1. q \in {"ok", "exit"} /\ {t} \in SUBSET Tasks /\ {t} \subseteq {Steps[m][list[m].pos + 1]}
      BY <1>1, <2>2 DEF Results, Ends
    <3>2. s = Advanced(m, q, {t}, out)
      BY <2>2
    <3> DEFINE r == Advanced(m, q, {t}, out)
    <3>3. /\ ListOK(m, r) /\ r.res = Forward(m, q) /\ Forward(m, q) # "none"
          /\ r.ran = list[m].ran \cup {t} /\ r.out = list[m].out \cup out
      <4> TypeOK
        BY DEF Inv
      <4> HIDE DEF m
      <4> QED
        BY <1>1, <3>1, AdvancedOK
    <3> HIDE DEF m
    <3> QED
      BY <2>2, <3>2, <3>3
  <2> QED
    BY <2>1, <2>2
<1> HIDE DEF s
<1>7. list'[m] = s /\ \A l \in Lists \ {m} : list'[l] = list[l]
  BY <1>1, <1>3, <1>4, ListUpdate DEF Inv
<1>8. Moves(m, s)
  BY <1>1, <1>3, <1>4 DEF Moves
<1>9. Moves(m, list'[m])
  BY <1>7, <1>8
<1>10. /\ list'[m].ran = s.ran /\ list'[m].out = s.out /\ list'[m].res = s.res
  BY <1>7
<1> QED
  BY <1>4, <1>7, <1>9, <1>10

LEMMA CompleteControls ==
  ASSUME Inv, NEW t, Ends(t), NEW q \in Results, t = Top => q # "exit",
         NEW out \in SUBSET Tasks, Complete(t, q, out)
  PROVE  Controls /\ at' = Home[t]
<1>1. CASE t # Top
  <2>1. Home[t] \in Lists
    BY <1>1, EndsFacts
  <2> QED
    BY <1>1, <2>1, CompleteFacts DEF Controls, Complete
<1>2. CASE t = Top
  <2>1. at \in Lists /\ Owner[at] = Top
    BY <1>2, ReadyFacts DEF Ends, Inv
  <2>2. Home[Top] = NoList
    BY TreeAssumption
  <2> QED
    BY <1>2, <2>1, <2>2 DEF Complete, Controls, Leaves, Results
<1> QED
  BY <1>1, <1>2

LEMMA SettleFacts ==
  ASSUME NEW t, NEW res \in Results, NEW out, t = Top => res # "exit", Settle(t, res, out)
  PROVE  \E q \in Results : /\ Complete(t, q, out)
                            /\ t = Top => q # "exit"
                            /\ res = "thrown" => q = "thrown"
                            /\ res = "exit" => q \in {"exit", "thrown"}
BY TypeAssumption DEF Settle, Results

LEMMA SettleControls ==
  ASSUME Inv, NEW t, Ends(t), NEW res \in Results, t = Top => res # "exit",
         NEW out \in SUBSET Tasks, Settle(t, res, out)
  PROVE  Controls /\ at' = Home[t]
BY SettleFacts, CompleteControls

-----------------------------------------------------------------------------
(* The step in which a list is begun.                                      *)

LEMMA EnterControls ==
  ASSUME Inv, at \in Lists, NEW l \in Lists, Owner[l] = Owner[at], Enter(l, list)
  PROVE  /\ Moves(l, list'[l])
         /\ \A m \in Lists \ {l} : list'[m] = list[m]
         /\ list'[l].res \in {"go", "ok", "thrown"} /\ list'[l].ran = {}
<1>1. PICK s \in {Entered(l), Unresolved} : list' = [list EXCEPT ![l] = s]
  BY DEF Enter
<1>2. ListOK(l, s) /\ s.res \in {"go", "ok", "thrown"} /\ s.ran = {}
  BY EnteredOK
<1>3. list'[l] = s /\ \A m \in Lists \ {l} : list'[m] = list[m]
  BY <1>1, <1>2, ListUpdate DEF Inv
<1> QED
  BY <1>1, <1>2, <1>3 DEF Moves, Enter

LEMMA BeginControls ==
  ASSUME Inv, NEW t \in Tasks, Ready(t) \/ (t = Top /\ at = NoList /\ outcome = "none"),
         Begin(t)
  PROVE  \E l \in In(t, "body") :
           /\ l \in Lists /\ Owner[l] = t /\ Role[l] = "body"
           /\ Descends(t, l, list'[l])
           /\ list'[l].res \in {"go", "ok", "thrown"}
<1> DEFINE base == [m \in Lists |-> IF Owner[m] = t THEN Fresh ELSE list[m]]
<1>1. PICK l \in In(t, "body") : Enter(l, base)
  BY DEF Begin
<1>2. PICK s \in {Entered(l), Unresolved} : list' = [base EXCEPT ![l] = s]
  BY <1>1 DEF Enter
<1>3. l \in Lists /\ Owner[l] = t /\ Role[l] = "body"
  BY DEF In, ListsOf
<1>4. ListOK(l, s) /\ s.res \in {"go", "ok", "thrown"}
  BY <1>3, EnteredOK
<1>5. list'[l] = s
  BY <1>2, <1>3
<1> QED
  BY <1>1, <1>2, <1>3, <1>4, <1>5 DEF Enter, Descends

LEMMA OverFacts ==
  ASSUME Inv, NEW t \in Tasks, NEW kind, NEW role, NEW results, Over(t, kind, role, results)
  PROVE  /\ at \in Lists /\ t = Owner[at] /\ Kind[t] = kind /\ Role[at] = role
         /\ list[at].res \in results /\ Ends(t) /\ OnStack(t)
         /\ list[at].out \in SUBSET Tasks /\ OutOf(at) \in SUBSET Tasks
         /\ (kind # "recipe" => t # Top)
         /\ task[t] \in TaskStates
         /\ Verdict(task[t]) \in Results
<1>1. at \in Lists /\ list[at] \in ListStates /\ task[t] \in TaskStates
  BY DEF Over, Inv, TypeOK
<1> QED
  BY <1>1, ParentFacts, TypeAssumption DEF Over, Ends, OnStack, ListStates, OutOf, Verdict, Results

-----------------------------------------------------------------------------
(* Every step moves control in one of these ways, keeps the types, and     *)
(* leaves no hook to a recipe that is not on the stack.                    *)

StepOK ==
  /\ Controls
  /\ task' \in [Tasks -> TaskStates] /\ hooks' \in [Tasks -> Nat]
  /\ HooksInv => HooksInv'

LEMMA HooksKept ==
  ASSUME Inv, HooksInv, NEW t, Ends(t), at' = Home[t], hooks' = hooks,
         t = Owner[at] => hooks[t] = 0 \/ Kind[t] # "recipe"
  PROVE  HooksInv'
<1> SUFFICES ASSUME NEW u \in Tasks, hooks[u] > 0
             PROVE  OnStack(u)'
  BY DEF HooksInv
<1>1. OnStack(u) /\ Kind[u] = "recipe" /\ hooks[u] # 0
  BY DEF HooksInv
<1>2. CASE Ready(t)
  <2>1. at' = at
    BY <1>2, ReadyFacts DEF Ends, Inv
  <2> QED
    BY <1>1, <2>1 DEF OnStack
<1>3. CASE at \in Lists /\ t = Owner[at]
  <2>1. u # t /\ u \in Above[Owner[at]]
    BY <1>1, <1>3 DEF OnStack
  <2>2. t # Top /\ Home[t] \in Lists /\ u \in Above[Owner[Home[t]]]
    BY <1>3, <2>1, ParentFacts
  <2> QED
    BY <2>2, TypeAssumption DEF OnStack
<1> QED
  BY <1>2, <1>3 DEF Ends

LEMMA EndStep ==
  ASSUME Inv, NEW t, Ends(t), at' = Home[t], Controls, UNCHANGED hooks,
         task' \in [Tasks -> TaskStates],
         t = Owner[at] => hooks[t] = 0 \/ Kind[t] # "recipe"
  PROVE  StepOK
BY HooksKept DEF StepOK, Inv, TypeOK

LEMMA EnterStep ==
  ASSUME Inv, at \in Lists, NEW l \in Lists, Owner[l] = Owner[at],
         Enter(l, list) \/ (\E s : Moves(l, s)), UNCHANGED hooks,
         task' \in [Tasks -> TaskStates]
  PROVE  StepOK
<1>1. at' = l /\ l # NoList /\ at # NoList /\ Controls
  BY EnterControls, TypeAssumption DEF Controls, Moves
<1>2. HooksInv => HooksInv'
  BY <1>1 DEF HooksInv, OnStack
<1> QED
  BY <1>1, <1>2 DEF StepOK, Inv, TypeOK

LEMMA BeginStep ==
  ASSUME Inv, NEW t \in Tasks, Ready(t) \/ (t = Top /\ at = NoList /\ outcome = "none"),
         Begin(t)
  PROVE  StepOK
<1>1. PICK l \in Lists : Owner[l] = t /\ Descends(t, l, list'[l])
  BY BeginControls
<1>2. at' = l /\ l # NoList /\ hooks' = hooks
  BY <1>1, TypeAssumption DEF Descends, Begin
<1>3. task' \in [Tasks -> TaskStates]
  <2>1. NewTask \in TaskStates
    BY DEF NewTask, TaskStates
  <2> QED
    BY <2>1 DEF Begin, Inv, TypeOK
<1>4. HooksInv => HooksInv'
  <2> SUFFICES ASSUME HooksInv, NEW u \in Tasks, hooks[u] > 0
               PROVE  u \in Above[Owner[l]]
    BY <1>2 DEF HooksInv, OnStack
  <2>1. at # NoList /\ u \in Above[Owner[at]]
    BY DEF HooksInv, OnStack
  <2>2. Above[t] = Above[Owner[at]] \cup {t}
    BY <2>1, ReadyFacts DEF Inv
  <2> QED
    BY <1>1, <2>1, <2>2
<1> QED
  BY <1>1, <1>2, <1>3, <1>4 DEF StepOK, Controls, Inv, TypeOK

LEMMA ListSteps ==
  ASSUME Inv, NEW t \in Tasks, Skip(t) \/ FailEarly(t) \/ RunAction(t)
  PROVE  StepOK
<1>1. Ready(t) /\ Ends(t) /\ at \in Lists /\ Home[t] = at /\ t # Top /\ task' = task
      /\ t \notin Above[Owner[at]] /\ Owner[at] \in Above[Owner[at]]
      /\ Scope[t] \in Above[Owner[at]] /\ Kind[Scope[t]] = "recipe" /\ at # NoList
  BY ReadyFacts, ParentFacts, TypeAssumption DEF Skip, FailEarly, RunAction, Ends, Inv
<1>2. task' \in [Tasks -> TaskStates] /\ t # Owner[at]
  BY <1>1 DEF Inv, TypeOK
<1>3. CASE Skip(t)
  <2> DEFINE s == Advanced(at, "ok", {}, {})
  <2>1. ListOK(at, s) /\ s.res # "none"
    <3>1. list[at].res = "go" /\ {} \in SUBSET Tasks /\ {} \subseteq {Steps[at][list[at].pos + 1]}
          /\ TypeOK
      BY <1>3 DEF Skip, Ready, Inv
    <3>2. "ok" \in {"ok", "exit"}
      OBVIOUS
    <3> QED
      BY <1>1, <3>1, <3>2, AdvancedOK
  <2>2. list' = [list EXCEPT ![at] = s] /\ at' = at /\ outcome' = outcome /\ hooks' = hooks
    BY <1>1, <1>3 DEF Skip
  <2>3. Moves(at, s)
    BY <1>1, <2>1, <2>2 DEF Moves
  <2> QED
    BY <1>1, <1>2, <2>2, <2>3, EnterStep
<1>4. CASE FailEarly(t)
  <2>1. Controls /\ at' = Home[t] /\ hooks' = hooks
    BY <1>1, <1>4, CompleteControls DEF FailEarly, Results
  <2> QED
    BY <1>1, <1>2, <2>1, EndStep
<1>5. CASE RunAction(t)
  <2>1. Controls /\ at' = at
    BY <1>1, <1>5, CompleteControls DEF RunAction
  <2>2. hooks' = hooks \/ hooks' = [hooks EXCEPT ![Scope[t]] = @ + 1]
    BY <1>5 DEF RunAction, Listen
  <2>3. hooks' \in [Tasks -> Nat]
    <3>1. hooks \in [Tasks -> Nat] /\ Scope[t] \in Tasks
      BY TypeAssumption DEF Inv, TypeOK
    <3>2. hooks[Scope[t]] + 1 \in Nat
      BY <3>1
    <3> QED
      BY <2>2, <3>1, <3>2
  <2>4. ASSUME HooksInv PROVE HooksInv'
    <3> SUFFICES ASSUME NEW u \in Tasks, hooks'[u] > 0
                 PROVE  OnStack(u) /\ Kind[u] = "recipe"
      BY <2>1 DEF HooksInv, OnStack
    <3>1. CASE u = Scope[t]
      BY <1>1, <3>1 DEF OnStack
    <3>2. CASE u # Scope[t]
      BY <2>2, <2>4, <3>2 DEF HooksInv, Inv, TypeOK
    <3> QED
      BY <3>1, <3>2
  <2> QED
    BY <1>2, <2>1, <2>3, <2>4 DEF StepOK
<1> QED
  BY <1>3, <1>4, <1>5

-----------------------------------------------------------------------------
(* The steps of the modules that run tasks.                                *)

LEMMA TaskUpdates ==
  ASSUME NEW r \in TaskStates, NEW res, NEW o \in SUBSET Tasks
  PROVE  /\ [r EXCEPT !.error = TRUE] \in TaskStates
         /\ [r EXCEPT !.round = @ + 1, !.error = TRUE] \in TaskStates
         /\ [r EXCEPT !.round = @ + 1, !.out = @ \cup o] \in TaskStates
         /\ [r EXCEPT !.error = FALSE, !.exit = @ \/ res = "exit", !.out = @ \cup o]
              \in TaskStates
<1>1. PICK n \in Nat : n = r.round + 1
  BY DEF TaskStates
<1>2. PICK p \in SUBSET Tasks : p = r.out \cup o
  BY DEF TaskStates
<1>3. /\ [r EXCEPT !.round = n, !.error = TRUE] \in TaskStates
      /\ [r EXCEPT !.round = n, !.out = p] \in TaskStates
      /\ [r EXCEPT !.error = TRUE] \in TaskStates
  BY DEF TaskStates
<1>4. [r EXCEPT !.error = FALSE, !.exit = @ \/ res = "exit", !.out = @ \cup o]
        \in TaskStates
  BY DEF TaskStates
<1> QED
  BY <1>1, <1>2, <1>3, <1>4

LEMMA NextTaskOK ==
  ASSUME Inv, NEW t \in Tasks, NEW s \in TaskStates, task' = [task EXCEPT ![t] = s]
  PROVE  task' \in [Tasks -> TaskStates]
BY DEF Inv, TypeOK

(* A module but a recipe ends with what its list left.                     *)
LEMMA SettleStep ==
  ASSUME Inv, NEW t \in Tasks, Ends(t), t = Owner[at] => hooks[t] = 0 \/ Kind[t] # "recipe",
         NEW res \in Results, t = Top => res # "exit", NEW out \in SUBSET Tasks,
         Settle(t, res, out), UNCHANGED hooks, task' \in [Tasks -> TaskStates]
  PROVE  StepOK
<1>1. Controls /\ at' = Home[t]
  BY SettleControls
<1> QED
  BY <1>1, EndStep

LEMMA LoopSteps ==
  ASSUME Inv, NEW t \in Tasks,
         StartModule(t) \/ StartEmptyLoop(t) \/ Switched(t) \/ LoopNext(t) \/ LoopEnd(t)
  PROVE  StepOK
<1>1. CASE StartModule(t)
  BY <1>1, BeginStep DEF StartModule
<1>2. CASE StartEmptyLoop(t)
  <2>1. Ready(t) /\ Ends(t) /\ t # Top /\ t # Owner[at]
    BY <1>2, ReadyFacts, ParentFacts DEF StartEmptyLoop, Ends, Inv
  <2>2. PICK res \in {"ok", "thrown"} : Settle(t, res, {})
    BY <1>2 DEF StartEmptyLoop
  <2>3. res \in Results /\ {} \in SUBSET Tasks
    BY DEF Results
  <2>4. task' \in [Tasks -> TaskStates] /\ UNCHANGED hooks
    BY <1>2 DEF StartEmptyLoop, Inv, TypeOK
  <2> QED
    BY <2>1, <2>2, <2>3, <2>4, SettleStep
<1>3. CASE Switched(t)
  <2>1. /\ Ends(t) /\ t # Top /\ Kind[t] # "recipe"
        /\ list[at].res \in Results /\ OutOf(at) \in SUBSET Tasks
    BY <1>3, OverFacts DEF Switched
  <2>2. Settle(t, list[at].res, OutOf(at)) /\ UNCHANGED hooks
        /\ task' \in [Tasks -> TaskStates]
    BY <1>3 DEF Switched, Inv, TypeOK
  <2> QED
    BY <2>1, <2>2, SettleStep
<1>4. CASE LoopNext(t)
  <2>1. at \in Lists /\ t = Owner[at] /\ task[t] \in TaskStates /\ OutOf(at) \in SUBSET Tasks
    BY <1>4, OverFacts DEF LoopNext
  <2> DEFINE s == [task[t] EXCEPT !.round = @ + 1, !.out = @ \cup OutOf(at)]
  <2>2. s \in TaskStates
    BY <2>1, TaskUpdates
  <2>3. task' = [task EXCEPT ![t] = s]
    BY <1>4 DEF LoopNext
  <2>4. task' \in [Tasks -> TaskStates]
    <3> HIDE DEF s
    <3> QED
      BY <2>2, <2>3, NextTaskOK
  <2>5. ListOK(at, Entered(at)) /\ Entered(at).res # "none"
    BY <2>1, EnteredOK
  <2>6. Moves(at, Entered(at)) /\ UNCHANGED hooks
    BY <1>4, <2>1, <2>5 DEF LoopNext, Moves
  <2> QED
    BY <2>1, <2>4, <2>6, EnterStep
<1>5. CASE LoopEnd(t)
  <2>1. /\ Ends(t) /\ t # Top /\ Kind[t] # "recipe"
        /\ list[at].res \in Results /\ OutOf(at) \in SUBSET Tasks /\ task[t] \in TaskStates
    BY <1>5, OverFacts DEF LoopEnd
  <2>2. task[t].out \cup OutOf(at) \in SUBSET Tasks
    BY <2>1 DEF TaskStates
  <2>3. Settle(t, list[at].res, task[t].out \cup OutOf(at)) /\ UNCHANGED hooks
        /\ task' \in [Tasks -> TaskStates]
    BY <1>5 DEF LoopEnd, Inv, TypeOK
  <2> QED
    BY <2>1, <2>2, <2>3, SettleStep
<1> QED
  BY <1>1, <1>2, <1>3, <1>4, <1>5

LEMMA ConcludeStep ==
  ASSUME Inv, NEW t \in Tasks, NEW role, NEW results, Over(t, "try", role, results),
         NEW s \in TaskStates, Conclude(t, s)
  PROVE  StepOK
<1>1. /\ at \in Lists /\ t = Owner[at] /\ Ends(t) /\ t # Top /\ Kind[t] # "recipe"
  BY OverFacts
<1>2. task' \in [Tasks -> TaskStates] /\ UNCHANGED hooks
  BY NextTaskOK DEF Conclude
<1>3. CASE In(t, "finally") = {}
  <2>1. Verdict(s) \in Results /\ s.out \in SUBSET Tasks
    BY DEF Verdict, Results, TaskStates
  <2>2. Settle(t, Verdict(s), s.out)
    BY <1>3 DEF Conclude
  <2> QED
    BY <1>1, <1>2, <2>1, <2>2, SettleStep
<1>4. CASE In(t, "finally") # {}
  <2>1. PICK f \in In(t, "finally") : Enter(f, list)
    BY <1>4 DEF Conclude
  <2>2. f \in Lists /\ Owner[f] = t
    BY DEF In, ListsOf
  <2> QED
    BY <1>1, <1>2, <2>1, <2>2, EnterStep
<1> QED
  BY <1>3, <1>4

LEMMA TrySteps ==
  ASSUME Inv, NEW t \in Tasks, Try(t)
  PROVE  StepOK
<1> DEFINE failed == [task[t] EXCEPT !.error = TRUE]
<1>0. ASSUME NEW role, Over(t, "try", role, Done)
      PROVE  Gather(t) \in TaskStates
  <2>1. task[t] \in TaskStates /\ list[at].out \in SUBSET Tasks
    BY <1>0, OverFacts
  <2> QED
    BY <2>1, TaskUpdates DEF Gather
<1>1. CASE TryDone(t)
  BY <1>0, <1>1, ConcludeStep DEF TryDone
<1>2. CASE Retry(t)
  <2>1. at \in Lists /\ t = Owner[at] /\ task[t] \in TaskStates
    BY <1>2, OverFacts DEF Retry
  <2> DEFINE s == [task[t] EXCEPT !.round = @ + 1, !.error = TRUE]
  <2>2. s \in TaskStates
    BY <2>1, TaskUpdates
  <2>3. task' = [task EXCEPT ![t] = s] /\ Enter(at, list) /\ UNCHANGED hooks
    BY <1>2 DEF Retry
  <2>4. task' \in [Tasks -> TaskStates]
    <3> HIDE DEF s
    <3> QED
      BY <2>2, <2>3, NextTaskOK
  <2> QED
    BY <2>1, <2>3, <2>4, EnterStep
<1>3. CASE TryFailed(t)
  <2>1. at \in Lists /\ t = Owner[at] /\ task[t] \in TaskStates
        /\ Over(t, "try", "body", {"thrown"})
    BY <1>3, OverFacts DEF TryFailed
  <2>2. failed \in TaskStates
    BY <2>1, TaskUpdates
  <2>3. CASE Conclude(t, failed)
    <3> HIDE DEF failed
    <3> QED
      BY <2>1, <2>2, <2>3, ConcludeStep
  <2>4. ASSUME NEW c \in In(t, "catch"), Enter(c, list),
               task' = [task EXCEPT ![t].error = TRUE], UNCHANGED hooks
        PROVE  StepOK
    <3>1. c \in Lists /\ Owner[c] = t
      BY DEF In, ListsOf
    <3>2. task' = [task EXCEPT ![t] = failed]
      BY <2>4
    <3>3. task' \in [Tasks -> TaskStates]
      <4> HIDE DEF failed
      <4> QED
        BY <2>2, <3>2, NextTaskOK
    <3> QED
      BY <2>1, <2>4, <3>1, <3>3, EnterStep
  <2> QED
    BY <1>3, <2>3, <2>4 DEF TryFailed
<1>4. CASE Caught(t)
  BY <1>0, <1>4, ConcludeStep DEF Caught
<1>5. CASE CatchFailed(t) \/ FinallyFailed(t)
  <2>1. Ends(t) /\ t # Top /\ Kind[t] # "recipe" /\ t = Owner[at]
    BY <1>5, OverFacts DEF CatchFailed, FinallyFailed
  <2>2. Complete(t, "thrown", {}) /\ UNCHANGED hooks /\ task' \in [Tasks -> TaskStates]
    BY <1>5 DEF CatchFailed, FinallyFailed, Inv, TypeOK
  <2>3. "thrown" \in Results /\ {} \in SUBSET Tasks
    BY DEF Results
  <2>4. Controls /\ at' = Home[t]
    BY <2>1, <2>2, <2>3, CompleteControls
  <2> QED
    BY <2>1, <2>2, <2>4, EndStep
<1>6. CASE FinallyDone(t)
  <2>1. /\ Ends(t) /\ t # Top /\ Kind[t] # "recipe" /\ Verdict(task[t]) \in Results
        /\ list[at].out \in SUBSET Tasks /\ task[t] \in TaskStates
    BY <1>6, OverFacts DEF FinallyDone
  <2>2. task[t].out \cup list[at].out \in SUBSET Tasks
    BY <2>1 DEF TaskStates
  <2>3. Settle(t, Verdict(task[t]), task[t].out \cup list[at].out) /\ UNCHANGED hooks
        /\ task' \in [Tasks -> TaskStates]
    BY <1>6 DEF FinallyDone, Inv, TypeOK
  <2> QED
    BY <2>1, <2>2, <2>3, SettleStep
<1> QED
  BY <1>1, <1>2, <1>3, <1>4, <1>5, <1>6 DEF Try

LEMMA RecipeSteps ==
  ASSUME Inv, NEW t \in Tasks, ShutDown(t) \/ RecipeEnd(t)
  PROVE  StepOK
<1>1. CASE ShutDown(t)
  <2>1. hooks[t] \in Nat /\ hooks[t] > 0 /\ hooks \in [Tasks -> Nat] /\ OnStack(t)
        /\ hooks' = [hooks EXCEPT ![t] = @ - 1] /\ UNCHANGED <<at, list, task, outcome>>
    BY <1>1, OverFacts DEF ShutDown, Inv, TypeOK
  <2>2. hooks[t] - 1 \in Nat /\ hooks[t] - 1 < hooks[t]
    BY <2>1
  <2>3. hooks' \in [Tasks -> Nat] /\ task' \in [Tasks -> TaskStates]
    BY <2>1, <2>2 DEF Inv, TypeOK
  <2>4. HooksInv => HooksInv'
    BY <2>1, <2>2 DEF HooksInv, OnStack
  <2> QED
    BY <2>1, <2>3, <2>4 DEF StepOK, Controls
<1>2. CASE RecipeEnd(t)
  <2> DEFINE res == IF list[at].res = "thrown" THEN "thrown" ELSE "ok"
  <2>1. Ends(t) /\ hooks[t] = 0 /\ OutOf(at) \in SUBSET Tasks
    BY <1>2, OverFacts DEF RecipeEnd
  <2>2. res \in Results /\ res # "exit"
    BY DEF Results
  <2>3. Settle(t, res, OutOf(at)) /\ UNCHANGED hooks /\ task' \in [Tasks -> TaskStates]
    BY <1>2 DEF RecipeEnd, Inv, TypeOK
  <2> HIDE DEF res
  <2> QED
    BY <2>1, <2>2, <2>3, SettleStep
<1> QED
  BY <1>1, <1>2

-----------------------------------------------------------------------------
(* The invariant.                                                          *)

LEMMA InitInv ==
  ASSUME Init
  PROVE  Inv /\ HooksInv
<1>1. NewTask \in TaskStates
  BY DEF NewTask, TaskStates
<1>2. \A l \in Lists : ListOK(l, Fresh) /\ Fresh \in ListStates
  BY EnteredOK DEF ListOK
<1>3. TypeOK
  BY <1>1, <1>2 DEF Init, TypeOK
<1> QED
  BY <1>3 DEF Init, Inv, StackInv, HooksInv, OnStack

LEMMA StepInv ==
  ASSUME Inv, HooksInv, [Next]_vars
  PROVE  (Inv /\ HooksInv)'
<1>1. CASE Next
  <2>1. ASSUME Run PROVE StepOK
    BY <2>1, BeginStep, TypeAssumption DEF Run
  <2>2. ASSUME NEW t \in Tasks, Skip(t) \/ FailEarly(t) \/ RunAction(t) \/ Module(t)
        PROVE  StepOK
    BY <2>2, ListSteps, LoopSteps, TrySteps, RecipeSteps DEF Module
  <2>3. StepOK
    BY <1>1, <2>1, <2>2 DEF Next
  <2>4. ControlOK'
    BY <2>3, ControlsOK DEF StepOK
  <2> QED
    BY <2>3, <2>4 DEF StepOK, ControlOK, Inv, TypeOK
<1>2. CASE UNCHANGED vars
  BY <1>2 DEF vars, Inv, TypeOK, StackInv, HooksInv, OnStack
<1> QED
  BY <1>1, <1>2

THEOREM Invariance == Spec => [](Inv /\ HooksInv)
<1>1. Init => Inv /\ HooksInv
  BY InitInv
<1>2. Inv /\ HooksInv /\ [Next]_vars => (Inv /\ HooksInv)'
  BY StepInv
<1> QED
  BY <1>1, <1>2, PTL DEF Spec

(* The state of the task runner is well typed, whatever the program.       *)
THEOREM TasksTypeCorrect == Spec => []TypeOK
<1>1. Inv => TypeOK
  BY DEF Inv
<1> QED
  BY <1>1, Invariance, PTL

(* No server outlives the recipe it was started by, in every program: a    *)
(* recipe is left only after its hooks were run.                           *)
THEOREM HooksAreScoped == Spec => []HooksScoped
<1>1. HooksInv => HooksScoped
  BY DEF HooksInv, HooksScoped
<1> QED
  BY <1>1, Invariance, PTL

-----------------------------------------------------------------------------
(* What a module has made of its lists.  While it is on the stack, one of  *)
(* its lists is current; a list it is done with has been dealt with in the *)
(* order body, catch, finally.                                             *)
Current(l) == l = at \/ list[l].res = "go"

DealtWith(t, l, m) ==
  /\ Kind[t] = "try"
  /\ \/ Role[l] = "catch" /\ Role[m] = "body" /\ list[m].res = "thrown"
     \/ Role[l] = "finally" /\ Role[m] # "finally" /\ list[m].res \in Results

Handled(t) ==
  \A l \in ListsOf(t) : list[l].res = "thrown" /\ Role[l] # "finally" =>
    Role[l] = "body" /\ \E c \in In(t, "catch") : list[c].res \in Done
Left(t) == \E l \in ListsOf(t) : list[l].res = "exit" /\ Role[l] # "finally"

InOrder(t) ==
  \A l, m \in ListsOf(t) : Current(l) /\ m # l =>
    ~Current(m) /\ (list[m].res # "none" => DealtWith(t, l, m))
Finishing(t) ==
  \A l \in In(t, "finally") : Current(l) =>
    (task[t].error \/ Handled(t)) /\ (Left(t) => task[t].exit)
Gathered(t) ==
  Kind[t] = "try" => \A v \in task[t].out :
    \E l \in ListsOf(t) : ~Current(l) /\ list[l].res \in Done /\ v \in list[l].out
ExitKept(t) ==
  task[t].exit => \E f \in In(t, "finally") : list[f].res # "none"

Running(t) == InOrder(t) /\ Finishing(t) /\ Gathered(t) /\ ExitKept(t)

(* What holds of a task that passed, for as long as its list is not run    *)
(* anew.                                                                   *)
FailuresCaught(t) ==
  \A l \in ListsOf(t) : list[l].res = "thrown" =>
    Role[l] = "body" /\ \E c \in In(t, "catch") : list[c].res \in Done
ExitPassed(t) ==
  Left(t) /\ t # Top /\ Kind[t] # "recipe" => list[Home[t]].res = "exit"

Returns(t, v) ==
  \E l \in ListsOf(t) : \/ list[l].res \in Done /\ v \in list[l].out
                        \/ Kind[t] = "loop" /\ v \in task[t].out
VarsAt(m) == \A v \in list[m].out : v \in list[m].ran \/ \E t \in list[m].ran : Returns(t, v)

ModuleInv ==
  /\ \A t \in Tasks : OnStack(t) => Running(t)
  /\ \A t \in Tasks : Passed(t) => FailuresCaught(t) /\ ExitPassed(t)
  /\ \A m \in Lists : VarsAt(m)
  /\ \A l \in Lists : Kind[Owner[l]] = "loop" /\ Rounds[Owner[l]] = 0 => list[l].res = "none"

(* A task among those a list has run is in that list and is over.          *)
LEMMA RanFacts ==
  ASSUME Inv, NEW m \in Lists, NEW t \in list[m].ran
  PROVE  t \in Tasks /\ t # Top /\ Home[t] = m /\ Passed(t) /\ ~OnStack(t)
<1>1. ListOK(m, list[m])
  BY DEF Inv, TypeOK
<1>2. list[m].pos \in Nat /\ list[m].pos <= Len(Steps[m]) /\ Len(Steps[m]) \in Nat
      /\ list[m].ran \subseteq Tasks
  BY <1>1, TypeAssumption DEF ListOK, ListStates
<1>3. PICK i \in 1 .. list[m].pos : t = Steps[m][i]
  BY <1>1 DEF ListOK
<1>4. i \in 1 .. Len(Steps[m])
  BY <1>2
<1>5. t \in Tasks /\ Home[t] = m
  BY <1>2, <1>3, <1>4, TreeAssumption
<1>6. t # Top
  BY <1>5, TreeAssumption, TypeAssumption
<1>7. Passed(t)
  BY <1>5, <1>6 DEF Passed
<1> QED
  BY <1>5, <1>6, <1>7, StackFacts

(* A task of whose lists at most the current one changes.                  *)
LEMMA RunningKept ==
  ASSUME NEW u \in Tasks, Running(u), task'[u] = task[u],
         \A l \in ListsOf(u) : /\ Current(l)' <=> Current(l)
                               /\ ~Current(l) => list'[l] = list[l]
                               /\ list[l].res # "none" => list'[l].res # "none"
  PROVE  Running(u)'
<1>1. ASSUME NEW l \in ListsOf(u), NEW m \in ListsOf(u), Current(l), m # l
      PROVE  /\ ~Current(m)' /\ list'[m] = list[m]
             /\ list[m].res # "none" => DealtWith(u, l, m)
  BY <1>1 DEF Running, InOrder
<1>2. InOrder(u)'
  <2> SUFFICES ASSUME NEW l \in ListsOf(u), NEW m \in ListsOf(u), Current(l)', m # l
               PROVE  ~Current(m)' /\ (list'[m].res # "none" => DealtWith(u, l, m)')
    BY DEF InOrder
  <2> QED
    BY <1>1 DEF DealtWith
<1>3. Finishing(u)'
  <2> SUFFICES ASSUME NEW f \in In(u, "finally"), Current(f)'
               PROVE  (task[u].error \/ Handled(u)') /\ (Left(u)' => task[u].exit)
    BY DEF Finishing
  <2>1. f \in ListsOf(u) /\ Role[f] = "finally" /\ Current(f)
    BY DEF In
  <2>2. \A m \in ListsOf(u) : Role[m] # "finally" => list'[m] = list[m]
    BY <1>1, <2>1
  <2>3. \A c \in In(u, "catch") : c \in ListsOf(u) /\ Role[c] # "finally"
    BY DEF In
  <2> QED
    BY <2>1, <2>2, <2>3 DEF Running, Finishing, Handled, Left
<1>4. Gathered(u)'
  BY DEF Running, Gathered
<1>5. ExitKept(u)'
  BY DEF Running, ExitKept, In
<1> QED
  BY <1>2, <1>3, <1>4, <1>5 DEF Running

(* A task that passed before the step and whose lists do not change.       *)
LEMMA PassedKept ==
  ASSUME NEW u \in Tasks, \A l \in ListsOf(u) : list'[l] = list[l],
         u # Top => (list[Home[u]].res = "exit" => list'[Home[u]].res = "exit")
  PROVE  /\ FailuresCaught(u) => FailuresCaught(u)'
         /\ ExitPassed(u) => ExitPassed(u)'
         /\ task'[u] = task[u] => \A v : Returns(u, v) => Returns(u, v)'
<1>1. FailuresCaught(u) => FailuresCaught(u)'
  BY DEF FailuresCaught, In
<1>2. ExitPassed(u) => ExitPassed(u)'
  BY DEF ExitPassed, Left
<1>3. task'[u] = task[u] => \A v : Returns(u, v) => Returns(u, v)'
  BY DEF Returns
<1> QED
  BY <1>1, <1>2, <1>3

(* Task t ends: what it leaves behind, and what that means for its list.   *)
LEMMA EndKeeps ==
  ASSUME Inv, ModuleInv, NEW t \in Tasks, Ends(t), NEW q \in Results, t = Top => q # "exit",
         NEW out \in SUBSET Tasks, Complete(t, q, out), \A u \in Tasks \ {t} : task'[u] = task[u],
         q # "thrown" =>
           /\ FailuresCaught(t)
           /\ Left(t) /\ t # Top /\ Kind[t] # "recipe" => q = "exit"
           /\ \A v \in out : v = t \/ \E l \in ListsOf(t) :
                (list[l].res \in Done /\ v \in list[l].out) \/ (Kind[t] = "loop" /\ v \in task'[t].out)
  PROVE  ModuleInv'
<1>1. CASE t = Top
  <2>1. at' = NoList /\ list' = list /\ outcome' = q
    BY <1>1, TreeAssumption DEF Complete
  <2>2. \A u \in Tasks : ~OnStack(u)'
    BY <2>1 DEF OnStack
  <2>3. ASSUME NEW u \in Tasks, Passed(u)' PROVE FailuresCaught(u)' /\ ExitPassed(u)'
    <3>1. CASE u = Top
      <4>1. FailuresCaught(u)
        BY <1>1, <2>1, <2>3, <3>1 DEF Passed
      <4> QED
        BY <2>1, <3>1, <4>1, PassedKept DEF ExitPassed
    <3>2. CASE u # Top
      <4>1. Passed(u)
        BY <2>1, <2>3, <3>2 DEF Passed
      <4> QED
        BY <2>1, <4>1, PassedKept DEF ModuleInv
    <3> QED
      BY <3>1, <3>2
  <2>4. ASSUME NEW m \in Lists, NEW v \in list'[m].out, v \notin list'[m].ran
        PROVE  \E u \in list'[m].ran : Returns(u, v)'
    <3>1. PICK u \in list[m].ran : Returns(u, v)
      BY <2>1, <2>4 DEF ModuleInv, VarsAt
    <3>2. u \in Tasks /\ u # Top
      BY <3>1, RanFacts
    <3> QED
      BY <1>1, <2>1, <3>1, <3>2, PassedKept
  <2> QED
    BY <2>1, <2>2, <2>3, <2>4 DEF ModuleInv, VarsAt
<1>2. CASE t # Top
  <2> DEFINE m == Home[t]
  <2>1. /\ m \in Lists /\ list[m].res = "go" /\ at \in Lists
        /\ Owner[m] \in Tasks /\ Owner[m] # t /\ OnStack(Owner[m])
        /\ Above[Owner[m]] \subseteq Above[Owner[at]]
        /\ t = Steps[m][list[m].pos + 1]
    BY <1>2, EndsFacts
  <2>2. /\ at' = m /\ outcome' = outcome /\ list'[m].res # "none"
        /\ \A l \in Lists \ {m} : list'[l] = list[l]
        /\ list'[m].ran = IF q = "thrown" THEN list[m].ran ELSE list[m].ran \cup {t}
        /\ list'[m].out = IF q = "thrown" THEN list[m].out ELSE list[m].out \cup out
        /\ list'[m].res = IF q = "thrown" THEN "thrown" ELSE Forward(m, q)
    BY <1>2, CompleteFacts DEF Moves
  <2>3. t \notin list[m].ran /\ t \notin Above[Owner[m]] /\ m # NoList /\ outcome = "none"
    <3>1. ListOK(m, list[m])
      BY <2>1 DEF Inv, TypeOK
    <3>2. t \notin list[m].ran /\ t \notin Above[Owner[m]]
      BY <2>1, <3>1, NextFacts
    <3>3. m # NoList /\ outcome = "none"
      BY <2>1, TypeAssumption DEF Inv, StackInv
    <3> QED
      BY <3>2, <3>3
  <2>4. at = m \/ Owner[at] = t
    BY ReadyFacts DEF Ends, Inv
  <2> HIDE DEF m
  <2>5. ASSUME NEW u \in Tasks, OnStack(u)' PROVE Running(u)'
    <3>1. u # t /\ OnStack(u) /\ Running(u) /\ task'[u] = task[u]
      <4>1. u # t /\ OnStack(u)
        BY <2>1, <2>2, <2>3, <2>5, TypeAssumption DEF OnStack
      <4> QED
        BY <4>1 DEF ModuleInv
    <3>2. ASSUME NEW l \in ListsOf(u)
          PROVE  /\ Current(l)' <=> Current(l)
                 /\ ~Current(l) => list'[l] = list[l]
                 /\ list[l].res # "none" => list'[l].res # "none"
      <4>1. l \in Lists /\ Owner[l] = u
        BY DEF ListsOf
      <4> QED
        BY <2>1, <2>2, <2>4, <3>1, <4>1 DEF Current
    <3> QED
      BY <3>1, <3>2, RunningKept
  <2>6. ASSUME NEW u \in Tasks, u # t, Passed(u)' PROVE Passed(u) /\ u # Top
    <3>1. u # Top
      BY <2>2, <2>3, <2>6 DEF Passed
    <3>2. Home[u] \in Lists
      BY <3>1, TreeAssumption
    <3> QED
      BY <2>2, <2>6, <3>1, <3>2 DEF Passed
  <2>7. ASSUME NEW u \in Tasks, u = t \/ Passed(u), NEW l \in ListsOf(u)
        PROVE  list'[l] = list[l]
    <3>1. l \in Lists /\ Owner[l] = u
      BY DEF ListsOf
    <3>2. ~Passed(Owner[m])
      BY <2>1, StackFacts
    <3> QED
      BY <2>1, <2>2, <2>7, <3>1, <3>2
  <2>8. ASSUME NEW u \in Tasks, Passed(u)' PROVE FailuresCaught(u)' /\ ExitPassed(u)'
    <3>1. CASE u = t
      <4>1. q # "thrown"
        BY <1>2, <2>2, <2>3, <2>8, <3>1 DEF Passed, m
      <4>2. q = "exit" => list'[m].res = "exit"
        BY <2>2, <4>1 DEF Forward
      <4>3. FailuresCaught(t)'
        BY <2>7, <4>1 DEF FailuresCaught, In
      <4>4. Left(t)' => Left(t)
        BY <2>7 DEF Left
      <4> QED
        BY <3>1, <4>1, <4>2, <4>3, <4>4 DEF ExitPassed, m
    <3>2. CASE u # t
      <4>1. Passed(u) /\ u # Top
        BY <2>6, <2>8, <3>2
      <4>2. list[Home[u]].res = "exit" => list'[Home[u]].res = "exit"
        BY <2>1, <2>2, <4>1, TreeAssumption
      <4> QED
        BY <2>7, <4>1, <4>2, PassedKept DEF ModuleInv
    <3> QED
      BY <3>1, <3>2
  <2>9. ASSUME NEW k \in Lists, NEW u \in list[k].ran, NEW v, Returns(u, v)
        PROVE  Returns(u, v)'
    <3>1. u \in Tasks /\ Passed(u) /\ u # Top /\ Home[u] = k
      BY RanFacts
    <3>2. u # t
      BY <2>3, <3>1 DEF m
    <3>3. list[Home[u]].res = "exit" => list'[Home[u]].res = "exit"
      BY <2>1, <2>2, <3>1
    <3> QED
      BY <2>7, <2>9, <3>1, <3>2, <3>3, PassedKept
  <2>10. ASSUME NEW k \in Lists PROVE VarsAt(k)'
    <3> SUFFICES ASSUME NEW v \in list'[k].out, v \notin list'[k].ran
                 PROVE  \E u \in list'[k].ran : Returns(u, v)'
      BY DEF VarsAt
    <3>0. list[k].ran \subseteq list'[k].ran
      BY <2>1, <2>2
    <3>1. CASE v \in list[k].out
      <4>1. PICK u \in list[k].ran : Returns(u, v)
        BY <3>0, <3>1 DEF ModuleInv, VarsAt
      <4> QED
        BY <2>9, <3>0, <4>1
    <3>2. CASE v \notin list[k].out
      <4>1. k = m /\ q # "thrown" /\ v \in out /\ t \in list'[k].ran
        BY <2>2, <3>2
      <4>2. PICK l \in ListsOf(t) :
              (list[l].res \in Done /\ v \in list[l].out) \/ (Kind[t] = "loop" /\ v \in task'[t].out)
        BY <4>1
      <4>3. list'[l] = list[l]
        BY <2>7
      <4> QED
        BY <4>1, <4>2, <4>3 DEF Returns
    <3> QED
      BY <3>1, <3>2
  <2>11. ASSUME NEW l \in Lists, Kind[Owner[l]] = "loop", Rounds[Owner[l]] = 0
         PROVE  list'[l].res = "none"
    <3>1. list[l].res = "none"
      BY <2>11 DEF ModuleInv
    <3> QED
      BY <2>1, <2>2, <3>1
  <2> QED
    BY <2>5, <2>8, <2>10, <2>11 DEF ModuleInv
<1> QED
  BY <1>1, <1>2

(* A task of the top runs one of its lists, for the first time or again.   *)
LEMMA EnterKeeps ==
  ASSUME Inv, ModuleInv, at \in Lists, NEW t \in Tasks, t = Owner[at],
         NEW l \in Lists, Owner[l] = t, at' = l, outcome' = outcome,
         NEW s \in {Entered(l), Unresolved}, list' = [list EXCEPT ![l] = s],
         \A u \in Tasks \ {t} : task'[u] = task[u], Running(t)'
  PROVE  ModuleInv'
<1>1. /\ list'[l].res # "none" /\ list'[l].ran = {} /\ list'[l].out = {}
      /\ \A m \in Lists \ {l} : list'[m] = list[m]
  <2>1. ListOK(l, s) /\ s.res # "none" /\ s.ran = {} /\ s.out = {}
    BY EnteredOK DEF Entered, Unresolved, Fresh
  <2> QED
    BY <2>1, ListUpdate DEF Inv
<1>2. t = Owner[at] /\ t = Owner[l]
  OBVIOUS
<1>3. OnStack(t) /\ at # NoList /\ l # NoList /\ outcome = "none" /\ list[at].res # "none"
  BY <1>2, ParentFacts, TypeAssumption DEF OnStack, Inv, StackInv
<1>4. ASSUME NEW u \in Tasks, OnStack(u)' PROVE Running(u)'
  <2>1. OnStack(u)
    BY <1>3, <1>4 DEF OnStack
  <2>2. CASE u = t
    BY <1>2, <2>2
  <2>3. CASE u # t
    <3>1. Running(u) /\ task'[u] = task[u]
      BY <1>2, <2>1, <2>3 DEF ModuleInv
    <3>2. \A m \in ListsOf(u) : list'[m] = list[m] /\ (Current(m)' <=> Current(m))
      BY <1>1, <1>2, <2>3 DEF ListsOf, Current
    <3> QED
      BY <3>1, <3>2, RunningKept
  <2> QED
    BY <2>2, <2>3
<1>5. ASSUME NEW u \in Tasks, Passed(u), NEW m \in ListsOf(u) PROVE list'[m] = list[m]
  BY <1>1, <1>2, <1>3, <1>5, StackFacts DEF ListsOf
<1>6. ASSUME NEW u \in Tasks, Passed(u)' PROVE FailuresCaught(u)' /\ ExitPassed(u)'
  <2>1. u # Top
    BY <1>3, <1>6 DEF Passed
  <2>2. Home[u] \in Lists
    BY <2>1, TreeAssumption
  <2>3. Passed(u) /\ Home[u] # l
    BY <1>1, <1>6, <2>1, <2>2 DEF Passed
  <2> QED
    BY <1>1, <1>5, <2>2, <2>3, PassedKept DEF ModuleInv
<1>7. ASSUME NEW m \in Lists PROVE VarsAt(m)'
  <2> SUFFICES ASSUME NEW v \in list'[m].out, v \notin list'[m].ran
               PROVE  \E u \in list'[m].ran : Returns(u, v)'
    BY DEF VarsAt
  <2>1. m # l /\ list'[m] = list[m]
    BY <1>1
  <2>2. PICK u \in list[m].ran : Returns(u, v)
    BY <2>1 DEF ModuleInv, VarsAt
  <2>3. u \in Tasks /\ Passed(u) /\ Home[u] = m /\ u # t
    BY <1>3, <2>2, RanFacts
  <2> QED
    BY <1>2, <1>5, <2>1, <2>2, <2>3, PassedKept
<1>8. ASSUME NEW m \in Lists, Kind[Owner[m]] = "loop", Rounds[Owner[m]] = 0
      PROVE  list'[m].res = "none"
  BY <1>1, <1>3, <1>8 DEF ModuleInv
<1> QED
  BY <1>4, <1>6, <1>7, <1>8 DEF ModuleInv

(* A task begins, and with it a new instance of its module.                *)
LEMMA BeginKeeps ==
  ASSUME Inv, ModuleInv, NEW t \in Tasks,
         Ready(t) \/ (t = Top /\ at = NoList /\ outcome = "none"),
         ~(Kind[t] = "loop" /\ Rounds[t] = 0), Begin(t)
  PROVE  ModuleInv'
<1>1. PICK l \in In(t, "body") :
        l \in Lists /\ Owner[l] = t /\ Role[l] = "body" /\ Descends(t, l, list'[l])
  BY BeginControls
<1>2. /\ \A m \in Lists \ {l} : list'[m] = IF Owner[m] = t THEN Fresh ELSE list[m]
      /\ ~OnStack(t) /\ ~Passed(t) /\ at' = l /\ outcome' = outcome /\ l # NoList
  BY <1>1, DescendsOK, TypeAssumption DEF Descends
<1>3. list'[l].ran = {} /\ list'[l].out = {}
  <2> DEFINE base == [m \in Lists |-> IF Owner[m] = t THEN Fresh ELSE list[m]]
  <2>1. PICK k \in In(t, "body") : Enter(k, base)
    BY DEF Begin
  <2>2. k = l
    BY <1>2, <2>1 DEF Enter
  <2>3. PICK s \in {Entered(l), Unresolved} : list' = [base EXCEPT ![l] = s]
    BY <2>1, <2>2 DEF Enter
  <2>4. list'[l] = s
    BY <1>1, <2>3
  <2> QED
    BY <2>4, EnteredOK DEF Entered, Unresolved, Fresh
<1>4. task'[t] = NewTask /\ \A u \in Tasks \ {t} : task'[u] = task[u]
  BY DEF Begin, Inv, TypeOK
<1>5. ASSUME NEW u \in Tasks, OnStack(u)' PROVE Running(u)'
  <2>1. CASE u = t
    <3>1. \A m \in ListsOf(t) : m # l => list'[m] = Fresh /\ m # at'
      BY <1>2 DEF ListsOf
    <3>2. InOrder(t)' /\ Finishing(t)' /\ Gathered(t)' /\ ExitKept(t)'
      BY <1>1, <1>4, <3>1 DEF InOrder, Finishing, Gathered, ExitKept, Current, NewTask, Fresh, In
    <3> QED
      BY <2>1, <3>2 DEF Running
  <2>2. CASE u # t
    <3>1. u \in Above[t]
      BY <1>1, <1>2, <1>5 DEF OnStack
    <3>2. Ready(t)
      BY <2>2, <3>1, TreeAssumption
    <3>3. OnStack(u) /\ at \in Lists /\ list[at].res = "go" /\ at # NoList
      BY <2>2, <3>1, <3>2, ReadyFacts, TypeAssumption DEF OnStack, Ready, Inv
    <3>4. Running(u) /\ task'[u] = task[u]
      BY <1>4, <2>2, <3>3 DEF ModuleInv
    <3>5. \A m \in ListsOf(u) : list'[m] = list[m] /\ (Current(m)' <=> Current(m))
      BY <1>1, <1>2, <2>2, <3>3 DEF ListsOf, Current
    <3> QED
      BY <3>4, <3>5, RunningKept
  <2> QED
    BY <2>1, <2>2
<1>6. ASSUME NEW u \in Tasks, Passed(u), NEW m \in ListsOf(u) PROVE list'[m] = list[m]
  BY <1>1, <1>2, <1>6 DEF ListsOf
<1>7. ASSUME NEW u \in Tasks, Passed(u)' PROVE FailuresCaught(u)' /\ ExitPassed(u)'
  <2>1. CASE u = Top
    <3>1. Passed(u)
      BY <1>2, <1>7, <2>1 DEF Passed
    <3> QED
      BY <1>6, <2>1, <3>1, PassedKept DEF ModuleInv
  <2>2. CASE u # Top
    <3>1. Home[u] \in Lists
      BY <2>2, TreeAssumption
    <3>2. list'[Home[u]] = list[Home[u]]
      BY <1>1, <1>2, <1>3, <1>7, <2>2, <3>1 DEF Passed, Fresh
    <3>3. Passed(u)
      BY <1>7, <2>2, <3>2 DEF Passed
    <3> QED
      BY <1>6, <3>2, <3>3, PassedKept DEF ModuleInv
  <2> QED
    BY <2>1, <2>2
<1>8. ASSUME NEW m \in Lists PROVE VarsAt(m)'
  <2> SUFFICES ASSUME NEW v \in list'[m].out, v \notin list'[m].ran
               PROVE  \E u \in list'[m].ran : Returns(u, v)'
    BY DEF VarsAt
  <2>1. list'[m] = list[m]
    BY <1>1, <1>2, <1>3 DEF Fresh
  <2>2. PICK u \in list[m].ran : Returns(u, v)
    BY <2>1 DEF ModuleInv, VarsAt
  <2>3. u \in Tasks /\ Passed(u) /\ Home[u] = m /\ u # t
    BY <1>2, <2>2, RanFacts
  <2> QED
    BY <1>4, <1>6, <2>1, <2>2, <2>3, PassedKept
<1>9. ASSUME NEW m \in Lists, Kind[Owner[m]] = "loop", Rounds[Owner[m]] = 0
      PROVE  list'[m].res = "none"
  BY <1>1, <1>2, <1>9 DEF ModuleInv
<1> QED
  BY <1>5, <1>7, <1>8, <1>9 DEF ModuleInv

LEMMA SkipKeeps ==
  ASSUME Inv, ModuleInv, NEW t \in Tasks, Skip(t)
  PROVE  ModuleInv'
<1>1. /\ at \in Lists /\ at' = at /\ task' = task /\ outcome' = outcome /\ list[at].res = "go"
      /\ list' = [list EXCEPT ![at] = Advanced(at, "ok", {}, {})]
  BY ReadyFacts DEF Skip, Inv, Ready
<1> DEFINE s == Advanced(at, "ok", {}, {})
<1>2. ListOK(at, s) /\ s.res # "none" /\ s.res # "exit" /\ s.ran = list[at].ran /\ s.out = list[at].out
  <2>1. TypeOK /\ {} \in SUBSET Tasks /\ {} \subseteq {Steps[at][list[at].pos + 1]}
    BY DEF Inv
  <2>2. ListOK(at, s) /\ s.res # "none"
    <3>1. "ok" \in {"ok", "exit"}
      OBVIOUS
    <3> QED
      BY <1>1, <2>1, <3>1, AdvancedOK
  <2>3. s.res # "exit" /\ s.ran = list[at].ran /\ s.out = list[at].out
    BY DEF Advanced, Forward
  <2> HIDE DEF s
  <2> QED
    BY <2>2, <2>3
<1> HIDE DEF s
<1>3. list'[at] = s /\ \A m \in Lists \ {at} : list'[m] = list[m]
  BY <1>1, <1>2, ListUpdate DEF Inv, s
<1>4. OnStack(Owner[at]) /\ Owner[at] \in Tasks /\ at # NoList /\ outcome = "none"
  BY <1>1, ParentFacts, TypeAssumption DEF OnStack, Inv, StackInv
<1>5. ASSUME NEW u \in Tasks, OnStack(u)' PROVE Running(u)'
  <2>1. Running(u)
    BY <1>1, <1>5 DEF OnStack, ModuleInv
  <2>2. ASSUME NEW m \in ListsOf(u)
        PROVE  /\ Current(m)' <=> Current(m)
               /\ ~Current(m) => list'[m] = list[m]
               /\ list[m].res # "none" => list'[m].res # "none"
    BY <1>1, <1>2, <1>3 DEF Current, ListsOf
  <2> QED
    BY <1>1, <2>1, <2>2, RunningKept
<1>6. ASSUME NEW u \in Tasks, Passed(u), NEW m \in ListsOf(u) PROVE list'[m] = list[m]
  BY <1>3, <1>4, <1>6, StackFacts DEF ListsOf
<1>7. ASSUME NEW u \in Tasks, Passed(u)' PROVE FailuresCaught(u)' /\ ExitPassed(u)'
  <2>1. u # Top
    BY <1>1, <1>4, <1>7 DEF Passed
  <2>2. Home[u] \in Lists
    BY <2>1, TreeAssumption
  <2>3. Passed(u)
    BY <1>2, <1>3, <1>7, <2>1, <2>2 DEF Passed
  <2>4. list[Home[u]].res = "exit" => list'[Home[u]].res = "exit"
    BY <1>1, <1>3, <2>2
  <2> QED
    BY <1>6, <2>3, <2>4, PassedKept DEF ModuleInv
<1>8. ASSUME NEW m \in Lists PROVE VarsAt(m)'
  <2> SUFFICES ASSUME NEW v \in list'[m].out, v \notin list'[m].ran
               PROVE  \E u \in list'[m].ran : Returns(u, v)'
    BY DEF VarsAt
  <2>1. list'[m].out = list[m].out /\ list'[m].ran = list[m].ran
    BY <1>2, <1>3
  <2>2. PICK u \in list[m].ran : Returns(u, v)
    BY <2>1 DEF ModuleInv, VarsAt
  <2>3. u \in Tasks /\ Passed(u) /\ Home[u] = m
    BY <2>2, RanFacts
  <2>4. list[m].res = "exit" => list'[m].res = "exit"
    BY <1>1, <1>3
  <2> QED
    BY <1>1, <1>6, <2>1, <2>2, <2>3, <2>4, PassedKept
<1>9. ASSUME NEW m \in Lists, Kind[Owner[m]] = "loop", Rounds[Owner[m]] = 0
      PROVE  list'[m].res = "none"
  BY <1>1, <1>3, <1>9 DEF ModuleInv
<1> QED
  BY <1>5, <1>7, <1>8, <1>9 DEF ModuleInv

(* The list at the top is over: the others of its module are dealt with.   *)
LEMMA OverRunning ==
  ASSUME Inv, ModuleInv, NEW t \in Tasks, NEW kind, NEW role, NEW results,
         Over(t, kind, role, results), results \subseteq Results
  PROVE  /\ Running(t) /\ at \in ListsOf(t) /\ Current(at)
         /\ \A m \in ListsOf(t) : m # at =>
              ~Current(m) /\ (list[m].res # "none" => DealtWith(t, at, m))
         /\ list[at].res \in Results
<1>1. OnStack(t) /\ at \in Lists /\ t = Owner[at] /\ list[at].res \in results
  BY OverFacts
<1> QED
  BY <1>1 DEF ModuleInv, Running, InOrder, ListsOf, Current

(* A module but a try ends with the result of the list it was at.          *)
LEMMA PlainEnd ==
  ASSUME Inv, ModuleInv, NEW t \in Tasks, NEW kind, NEW role, NEW results,
         Over(t, kind, role, results), results \subseteq Results, kind # "try",
         NEW res \in Results, t = Top => res # "exit",
         list[at].res = "thrown" => res = "thrown",
         list[at].res = "exit" => res \in {"exit", "thrown"} \/ kind = "recipe",
         NEW out \in SUBSET Tasks,
         \A v \in out : v \in OutOf(at) \/ (kind = "loop" /\ v \in task[t].out),
         Settle(t, res, out), task' = task
  PROVE  ModuleInv'
<1>1. /\ Kind[t] = kind /\ Ends(t) /\ at \in ListsOf(t)
      /\ \A m \in ListsOf(t) : m # at => list[m].res = "none"
  BY OverFacts, OverRunning DEF DealtWith
<1>2. PICK q \in Results : /\ Complete(t, q, out)
                           /\ t = Top => q # "exit"
                           /\ res = "thrown" => q = "thrown"
                           /\ res = "exit" => q \in {"exit", "thrown"}
  BY SettleFacts
<1>3. ASSUME q # "thrown"
      PROVE  /\ FailuresCaught(t)
             /\ Left(t) /\ t # Top /\ Kind[t] # "recipe" => q = "exit"
             /\ \A v \in out : \E l \in ListsOf(t) :
                  (list[l].res \in Done /\ v \in list[l].out) \/ (Kind[t] = "loop" /\ v \in task'[t].out)
  <2>1. list[at].res # "thrown"
    BY <1>2, <1>3
  <2>2. FailuresCaught(t)
    BY <1>1, <2>1 DEF FailuresCaught
  <2>3. Left(t) /\ Kind[t] # "recipe" => q = "exit"
    BY <1>1, <1>2, <1>3 DEF Left
  <2> QED
    BY <1>1, <2>2, <2>3 DEF OutOf
<1> QED
  BY <1>1, <1>2, <1>3, EndKeeps

(* A try has its main and its catch list behind it.                        *)
LEMMA ConcludeKeeps ==
  ASSUME Inv, ModuleInv, NEW t \in Tasks, NEW role, NEW results,
         Over(t, "try", role, results), results \subseteq Results, role \in {"body", "catch"},
         NEW s \in TaskStates, Conclude(t, s),
         s.error \/ Handled(t), Left(t) => s.exit,
         \A v \in s.out : \E l \in ListsOf(t) : list[l].res \in Done /\ v \in list[l].out
  PROVE  ModuleInv'
<1>1. /\ Kind[t] = "try" /\ Ends(t) /\ t # Top /\ at \in ListsOf(t) /\ Role[at] = role
      /\ \A m \in ListsOf(t) : m # at =>
           ~Current(m) /\ (list[m].res # "none" => DealtWith(t, at, m))
      /\ list[at].res \in Results /\ at \in Lists /\ t = Owner[at]
  BY OverFacts, OverRunning
<1>2. task' = [task EXCEPT ![t] = s] /\ task'[t] = s /\ \A u \in Tasks \ {t} : task'[u] = task[u]
  BY DEF Conclude, Inv, TypeOK
<1>3. CASE In(t, "finally") = {}
  <2>1. Settle(t, Verdict(s), s.out) /\ Verdict(s) \in Results /\ s.out \in SUBSET Tasks
    BY <1>3 DEF Conclude, Verdict, Results, TaskStates
  <2>2. PICK q \in Results : /\ Complete(t, q, s.out)
                             /\ Verdict(s) = "thrown" => q = "thrown"
                             /\ Verdict(s) = "exit" => q \in {"exit", "thrown"}
    BY <1>1, <2>1, SettleFacts
  <2>3. ASSUME q # "thrown"
        PROVE  /\ FailuresCaught(t)
               /\ Left(t) => q = "exit"
    <3>1. ~s.error
      BY <2>2, <2>3 DEF Verdict
    <3>2. FailuresCaught(t)
      BY <1>3, <3>1 DEF Handled, FailuresCaught, In
    <3>3. Left(t) => Verdict(s) = "exit"
      BY <3>1 DEF Verdict
    <3> QED
      BY <2>2, <2>3, <3>2, <3>3
  <2> QED
    BY <1>1, <1>2, <2>1, <2>2, <2>3, EndKeeps
<1>4. CASE In(t, "finally") # {}
  <2>1. PICK f \in In(t, "finally") : Enter(f, list)
    BY <1>4 DEF Conclude
  <2>2. f \in ListsOf(t) /\ f \in Lists /\ Owner[f] = t /\ Role[f] = "finally" /\ f # at
    BY <1>1, <2>1 DEF In, ListsOf
  <2>3. PICK z \in {Entered(f), Unresolved} : list' = [list EXCEPT ![f] = z]
    BY <2>1 DEF Enter
  <2>4. at' = f /\ outcome' = outcome
    BY <2>1 DEF Enter
  <2>5. list'[f].res # "none" /\ \A m \in Lists \ {f} : list'[m] = list[m]
    <3>1. ListOK(f, z) /\ z.res # "none"
      BY <2>2, EnteredOK
    <3> QED
      BY <2>2, <2>3, <3>1, ListUpdate DEF Inv
  <2>6. ASSUME NEW m \in ListsOf(t), m # f
        PROVE  /\ list'[m] = list[m] /\ ~Current(m)' /\ Role[m] # "finally"
               /\ list[m].res # "none" => list[m].res \in Results
    <3>1. m \in Lists /\ Owner[m] = t
      BY DEF ListsOf
    <3>2. Role[m] # "finally"
      BY <1>1, <2>2, <2>6, <3>1, ModuleAssumption
    <3>3. list[m].res # "none" => list[m].res \in Results
      BY <1>1 DEF DealtWith, Results
    <3>4. list[m].res # "go"
      BY <1>1, <3>3 DEF Results
    <3> QED
      BY <2>4, <2>5, <2>6, <3>1, <3>2, <3>3, <3>4 DEF Current
  <2>7. InOrder(t)'
    BY <1>1, <2>2, <2>6 DEF InOrder, DealtWith
  <2>8. Finishing(t)'
    <3>1. Handled(t) => Handled(t)'
      BY <2>6 DEF Handled, In
    <3>2. Left(t)' => Left(t)
      BY <2>2, <2>6 DEF Left
    <3> QED
      BY <1>2, <3>1, <3>2 DEF Finishing
  <2>9. Gathered(t)'
    <3> SUFFICES ASSUME NEW v \in s.out
                 PROVE  \E l \in ListsOf(t) : ~Current(l)' /\ list'[l].res \in Done /\ v \in list'[l].out
      BY <1>2 DEF Gathered
    <3>1. PICK l \in ListsOf(t) : list[l].res \in Done /\ v \in list[l].out
      OBVIOUS
    <3>2. l # f
      BY <1>1, <2>2, <3>1 DEF DealtWith, Done
    <3> QED
      BY <2>6, <3>1, <3>2
  <2>10. ExitKept(t)'
    BY <2>1, <2>5 DEF ExitKept
  <2>11. Running(t)'
    BY <2>7, <2>8, <2>9, <2>10 DEF Running
  <2> QED
    BY <1>1, <1>2, <2>2, <2>3, <2>4, <2>11, EnterKeeps
<1> QED
  BY <1>3, <1>4

LEMMA ActionKeeps ==
  ASSUME Inv, ModuleInv, NEW t \in Tasks, FailEarly(t) \/ RunAction(t)
  PROVE  ModuleInv'
<1>1. Ready(t) /\ Ends(t) /\ t # Top /\ task' = task
  BY ReadyFacts DEF FailEarly, RunAction, Ends, Inv
<1>2. CASE FailEarly(t)
  BY <1>1, <1>2, EndKeeps DEF FailEarly, Results
<1>3. CASE RunAction(t)
  <2>1. ListsOf(t) = {}
    BY <1>3, ModuleAssumption DEF RunAction, ListsOf
  <2>2. FailuresCaught(t) /\ ~Left(t)
    BY <2>1 DEF FailuresCaught, Left
  <2>3. PICK res \in Results : Complete(t, res, {t})
    BY <1>3 DEF RunAction
  <2> QED
    BY <1>1, <2>2, <2>3, EndKeeps
<1> QED
  BY <1>2, <1>3

LEMMA LoopKeeps ==
  ASSUME Inv, ModuleInv, NEW t \in Tasks,
         StartEmptyLoop(t) \/ Switched(t) \/ LoopNext(t) \/ LoopEnd(t) \/ RecipeEnd(t)
  PROVE  ModuleInv'
<1>0. Results = {"ok", "exit", "thrown"}
  BY DEF Results
<1>1. CASE StartEmptyLoop(t)
  <2>1. Ready(t) /\ Ends(t) /\ t # Top /\ task' = task /\ Kind[t] = "loop" /\ Rounds[t] = 0
    BY <1>1, ReadyFacts DEF StartEmptyLoop, Ends, Inv
  <2>2. \A l \in ListsOf(t) : list[l].res = "none"
    BY <2>1 DEF ModuleInv, ListsOf
  <2>3. FailuresCaught(t) /\ ~Left(t)
    BY <2>2 DEF FailuresCaught, Left
  <2>4. PICK res \in {"ok", "thrown"} : Settle(t, res, {})
    BY <1>1 DEF StartEmptyLoop
  <2>5. PICK q \in Results : Complete(t, q, {})
    BY <1>0, <2>1, <2>4, SettleFacts
  <2> QED
    BY <2>1, <2>3, <2>5, EndKeeps
<1>2. CASE Switched(t)
  <2>1. /\ Over(t, "switch", "body", Results) /\ Settle(t, list[at].res, OutOf(at)) /\ task' = task
    BY <1>2 DEF Switched
  <2>2. t # Top /\ list[at].res \in Results /\ OutOf(at) \in SUBSET Tasks
    BY <2>1, OverFacts
  <2> QED
    BY <2>1, <2>2, PlainEnd
<1>3. CASE LoopNext(t)
  <2>1. Over(t, "loop", "body", {"ok"}) /\ {"ok"} \subseteq Results
    BY <1>0, <1>3 DEF LoopNext
  <2>2. /\ Running(t) /\ at \in ListsOf(t) /\ at \in Lists /\ t = Owner[at] /\ Kind[t] = "loop"
        /\ \A m \in ListsOf(t) : m # at => ~Current(m) /\ list[m].res = "none"
    <3>1. at \in Lists /\ t = Owner[at] /\ Kind[t] = "loop"
      BY <2>1, OverFacts
    <3> QED
      BY <2>1, <3>1, OverRunning DEF DealtWith
  <2>3. In(t, "finally") = {}
    BY <2>2, ModuleAssumption DEF In, ListsOf
  <2>4. /\ at' = at /\ list' = [list EXCEPT ![at] = Entered(at)] /\ outcome' = outcome
        /\ \A u \in Tasks \ {t} : task'[u] = task[u]
        /\ task'[t].exit = task[t].exit
    BY <1>3, OverFacts DEF LoopNext, Inv, TypeOK, TaskStates
  <2>5. \A m \in ListsOf(t) : m # at => ~Current(m)' /\ list'[m].res = "none"
    BY <2>2, <2>4 DEF Current, ListsOf
  <2>6. InOrder(t)' /\ Finishing(t)' /\ Gathered(t)' /\ ExitKept(t)'
    BY <2>2, <2>3, <2>4, <2>5
       DEF InOrder, Finishing, Gathered, Running, ExitKept, Current
  <2>7. Entered(at) \in {Entered(at), Unresolved} /\ Running(t)'
    BY <2>6 DEF Running
  <2> QED
    BY <2>2, <2>4, <2>7, EnterKeeps
<1>4. CASE LoopEnd(t)
  <2>1. /\ Over(t, "loop", "body", Results) /\ task' = task
        /\ Settle(t, list[at].res, task[t].out \cup OutOf(at))
    BY <1>4 DEF LoopEnd
  <2>2. t # Top /\ list[at].res \in Results /\ task[t].out \cup OutOf(at) \in SUBSET Tasks
    BY <2>1, OverFacts DEF TaskStates
  <2>3. \A v \in task[t].out \cup OutOf(at) : v \in OutOf(at) \/ v \in task[t].out
    OBVIOUS
  <2> DEFINE out == task[t].out \cup OutOf(at)
  <2> HIDE DEF out
  <2> QED
    BY <2>1, <2>2, <2>3, PlainEnd DEF out
<1>5. CASE RecipeEnd(t)
  <2> DEFINE res == IF list[at].res = "thrown" THEN "thrown" ELSE "ok"
  <2>1. /\ Over(t, "recipe", "body", Results) /\ Settle(t, res, OutOf(at)) /\ task' = task
    BY <1>5 DEF RecipeEnd
  <2>2. res \in Results /\ res # "exit" /\ (list[at].res = "thrown" => res = "thrown")
    BY <1>0
  <2>3. OutOf(at) \in SUBSET Tasks
    BY <2>1, OverFacts
  <2> HIDE DEF res
  <2> QED
    BY <2>1, <2>2, <2>3, PlainEnd
<1> QED
  BY <1>1, <1>2, <1>3, <1>4, <1>5

(* The main list of a try is over: no other list of it has been run.       *)
LEMMA BodyOver ==
  ASSUME Inv, ModuleInv, NEW t \in Tasks, NEW results, Over(t, "try", "body", results),
         results \subseteq Results
  PROVE  /\ at \in Lists /\ at \in ListsOf(t) /\ t = Owner[at] /\ list[at].res \in results
         /\ Role[at] = "body" /\ Kind[t] = "try" /\ t # Top /\ task[t] \in TaskStates
         /\ \A m \in ListsOf(t) : m # at => ~Current(m) /\ list[m].res = "none"
         /\ task[t].out = {} /\ task[t].exit = FALSE
<1>1. /\ at \in Lists /\ at \in ListsOf(t) /\ t = Owner[at] /\ list[at].res \in results
      /\ Role[at] = "body" /\ Kind[t] = "try" /\ t # Top /\ task[t] \in TaskStates
  BY OverFacts, OverRunning
<1>2. \A m \in ListsOf(t) : m # at => ~Current(m) /\ list[m].res = "none"
  BY <1>1, OverRunning DEF DealtWith
<1>3. Running(t) /\ Current(at)
  BY OverRunning
<1>4. task[t].out = {}
  BY <1>1, <1>2, <1>3 DEF Running, Gathered, Done, TaskStates
<1>5. task[t].exit = FALSE
  <2>1. ~task[t].exit
    BY <1>1, <1>2, <1>3 DEF Running, ExitKept, In
  <2> QED
    BY <1>1, <2>1 DEF TaskStates
<1> QED
  BY <1>1, <1>2, <1>4, <1>5

(* A failed main list is run again, or the catch list in its place.        *)
LEMMA AgainKeeps ==
  ASSUME Inv, ModuleInv, NEW t \in Tasks, Over(t, "try", "body", {"thrown"}),
         NEW l \in ListsOf(t), l = at \/ Role[l] = "catch", Enter(l, list),
         \A u \in Tasks \ {t} : task'[u] = task[u],
         task'[t].out = task[t].out, task'[t].exit = task[t].exit
  PROVE  ModuleInv'
<1>0. PICK results : results = {"thrown"} /\ Over(t, "try", "body", results) /\ results \subseteq Results
  BY DEF Results
<1>1. /\ at \in Lists /\ at \in ListsOf(t) /\ t = Owner[at] /\ list[at].res \in results
      /\ Role[at] = "body" /\ Kind[t] = "try" /\ t # Top /\ task[t] \in TaskStates
      /\ \A m \in ListsOf(t) : m # at => ~Current(m) /\ list[m].res = "none"
      /\ task[t].out = {} /\ task[t].exit = FALSE
  BY <1>0, BodyOver
<1>thrown. at \in Lists /\ list[at].res = "thrown" /\ list[at].res # "go"
  BY <1>0, <1>1
<1>2. l \in Lists /\ Owner[l] = t /\ Role[l] # "finally"
  BY <1>1 DEF ListsOf
<1>3. PICK s \in {Entered(l), Unresolved} : list' = [list EXCEPT ![l] = s]
  BY DEF Enter
<1>4. at' = l /\ outcome' = outcome
  BY DEF Enter
<1>5. ASSUME NEW m \in ListsOf(t), m # l
      PROVE  /\ list'[m] = list[m] /\ ~Current(m)'
             /\ list[m].res # "none" => m = at /\ l # at
  <2>1. list'[m] = list[m]
    BY <1>2, <1>3, <1>5 DEF Inv, TypeOK, ListsOf
  <2> QED
    BY <1>1, <1>thrown, <1>4, <1>5, <2>1 DEF Current
<1>6. Running(t)'
  <2>1. ASSUME NEW k \in ListsOf(t), NEW m \in ListsOf(t), Current(k)', m # k
        PROVE  ~Current(m)' /\ (list'[m].res # "none" => DealtWith(t, k, m)')
    <3>1. k = l /\ m # l
      BY <1>5, <2>1
    <3>2. list'[m] = list[m] /\ ~Current(m)' /\ (list[m].res # "none" => m = at /\ l # at)
      BY <1>5, <3>1
    <3> QED
      BY <1>1, <1>thrown, <3>1, <3>2 DEF DealtWith
  <2>2. InOrder(t)'
    BY <2>1 DEF InOrder
  <2>3. Finishing(t)'
    BY <1>2, <1>5 DEF Finishing, In
  <2>4. Gathered(t)' /\ ExitKept(t)'
    BY <1>1 DEF Gathered, ExitKept
  <2> QED
    BY <2>2, <2>3, <2>4 DEF Running
<1> QED
  BY <1>1, <1>2, <1>3, <1>4, <1>6, EnterKeeps

LEMMA TryKeeps ==
  ASSUME Inv, ModuleInv, NEW t \in Tasks, Try(t)
  PROVE  ModuleInv'
<1>0. Done \subseteq Results /\ {"thrown"} \subseteq Results /\ "thrown" \in Results
      /\ Done = {"ok", "exit"}
  BY DEF Done, Results
<1>1. CASE TryDone(t)
  <2>1. Over(t, "try", "body", Done) /\ Conclude(t, Gather(t))
    BY <1>1 DEF TryDone
  <2>2. /\ at \in ListsOf(t) /\ list[at].res \in Done /\ task[t].out = {}
        /\ \A m \in ListsOf(t) : m # at => list[m].res = "none"
        /\ task[t] \in TaskStates /\ list[at].out \in SUBSET Tasks
    BY <1>0, <2>1, BodyOver, OverFacts
  <2>3. PICK s : s = Gather(t)
    OBVIOUS
  <2>4. /\ s \in TaskStates /\ s.out = list[at].out
        /\ list[at].res = "exit" => s.exit
    <3>1. Gather(t) \in TaskStates
      BY <2>2, TaskUpdates DEF Gather
    <3> QED
      BY <2>2, <2>3, <3>1 DEF Gather, TaskStates
  <2>5. Handled(t) /\ (Left(t) => s.exit)
    BY <1>0, <2>2, <2>4 DEF Handled, Left
  <2> QED
    BY <1>0, <2>1, <2>2, <2>3, <2>4, <2>5, ConcludeKeeps
<1>2. CASE Retry(t)
  <2>1. Over(t, "try", "body", {"thrown"}) /\ at \in ListsOf(t)
    <3>1. Over(t, "try", "body", {"thrown"})
      BY <1>2 DEF Retry
    <3> QED
      BY <1>0, <3>1, BodyOver
  <2>2. /\ Enter(at, list) /\ \A u \in Tasks \ {t} : task'[u] = task[u]
        /\ task'[t].out = task[t].out /\ task'[t].exit = task[t].exit
    BY <1>2 DEF Retry, Inv, TypeOK, TaskStates
  <2> QED
    BY <2>1, <2>2, AgainKeeps
<1>3. CASE TryFailed(t)
  <2>1. Over(t, "try", "body", {"thrown"})
    BY <1>3 DEF TryFailed
  <2>2. ASSUME NEW c \in In(t, "catch"), Enter(c, list), task' = [task EXCEPT ![t].error = TRUE]
        PROVE  ModuleInv'
    <3>1. c \in ListsOf(t) /\ Role[c] = "catch"
      BY DEF In
    <3>2. /\ \A u \in Tasks \ {t} : task'[u] = task[u]
          /\ task'[t].out = task[t].out /\ task'[t].exit = task[t].exit
      BY <2>2 DEF Inv, TypeOK, TaskStates
    <3> QED
      BY <2>1, <2>2, <3>1, <3>2, AgainKeeps
  <2>3. CASE Conclude(t, [task[t] EXCEPT !.error = TRUE])
    <3>1. PICK s : s = [task[t] EXCEPT !.error = TRUE]
      OBVIOUS
    <3>2. /\ task[t] \in TaskStates /\ task[t].out = {} /\ list[at].res = "thrown"
          /\ \A m \in ListsOf(t) : m # at => list[m].res = "none"
      BY <1>0, <2>1, BodyOver
    <3>3. s \in TaskStates /\ s.error /\ s.out = {}
      BY <3>1, <3>2 DEF TaskStates
    <3>4. ~Left(t)
      BY <3>2 DEF Left
    <3> QED
      BY <1>0, <2>1, <2>3, <3>1, <3>3, <3>4, ConcludeKeeps
  <2> QED
    BY <1>3, <2>2, <2>3 DEF TryFailed
<1>4. CASE Caught(t)
  <2>1. Over(t, "try", "catch", Done) /\ Conclude(t, Gather(t))
    BY <1>4 DEF Caught
  <2>2. /\ at \in ListsOf(t) /\ list[at].res \in Done /\ Running(t) /\ Role[at] = "catch"
        /\ \A m \in ListsOf(t) : m # at /\ list[m].res # "none" =>
             Role[m] = "body" /\ list[m].res = "thrown"
        /\ task[t] \in TaskStates /\ list[at].out \in SUBSET Tasks /\ Kind[t] = "try"
    <3>1. /\ list[at].res \in Done /\ Role[at] = "catch" /\ task[t] \in TaskStates
          /\ list[at].out \in SUBSET Tasks /\ Kind[t] = "try"
      BY <2>1, OverFacts
    <3> QED
      BY <1>0, <2>1, <3>1, OverRunning DEF DealtWith
  <2>3. PICK s : s = Gather(t)
    OBVIOUS
  <2>4. /\ s \in TaskStates /\ s.out = task[t].out \cup list[at].out
        /\ list[at].res = "exit" => s.exit
    <3>1. Gather(t) \in TaskStates
      BY <2>2, TaskUpdates DEF Gather
    <3> QED
      BY <2>2, <2>3, <3>1 DEF Gather, TaskStates
  <2>5. Handled(t) /\ (Left(t) => s.exit)
    BY <1>0, <2>2, <2>4 DEF Handled, Left, In
  <2>6. \A v \in s.out : \E l \in ListsOf(t) : list[l].res \in Done /\ v \in list[l].out
    BY <2>2, <2>4 DEF Running, Gathered
  <2> QED
    BY <1>0, <2>1, <2>3, <2>4, <2>5, <2>6, ConcludeKeeps
<1>5. CASE CatchFailed(t) \/ FinallyFailed(t)
  <2>1. Ends(t) /\ t # Top /\ Complete(t, "thrown", {}) /\ task' = task
    BY <1>5, OverFacts DEF CatchFailed, FinallyFailed
  <2> QED
    BY <1>0, <2>1, EndKeeps
<1>6. CASE FinallyDone(t)
  <2>1. /\ Over(t, "try", "finally", Done) /\ task' = task
        /\ Settle(t, Verdict(task[t]), task[t].out \cup list[at].out)
    BY <1>6 DEF FinallyDone
  <2>2. /\ at \in ListsOf(t) /\ list[at].res \in Done /\ Running(t) /\ Role[at] = "finally"
        /\ \A m \in ListsOf(t) : m # at /\ list[m].res # "none" => Role[m] # "finally"
        /\ task[t] \in TaskStates /\ list[at].out \in SUBSET Tasks /\ Kind[t] = "try"
        /\ Ends(t) /\ t # Top /\ Verdict(task[t]) \in Results /\ Current(at)
    <3>1. /\ list[at].res \in Done /\ Role[at] = "finally" /\ task[t] \in TaskStates
          /\ list[at].out \in SUBSET Tasks /\ Kind[t] = "try"
          /\ Ends(t) /\ t # Top /\ Verdict(task[t]) \in Results
      BY <2>1, OverFacts
    <3> QED
      BY <1>0, <2>1, <3>1, OverRunning DEF DealtWith
  <2>3. PICK out \in SUBSET Tasks : out = task[t].out \cup list[at].out
    BY <2>2 DEF TaskStates
  <2>4. PICK q \in Results : /\ Complete(t, q, out)
                             /\ Verdict(task[t]) = "thrown" => q = "thrown"
                             /\ Verdict(task[t]) = "exit" => q \in {"exit", "thrown"}
    BY <2>1, <2>2, <2>3, SettleFacts
  <2>5. ASSUME q # "thrown" PROVE FailuresCaught(t) /\ (Left(t) => q = "exit")
    <3>1. ~task[t].error
      BY <2>4, <2>5 DEF Verdict
    <3>2. Handled(t) /\ (Left(t) => task[t].exit)
      BY <2>2, <3>1 DEF Running, Finishing, In
    <3>3. FailuresCaught(t)
      BY <1>0, <2>2, <3>2 DEF FailuresCaught, Handled
    <3>4. Left(t) => Verdict(task[t]) = "exit"
      BY <3>1, <3>2 DEF Verdict
    <3> QED
      BY <2>4, <2>5, <3>3, <3>4
  <2>6. \A v \in out : \E l \in ListsOf(t) : list[l].res \in Done /\ v \in list[l].out
    BY <2>2, <2>3 DEF Running, Gathered
  <2> QED
    BY <2>1, <2>2, <2>4, <2>5, <2>6, EndKeeps
<1> QED
  BY <1>1, <1>2, <1>3, <1>4, <1>5, <1>6 DEF Try

LEMMA StepModules ==
  ASSUME Inv, ModuleInv, [Next]_vars
  PROVE  ModuleInv'
<1>1. CASE UNCHANGED <<at, list, task, outcome>>
  BY <1>1 DEF ModuleInv, Running, InOrder, Finishing, Gathered, ExitKept, DealtWith, Current,
     Handled, Left, FailuresCaught, ExitPassed, VarsAt, Returns, OnStack, Passed
<1>2. CASE Run
  <2>1. ~(Kind[Top] = "loop" /\ Rounds[Top] = 0) /\ Top \in Tasks
    BY TypeAssumption
  <2> QED
    BY <1>2, <2>1, BeginKeeps DEF Run
<1>3. ASSUME NEW t \in Tasks, Skip(t) \/ FailEarly(t) \/ RunAction(t) PROVE ModuleInv'
  BY <1>3, SkipKeeps, ActionKeeps
<1>4. ASSUME NEW t \in Tasks, Module(t) PROVE ModuleInv'
  <2>1. CASE StartModule(t)
    BY <2>1, BeginKeeps DEF StartModule
  <2>2. CASE ShutDown(t)
    BY <1>1, <2>2 DEF ShutDown
  <2> QED
    BY <1>4, <2>1, <2>2, LoopKeeps, TryKeeps DEF Module
<1> QED
  BY <1>1, <1>2, <1>3, <1>4 DEF Next, vars

LEMMA ModulesSafe == Spec => []ModuleInv
<1>1. Init => ModuleInv
  <2> SUFFICES ASSUME Init PROVE ModuleInv
    OBVIOUS
  <2>1. at = NoList /\ outcome = "none"
    BY DEF Init
  <2>2. \A l \in Lists : list[l].res = "none" /\ list[l].ran = {} /\ list[l].out = {}
    BY DEF Init, Fresh
  <2>3. \A t \in Tasks : ~OnStack(t)
    BY <2>1 DEF OnStack
  <2>4. \A t \in Tasks : ~Passed(t)
    BY <2>1, <2>2, TreeAssumption DEF Passed
  <2> QED
    BY <2>2, <2>3, <2>4 DEF ModuleInv, VarsAt
<1>2. ModuleInv /\ Inv /\ [Next]_vars => ModuleInv'
  BY StepModules
<1> QED
  BY <1>1, <1>2, Invariance, PTL DEF Spec

(* A failure is never passed over: whatever modules are nested in a try,   *)
(* a task passes over a failed list of its own only if a catch list ran.   *)
THEOREM FailuresAreHandled == Spec => []ErrorsHandled
<1>1. ModuleInv => ErrorsHandled
  <2> SUFFICES ASSUME ModuleInv, NEW l \in Lists, list[l].res = "thrown", Passed(Owner[l])
               PROVE  Role[l] = "body" /\ \E c \in In(Owner[l], "catch") : list[c].res \in Done
    BY DEF ErrorsHandled
  <2>1. Owner[l] \in Tasks /\ l \in ListsOf(Owner[l])
    BY TypeAssumption DEF ListsOf
  <2> QED
    BY <2>1 DEF ModuleInv, FailuresCaught
<1> QED
  BY <1>1, ModulesSafe, PTL

(* An exit leaves every module on its way to the recipe, through finally   *)
(* lists only.                                                             *)
THEOREM ExitsHalt == Spec => []ExitHalts
<1>1. Inv /\ ModuleInv => ExitHalts
  <2> SUFFICES ASSUME Inv, ModuleInv PROVE ExitHalts
    OBVIOUS
  <2>1. ASSUME NEW l \in Lists, list[l].res = "exit", Role[l] # "finally", Passed(Owner[l]),
               Kind[Owner[l]] # "recipe"
        PROVE  list[Home[Owner[l]]].res = "exit"
    <3>1. Owner[l] \in Tasks /\ l \in ListsOf(Owner[l]) /\ Owner[l] # Top
      BY <2>1, TypeAssumption DEF ListsOf
    <3>2. Left(Owner[l])
      BY <2>1, <3>1 DEF Left
    <3> QED
      BY <2>1, <3>1, <3>2 DEF ModuleInv, ExitPassed
  <2>2. ASSUME NEW t \in Tasks, OnStack(t), task[t].exit
        PROVE  \E f \in In(t, "finally") : list[f].res # "none"
    BY <2>2 DEF ModuleInv, Running, ExitKept
  <2> QED
    BY <2>1, <2>2 DEF ExitHalts
<1> QED
  BY <1>1, ModulesSafe, Invariance, PTL DEF Inv

(* What a list returns was set by tasks that ran to their end, never by an *)
(* attempt that failed.                                                    *)
THEOREM VarsAreOfSuccess == Spec => []VarsOfSuccess
<1>1. Inv /\ ModuleInv => VarsOfSuccess
  <2> SUFFICES ASSUME Inv, ModuleInv, NEW m \in Lists, NEW v \in list[m].out, v \notin list[m].ran
               PROVE  \E l \in Lists :
                        /\ Owner[l] \in list[m].ran
                        /\ \/ list[l].res \in Done /\ v \in list[l].out
                           \/ Kind[Owner[l]] = "loop" /\ v \in task[Owner[l]].out
    BY DEF VarsOfSuccess
  <2>1. PICK t \in list[m].ran : Returns(t, v)
    BY DEF ModuleInv, VarsAt
  <2> QED
    BY <2>1 DEF Returns, ListsOf
<1> QED
  BY <1>1, ModulesSafe, Invariance, PTL
=============================================================================
