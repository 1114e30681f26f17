----------------------------- MODULE SuiteReport -----------------------------
(***************************************************************************)
(* What the command `test' promises of its reports: suites are run one     *)
(* after the other and the tests of a suite in their order; a test is      *)
(* taken up after the one before it was reported; a suite that is over,    *)
(* complete or not, stays as it is.                                        *)
(***************************************************************************)
EXTENDS Naturals, Sequences

VARIABLES
  tests,    \* how many tests each suite has
  reports,  \* how far each test is: "null", "started" or "reported"
  over      \* the suites that are over

Suites == DOMAIN tests

Init ==
  /\ tests \in Seq(Nat)
  /\ reports = [s \in Suites |-> [i \in 1 .. tests[s] |-> "null"]]
  /\ over = 0

Current(s) == s \in Suites /\ s = over + 1

TakeUp(s, i) ==
  /\ Current(s) /\ reports[s][i] = "null"
  /\ \A j \in 1 .. i - 1 : reports[s][j] = "reported"
  /\ reports' = [reports EXCEPT ![s][i] = "started"]
  /\ UNCHANGED <<tests, over>>

Report(s, i) ==
  /\ Current(s) /\ reports[s][i] = "started"
  /\ reports' = [reports EXCEPT ![s][i] = "reported"]
  /\ UNCHANGED <<tests, over>>

End(s) == Current(s) /\ over' = s /\ UNCHANGED <<tests, reports>>

Next ==
  \E s \in Suites : End(s) \/ \E i \in 1 .. tests[s] : TakeUp(s, i) \/ Report(s, i)

vars == <<tests, reports, over>>

Spec == Init /\ [][Next]_vars /\ WF_vars(Next)
=============================================================================
