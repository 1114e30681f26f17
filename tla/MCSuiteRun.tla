------------------------------ MODULE MCSuiteRun ------------------------------
(***************************************************************************)
(* Instances of SuiteRun for TLC: a suite of two tests in a container or   *)
(* not, in one runner or several, before a plain suite; and a run.         *)
(***************************************************************************)
EXTENDS SuiteRun

MCSuite(ids, hooks, local, clean) ==
  [run |-> FALSE, ids |-> ids, hooks |-> hooks, local |-> local, clean |-> clean,
   mocks |-> {"t1"}, broken |-> FALSE]
Plain == [MCSuite(<<"u">>, {}, FALSE, FALSE) EXCEPT !.mocks = {}]

MCPrograms ==
  {<<MCSuite(<<"t1", "t2">>, hooks, local, clean), Plain>> :
     hooks \in {{}, {"beforeAll", "afterAll"}, {"beforeEach", "afterEach"}},
     local \in BOOLEAN, clean \in BOOLEAN}
  \cup {<<MCSuite(<<"t1", "t1">>, {}, FALSE, FALSE), Plain>>,
        <<[Plain EXCEPT !.broken = TRUE]>>,
        <<[MCSuite(<<"t1", "t2">>, {}, FALSE, FALSE) EXCEPT !.run = TRUE]>>,
        <<[MCSuite(<<"t1", "t2">>, {}, TRUE, FALSE) EXCEPT !.run = TRUE]>>}
=============================================================================
