------------------------------ MODULE KiwiAgent ------------------------------
(***************************************************************************)
(* The kiwi-agent of one host (src/src/app/kiwiAgent/kiwiAgent.ts).        *)
(*                                                                         *)
(* A reload asks the provider which release it offers, fetches the host's  *)
(* configuration, queues the release's recipes, drains the queue and only  *)
(* then records the release in a file.  Every `await' of that chain is a   *)
(* place where another reload of the same process may run: the class holds *)
(* no lock, and all reloads share one queue and one file.  A reload is a   *)
(* process here and every action is the code between two awaits.           *)
(***************************************************************************)
EXTENDS Naturals, Sequences, FiniteSets

CONSTANTS
  Reloads,      \* the reload requests the agent may receive, each made once
  Releases,     \* the releases the provider may offer
  Recipes,      \* the ids of the root recipes of all releases
  RecipesOf,    \* RecipesOf[x][p]: the root recipes of release x in phase p, in order
  MaxInFlight,  \* bound: reloads in progress at the same time
  Faults,       \* the kinds of failure the environment may inject
  InitKey,      \* the key of the report on the reload itself
  NoRelease,    \* there is no database file / the reload knows no release yet
  Torn,         \* the database file holds no complete JSON document
  NoItem        \* the reload holds no queue item

Phases == {"bootstrap", "runtime"}
FaultKinds == {"network", "report", "logfile", "recipe", "disk", "crash"}

ASSUME ReloadAssumption  == NoItem \notin Reloads \X Recipes
ASSUME ReleaseAssumption == NoRelease \notin Releases /\ Torn \notin Releases /\ Torn # NoRelease
ASSUME RecipeAssumption  == InitKey \notin Recipes
ASSUME RecipesOfAssumption ==
  /\ RecipesOf \in [Releases -> [Phases -> Seq(Recipes)]]
  /\ \A x \in Releases, p \in Phases : \A i, j \in 1 .. Len(RecipesOf[x][p]) :
        RecipesOf[x][p][i] = RecipesOf[x][p][j] => i = j
ASSUME BoundAssumption   == MaxInFlight \in Nat \ {0}
ASSUME FaultAssumption   == Faults \subseteq FaultKinds

VARIABLES
  (* the agent process *)
  mode,     \* which command the process runs: `bootstrap' or `serve'
  pc,       \* where each reload waits
  force,    \* the `force' argument of each reload
  phase,    \* the `phase' argument of each reload
  old,      \* `oldRelease' of each reload
  rel,      \* `release' of each reload
  next,     \* index of the next recipe the reload queues
  item,     \* `queueItem' of each reload
  throwing, \* is an exception waiting for a `finally' block to end?
  queue,    \* `#queue'
  db,       \* the contents of the database file
  (* the provider, as far as the agent sees it *)
  served,   \* the release of the archive it has loaded
  reports,  \* the status it holds for each release and key
  (* what happened, read by the properties only *)
  fate,     \* what became of each recipe a reload was to run
  uploads   \* the uploads of execution logs that were attempted

agentVars == <<mode, force, phase, old, rel>>
vars == <<mode, pc, force, phase, old, rel, next, item, throwing, queue, db,
          served, reports, fate, uploads>>

-----------------------------------------------------------------------------
Keys == Recipes \cup {InitKey}
Items == Reloads \X Recipes       \* a queue item is known by who queued it
Status == {"none", "pending", "running", "success", "failure"}
Outcome == {"success", "failure"}
Fate == {"none", "queued", "taken", "ok", "failed", "lost"}

Idle == {"new", "unchanged", "done", "failed", "crashed"}
Holding == {"starting", "running", "itemOk", "itemFailed", "itemLogs"}
Loading == {"reading", "asking", "init", "config"}
Queueing == {"queueing", "pushing"}
Closing == {"initOk", "initFailed", "initLogs"}
Locations == Idle \cup Holding \cup Loading \cup Queueing \cup Closing
               \cup {"draining", "saving", "writing"}

InFlight == {r \in Reloads : pc[r] \notin Idle}
RecipeList(r) == RecipesOf[rel[r]][phase[r]]
ItemRelease(i) == rel[i[1]]       \* queueItem.release

Init ==
  /\ mode \in {"bootstrap", "serve"}
  /\ pc = [r \in Reloads |-> "new"]
  /\ force = [r \in Reloads |-> FALSE]
  /\ phase = [r \in Reloads |-> "runtime"]
  /\ old = [r \in Reloads |-> NoRelease]
  /\ rel = [r \in Reloads |-> NoRelease]
  /\ next = [r \in Reloads |-> 1]
  /\ item = [r \in Reloads |-> NoItem]
  /\ throwing = [r \in Reloads |-> FALSE]
  /\ queue = << >>
  /\ db = NoRelease
  /\ served \in Releases
  /\ reports = [x \in Releases |-> [k \in Keys |-> "none"]]
  /\ fate = [r \in Reloads |-> [k \in Recipes |-> "none"]]
  /\ uploads = {}

Goto(r, l) == pc' = [pc EXCEPT ![r] = l]
SetFate(i, f) == fate' = [fate EXCEPT ![i[1]][i[2]] = f]

(***************************************************************************)
(* #reportStatus: the provider stores the status, or the call fails.       *)
(* Either way the caller goes on with the status it wanted to report.      *)
(***************************************************************************)
Report(x, k, s) ==
  \/ reports' = [reports EXCEPT ![x][k] = s]
  \/ "report" \in Faults /\ UNCHANGED reports

-----------------------------------------------------------------------------
(* A reload arrives.  `bootstrap' makes one forced reload and ends; `serve' *)
(* makes one for each GET /reload, however many are in progress.           *)
Request(r) ==
  /\ pc[r] = "new"
  /\ Cardinality(InFlight) < MaxInFlight
  /\ \/ /\ mode = "bootstrap"
        /\ \A q \in Reloads : pc[q] = "new"
        /\ force' = [force EXCEPT ![r] = TRUE]
        /\ phase' = [phase EXCEPT ![r] = "bootstrap"]
     \/ /\ mode = "serve"
        /\ \E f \in BOOLEAN : force' = [force EXCEPT ![r] = f]
        /\ UNCHANGED phase
  /\ Goto(r, "reading")
  /\ UNCHANGED <<mode, old, rel, next, item, throwing, queue, db, served,
                 reports, fate, uploads>>

(* The bootstrap command has ended; the server is started later, as a new  *)
(* process with a queue of its own.                                        *)
StartServe ==
  /\ mode = "bootstrap"
  /\ InFlight = {}
  /\ \E r \in Reloads : pc[r] # "new"
  /\ mode' = "serve"
  /\ queue' = << >>
  /\ fate' = [r \in Reloads |-> [k \in Recipes |->
                IF fate[r][k] = "queued" THEN "lost" ELSE fate[r][k]]]
  /\ UNCHANGED <<pc, force, phase, old, rel, next, item, throwing, db, served,
                 reports, uploads>>

(* oldRelease = db.exists() ? db.getRelease() : undefined.  A file without *)
(* a complete document makes JSON.parse throw.                             *)
ReadDb(r) ==
  /\ pc[r] = "reading"
  /\ IF db = Torn
     THEN Goto(r, "failed") /\ UNCHANGED old
     ELSE Goto(r, "asking") /\ old' = [old EXCEPT ![r] = db]
  /\ UNCHANGED <<mode, force, phase, rel, next, item, throwing, queue, db, served,
                 reports, fate, uploads>>

(* Mutant of AskRelease: any recorded release counts as the current one.   *)
AskReleaseAnyRecorded(r) ==
  /\ pc[r] = "asking"
  /\ rel' = [rel EXCEPT ![r] = served]
  /\ Goto(r, IF ~force[r] /\ old[r] # NoRelease THEN "unchanged" ELSE "init")
  /\ UNCHANGED <<mode, force, phase, old, next, item, throwing, queue, db, served,
                 reports, fate, uploads>>

(* GET /release, then the early return of reloadRelease.                   *)
AskRelease(r) ==
  /\ pc[r] = "asking"
  /\ \/ /\ rel' = [rel EXCEPT ![r] = served]
        /\ Goto(r, IF ~force[r] /\ old[r] = served THEN "unchanged" ELSE "init")
     \/ /\ "network" \in Faults
        /\ Goto(r, "failed")
        /\ UNCHANGED rel
  /\ UNCHANGED <<mode, force, phase, old, next, item, throwing, queue, db, served,
                 reports, fate, uploads>>

(* #processNewRelease opens its log file, outside of any try block, and    *)
(* reports that it runs.                                                   *)
ReportInit(r) ==
  /\ pc[r] = "init"
  /\ \/ Goto(r, "config") /\ Report(rel[r], InitKey, "running")
     \/ "logfile" \in Faults /\ Goto(r, "failed") /\ UNCHANGED reports
  /\ UNCHANGED <<agentVars, next, item, throwing, queue, db, served, fate, uploads>>

(* GET /config/:release, the download of every asset and the instantiation *)
(* of the recipes of the phase.  The provider refuses a release it does    *)
(* not offer (any more).                                                   *)
FetchConfig(r) ==
  /\ pc[r] = "config"
  /\ \/ served = rel[r] /\ Goto(r, IF RecipeList(r) = << >> THEN "initOk" ELSE "queueing")
     \/ (served # rel[r] \/ "network" \in Faults) /\ Goto(r, "initFailed")
  /\ UNCHANGED <<agentVars, next, item, throwing, queue, db, served, reports, fate,
                 uploads>>

NextItem(r) == <<r, RecipeList(r)[next[r]]>>
AfterPush(r) == IF next[r] < Len(RecipeList(r)) THEN "queueing" ELSE "initOk"

(* Mutant of QueueRecipe: the item is pushed before it is reported.        *)
QueueRecipePushFirst(r) ==
  /\ \/ /\ pc[r] = "queueing"
        /\ queue' = Append(queue, NextItem(r)) /\ SetFate(NextItem(r), "queued")
        /\ Goto(r, "pushing")
        /\ UNCHANGED <<next, reports>>
     \/ /\ pc[r] = "pushing"
        /\ Report(rel[r], NextItem(r)[2], "pending")
        /\ next' = [next EXCEPT ![r] = @ + 1]
        /\ Goto(r, AfterPush(r))
        /\ UNCHANGED <<queue, fate>>
  /\ UNCHANGED <<agentVars, item, throwing, db, served, uploads>>

(* #queueRecipe: report the next recipe as pending and, once the call is   *)
(* answered, push it.                                                      *)
QueueRecipe(r) ==
  /\ \/ /\ pc[r] = "queueing"
        /\ Report(rel[r], NextItem(r)[2], "pending")
        /\ Goto(r, "pushing")
        /\ UNCHANGED <<next, queue, fate>>
     \/ /\ pc[r] = "pushing"
        /\ queue' = Append(queue, NextItem(r)) /\ SetFate(NextItem(r), "queued")
        /\ next' = [next EXCEPT ![r] = @ + 1]
        /\ Goto(r, AfterPush(r))
        /\ UNCHANGED reports
  /\ UNCHANGED <<agentVars, item, throwing, db, served, uploads>>

(* The report that ends the initialisation, in the try or the catch block. *)
ReportInitEnd(r) ==
  /\ \/ pc[r] = "initOk" /\ Report(rel[r], InitKey, "success") /\ UNCHANGED throwing
     \/ /\ pc[r] = "initFailed"
        /\ Report(rel[r], InitKey, "failure")
        /\ throwing' = [throwing EXCEPT ![r] = TRUE]
  /\ Goto(r, "initLogs")
  /\ UNCHANGED <<agentVars, next, item, queue, db, served, fate, uploads>>

LastStatus(r) == IF throwing[r] THEN "failure" ELSE "success"

(* The finally block: #uploadLogs, its own errors swallowed; then the      *)
(* pending exception ends the reload, or #processQueue starts.             *)
UploadInitLogs(r) ==
  /\ pc[r] = "initLogs"
  /\ uploads' = uploads \cup {<<<<r, InitKey>>, LastStatus(r)>>}
  /\ Goto(r, IF throwing[r] THEN "failed" ELSE "draining")
  /\ throwing' = [throwing EXCEPT ![r] = FALSE]
  /\ UNCHANGED <<agentVars, next, item, queue, db, served, reports, fate>>

-----------------------------------------------------------------------------
(* Mutant of Take: the head is read here and removed after the recipe ran. *)
TakePeeks(r) ==
  /\ pc[r] = "draining"
  /\ IF queue = << >>
     THEN Goto(r, "saving") /\ UNCHANGED <<item, fate>>
     ELSE /\ item' = [item EXCEPT ![r] = Head(queue)]
          /\ SetFate(Head(queue), "taken")
          /\ Goto(r, "starting")
  /\ UNCHANGED <<agentVars, next, throwing, queue, db, served, reports, uploads>>

(* Mutant of Take: a reload takes its own items only.                      *)
TakeOwn(r) ==
  /\ pc[r] = "draining"
  /\ IF queue = << >> \/ Head(queue)[1] # r
     THEN Goto(r, "saving") /\ UNCHANGED <<item, queue, fate>>
     ELSE /\ item' = [item EXCEPT ![r] = Head(queue)]
          /\ queue' = Tail(queue)
          /\ SetFate(Head(queue), "taken")
          /\ Goto(r, "starting")
  /\ UNCHANGED <<agentVars, next, throwing, db, served, reports, uploads>>

(* while ((item = this.#queue.shift()) != null): whatever reload queued it. *)
Take(r) ==
  /\ pc[r] = "draining"
  /\ IF queue = << >>
     THEN Goto(r, "saving") /\ UNCHANGED <<item, queue, fate>>
     ELSE /\ item' = [item EXCEPT ![r] = Head(queue)]
          /\ queue' = Tail(queue)
          /\ SetFate(Head(queue), "taken")
          /\ Goto(r, "starting")
  /\ UNCHANGED <<agentVars, next, throwing, db, served, reports, uploads>>

(* The item's log file is opened before the try block: a failure there     *)
(* drops the item.  Otherwise the recipe is reported as running.           *)
StartItem(r) ==
  /\ pc[r] = "starting"
  /\ \/ /\ Report(ItemRelease(item[r]), item[r][2], "running")
        /\ Goto(r, "running")
        /\ UNCHANGED <<item, fate>>
     \/ /\ "logfile" \in Faults
        /\ SetFate(item[r], "lost")
        /\ item' = [item EXCEPT ![r] = NoItem]
        /\ Goto(r, "failed")
        /\ UNCHANGED reports
  /\ UNCHANGED <<agentVars, next, throwing, queue, db, served, uploads>>

(* runRecipeFromQueueItem, which changes the host and either returns or    *)
(* throws.                                                                 *)
RunItem(r) ==
  /\ pc[r] = "running"
  /\ \/ SetFate(item[r], "ok") /\ Goto(r, "itemOk")
     \/ "recipe" \in Faults /\ SetFate(item[r], "failed") /\ Goto(r, "itemFailed")
  /\ UNCHANGED <<agentVars, next, item, throwing, queue, db, served, reports, uploads>>

(* Mutant of ReportItemEnd: reports under the release being processed.     *)
ReportItemEndOwnRelease(r) ==
  /\ \/ /\ pc[r] = "itemOk"
        /\ Report(rel[r], item[r][2], "success")
        /\ UNCHANGED throwing
     \/ /\ pc[r] = "itemFailed"
        /\ Report(rel[r], item[r][2], "failure")
        /\ throwing' = [throwing EXCEPT ![r] = TRUE]
  /\ Goto(r, "itemLogs")
  /\ UNCHANGED <<agentVars, next, item, queue, db, served, fate, uploads>>

(* The report that ends the item, in the try or the catch block.           *)
ReportItemEnd(r) ==
  /\ \/ /\ pc[r] = "itemOk"
        /\ Report(ItemRelease(item[r]), item[r][2], "success")
        /\ UNCHANGED throwing
     \/ /\ pc[r] = "itemFailed"
        /\ Report(ItemRelease(item[r]), item[r][2], "failure")
        /\ throwing' = [throwing EXCEPT ![r] = TRUE]
  /\ Goto(r, "itemLogs")
  /\ UNCHANGED <<agentVars, next, item, queue, db, served, fate, uploads>>

(* Mutant of UploadItemLogs: the catch block does not rethrow.             *)
UploadItemLogsNoRethrow(r) ==
  /\ pc[r] = "itemLogs"
  /\ uploads' = uploads \cup {<<item[r], LastStatus(r)>>}
  /\ item' = [item EXCEPT ![r] = NoItem]
  /\ Goto(r, "draining")
  /\ throwing' = [throwing EXCEPT ![r] = FALSE]
  /\ UNCHANGED <<agentVars, next, queue, db, served, reports, fate>>

(* Mutant of UploadItemLogs: the upload is not in a finally block.         *)
UploadItemLogsOnSuccess(r) ==
  /\ pc[r] = "itemLogs"
  /\ uploads' = IF throwing[r] THEN uploads ELSE uploads \cup {<<item[r], "success">>}
  /\ item' = [item EXCEPT ![r] = NoItem]
  /\ Goto(r, IF throwing[r] THEN "failed" ELSE "draining")
  /\ throwing' = [throwing EXCEPT ![r] = FALSE]
  /\ UNCHANGED <<agentVars, next, queue, db, served, reports, fate>>

(* Mutant of UploadItemLogs: a failed item goes back into the queue.       *)
UploadItemLogsRequeues(r) ==
  /\ pc[r] = "itemLogs"
  /\ uploads' = uploads \cup {<<item[r], LastStatus(r)>>}
  /\ queue' = IF throwing[r] THEN Append(queue, item[r]) ELSE queue
  /\ item' = [item EXCEPT ![r] = NoItem]
  /\ Goto(r, "draining")
  /\ throwing' = [throwing EXCEPT ![r] = FALSE]
  /\ UNCHANGED <<agentVars, next, db, served, reports, fate>>

(* The finally block of the item; an exception leaves the loop and ends    *)
(* the reload, with the rest of the queue as it is.                        *)
UploadItemLogs(r) ==
  /\ pc[r] = "itemLogs"
  /\ uploads' = uploads \cup {<<item[r], LastStatus(r)>>}
  /\ item' = [item EXCEPT ![r] = NoItem]
  /\ Goto(r, IF throwing[r] THEN "failed" ELSE "draining")
  /\ throwing' = [throwing EXCEPT ![r] = FALSE]
  /\ UNCHANGED <<agentVars, next, queue, db, served, reports, fate>>

-----------------------------------------------------------------------------
(* db.set: writeFile truncates the file and then writes it.                *)
OpenDb(r) ==
  /\ pc[r] = "saving"
  /\ db' = Torn
  /\ Goto(r, "writing")
  /\ UNCHANGED <<agentVars, next, item, throwing, queue, served, reports, fate, uploads>>

WriteDb(r) ==
  /\ pc[r] = "writing"
  /\ \/ db' = rel[r] /\ Goto(r, "done")
     \/ "disk" \in Faults /\ Goto(r, "failed") /\ UNCHANGED db
  /\ UNCHANGED <<agentVars, next, item, throwing, queue, served, reports, fate, uploads>>

(* The process dies, and with it the queue and every reload in progress;   *)
(* the file stays as it is.                                                *)
Crash ==
  /\ "crash" \in Faults
  /\ InFlight # {} \/ queue # << >>
  /\ pc' = [r \in Reloads |-> IF r \in InFlight THEN "crashed" ELSE pc[r]]
  /\ queue' = << >>
  /\ fate' = [r \in Reloads |-> [k \in Recipes |->
                IF fate[r][k] \in {"queued", "taken"} THEN "lost" ELSE fate[r][k]]]
  /\ UNCHANGED <<agentVars, next, item, throwing, db, served, reports, uploads>>

(* The provider is restarted with the archive of another release.          *)
ProviderRelease(x) ==
  /\ x # served
  /\ served' = x
  /\ UNCHANGED <<agentVars, pc, next, item, throwing, queue, db, reports, fate, uploads>>

-----------------------------------------------------------------------------
Step(r) ==
  \/ ReadDb(r) \/ AskRelease(r) \/ ReportInit(r) \/ FetchConfig(r)
  \/ QueueRecipe(r) \/ ReportInitEnd(r) \/ UploadInitLogs(r)
  \/ Take(r) \/ StartItem(r) \/ RunItem(r) \/ ReportItemEnd(r) \/ UploadItemLogs(r)
  \/ OpenDb(r) \/ WriteDb(r)

Next ==
  \/ \E r \in Reloads : Request(r) \/ Step(r)
  \/ StartServe
  \/ Crash
  \/ \E x \in Releases : ProviderRelease(x)

Spec == Init /\ [][Next]_vars

(* A reload that was accepted goes on: node runs every ready continuation,  *)
(* and every call it waits for is answered or fails.  Requests, crashes    *)
(* and the provider's releases owe nothing.                                *)
FairSpec == Spec /\ \A r \in Reloads : WF_vars(Step(r))

-----------------------------------------------------------------------------
Recording == {"saving", "writing", "done"}
Failing(r) == \/ pc[r] \in {"itemFailed", "failed", "crashed"}
              \/ pc[r] = "itemLogs" /\ throwing[r]
StatusesUploaded(i) == {s \in Outcome : <<i, s>> \in uploads}

(* The type invariant of the agent's state.                                *)
TypeOK ==
  /\ mode \in {"bootstrap", "serve"}
  /\ pc \in [Reloads -> Locations]
  /\ force \in [Reloads -> BOOLEAN]
  /\ phase \in [Reloads -> Phases]
  /\ old \in [Reloads -> Releases \cup {NoRelease}]
  /\ rel \in [Reloads -> Releases \cup {NoRelease}]
  /\ next \in [Reloads -> Nat]
  /\ item \in [Reloads -> Items \cup {NoItem}]
  /\ throwing \in [Reloads -> BOOLEAN]
  /\ queue \in Seq(Items)
  /\ db \in Releases \cup {NoRelease, Torn}
  /\ served \in Releases
  /\ reports \in [Releases -> [Keys -> Status]]
  /\ fate \in [Reloads -> [Recipes -> Fate]]
  /\ uploads \subseteq (Reloads \X Keys) \X Outcome

FateOf(i) == fate[i[1]][i[2]]
Taking == {"starting", "running"}

(* Where an item is, by the fate it has met so far. *)
QueuedOnce == \A m, n \in 1 .. Len(queue) : queue[m] = queue[n] => m = n
QueuedIsInQueue ==
  \A i \in Items : FateOf(i) = "queued" <=> \E n \in 1 .. Len(queue) : queue[n] = i
TakenIsHeld ==
  \A i \in Items : FateOf(i) = "taken" <=> \E r \in Reloads : pc[r] \in Taking /\ item[r] = i
HeldByOne ==
  \A q, r \in InFlight : item[q] = item[r] /\ item[r] # NoItem => q = r

(* Reloads that drain the shared queue at the same time never run an item  *)
(* twice and never lose one: an item is in the queue once, or in the hands *)
(* of one reload, or settled (the shift() of #processQueue).               *)
ItemInOnePlace == QueuedOnce /\ QueuedIsInQueue /\ TakenIsHeld /\ HeldByOne

(* A reload records its release only when none of the recipes it queued is *)
(* still waiting, even if other reloads took them from the shared queue    *)
(* (#processQueue returns on an empty queue only).                         *)
NothingLeftBehind ==
  \A r \in Reloads : pc[r] \in Recording =>
    \A n \in 1 .. Len(RecipeList(r)) :
      fate[r][RecipeList(r)[n]] \notin {"none", "queued"}

(* Of the recipes a recorded release was to run, each that failed, or was  *)
(* dropped, ended the reload that had taken it from the queue: the error   *)
(* of a recipe passes #processQueue, and a reload that no other overlaps   *)
(* records only what has run (reloadRelease calls db.set after it).        *)
RecordedMeansRan ==
  Cardinality({i \in Items : pc[i[1]] \in Recording /\ FateOf(i) \in {"failed", "lost"}})
    <= Cardinality({r \in Reloads : Failing(r)})

(* The provider shows success (failure) for a recipe of a release only if  *)
(* that recipe ran (failed) for that very release, whichever reload took   *)
(* it from the queue (queueItem.release in #processQueue).                 *)
ReportedOutcome ==
  \A x \in Releases, k \in Recipes :
    /\ reports[x][k] = "success" => \E r \in Reloads : rel[r] = x /\ fate[r][k] = "ok"
    /\ reports[x][k] = "failure" => \E r \in Reloads : rel[r] = x /\ fate[r][k] = "failed"

(* When the agent is at rest with an empty queue, nothing was dropped and  *)
(* no report was lost, the provider shows no recipe and no reload as       *)
(* pending or running (#queueRecipe reports before it pushes).             *)
StatusSettles ==
  (/\ InFlight = {} /\ queue = << >>
   /\ \A r \in Reloads : pc[r] # "crashed" /\ \A k \in Recipes : fate[r][k] # "lost")
  => \A x \in Releases, k \in Keys : reports[x][k] \notin {"pending", "running"}

(* The execution logs of a recipe are sent once, under the status its run  *)
(* ended with, before the reload that ran it goes on; those of a recipe    *)
(* that did not run are not sent (the finally block of #processQueue).     *)
LogsFollowOutcome ==
  \A i \in Items :
    (\A r \in Reloads : item[r] # i) =>
      StatusesUploaded(i) = CASE fate[i[1]][i[2]] = "ok"     -> {"success"}
                              [] fate[i[1]][i[2]] = "failed" -> {"failure"}
                              [] OTHER                       -> {}

(* Every reload that was accepted ends, with an answer, an error or the    *)
(* process, although others put items into the queue it drains.            *)
ReloadsEnd == \A r \in Reloads : pc[r] \notin Idle ~> pc[r] \in Idle

(* A reload that is alone, made while the provider offers x and goes on     *)
(* offering it, gets x recorded unless it fails; whatever was recorded     *)
(* before does not keep it from trying (the early return of reloadRelease). *)
PollConverges ==
  \A r \in Reloads, x \in Releases :
    (pc[r] = "reading" /\ served = x /\ InFlight = {r})
      ~> (served # x \/ db = x \/ pc[r] = "failed" \/ InFlight \ {r} # {})
=============================================================================
