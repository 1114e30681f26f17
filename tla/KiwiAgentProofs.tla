--------------------------- MODULE KiwiAgentProofs ---------------------------
(***************************************************************************)
(* Proofs about KiwiAgent, for every set of reloads, releases and recipes, *)
(* every bound on the reloads in progress and every set of faults.         *)
(***************************************************************************)
EXTENDS KiwiAgent, FiniteSetTheorems, TLAPS

LEMMA Constants ==
  /\ NoRelease \notin Releases /\ Torn \notin Releases /\ Torn # NoRelease
  /\ NoItem \notin Items
  /\ InitKey \notin Recipes
  /\ \A x \in Releases, p \in Phases : RecipesOf[x][p] \in Seq(Recipes)
  /\ \A x \in Releases, p \in Phases : \A i, j \in 1 .. Len(RecipesOf[x][p]) :
        RecipesOf[x][p][i] = RecipesOf[x][p][j] => i = j
BY ReloadAssumption, ReleaseAssumption, RecipeAssumption, RecipesOfAssumption DEF Items, Phases

-----------------------------------------------------------------------------
(* Type correctness needs to know that a reload has a release once it has  *)
(* asked for it, an item while it holds one, and a recipe left to queue    *)
(* while it queues.                                                        *)
NotAsked == {"new", "reading", "asking", "failed", "crashed"}

LocatedAt(r) ==
  /\ pc[r] \notin NotAsked => rel[r] \in Releases
  /\ pc[r] \in Holding => item[r] \in Items
  /\ item[r] # NoItem => pc[r] \in Holding \cup {"crashed"}
  /\ pc[r] \in Queueing => next[r] \in 1 .. Len(RecipeList(r))
  /\ pc[r] \in {"new"} \cup Loading => next[r] = 1

Located == \A r \in Reloads : LocatedAt(r)

TypeInv == TypeOK /\ Located

LEMMA TypeInvInit == Init => TypeInv
BY Constants DEF Init, TypeInv, TypeOK, Located, LocatedAt, Phases, Items, Keys, Status, Fate,
     Outcome, NotAsked, Locations, Idle, Holding, Loading, Queueing, Closing

(* The strings the actions assign belong to the sets of the type invariant. *)
LEMMA LocationFacts ==
  /\ "new" \in Locations /\ "unchanged" \in Locations
  /\ "done" \in Locations /\ "failed" \in Locations
  /\ "crashed" \in Locations /\ "starting" \in Locations
  /\ "running" \in Locations /\ "itemOk" \in Locations
  /\ "itemFailed" \in Locations /\ "itemLogs" \in Locations
  /\ "reading" \in Locations /\ "asking" \in Locations
  /\ "init" \in Locations /\ "config" \in Locations
  /\ "queueing" \in Locations /\ "pushing" \in Locations
  /\ "initOk" \in Locations /\ "initFailed" \in Locations
  /\ "initLogs" \in Locations /\ "draining" \in Locations
  /\ "saving" \in Locations /\ "writing" \in Locations
BY DEF Locations, Idle, Holding, Loading, Queueing, Closing

LEMMA StatusFacts ==
  /\ "pending" \in Status /\ "running" \in Status /\ "success" \in Status
  /\ "failure" \in Status /\ "success" \in Outcome /\ "failure" \in Outcome
BY DEF Status, Outcome

LEMMA FateFacts ==
  /\ "none" \in Fate /\ "queued" \in Fate /\ "taken" \in Fate
  /\ "ok" \in Fate /\ "failed" \in Fate /\ "lost" \in Fate
BY DEF Fate

LEMMA ReportType ==
  ASSUME TypeOK, NEW x, NEW k, NEW s \in Status, Report(x, k, s)
  PROVE  reports' \in [Releases -> [Keys -> Status]]
<1>1. reports \in [Releases -> [Keys -> Status]]
  BY DEF TypeOK
<1>2. CASE UNCHANGED reports
  BY <1>1, <1>2
<1>3. CASE reports' = [reports EXCEPT ![x][k] = s]
  BY <1>1, <1>3
<1>. QED  BY <1>2, <1>3 DEF Report

LEMMA FateType ==
  ASSUME TypeOK, NEW i \in Items, NEW f \in Fate, SetFate(i, f)
  PROVE  /\ fate' \in [Reloads -> [Recipes -> Fate]]
         /\ fate'[i[1]][i[2]] = f
         /\ \A j \in Items : j # i => fate'[j[1]][j[2]] = fate[j[1]][j[2]]
<1>1. fate \in [Reloads -> [Recipes -> Fate]] /\ i[1] \in Reloads /\ i[2] \in Recipes
  BY DEF TypeOK, Items
<1>2. \A j \in Items : j[1] = i[1] /\ j[2] = i[2] => j = i
  BY DEF Items
<1>. QED  BY <1>1, <1>2 DEF SetFate, Items

LEMMA UploadType ==
  ASSUME TypeOK, NEW r \in Reloads, NEW k \in Keys,
         uploads' = uploads \cup {<<<<r, k>>, LastStatus(r)>>}
  PROVE  uploads' \subseteq (Reloads \X Keys) \X Outcome
<1>1. LastStatus(r) \in Outcome
  BY StatusFacts DEF LastStatus
<1>. QED  BY <1>1 DEF TypeOK

LEMMA RecipeListType ==
  ASSUME TypeInv, NEW r \in Reloads, pc[r] \notin NotAsked
  PROVE  RecipeList(r) \in Seq(Recipes)
BY Constants DEF TypeInv, TypeOK, Located, LocatedAt, RecipeList, Phases

LEMMA NextItemType ==
  ASSUME TypeInv, NEW r \in Reloads, pc[r] \in Queueing
  PROVE  NextItem(r) \in Items /\ NextItem(r)[1] = r /\ NextItem(r)[2] \in Recipes
<1>1. RecipeList(r) \in Seq(Recipes)
  BY RecipeListType DEF Queueing, NotAsked
<1>2. next[r] \in 1 .. Len(RecipeList(r))
  BY DEF TypeInv, Located, LocatedAt
<1>. QED  BY <1>1, <1>2 DEF NextItem, Items

LEMMA TypeInvNext == TypeInv /\ [Next]_vars => TypeInv'
<1>. SUFFICES ASSUME TypeInv, [Next]_vars PROVE TypeInv'
  OBVIOUS
<1>. USE DEF TypeInv, Goto, agentVars
<1>1. ASSUME NEW r \in Reloads, Request(r) PROVE TypeInv'
  <2>1. TypeOK'
    BY <1>1, LocationFacts
       DEF Request, Phases, TypeOK
  <2>2. ASSUME NEW q \in Reloads, q # r PROVE LocatedAt(q)'
    BY <1>1, <2>2 DEF Request, TypeOK, Located, LocatedAt, RecipeList
  <2>3. LocatedAt(r)'
    BY <1>1 DEF Request, TypeOK, Located, LocatedAt, RecipeList, NotAsked,
       Holding, Loading, Queueing
  <2>. QED  BY <2>1, <2>2, <2>3 DEF Located
<1>2. ASSUME NEW r \in Reloads, ReadDb(r) PROVE TypeInv'
  <2>1. TypeOK'
    BY <1>2, LocationFacts
       DEF ReadDb, TypeOK
  <2>2. ASSUME NEW q \in Reloads, q # r PROVE LocatedAt(q)'
    BY <1>2, <2>2 DEF ReadDb, TypeOK, Located, LocatedAt, RecipeList
  <2>3. LocatedAt(r)'
    BY <1>2 DEF ReadDb, TypeOK, Located, LocatedAt, RecipeList, NotAsked,
       Holding, Loading, Queueing
  <2>. QED  BY <2>1, <2>2, <2>3 DEF Located
<1>3. ASSUME NEW r \in Reloads, AskRelease(r) PROVE TypeInv'
  <2>1. TypeOK'
    BY <1>3, LocationFacts
       DEF AskRelease, TypeOK
  <2>2. ASSUME NEW q \in Reloads, q # r PROVE LocatedAt(q)'
    BY <1>3, <2>2 DEF AskRelease, TypeOK, Located, LocatedAt, RecipeList
  <2>3. LocatedAt(r)'
    BY <1>3 DEF AskRelease, TypeOK, Located, LocatedAt, RecipeList, NotAsked,
       Holding, Loading, Queueing
  <2>. QED  BY <2>1, <2>2, <2>3 DEF Located
<1>4. ASSUME NEW r \in Reloads, ReportInit(r) PROVE TypeInv'
  <2>1. TypeOK'
    BY <1>4, LocationFacts, StatusFacts, ReportType
       DEF ReportInit, TypeOK
  <2>2. ASSUME NEW q \in Reloads, q # r PROVE LocatedAt(q)'
    BY <1>4, <2>2 DEF ReportInit, TypeOK, Located, LocatedAt, RecipeList
  <2>3. LocatedAt(r)'
    BY <1>4 DEF ReportInit, TypeOK, Located, LocatedAt, RecipeList, NotAsked,
       Holding, Loading, Queueing
  <2>. QED  BY <2>1, <2>2, <2>3 DEF Located
<1>5. ASSUME NEW r \in Reloads, FetchConfig(r) PROVE TypeInv'
  <2>1. TypeOK'
    BY <1>5, LocationFacts
       DEF FetchConfig, TypeOK
  <2>2. ASSUME NEW q \in Reloads, q # r PROVE LocatedAt(q)'
    BY <1>5, <2>2 DEF FetchConfig, TypeOK, Located, LocatedAt, RecipeList
  <2>3. LocatedAt(r)'
    <3>1. RecipeList(r) \in Seq(Recipes) /\ rel[r] \in Releases /\ next[r] = 1
      BY <1>5, RecipeListType DEF FetchConfig, NotAsked, Loading, Located, LocatedAt
    <3>2. item[r] = NoItem
      BY <1>5 DEF FetchConfig, Located, LocatedAt, Holding
    <3>3. /\ pc'[r] \in {"initOk", "initFailed", "queueing"}
          /\ pc'[r] = "queueing" => Len(RecipeList(r)) >= 1
      <4>1. RecipeList(r) # << >> => Len(RecipeList(r)) >= 1
        BY <3>1
      <4>2. CASE pc' = [pc EXCEPT ![r] = "initFailed"]
        BY <4>2 DEF TypeOK
      <4>3. CASE RecipeList(r) = << >> /\ pc' = [pc EXCEPT ![r] = "initOk"]
        BY <4>3 DEF TypeOK
      <4>4. CASE RecipeList(r) # << >> /\ pc' = [pc EXCEPT ![r] = "queueing"]
        BY <4>1, <4>4 DEF TypeOK
      <4>. QED  BY <1>5, <4>2, <4>3, <4>4, Zenon DEF FetchConfig
    <3>. QED
      BY <1>5, <3>1, <3>2, <3>3 DEF FetchConfig, LocatedAt, NotAsked, Holding, Loading,
         Queueing, RecipeList
  <2>. QED  BY <2>1, <2>2, <2>3 DEF Located
<1>6. ASSUME NEW r \in Reloads, QueueRecipe(r) PROVE TypeInv'
  <2>1. TypeOK'
    <3>0. pc[r] \in Queueing
      BY <1>6 DEF QueueRecipe, Queueing
    <3>1. reports' \in [Releases -> [Keys -> Status]]
      BY <1>6, StatusFacts, ReportType DEF QueueRecipe, TypeOK
    <3>2. NextItem(r) \in Items /\ AfterPush(r) \in Locations
      BY <3>0, NextItemType, LocationFacts DEF AfterPush
    <3>3. /\ fate' \in [Reloads -> [Recipes -> Fate]]
          /\ queue' \in Seq(Items) /\ next' \in [Reloads -> Nat]
      <4>1. CASE pc[r] = "queueing"
        BY <1>6, <4>1 DEF QueueRecipe, TypeOK
      <4>2. CASE pc[r] = "pushing"
        <5>1. SetFate(NextItem(r), "queued")
          BY <1>6, <4>2 DEF QueueRecipe
        <5>2. fate' \in [Reloads -> [Recipes -> Fate]]
          BY <3>2, <5>1, FateFacts, FateType
        <5>3. queue' = Append(queue, NextItem(r)) /\ next' = [next EXCEPT ![r] = @ + 1]
          BY <1>6, <4>2 DEF QueueRecipe
        <5>. QED  BY <3>2, <5>2, <5>3 DEF TypeOK
      <4>. QED  BY <1>6, <4>1, <4>2 DEF QueueRecipe
    <3>4. pc' \in [Reloads -> Locations]
      BY <1>6, <3>2, LocationFacts DEF QueueRecipe, TypeOK
    <3>. QED  BY <1>6, <3>1, <3>3, <3>4 DEF QueueRecipe, TypeOK
  <2>2. ASSUME NEW q \in Reloads, q # r PROVE LocatedAt(q)'
    BY <1>6, <2>2 DEF QueueRecipe, TypeOK, Located, LocatedAt, RecipeList, AfterPush
  <2>3. LocatedAt(r)'
    <3>1. /\ RecipeList(r) \in Seq(Recipes) /\ rel[r] \in Releases
          /\ next[r] \in 1 .. Len(RecipeList(r))
          /\ item[r] = NoItem
      BY <1>6, RecipeListType DEF QueueRecipe, NotAsked, Queueing, Holding, Located, LocatedAt
    <3>2. CASE pc[r] = "queueing"
      BY <1>6, <3>1, <3>2 DEF QueueRecipe, TypeOK, LocatedAt, NotAsked, Holding, Loading,
         Queueing, RecipeList
    <3>3. CASE pc[r] = "pushing"
      <4>1. /\ next'[r] = next[r] + 1 /\ pc'[r] = AfterPush(r)
            /\ UNCHANGED <<rel, phase, item>>
        BY <1>6, <3>3 DEF QueueRecipe, TypeOK
      <4>2. /\ pc'[r] \in {"queueing", "initOk"}
            /\ pc'[r] = "queueing" => next'[r] \in 1 .. Len(RecipeList(r))
        BY <3>1, <4>1 DEF AfterPush
      <4>. QED
        BY <3>1, <4>1, <4>2 DEF LocatedAt, NotAsked, Holding, Loading, Queueing, RecipeList
    <3>. QED  BY <1>6, <3>2, <3>3 DEF QueueRecipe
  <2>. QED  BY <2>1, <2>2, <2>3 DEF Located
<1>7. ASSUME NEW r \in Reloads, ReportInitEnd(r) PROVE TypeInv'
  <2>1. TypeOK'
    BY <1>7, LocationFacts, StatusFacts, ReportType
       DEF ReportInitEnd, TypeOK
  <2>2. ASSUME NEW q \in Reloads, q # r PROVE LocatedAt(q)'
    BY <1>7, <2>2 DEF ReportInitEnd, TypeOK, Located, LocatedAt, RecipeList
  <2>3. LocatedAt(r)'
    BY <1>7 DEF ReportInitEnd, TypeOK, Located, LocatedAt, RecipeList, NotAsked,
       Holding, Loading, Queueing
  <2>. QED  BY <2>1, <2>2, <2>3 DEF Located
<1>8. ASSUME NEW r \in Reloads, UploadInitLogs(r) PROVE TypeInv'
  <2>1. TypeOK'
    <3>1. uploads' \subseteq (Reloads \X Keys) \X Outcome
      BY <1>8, UploadType DEF UploadInitLogs, Keys
    <3>. QED  BY <1>8, <3>1, LocationFacts DEF UploadInitLogs, TypeOK
  <2>2. ASSUME NEW q \in Reloads, q # r PROVE LocatedAt(q)'
    BY <1>8, <2>2 DEF UploadInitLogs, TypeOK, Located, LocatedAt, RecipeList
  <2>3. LocatedAt(r)'
    BY <1>8 DEF UploadInitLogs, TypeOK, Located, LocatedAt, RecipeList, NotAsked,
       Holding, Loading, Queueing
  <2>. QED  BY <2>1, <2>2, <2>3 DEF Located
<1>9. ASSUME NEW r \in Reloads, Take(r) PROVE TypeInv'
  <2>1. TypeOK'
    <3>1. CASE queue = << >>
      BY <1>9, <3>1, LocationFacts DEF Take, TypeOK
    <3>2. CASE queue # << >>
      <4>1. Head(queue) \in Items /\ Tail(queue) \in Seq(Items)
        BY <3>2 DEF TypeOK
      <4>2. fate' \in [Reloads -> [Recipes -> Fate]]
        BY <1>9, <3>2, <4>1, FateFacts, FateType DEF Take
      <4>. QED  BY <1>9, <3>2, <4>1, <4>2, LocationFacts DEF Take, TypeOK
    <3>. QED  BY <3>1, <3>2
  <2>2. ASSUME NEW q \in Reloads, q # r PROVE LocatedAt(q)'
    BY <1>9, <2>2 DEF Take, TypeOK, Located, LocatedAt, RecipeList
  <2>3. LocatedAt(r)'
    <3>1. rel[r] \in Releases /\ item[r] = NoItem
      BY <1>9 DEF Take, Located, LocatedAt, NotAsked, Holding
    <3>2. CASE queue = << >>
      BY <1>9, <3>1, <3>2 DEF Take, TypeOK, LocatedAt, NotAsked, Holding, Loading, Queueing
    <3>3. CASE queue # << >>
      <4>1. Head(queue) \in Items
        BY <3>3 DEF TypeOK
      <4>2. pc'[r] = "starting" /\ item'[r] = Head(queue) /\ rel' = rel
        BY <1>9, <3>3 DEF Take, TypeOK
      <4>. QED
        BY <3>1, <4>1, <4>2 DEF LocatedAt, NotAsked, Holding, Loading, Queueing
    <3>. QED  BY <3>2, <3>3
  <2>. QED  BY <2>1, <2>2, <2>3 DEF Located
<1>10. ASSUME NEW r \in Reloads, StartItem(r) PROVE TypeInv'
  <2>1. TypeOK'
    <3>0. item[r] \in Items
      BY <1>10 DEF StartItem, Located, LocatedAt, Holding
    <3>1. reports' \in [Releases -> [Keys -> Status]]
      BY <1>10, StatusFacts, ReportType DEF StartItem, TypeOK
    <3>2. fate' \in [Reloads -> [Recipes -> Fate]]
      BY <1>10, <3>0, FateFacts, FateType DEF StartItem, TypeOK
    <3>. QED  BY <1>10, <3>1, <3>2, LocationFacts DEF StartItem, TypeOK
  <2>2. ASSUME NEW q \in Reloads, q # r PROVE LocatedAt(q)'
    BY <1>10, <2>2 DEF StartItem, TypeOK, Located, LocatedAt, RecipeList
  <2>3. LocatedAt(r)'
    BY <1>10 DEF StartItem, SetFate, TypeOK, Located, LocatedAt, RecipeList, NotAsked,
       Holding, Loading, Queueing
  <2>. QED  BY <2>1, <2>2, <2>3 DEF Located
<1>11. ASSUME NEW r \in Reloads, RunItem(r) PROVE TypeInv'
  <2>1. TypeOK'
    <3>0. item[r] \in Items
      BY <1>11 DEF RunItem, Located, LocatedAt, Holding
    <3>1. fate' \in [Reloads -> [Recipes -> Fate]]
      BY <1>11, <3>0, FateFacts, FateType DEF RunItem
    <3>. QED  BY <1>11, <3>1, LocationFacts DEF RunItem, TypeOK
  <2>2. ASSUME NEW q \in Reloads, q # r PROVE LocatedAt(q)'
    BY <1>11, <2>2 DEF RunItem, TypeOK, Located, LocatedAt, RecipeList
  <2>3. LocatedAt(r)'
    BY <1>11 DEF RunItem, SetFate, TypeOK, Located, LocatedAt, RecipeList, NotAsked,
       Holding, Loading, Queueing
  <2>. QED  BY <2>1, <2>2, <2>3 DEF Located
<1>12. ASSUME NEW r \in Reloads, ReportItemEnd(r) PROVE TypeInv'
  <2>1. TypeOK'
    BY <1>12, LocationFacts, StatusFacts, ReportType
       DEF ReportItemEnd, TypeOK
  <2>2. ASSUME NEW q \in Reloads, q # r PROVE LocatedAt(q)'
    BY <1>12, <2>2 DEF ReportItemEnd, TypeOK, Located, LocatedAt, RecipeList
  <2>3. LocatedAt(r)'
    BY <1>12 DEF ReportItemEnd, TypeOK, Located, LocatedAt, RecipeList, NotAsked,
       Holding, Loading, Queueing
  <2>. QED  BY <2>1, <2>2, <2>3 DEF Located
<1>13. ASSUME NEW r \in Reloads, UploadItemLogs(r) PROVE TypeInv'
  <2>1. TypeOK'
    <3>0. item[r] \in Items /\ item[r] = <<item[r][1], item[r][2]>>
      BY <1>13 DEF UploadItemLogs, Located, LocatedAt, Holding, Items
    <3>1. uploads' \subseteq (Reloads \X Keys) \X Outcome
      <4>1. LastStatus(r) \in Outcome
        BY StatusFacts DEF LastStatus
      <4>2. item[r] \in Reloads \X Keys
        BY <3>0 DEF Items, Keys
      <4>. QED  BY <1>13, <4>1, <4>2 DEF UploadItemLogs, TypeOK
    <3>. QED  BY <1>13, <3>1, LocationFacts DEF UploadItemLogs, TypeOK
  <2>2. ASSUME NEW q \in Reloads, q # r PROVE LocatedAt(q)'
    BY <1>13, <2>2 DEF UploadItemLogs, TypeOK, Located, LocatedAt, RecipeList
  <2>3. LocatedAt(r)'
    BY <1>13 DEF UploadItemLogs, TypeOK, Located, LocatedAt, RecipeList, NotAsked,
       Holding, Loading, Queueing
  <2>. QED  BY <2>1, <2>2, <2>3 DEF Located
<1>14. ASSUME NEW r \in Reloads, OpenDb(r) PROVE TypeInv'
  <2>1. TypeOK'
    BY <1>14, LocationFacts
       DEF OpenDb, TypeOK
  <2>2. ASSUME NEW q \in Reloads, q # r PROVE LocatedAt(q)'
    BY <1>14, <2>2 DEF OpenDb, TypeOK, Located, LocatedAt, RecipeList
  <2>3. LocatedAt(r)'
    BY <1>14 DEF OpenDb, TypeOK, Located, LocatedAt, RecipeList, NotAsked,
       Holding, Loading, Queueing
  <2>. QED  BY <2>1, <2>2, <2>3 DEF Located
<1>15. ASSUME NEW r \in Reloads, WriteDb(r) PROVE TypeInv'
  <2>1. TypeOK'
    BY <1>15, LocationFacts
       DEF WriteDb, TypeOK
  <2>2. ASSUME NEW q \in Reloads, q # r PROVE LocatedAt(q)'
    BY <1>15, <2>2 DEF WriteDb, TypeOK, Located, LocatedAt, RecipeList
  <2>3. LocatedAt(r)'
    BY <1>15 DEF WriteDb, TypeOK, Located, LocatedAt, RecipeList, NotAsked,
       Holding, Loading, Queueing
  <2>. QED  BY <2>1, <2>2, <2>3 DEF Located
<1>16. CASE StartServe
  BY <1>16, FateFacts DEF StartServe, TypeOK, Located, LocatedAt, RecipeList
<1>17. CASE Crash
  <2>1. TypeOK'
    BY <1>17, LocationFacts, FateFacts DEF Crash, TypeOK
  <2>2. Located'
    BY <1>17 DEF Crash, InFlight, TypeOK, Located, LocatedAt, RecipeList, NotAsked, Holding,
       Loading, Queueing, Idle
  <2>. QED  BY <2>1, <2>2
<1>18. ASSUME NEW x \in Releases, ProviderRelease(x) PROVE TypeInv'
  BY <1>18 DEF ProviderRelease, TypeOK, Located, LocatedAt, RecipeList
<1>19. CASE UNCHANGED vars
  BY <1>19 DEF vars, TypeOK, Located, LocatedAt, RecipeList
<1>. QED
  BY <1>1, <1>2, <1>3, <1>4, <1>5, <1>6, <1>7, <1>8, <1>9, <1>10, <1>11, <1>12, <1>13, <1>14, <1>15, <1>16, <1>17, <1>18, <1>19, Zenon DEF Next, Step

(* Every reachable state is well typed, whatever the reloads interleave.   *)
THEOREM TypeCorrect == Spec => []TypeOK
<1>1. TypeInv => TypeOK
  BY DEF TypeInv
<1>. QED  BY <1>1, TypeInvInit, TypeInvNext, PTL DEF Spec

-----------------------------------------------------------------------------
(* Where the items are.  ItemInOnePlace is not inductive: that a reload    *)
(* queues an item which is nowhere yet needs the fate of the recipes it    *)
(* has not reached, and that it takes an item nobody holds needs the fate  *)
(* of the items whose runs are over.                                       *)
RunIsOver ==
  \A r \in Reloads :
    /\ pc[r] = "itemOk" => FateOf(item[r]) = "ok"
    /\ pc[r] = "itemFailed" => FateOf(item[r]) = "failed"
    /\ pc[r] = "itemLogs" => FateOf(item[r]) \in {"ok", "failed"}

Drained == {"initOk", "draining", "saving", "writing", "done"} \cup Holding

Fresh(r) == pc[r] \in {"new"} \cup Loading
AllQueued(r) == pc[r] \in Drained \/ (pc[r] = "initLogs" /\ ~throwing[r])

QueuedSoFarAt(r) ==
  /\ Fresh(r) => \A k \in Recipes : fate[r][k] = "none"
  /\ pc[r] \in Queueing => \A n \in 1 .. Len(RecipeList(r)) :
       fate[r][RecipeList(r)[n]] = "none" <=> n >= next[r]
  /\ AllQueued(r) =>
       \A n \in 1 .. Len(RecipeList(r)) : fate[r][RecipeList(r)[n]] # "none"
  /\ pc[r] \in Recording =>
       \A n \in 1 .. Len(RecipeList(r)) : fate[r][RecipeList(r)[n]] # "queued"

QueuedSoFar == \A r \in Reloads : QueuedSoFarAt(r)

ItemInv == ItemInOnePlace /\ RunIsOver /\ QueuedSoFar

LEMMA ItemInvInit == Init => ItemInv
<1>. SUFFICES ASSUME Init PROVE ItemInv
  OBVIOUS
<1>1. QueuedOnce /\ QueuedIsInQueue /\ TakenIsHeld /\ HeldByOne
  BY DEF Init, QueuedOnce, QueuedIsInQueue, TakenIsHeld, HeldByOne, FateOf, Items, Taking,
     InFlight, Idle
<1>2. RunIsOver
  BY DEF Init, RunIsOver
<1>3. QueuedSoFar
  BY DEF Init, QueuedSoFar, QueuedSoFarAt, Fresh, AllQueued, Loading, Queueing, Drained, Holding, Recording
<1>. QED  BY <1>1, <1>2, <1>3 DEF ItemInv, ItemInOnePlace

(* Most actions move no item.                                              *)
LEMMA NoItemMoves ==
  ASSUME ItemInOnePlace, UNCHANGED <<fate, queue, item>>,
         \A q \in Reloads : pc'[q] \in Taking <=> pc[q] \in Taking,
         \A q \in Reloads : pc'[q] \notin Idle /\ item[q] # NoItem => pc[q] \notin Idle
  PROVE  ItemInOnePlace'
<1>1. QueuedOnce' /\ QueuedIsInQueue'
  BY DEF ItemInOnePlace, QueuedOnce, QueuedIsInQueue, FateOf
<1>2. TakenIsHeld'
  BY DEF ItemInOnePlace, TakenIsHeld, FateOf
<1>3. HeldByOne'
  BY DEF ItemInOnePlace, HeldByOne, InFlight
<1>. QED  BY <1>1, <1>2, <1>3 DEF ItemInOnePlace

(* The actions of a reload that leave every item where it is. *)
StillAction(r) ==
  \/ Request(r) \/ ReadDb(r) \/ AskRelease(r) \/ ReportInit(r) \/ FetchConfig(r)
  \/ ReportInitEnd(r) \/ UploadInitLogs(r) \/ ReportItemEnd(r) \/ OpenDb(r) \/ WriteDb(r)
  \/ StartItem(r) /\ pc'[r] = "running"
  \/ QueueRecipe(r) /\ pc[r] = "queueing"
  \/ Take(r) /\ queue = << >>

LEMMA StillMoves ==
  ASSUME TypeInv, ItemInOnePlace, NEW r \in Reloads, StillAction(r)
  PROVE  ItemInOnePlace'
<1>. USE DEF StillAction
<1>1. UNCHANGED <<fate, queue, item>>
  BY DEF Request, ReadDb, AskRelease, ReportInit, FetchConfig, ReportInitEnd, UploadInitLogs,
     ReportItemEnd, OpenDb, WriteDb, StartItem, QueueRecipe, Take, Goto, TypeInv, TypeOK
<1>2. \A q \in Reloads : q # r => pc'[q] = pc[q]
  BY DEF Request, ReadDb, AskRelease, ReportInit, FetchConfig, ReportInitEnd, UploadInitLogs,
     ReportItemEnd, OpenDb, WriteDb, StartItem, QueueRecipe, Take, Goto, TypeInv, TypeOK
<1>3. pc'[r] \in Taking <=> pc[r] \in Taking
  BY DEF Request, ReadDb, AskRelease, ReportInit, FetchConfig, ReportInitEnd, UploadInitLogs,
     ReportItemEnd, OpenDb, WriteDb, StartItem, QueueRecipe, Take, Goto, TypeInv, TypeOK, Taking
<1>4. item[r] # NoItem => pc[r] \in Holding \cup {"crashed"}
  BY DEF TypeInv, Located, LocatedAt
<1>5. pc[r] # "crashed"
  BY DEF Request, ReadDb, AskRelease, ReportInit, FetchConfig, ReportInitEnd, UploadInitLogs,
     ReportItemEnd, OpenDb, WriteDb, StartItem, QueueRecipe, Take
<1>. QED  BY <1>1, <1>2, <1>3, <1>4, <1>5, NoItemMoves DEF Idle, Holding

(* What became of a recipe's run stays so while the reload that ran it     *)
(* reports it and sends its logs.                                          *)
LEMMA StillOver ==
  ASSUME TypeInv, RunIsOver, NEW r \in Reloads, StillAction(r)
  PROVE  RunIsOver'
<1>. USE DEF StillAction
<1>1. UNCHANGED <<fate, item>>
  BY DEF Request, ReadDb, AskRelease, ReportInit, FetchConfig, ReportInitEnd, UploadInitLogs,
     ReportItemEnd, OpenDb, WriteDb, StartItem, QueueRecipe, Take, Goto, TypeInv, TypeOK
<1>2. \A q \in Reloads : q # r => pc'[q] = pc[q]
  BY DEF Request, ReadDb, AskRelease, ReportInit, FetchConfig, ReportInitEnd, UploadInitLogs,
     ReportItemEnd, OpenDb, WriteDb, StartItem, QueueRecipe, Take, Goto, TypeInv, TypeOK
<1>3. /\ pc'[r] \notin {"itemOk", "itemFailed"}
      /\ pc'[r] = "itemLogs" => pc[r] \in {"itemOk", "itemFailed"}
  BY DEF Request, ReadDb, AskRelease, ReportInit, FetchConfig, ReportInitEnd, UploadInitLogs,
     ReportItemEnd, OpenDb, WriteDb, StartItem, QueueRecipe, AfterPush, Take, Goto, TypeInv, TypeOK
<1>. QED  BY <1>1, <1>2, <1>3 DEF RunIsOver, FateOf

(* A reload whose location stays in its class, whose list of recipes stays *)
(* the same and whose recipes are neither forgotten nor queued again.      *)
LEMMA SameClass ==
  ASSUME TypeInv, QueuedSoFar, NEW r \in Reloads,
         Fresh(r)' => Fresh(r),
         pc'[r] \in Queueing => pc[r] \in Queueing,
         AllQueued(r)' => AllQueued(r),
         pc'[r] \in Recording => pc[r] \in Recording,
         pc[r] \notin NotAsked => RecipeList(r)' = RecipeList(r),
         next'[r] = next[r],
         \A k \in Recipes : fate'[r][k] = "none" <=> fate[r][k] = "none",
         \A k \in Recipes : fate'[r][k] = "queued" => fate[r][k] = "queued"
  PROVE  QueuedSoFarAt(r)'
<1>1. QueuedSoFarAt(r)
  BY DEF QueuedSoFar
<1>2. Fresh(r)' => \A k \in Recipes : fate'[r][k] = "none"
  BY <1>1 DEF QueuedSoFarAt
<1>3. CASE pc[r] \in NotAsked
  <2>1. pc[r] \notin Queueing /\ ~AllQueued(r) /\ pc[r] \notin Recording
    BY <1>3 DEF NotAsked, Queueing, AllQueued, Drained, Holding, Recording
  <2>. QED  BY <1>2, <2>1 DEF QueuedSoFarAt
<1>4. CASE pc[r] \notin NotAsked
  <2>1. RecipeList(r) \in Seq(Recipes) /\ RecipeList(r)' = RecipeList(r)
    BY <1>4, RecipeListType
  <2>2. \A n \in 1 .. Len(RecipeList(r)) : RecipeList(r)[n] \in Recipes
    BY <2>1
  <2>3. pc'[r] \in Queueing => \A n \in 1 .. Len(RecipeList(r)) :
          fate'[r][RecipeList(r)[n]] = "none" <=> n >= next'[r]
    BY <1>1, <2>2 DEF QueuedSoFarAt
  <2>4. AllQueued(r)' => \A n \in 1 .. Len(RecipeList(r)) : fate'[r][RecipeList(r)[n]] # "none"
    BY <1>1, <2>2 DEF QueuedSoFarAt
  <2>5. pc'[r] \in Recording =>
          \A n \in 1 .. Len(RecipeList(r)) : fate'[r][RecipeList(r)[n]] # "queued"
    BY <1>1, <2>2 DEF QueuedSoFarAt
  <2>. QED  BY <1>2, <2>1, <2>3, <2>4, <2>5 DEF QueuedSoFarAt
<1>. QED  BY <1>3, <1>4

LEMMA StillQueued ==
  ASSUME TypeInv, ItemInOnePlace, QueuedSoFar, NEW r \in Reloads, StillAction(r)
  PROVE  QueuedSoFar'
<1>. USE DEF StillAction
<1>1. UNCHANGED <<fate, next>>
  BY DEF Request, ReadDb, AskRelease, ReportInit, FetchConfig, ReportInitEnd, UploadInitLogs,
     ReportItemEnd, OpenDb, WriteDb, StartItem, QueueRecipe, Take, Goto, TypeInv, TypeOK
<1>2. ASSUME NEW q \in Reloads, q # r PROVE QueuedSoFarAt(q)'
  <2>1. pc'[q] = pc[q] /\ throwing'[q] = throwing[q] /\ rel'[q] = rel[q] /\ phase'[q] = phase[q]
    BY <1>2 DEF Request, ReadDb, AskRelease, ReportInit, FetchConfig, ReportInitEnd,
       UploadInitLogs, ReportItemEnd, OpenDb, WriteDb, StartItem, QueueRecipe, Take, Goto,
       TypeInv, TypeOK, agentVars
  <2>. QED  BY <1>1, <2>1, SameClass DEF Fresh, AllQueued, RecipeList
<1>3. QueuedSoFarAt(r)'
  <2>1. CASE FetchConfig(r)
    <3>1. /\ UNCHANGED <<rel, phase, fate, next>> /\ RecipeList(r)' = RecipeList(r)
          /\ next[r] = 1 /\ \A k \in Recipes : fate[r][k] = "none"
      BY <2>1 DEF FetchConfig, TypeInv, Located, LocatedAt, Loading, QueuedSoFar, QueuedSoFarAt,
         Fresh, agentVars, RecipeList
    <3>2. RecipeList(r) \in Seq(Recipes)
      BY <2>1, RecipeListType DEF FetchConfig, NotAsked
    <3>3. CASE RecipeList(r) = << >>
      <4>1. pc'[r] \in {"initOk", "initFailed"}
        BY <2>1, <3>3 DEF FetchConfig, Goto, TypeInv, TypeOK
      <4>. QED  BY <3>1, <3>3, <4>1 DEF QueuedSoFarAt, Fresh, AllQueued, Loading, Queueing, Recording
    <3>4. CASE RecipeList(r) # << >>
      <4>1. pc'[r] \in {"queueing", "initFailed"}
        BY <2>1, <3>4 DEF FetchConfig, Goto, TypeInv, TypeOK
      <4>2. \A n \in 1 .. Len(RecipeList(r)) :
              RecipeList(r)[n] \in Recipes /\ n >= next[r]
        BY <3>1, <3>2
      <4>. QED
        BY <3>1, <4>1, <4>2 DEF QueuedSoFarAt, Fresh, AllQueued, Loading, Queueing, Recording,
           Drained, Holding
    <3>. QED  BY <3>3, <3>4
  <2>2. CASE Take(r) /\ queue = << >>
    <3>1. /\ UNCHANGED <<rel, phase, fate>> /\ RecipeList(r)' = RecipeList(r)
          /\ pc[r] = "draining" /\ pc'[r] = "saving"
      BY <2>2 DEF Take, Goto, TypeInv, TypeOK, agentVars, RecipeList
    <3>2. \A n \in 1 .. Len(RecipeList(r)) : RecipeList(r)[n] \in Recipes
      BY <3>1, RecipeListType DEF NotAsked
    <3>3. \A i \in Items : FateOf(i) # "queued"
      <4>1. \A i \in Items : ~\E n \in 1 .. Len(queue) : queue[n] = i
        BY <2>2
      <4>. QED  BY <4>1 DEF ItemInOnePlace, QueuedIsInQueue
    <3>4. \A k \in Recipes : fate[r][k] # "queued"
      <4>1. ASSUME NEW k \in Recipes PROVE fate[r][k] # "queued"
        <5>1. <<r, k>> \in Items /\ FateOf(<<r, k>>) = fate[r][k]
          BY DEF Items, FateOf
        <5>. QED  BY <3>3, <5>1
      <4>. QED  BY <4>1
    <3>5. \A n \in 1 .. Len(RecipeList(r)) : fate[r][RecipeList(r)[n]] # "none"
      BY <3>1 DEF QueuedSoFar, QueuedSoFarAt, AllQueued, Drained
    <3>. QED
      BY <3>1, <3>2, <3>4, <3>5 DEF QueuedSoFarAt, Fresh, AllQueued, Loading, Queueing
  <2>3. ASSUME ~FetchConfig(r), ~(Take(r) /\ queue = << >>)
        PROVE  QueuedSoFarAt(r)'
    <3>1. Fresh(r)' => Fresh(r)
      BY <2>3 DEF Fresh, Loading, Request, ReadDb, AskRelease, ReportInit, ReportInitEnd,
         UploadInitLogs, ReportItemEnd, OpenDb, WriteDb, StartItem, QueueRecipe, Goto,
         TypeInv, TypeOK
    <3>2. pc'[r] \in Queueing => pc[r] \in Queueing
      BY <2>3 DEF Queueing, Request, ReadDb, AskRelease, ReportInit, ReportInitEnd,
         UploadInitLogs, ReportItemEnd, OpenDb, WriteDb, StartItem, QueueRecipe, Goto,
         TypeInv, TypeOK
    <3>3. AllQueued(r)' => AllQueued(r)
      BY <2>3 DEF AllQueued, Drained, Holding, Request, ReadDb, AskRelease, ReportInit,
         ReportInitEnd, UploadInitLogs, ReportItemEnd, OpenDb, WriteDb, StartItem, QueueRecipe,
         Goto, TypeInv, TypeOK
    <3>4. pc'[r] \in Recording => pc[r] \in Recording
      BY <2>3 DEF Recording, Request, ReadDb, AskRelease, ReportInit, ReportInitEnd,
         UploadInitLogs, ReportItemEnd, OpenDb, WriteDb, StartItem, QueueRecipe, Goto,
         TypeInv, TypeOK
    <3>5. pc[r] \notin NotAsked => RecipeList(r)' = RecipeList(r)
      BY <2>3 DEF NotAsked, RecipeList, Request, ReadDb, AskRelease, ReportInit, ReportInitEnd,
         UploadInitLogs, ReportItemEnd, OpenDb, WriteDb, StartItem, QueueRecipe, agentVars
    <3>. QED  BY <1>1, <3>1, <3>2, <3>3, <3>4, <3>5, SameClass
  <2>. QED  BY <2>1, <2>2, <2>3
<1>. QED  BY <1>2, <1>3 DEF QueuedSoFar

(* An item that leaves the queue, or whose run ends, was queued before and *)
(* is not queued again.                                                    *)
LEMMA FateMoves ==
  ASSUME TypeInv, NEW i \in Items, NEW f \in Fate \ {"none", "queued"},
         FateOf(i) # "none", SetFate(i, f)
  PROVE  \A q \in Reloads, k \in Recipes :
           /\ fate'[q][k] = "none" <=> fate[q][k] = "none"
           /\ fate'[q][k] = "queued" => fate[q][k] = "queued"
<1>1. /\ FateOf(i)' = f
      /\ \A j \in Items : j # i => FateOf(j)' = FateOf(j)
  BY FateType DEF TypeInv, FateOf
<1>2. ASSUME NEW q \in Reloads, NEW k \in Recipes
      PROVE  <<q, k>> \in Items /\ FateOf(<<q, k>>) = fate[q][k]
                                /\ FateOf(<<q, k>>)' = fate'[q][k]
  BY DEF Items, FateOf
<1>. QED  BY <1>1, <1>2

LEMMA QueuedSoFarKept ==
  ASSUME TypeInv, QueuedSoFar, NEW r \in Reloads, UNCHANGED <<rel, phase, next>>,
         \A q \in Reloads : q # r => pc'[q] = pc[q] /\ throwing'[q] = throwing[q],
         pc[r] \in Drained, pc'[r] \in Holding \cup {"draining", "failed"},
         NEW i \in Items, NEW f \in Fate \ {"none", "queued"},
         \/ FateOf(i) # "none" /\ SetFate(i, f)
         \/ UNCHANGED fate
  PROVE  QueuedSoFar'
<1>1. \A q \in Reloads, k \in Recipes :
        /\ fate'[q][k] = "none" <=> fate[q][k] = "none"
        /\ fate'[q][k] = "queued" => fate[q][k] = "queued"
  BY FateMoves
<1>2. ASSUME NEW q \in Reloads, q # r PROVE QueuedSoFarAt(q)'
  BY <1>1, <1>2, SameClass DEF Fresh, AllQueued, RecipeList
<1>3. QueuedSoFarAt(r)'
  <2>1. pc[r] \notin NotAsked /\ AllQueued(r) /\ RecipeList(r)' = RecipeList(r)
    BY DEF NotAsked, AllQueued, Drained, Holding, RecipeList
  <2>2. ~Fresh(r)' /\ pc'[r] \notin Queueing /\ pc'[r] \notin Recording
    BY DEF Fresh, Loading, Queueing, Recording, Holding
  <2>. QED  BY <1>1, <2>1, <2>2, SameClass
<1>. QED  BY <1>2, <1>3 DEF QueuedSoFar

(* The fate of an item whose run is over changes no more. *)
LEMMA OverKept ==
  ASSUME TypeInv, RunIsOver, NEW r \in Reloads,
         NEW i \in Items, FateOf(i) \notin {"ok", "failed"}, NEW f \in Fate,
         SetFate(i, f),
         \A q \in Reloads : q # r => pc'[q] = pc[q] /\ item'[q] = item[q],
         pc'[r] \notin {"itemOk", "itemFailed", "itemLogs"}
  PROVE  RunIsOver'
<1>1. \A j \in Items : j # i => FateOf(j)' = FateOf(j)
  BY FateType DEF TypeInv, FateOf
<1>2. ASSUME NEW q \in Reloads, q # r, pc[q] \in {"itemOk", "itemFailed", "itemLogs"}
      PROVE  FateOf(item[q])' = FateOf(item[q])
  <2>1. PICK j \in Items : j = item[q] /\ j = item'[q]
    BY <1>2 DEF TypeInv, Located, LocatedAt, Holding
  <2>2. j # i
    BY <1>2, <2>1 DEF RunIsOver
  <2>3. FateOf(j)' = FateOf(j)
    BY <1>1, <2>2
  <2>. QED  BY <2>1, <2>3 DEF FateOf
<1>. QED  BY <1>2 DEF RunIsOver

LEMMA PushMoves ==
  ASSUME TypeInv, ItemInv, NEW r \in Reloads, QueueRecipe(r), pc[r] = "pushing"
  PROVE  ItemInv'
<1>0. PICK i \in Items : i = NextItem(r)
  BY NextItemType DEF Queueing
<1>1. /\ i[1] = r /\ i[2] = RecipeList(r)[next[r]]
      /\ RecipeList(r) \in Seq(Recipes) /\ next[r] \in 1 .. Len(RecipeList(r))
      /\ rel[r] \in Releases
  BY <1>0, NextItemType, RecipeListType DEF Queueing, NextItem, NotAsked, TypeInv, Located, LocatedAt
<1>2. /\ queue' = Append(queue, i) /\ SetFate(i, "queued") /\ UNCHANGED item
      /\ next'[r] = next[r] + 1 /\ pc'[r] = AfterPush(r)
      /\ RecipeList(r)' = RecipeList(r)
      /\ \A q \in Reloads : q # r => /\ pc'[q] = pc[q] /\ next'[q] = next[q]
                                     /\ throwing'[q] = throwing[q]
                                     /\ RecipeList(q)' = RecipeList(q)
  BY <1>0 DEF QueueRecipe, Goto, TypeInv, TypeOK, agentVars, RecipeList
<1>3. /\ FateOf(i)' = "queued"
      /\ \A j \in Items : j # i => FateOf(j)' = FateOf(j)
  BY <1>1, <1>2, FateFacts, FateType DEF TypeInv, FateOf
<1>4. FateOf(i) = "none"
  BY <1>1 DEF ItemInv, QueuedSoFar, QueuedSoFarAt, Queueing, FateOf
<1>5. /\ pc'[r] \in {"queueing", "initOk"}
      /\ pc'[r] = "initOk" => next[r] = Len(RecipeList(r))
  BY <1>1, <1>2 DEF AfterPush
<1>6. /\ \A n \in 1 .. Len(queue) : queue[n] # i
      /\ queue \in Seq(Items)
  BY <1>1, <1>4 DEF ItemInv, ItemInOnePlace, QueuedIsInQueue, TypeInv, TypeOK
<1>7. /\ Len(queue') = Len(queue) + 1 /\ queue'[Len(queue) + 1] = i /\ Len(queue) \in Nat
      /\ \A n \in 1 .. Len(queue) : queue'[n] = queue[n]
  BY <1>1, <1>2, <1>6
<1>8. QueuedOnce'
  BY <1>6, <1>7 DEF ItemInv, ItemInOnePlace, QueuedOnce
<1>9. QueuedIsInQueue'
  <2>1. ASSUME NEW j \in Items
        PROVE  FateOf(j)' = "queued" <=> \E n \in 1 .. Len(queue') : queue'[n] = j
    <3>1. CASE j = i
      BY <1>3, <1>7, <3>1
    <3>2. CASE j # i
      BY <1>3, <1>7, <3>2 DEF ItemInv, ItemInOnePlace, QueuedIsInQueue
    <3>. QED  BY <3>1, <3>2
  <2>. QED  BY <2>1 DEF QueuedIsInQueue
<1>10. TakenIsHeld'
  <2>1. \A q \in Reloads : pc'[q] \in Taking <=> pc[q] \in Taking
    BY <1>2, <1>5 DEF Taking
  <2>2. \A q \in Reloads : pc[q] \in Taking => item[q] # i
    BY <1>1, <1>4 DEF ItemInv, ItemInOnePlace, TakenIsHeld
  <2>3. ASSUME NEW j \in Items
        PROVE  FateOf(j)' = "taken" <=> \E q \in Reloads : pc'[q] \in Taking /\ item'[q] = j
    <3>1. CASE j = i
      BY <1>2, <1>3, <2>1, <2>2, <3>1
    <3>2. CASE j # i
      BY <1>2, <1>3, <2>1, <3>2 DEF ItemInv, ItemInOnePlace, TakenIsHeld
    <3>. QED  BY <3>1, <3>2
  <2>. QED  BY <2>3 DEF TakenIsHeld
<1>11. HeldByOne'
  <2>1. \A q \in Reloads : pc'[q] \notin Idle => pc[q] \notin Idle
    BY <1>2 DEF Idle
  <2>. QED  BY <1>2, <2>1 DEF ItemInv, ItemInOnePlace, HeldByOne, InFlight
<1>12. RunIsOver'
  BY <1>1, <1>2, <1>4, <1>5, OverKept, FateFacts DEF ItemInv
<1>13. QueuedSoFar'
  <2>1. ASSUME NEW q \in Reloads, q # r PROVE QueuedSoFarAt(q)'
    <3>1. \A k \in Recipes : fate'[q][k] = fate[q][k]
      <4>1. ASSUME NEW k \in Recipes PROVE fate'[q][k] = fate[q][k]
        <5>1. /\ <<q, k>> \in Items /\ <<q, k>> # i
              /\ FateOf(<<q, k>>) = fate[q][k] /\ FateOf(<<q, k>>)' = fate'[q][k]
          BY <1>1, <2>1 DEF Items, FateOf
        <5>. QED  BY <1>3, <5>1
      <4>. QED  BY <4>1
    <3>. QED  BY <1>2, <2>1, <3>1, SameClass DEF ItemInv, Fresh, AllQueued
  <2>2. QueuedSoFarAt(r)'
    <3>1. \A n \in 1 .. Len(RecipeList(r)) :
            fate'[r][RecipeList(r)[n]] = "none" <=> n >= next[r] + 1
      <4>1. ASSUME NEW n \in 1 .. Len(RecipeList(r))
            PROVE  fate'[r][RecipeList(r)[n]] = "none" <=> n >= next[r] + 1
        <5>0. PICK j \in Items : j = <<r, RecipeList(r)[n]>>
          <6>1. RecipeList(r)[n] \in Recipes
            BY <1>1
          <6>. QED  BY <6>1 DEF Items
        <5>1. /\ FateOf(j) = fate[r][RecipeList(r)[n]]
              /\ FateOf(j)' = fate'[r][RecipeList(r)[n]]
          BY <1>2, <5>0 DEF FateOf
        <5>2. FateOf(j) = "none" <=> n >= next[r]
          BY <5>1 DEF ItemInv, QueuedSoFar, QueuedSoFarAt, Queueing
        <5>3. j = i <=> n = next[r]
          <6>1. n # next[r] => RecipeList(r)[n] # RecipeList(r)[next[r]]
            BY <1>1, Constants DEF RecipeList, TypeInv, TypeOK
          <6>. QED  BY <1>0, <1>1, <5>0, <6>1 DEF NextItem
        <5>. QED  BY <1>1, <1>3, <5>1, <5>2, <5>3
      <4>. QED  BY <4>1
    <3>2. pc'[r] = "initOk" =>
            \A n \in 1 .. Len(RecipeList(r)) : fate'[r][RecipeList(r)[n]] # "none"
      BY <1>1, <1>5, <3>1
    <3>. QED
      BY <1>2, <1>5, <3>1, <3>2 DEF QueuedSoFarAt, Fresh, AllQueued, Loading, Queueing,
         Recording, Drained, Holding
  <2>. QED  BY <2>1, <2>2 DEF QueuedSoFar
<1>. QED  BY <1>8, <1>9, <1>10, <1>11, <1>12, <1>13 DEF ItemInv, ItemInOnePlace

LEMMA TakeMoves ==
  ASSUME TypeInv, ItemInv, NEW r \in Reloads, Take(r), queue # << >>
  PROVE  ItemInv'
<1>1. PICK i \in Items : i = Head(queue)
  BY DEF TypeInv, TypeOK
<1>2. /\ queue' = Tail(queue) /\ SetFate(i, "taken")
      /\ item' = [item EXCEPT ![r] = i] /\ pc' = [pc EXCEPT ![r] = "starting"]
      /\ pc[r] = "draining" /\ UNCHANGED <<rel, phase, next, throwing>>
  BY <1>1 DEF Take, Goto, agentVars
<1>3. /\ item'[r] = i /\ pc'[r] = "starting"
      /\ \A q \in Reloads : q # r => pc'[q] = pc[q] /\ item'[q] = item[q]
  BY <1>2 DEF TypeInv, TypeOK
<1>4. /\ queue \in Seq(Items) /\ Len(queue) \in Nat /\ Len(queue) >= 1
      /\ queue[1] = i /\ Len(queue') = Len(queue) - 1
      /\ \A n \in 1 .. Len(queue') : queue'[n] = queue[n + 1]
  BY <1>1, <1>2 DEF TypeInv, TypeOK
<1>5. /\ FateOf(i)' = "taken"
      /\ \A j \in Items : j # i => FateOf(j)' = FateOf(j)
  BY <1>2, FateFacts, FateType DEF TypeInv, FateOf
<1>6. FateOf(i) = "queued"
  BY <1>4 DEF ItemInv, ItemInOnePlace, QueuedIsInQueue
<1>7. ASSUME NEW q \in Reloads, q \in InFlight PROVE item[q] # i
  <2>1. CASE pc[q] \in Taking
    BY <1>6, <2>1 DEF ItemInv, ItemInOnePlace, TakenIsHeld
  <2>2. CASE pc[q] \in Holding \ Taking
    BY <1>6, <2>2 DEF ItemInv, RunIsOver, Holding, Taking
  <2>3. CASE pc[q] \notin Holding
    BY <1>7, <2>3, Constants DEF TypeInv, Located, LocatedAt, InFlight, Idle
  <2>. QED  BY <2>1, <2>2, <2>3
<1>8. QueuedOnce'
  BY <1>4 DEF ItemInv, ItemInOnePlace, QueuedOnce
<1>9. QueuedIsInQueue'
  <2>1. ASSUME NEW j \in Items
        PROVE  FateOf(j)' = "queued" <=> \E n \in 1 .. Len(queue') : queue'[n] = j
    <3>1. CASE j = i
      <4>1. \A n \in 1 .. Len(queue') : queue'[n] # i
        BY <1>4 DEF ItemInv, ItemInOnePlace, QueuedOnce
      <4>. QED  BY <1>5, <3>1, <4>1
    <3>2. CASE j # i
      <4>1. (\E n \in 1 .. Len(queue) : queue[n] = j) => \E n \in 1 .. Len(queue') : queue'[n] = j
        <5>1. ASSUME NEW n \in 1 .. Len(queue), queue[n] = j
              PROVE  n - 1 \in 1 .. Len(queue') /\ queue'[n - 1] = j
          BY <1>4, <3>2, <5>1
        <5>. QED  BY <5>1
      <4>2. (\E n \in 1 .. Len(queue') : queue'[n] = j) => \E n \in 1 .. Len(queue) : queue[n] = j
        BY <1>4
      <4>. QED  BY <1>5, <3>2, <4>1, <4>2 DEF ItemInv, ItemInOnePlace, QueuedIsInQueue
    <3>. QED  BY <3>1, <3>2
  <2>. QED  BY <2>1 DEF QueuedIsInQueue
<1>10. TakenIsHeld'
  <2>1. ASSUME NEW j \in Items
        PROVE  FateOf(j)' = "taken" <=> \E q \in Reloads : pc'[q] \in Taking /\ item'[q] = j
    <3>1. CASE j = i
      BY <1>3, <1>5, <3>1 DEF Taking
    <3>2. CASE j # i
      BY <1>2, <1>3, <1>5, <3>2 DEF ItemInv, ItemInOnePlace, TakenIsHeld, Taking
    <3>. QED  BY <3>1, <3>2
  <2>. QED  BY <2>1 DEF TakenIsHeld
<1>11. HeldByOne'
  <2>1. \A q \in Reloads : q # r => (q \in InFlight' <=> q \in InFlight)
    BY <1>3 DEF InFlight
  <2>. QED  BY <1>3, <1>7, <2>1 DEF ItemInv, ItemInOnePlace, HeldByOne, InFlight
<1>12. RunIsOver'
  BY <1>2, <1>3, <1>6, OverKept, FateFacts DEF ItemInv
<1>13. QueuedSoFar'
  BY <1>2, <1>3, <1>6, QueuedSoFarKept, FateFacts DEF ItemInv, Drained, Holding
<1>. QED  BY <1>8, <1>9, <1>10, <1>11, <1>12, <1>13 DEF ItemInv, ItemInOnePlace

(* An item's run ends, or the item is dropped before it starts. *)
LEMMA SettleMoves ==
  ASSUME TypeInv, ItemInv, NEW r \in Reloads,
         \/ StartItem(r) /\ pc'[r] # "running"
         \/ RunItem(r)
  PROVE  ItemInv'
<1>1. PICK i \in Items : i = item[r]
  BY DEF StartItem, RunItem, TypeInv, Located, LocatedAt, Holding
<1>2. /\ pc[r] \in Taking /\ UNCHANGED <<queue, rel, phase, next, throwing>>
      /\ \A q \in Reloads : q # r => pc'[q] = pc[q] /\ item'[q] = item[q]
  BY DEF StartItem, RunItem, Goto, TypeInv, TypeOK, Taking, agentVars
<1>3. PICK f \in {"ok", "failed", "lost"} :
        /\ SetFate(i, f)
        /\ \/ f = "ok" /\ pc'[r] = "itemOk" /\ item'[r] = i
           \/ f = "failed" /\ pc'[r] = "itemFailed" /\ item'[r] = i
           \/ f = "lost" /\ pc'[r] = "failed" /\ item'[r] = NoItem
  <2>1. CASE StartItem(r) /\ pc'[r] # "running"
    BY <1>1, <2>1 DEF StartItem, Goto, TypeInv, TypeOK
  <2>2. CASE RunItem(r)
    BY <1>1, <2>2 DEF RunItem, Goto, TypeInv, TypeOK
  <2>. QED  BY <2>1, <2>2
<1>4. f \in Fate \ {"none", "queued", "taken"}
  BY DEF Fate
<1>5. /\ FateOf(i)' = f
      /\ \A j \in Items : j # i => FateOf(j)' = FateOf(j)
  BY <1>3, <1>4, FateType DEF TypeInv, FateOf
<1>6. FateOf(i) = "taken"
  BY <1>1, <1>2 DEF ItemInv, ItemInOnePlace, TakenIsHeld
<1>7. ASSUME NEW q \in InFlight, q # r PROVE item[q] # i
  <2>1. r \in InFlight /\ i # NoItem
    BY <1>2, Constants DEF InFlight, Taking, Idle
  <2>. QED  BY <1>1, <1>7, <2>1 DEF ItemInv, ItemInOnePlace, HeldByOne
<1>8. QueuedOnce'
  BY <1>2 DEF ItemInv, ItemInOnePlace, QueuedOnce
<1>9. QueuedIsInQueue'
  <2>1. ASSUME NEW j \in Items
        PROVE  FateOf(j)' = "queued" <=> FateOf(j) = "queued"
    BY <1>4, <1>5, <1>6
  <2>. QED  BY <1>2, <2>1 DEF ItemInv, ItemInOnePlace, QueuedIsInQueue
<1>10. TakenIsHeld'
  <2>1. pc'[r] \notin Taking
    BY <1>3 DEF Taking
  <2>2. \A q \in Reloads : q # r /\ pc[q] \in Taking => item[q] # i
    BY <1>7 DEF InFlight, Taking, Idle
  <2>3. ASSUME NEW j \in Items
        PROVE  FateOf(j)' = "taken" <=> \E q \in Reloads : pc'[q] \in Taking /\ item'[q] = j
    <3>1. CASE j = i
      BY <1>2, <1>4, <1>5, <2>1, <2>2, <3>1
    <3>2. CASE j # i
      BY <1>1, <1>2, <1>5, <2>1, <3>2 DEF ItemInv, ItemInOnePlace, TakenIsHeld
    <3>. QED  BY <3>1, <3>2
  <2>. QED  BY <2>3 DEF TakenIsHeld
<1>11. HeldByOne'
  <2>1. \A q \in Reloads : q # r => (q \in InFlight' <=> q \in InFlight)
    BY <1>2 DEF InFlight
  <2>. QED  BY <1>1, <1>2, <1>3, <1>7, <2>1 DEF ItemInv, ItemInOnePlace, HeldByOne, InFlight
<1>12. RunIsOver'
  <2>1. ASSUME NEW q \in Reloads, q # r, pc[q] \in {"itemOk", "itemFailed", "itemLogs"}
        PROVE  FateOf(item[q])' = FateOf(item[q])
    <3>1. PICK j \in Items : j = item[q] /\ j = item'[q]
      BY <1>2, <2>1 DEF TypeInv, Located, LocatedAt, Holding
    <3>2. j # i
      BY <1>6, <2>1, <3>1 DEF ItemInv, RunIsOver
    <3>3. FateOf(j)' = FateOf(j)
      BY <1>5, <3>2
    <3>. QED  BY <3>1, <3>3 DEF FateOf
  <2>2. FateOf(item[r])' = f \/ pc'[r] = "failed"
    BY <1>3, <1>5 DEF FateOf
  <2>. QED  BY <1>2, <1>3, <2>1, <2>2 DEF ItemInv, RunIsOver
<1>13. QueuedSoFar'
  BY <1>2, <1>3, <1>4, <1>6, QueuedSoFarKept DEF ItemInv, Drained, Holding, Taking
<1>. QED  BY <1>8, <1>9, <1>10, <1>11, <1>12, <1>13 DEF ItemInv, ItemInOnePlace

LEMMA UploadMoves ==
  ASSUME TypeInv, ItemInv, NEW r \in Reloads, UploadItemLogs(r)
  PROVE  ItemInv'
<1>1. /\ UNCHANGED <<fate, queue, rel, phase, next>>
      /\ item' = [item EXCEPT ![r] = NoItem] /\ pc[r] = "itemLogs"
      /\ pc'[r] \in {"failed", "draining"}
      /\ \A q \in Reloads : q # r => /\ pc'[q] = pc[q] /\ item'[q] = item[q]
                                     /\ throwing'[q] = throwing[q]
  BY DEF UploadItemLogs, Goto, TypeInv, TypeOK, agentVars
<1>2. item'[r] = NoItem
  BY <1>1 DEF TypeInv, TypeOK
<1>3. QueuedOnce' /\ QueuedIsInQueue'
  BY <1>1 DEF ItemInv, ItemInOnePlace, QueuedOnce, QueuedIsInQueue, FateOf
<1>4. TakenIsHeld'
  BY <1>1 DEF ItemInv, ItemInOnePlace, TakenIsHeld, FateOf, Taking
<1>5. HeldByOne'
  BY <1>1, <1>2 DEF ItemInv, ItemInOnePlace, HeldByOne, InFlight
<1>6. RunIsOver'
  BY <1>1 DEF ItemInv, RunIsOver, FateOf
<1>7. item[r] \in Items /\ "ok" \in Fate \ {"none", "queued"}
  BY <1>1, FateFacts DEF TypeInv, Located, LocatedAt, Holding
<1>8. QueuedSoFar'
  BY <1>1, <1>7, QueuedSoFarKept DEF ItemInv, Drained, Holding
<1>. QED  BY <1>3, <1>4, <1>5, <1>6, <1>8 DEF ItemInv, ItemInOnePlace

(* The queue is gone with the process: what was queued or taken is lost.   *)
LEMMA QueueLost ==
  ASSUME TypeInv, ItemInv, UNCHANGED <<rel, phase, next, throwing, item>>, queue' = << >>,
         \A q \in Reloads : pc'[q] \in Idle,
         \A q \in Reloads : pc'[q] = pc[q] \/ pc'[q] = "crashed",
         NEW F, "taken" \in F \/ InFlight = {},
         fate' = [q \in Reloads |-> [k \in Recipes |->
                    IF fate[q][k] \in {"queued"} \cup F THEN "lost" ELSE fate[q][k]]],
         F \subseteq {"taken"}
  PROVE  ItemInv'
<1>1. \A j \in Items :
        FateOf(j)' = IF FateOf(j) \in {"queued"} \cup F THEN "lost" ELSE FateOf(j)
  BY DEF FateOf, Items
<1>2. QueuedOnce'
  BY DEF QueuedOnce
<1>3. QueuedIsInQueue'
  BY <1>1 DEF QueuedIsInQueue
<1>4. TakenIsHeld'
  <2>1. \A q \in Reloads : pc'[q] \notin Taking
    BY DEF Idle, Taking
  <2>2. ASSUME InFlight = {}, NEW j \in Items PROVE FateOf(j) # "taken"
    BY <2>2 DEF ItemInv, ItemInOnePlace, TakenIsHeld, InFlight, Idle, Taking
  <2>3. \A j \in Items : FateOf(j)' # "taken"
    BY <1>1, <2>2
  <2>. QED  BY <2>1, <2>3 DEF TakenIsHeld
<1>5. HeldByOne'
  BY DEF HeldByOne, InFlight
<1>6. RunIsOver'
  BY DEF RunIsOver, Idle
<1>7. ASSUME NEW q \in Reloads PROVE QueuedSoFarAt(q)'
  BY SameClass DEF ItemInv, Fresh, AllQueued, Loading, Queueing, Drained, Holding, Recording,
     RecipeList
<1>8. QueuedSoFar'
  BY <1>7 DEF QueuedSoFar
<1>. QED  BY <1>2, <1>3, <1>4, <1>5, <1>6, <1>8 DEF ItemInv, ItemInOnePlace

LEMMA ItemInvNext == TypeInv /\ ItemInv /\ [Next]_vars => ItemInv'
<1>. SUFFICES ASSUME TypeInv, ItemInv, [Next]_vars PROVE ItemInv'
  OBVIOUS
<1>1. ASSUME NEW r \in Reloads, StillAction(r) PROVE ItemInv'
  BY <1>1, StillMoves, StillOver, StillQueued DEF ItemInv
<1>2. ASSUME NEW r \in Reloads, Request(r) \/ Step(r) PROVE ItemInv'
  <2>1. CASE QueueRecipe(r)
    BY <1>1, <2>1, PushMoves DEF QueueRecipe, StillAction
  <2>2. CASE Take(r)
    BY <1>1, <2>2, TakeMoves DEF StillAction
  <2>3. CASE StartItem(r)
    BY <1>1, <2>3, SettleMoves DEF StillAction
  <2>4. CASE RunItem(r)
    BY <2>4, SettleMoves
  <2>5. CASE UploadItemLogs(r)
    BY <2>5, UploadMoves
  <2>6. CASE \/ Request(r) \/ ReadDb(r) \/ AskRelease(r) \/ ReportInit(r) \/ FetchConfig(r)
             \/ ReportInitEnd(r) \/ UploadInitLogs(r) \/ ReportItemEnd(r) \/ OpenDb(r)
             \/ WriteDb(r)
    BY <1>1, <2>6 DEF StillAction
  <2>. QED  BY <1>2, <2>1, <2>2, <2>3, <2>4, <2>5, <2>6 DEF Step
<1>3. CASE StartServe
  <2>1. \A q \in Reloads : pc'[q] \in Idle /\ pc'[q] = pc[q]
    BY <1>3 DEF StartServe, InFlight
  <2>2. fate' = [q \in Reloads |-> [k \in Recipes |->
                   IF fate[q][k] \in {"queued"} \cup {} THEN "lost" ELSE fate[q][k]]]
    BY <1>3 DEF StartServe
  <2>. QED  BY <1>3, <2>1, <2>2, QueueLost DEF StartServe
<1>4. CASE Crash
  <2>1. \A q \in Reloads : pc'[q] \in Idle /\ (pc'[q] = pc[q] \/ pc'[q] = "crashed")
    BY <1>4 DEF Crash, InFlight, Idle
  <2>2. fate' = [q \in Reloads |-> [k \in Recipes |->
                   IF fate[q][k] \in {"queued"} \cup {"taken"} THEN "lost" ELSE fate[q][k]]]
    BY <1>4 DEF Crash
  <2>. QED  BY <1>4, <2>1, <2>2, QueueLost DEF Crash, agentVars
<1>5. CASE UNCHANGED vars \/ \E x \in Releases : ProviderRelease(x)
  <2>1. UNCHANGED <<pc, fate, queue, item, next, throwing, rel, phase>>
    BY <1>5 DEF vars, ProviderRelease, agentVars
  <2>2. ItemInOnePlace'
    BY <2>1, NoItemMoves DEF ItemInv
  <2>3. RunIsOver'
    BY <2>1 DEF ItemInv, RunIsOver, FateOf
  <2>4. ASSUME NEW q \in Reloads PROVE QueuedSoFarAt(q)'
    BY <2>1, SameClass DEF ItemInv, Fresh, AllQueued, RecipeList
  <2>. QED  BY <2>2, <2>3, <2>4 DEF ItemInv, QueuedSoFar
<1>. QED  BY <1>2, <1>3, <1>4, <1>5 DEF Next

LEMMA ItemsSafe == Spec => []ItemInv
BY TypeInvInit, TypeInvNext, ItemInvInit, ItemInvNext, PTL DEF Spec

(* However many reloads share the queue and whatever fails, no item is run *)
(* twice or forgotten while the process lives.                             *)
THEOREM ItemsInOnePlace == Spec => []ItemInOnePlace
<1>1. ItemInv => ItemInOnePlace
  BY DEF ItemInv
<1>. QED  BY <1>1, ItemsSafe, PTL

(* A reload that gets to recording its release has none of its recipes     *)
(* waiting in the queue.                                                   *)
THEOREM NoneLeftBehind == Spec => []NothingLeftBehind
<1>1. ItemInv => NothingLeftBehind
  <2>. SUFFICES ASSUME ItemInv, NEW r \in Reloads, pc[r] \in Recording,
                       NEW n \in 1 .. Len(RecipeList(r))
                PROVE  fate[r][RecipeList(r)[n]] \notin {"none", "queued"}
    BY DEF NothingLeftBehind
  <2>1. AllQueued(r) /\ QueuedSoFarAt(r)
    BY DEF ItemInv, QueuedSoFar, AllQueued, Drained, Recording
  <2>. QED  BY <2>1 DEF QueuedSoFarAt
<1>. QED  BY <1>1, ItemsSafe, PTL

-----------------------------------------------------------------------------
(* What the provider is told of a host, and what a recorded release means. *)
(* The proofs rest on the above: an item is in one place, and its fate,    *)
(* once it ran, is for good.                                               *)

(* The logs of an item are sent when its run is over and whoever ran it    *)
(* lets go of it, under the exception that is waiting then.                *)
Held(i) == \E r \in Reloads : item[r] = i

ThrowingAt(r) ==
  /\ throwing[r] => pc[r] \in {"itemLogs", "initLogs", "crashed"}
  /\ pc[r] = "itemLogs" => (throwing[r] <=> FateOf(item[r]) = "failed")

SentAt(i) ==
  /\ FateOf(i) \notin {"ok", "failed"} => StatusesUploaded(i) = {}
  /\ FateOf(i) = "ok" /\ ~Held(i) => StatusesUploaded(i) = {"success"}
  /\ FateOf(i) = "failed" /\ ~Held(i) => StatusesUploaded(i) = {"failure"}

LogsInv ==
  /\ \A r \in Reloads : ThrowingAt(r)
  /\ \A i \in Items : SentAt(i)
  /\ \A r \in Reloads : pc[r] \in Holding => StatusesUploaded(item[r]) = {}

(* Behind a status that is not final there is a reload that still has to   *)
(* report: the one that queued the recipe, the one that holds it, or the   *)
(* one that is initialising.                                               *)
Undisturbed ==
  \A r \in Reloads : pc[r] # "crashed" /\ \A k \in Recipes : fate[r][k] # "lost"

Owed(r, k) ==
  \/ pc[r] = "pushing" /\ NextItem(r)[2] = k
  \/ fate[r][k] \in {"queued", "taken"}
  \/ \E q \in Reloads : pc[q] \in {"itemOk", "itemFailed"} /\ item[q] = <<r, k>>

Initialising == {"config", "queueing", "pushing", "initOk", "initFailed"}

OwedInv ==
  Undisturbed => \A x \in Releases :
    /\ \A k \in Recipes : reports[x][k] \in {"pending", "running"} =>
         \E r \in Reloads : rel[r] = x /\ Owed(r, k)
    /\ reports[x][InitKey] \in {"pending", "running"} =>
         \E r \in Reloads : rel[r] = x /\ pc[r] \in Initialising

(* Each item that failed, or was dropped although it was not waiting in    *)
(* the queue, has a reload of its own that it ended.                       *)
Gone == {"failed", "crashed"}
Bad == {i \in Items : FateOf(i) = "failed" \/ (FateOf(i) = "lost" /\ pc[i[1]] \notin Gone)}

Blames(f) ==
  /\ f \in [Bad -> Reloads]
  /\ \A i \in Bad : Failing(f[i])
  /\ \A i, j \in Bad : f[i] = f[j] => i = j

Begun == {r \in Reloads : pc[r] # "new"}

OwnRecipes ==
  \A r \in Reloads, k \in Recipes : fate[r][k] # "none" =>
    /\ pc[r] # "unchanged"
    /\ \E n \in 1 .. Len(RecipeList(r)) : RecipeList(r)[n] = k

BlameInv ==
  /\ \E f \in [Bad -> Reloads] : Blames(f)
  /\ OwnRecipes
  /\ IsFiniteSet(Begun)

-----------------------------------------------------------------------------
(* What a step may do.                                                     *)

(* A step of a reload leaves the others where they are.                    *)
LEMMA OthersStay ==
  ASSUME TypeInv, NEW r \in Reloads, Request(r) \/ Step(r)
  PROVE  /\ \A q \in Reloads : q # r =>
              /\ pc'[q] = pc[q] /\ item'[q] = item[q] /\ throwing'[q] = throwing[q]
              /\ rel'[q] = rel[q] /\ phase'[q] = phase[q] /\ next'[q] = next[q]
         /\ pc[r] # "asking" => rel'[r] = rel[r]
         /\ pc[r] # "new" => phase'[r] = phase[r]
         /\ pc[r] \notin {"unchanged", "done", "failed", "crashed"}
         /\ pc'[r] \notin {"new", "crashed"}
<1>. USE DEF Step, Goto, agentVars, TypeInv, TypeOK
<1>1. CASE Request(r) \/ ReadDb(r) \/ AskRelease(r) \/ ReportInit(r) \/ FetchConfig(r)
  BY <1>1 DEF Request, ReadDb, AskRelease, ReportInit, FetchConfig
<1>2. CASE QueueRecipe(r) \/ ReportInitEnd(r) \/ UploadInitLogs(r)
  BY <1>2 DEF QueueRecipe, ReportInitEnd, UploadInitLogs, AfterPush
<1>3. CASE Take(r) \/ StartItem(r) \/ RunItem(r)
  BY <1>3 DEF Take, StartItem, RunItem
<1>4. CASE ReportItemEnd(r) \/ UploadItemLogs(r) \/ OpenDb(r) \/ WriteDb(r)
  BY <1>4 DEF ReportItemEnd, UploadItemLogs, OpenDb, WriteDb
<1>. QED  BY <1>1, <1>2, <1>3, <1>4

Pushed(r, i) ==
  /\ QueueRecipe(r) /\ pc[r] = "pushing" /\ i = NextItem(r)
  /\ FateOf(i) = "none" /\ FateOf(i)' = "queued"
Taken(r, i) ==
  /\ Take(r) /\ pc[r] = "draining" /\ pc'[r] = "starting" /\ item'[r] = i
  /\ FateOf(i) = "queued" /\ FateOf(i)' = "taken"
Settled(r, i) ==
  /\ StartItem(r) \/ RunItem(r)
  /\ pc[r] \in Taking /\ item[r] = i /\ FateOf(i) = "taken"
  /\ \/ FateOf(i)' = "ok" /\ pc'[r] = "itemOk" /\ item'[r] = i
     \/ FateOf(i)' = "failed" /\ pc'[r] = "itemFailed" /\ item'[r] = i
     \/ FateOf(i)' = "lost" /\ pc'[r] = "failed" /\ item'[r] = NoItem

(* The fate of an item goes one way.                                       *)
LEMMA FateStep ==
  ASSUME TypeInv, ItemInv, NEW r \in Reloads, Request(r) \/ Step(r),
         NEW i \in Items, FateOf(i)' # FateOf(i)
  PROVE  Pushed(r, i) \/ Taken(r, i) \/ Settled(r, i)
<1>1. CASE QueueRecipe(r) /\ pc[r] = "pushing"
  <2>1. PICK j \in Items : j = NextItem(r) /\ j[1] = r /\ j[2] = RecipeList(r)[next[r]]
    BY <1>1, NextItemType DEF Queueing, NextItem
  <2>2. SetFate(j, "queued")
    BY <1>1, <2>1 DEF QueueRecipe
  <2>3. FateOf(j)' = "queued" /\ (j # i => FateOf(i)' = FateOf(i))
    BY <2>2, FateFacts, FateType DEF TypeInv, FateOf
  <2>4. next[r] \in 1 .. Len(RecipeList(r)) /\ next[r] \in Nat
    BY <1>1 DEF TypeInv, TypeOK, Located, LocatedAt, Queueing
  <2>5. FateOf(j) = "none"
    BY <1>1, <2>1, <2>4 DEF ItemInv, QueuedSoFar, QueuedSoFarAt, Queueing, FateOf
  <2>. QED  BY <1>1, <2>1, <2>3, <2>5 DEF Pushed
<1>2. CASE Take(r) /\ queue # << >>
  <2>1. PICK j \in Items : j = Head(queue)
    BY <1>2 DEF TypeInv, TypeOK
  <2>2. /\ SetFate(j, "taken") /\ pc[r] = "draining" /\ pc'[r] = "starting" /\ item'[r] = j
    BY <1>2, <2>1 DEF Take, Goto, TypeInv, TypeOK
  <2>3. FateOf(j)' = "taken" /\ (j # i => FateOf(i)' = FateOf(i))
    BY <2>2, FateFacts, FateType DEF TypeInv, FateOf
  <2>4. FateOf(j) = "queued"
    <3>1. 1 \in 1 .. Len(queue) /\ queue[1] = j
      BY <1>2, <2>1 DEF TypeInv, TypeOK
    <3>. QED  BY <3>1 DEF ItemInv, ItemInOnePlace, QueuedIsInQueue
  <2>. QED  BY <1>2, <2>2, <2>3, <2>4 DEF Taken
<1>3. CASE RunItem(r) \/ (StartItem(r) /\ pc'[r] # "running")
  <2>1. PICK j \in Items : j = item[r]
    BY <1>3 DEF StartItem, RunItem, TypeInv, Located, LocatedAt, Holding
  <2>2. pc[r] \in Taking
    BY <1>3 DEF StartItem, RunItem, Taking
  <2>3. PICK f \in {"ok", "failed", "lost"} :
          /\ SetFate(j, f)
          /\ \/ f = "ok" /\ pc'[r] = "itemOk" /\ item'[r] = j
             \/ f = "failed" /\ pc'[r] = "itemFailed" /\ item'[r] = j
             \/ f = "lost" /\ pc'[r] = "failed" /\ item'[r] = NoItem
    <3>1. CASE StartItem(r) /\ pc'[r] # "running"
      BY <2>1, <3>1 DEF StartItem, Goto, TypeInv, TypeOK
    <3>2. CASE RunItem(r)
      BY <2>1, <3>2 DEF RunItem, Goto, TypeInv, TypeOK
    <3>. QED  BY <1>3, <3>1, <3>2
  <2>4. f \in Fate
    BY DEF Fate
  <2>5. FateOf(j)' = f /\ (j # i => FateOf(i)' = FateOf(i))
    BY <2>3, <2>4, FateType DEF TypeInv, FateOf
  <2>6. FateOf(j) = "taken"
    BY <2>1, <2>2 DEF ItemInv, ItemInOnePlace, TakenIsHeld
  <2>. QED  BY <1>3, <2>1, <2>2, <2>3, <2>5, <2>6 DEF Settled
<1>4. CASE StillAction(r)
  <2>1. UNCHANGED fate
    BY <1>4 DEF StillAction, Request, ReadDb, AskRelease, ReportInit, FetchConfig,
       ReportInitEnd, UploadInitLogs, ReportItemEnd, OpenDb, WriteDb, StartItem, QueueRecipe,
       Take, Goto, TypeInv, TypeOK
  <2>. QED  BY <2>1 DEF FateOf
<1>5. CASE UploadItemLogs(r)
  BY <1>5 DEF UploadItemLogs, FateOf
<1>6. CASE QueueRecipe(r)
  BY <1>1, <1>4, <1>6 DEF QueueRecipe, StillAction
<1>. QED  BY <1>1, <1>2, <1>3, <1>4, <1>5, <1>6 DEF Step, StillAction

(* The process goes: what was queued or taken is lost, nothing else moves. *)
LEMMA ProcessEnds ==
  ASSUME TypeInv, ItemInv, StartServe \/ Crash
  PROVE  /\ UNCHANGED <<rel, phase, next, item, throwing, reports, uploads, db>>
         /\ \A q \in Reloads : pc'[q] = IF q \in InFlight THEN "crashed" ELSE pc[q]
         /\ \A i \in Items : FateOf(i)' # FateOf(i) =>
              /\ FateOf(i)' = "lost"
              /\ \/ FateOf(i) = "queued"
                 \/ FateOf(i) = "taken" /\ \E q \in InFlight : pc[q] \in Taking /\ item[q] = i
<1>1. CASE StartServe
  <2>1. \A i \in Items : FateOf(i)' = IF FateOf(i) = "queued" THEN "lost" ELSE FateOf(i)
    BY <1>1 DEF StartServe, FateOf, Items
  <2>. QED  BY <1>1, <2>1 DEF StartServe
<1>2. CASE Crash
  <2>1. \A i \in Items : FateOf(i)' = IF FateOf(i) \in {"queued", "taken"} THEN "lost" ELSE FateOf(i)
    BY <1>2 DEF Crash, FateOf, Items
  <2>2. ASSUME NEW i \in Items, FateOf(i) = "taken"
        PROVE  \E q \in InFlight : pc[q] \in Taking /\ item[q] = i
    BY <2>2 DEF ItemInv, ItemInOnePlace, TakenIsHeld, InFlight, Idle, Taking
  <2>. QED  BY <1>2, <2>1, <2>2 DEF Crash, agentVars
<1>. QED  BY <1>1, <1>2

(* A run that is over stays so, and the release it was for is known.       *)
LEMMA OutcomeStays ==
  ASSUME TypeInv, ItemInv, [Next]_vars, NEW q \in Reloads, NEW k \in Recipes,
         fate[q][k] \in {"ok", "failed"}
  PROVE  fate'[q][k] = fate[q][k] /\ rel'[q] = rel[q]
<1>1. PICK i \in Items : i = <<q, k>>
  BY DEF Items
<1>2. FateOf(i) = fate[q][k] /\ FateOf(i)' = fate'[q][k]
  BY <1>1 DEF FateOf
<1>3. pc[q] # "asking"
  BY DEF ItemInv, QueuedSoFar, QueuedSoFarAt, Fresh, Loading
<1>4. ASSUME NEW r \in Reloads, Request(r) \/ Step(r)
      PROVE  fate'[q][k] = fate[q][k] /\ rel'[q] = rel[q]
  <2>1. rel'[q] = rel[q]
    BY <1>3, <1>4, OthersStay
  <2>2. FateOf(i)' = FateOf(i)
    BY <1>2, <1>4, FateStep DEF Pushed, Taken, Settled
  <2>. QED  BY <1>2, <2>1, <2>2
<1>5. CASE StartServe \/ Crash
  BY <1>2, <1>5, ProcessEnds
<1>6. CASE UNCHANGED vars \/ \E x \in Releases : ProviderRelease(x)
  BY <1>6 DEF vars, ProviderRelease, agentVars
<1>. QED  BY <1>4, <1>5, <1>6 DEF Next

-----------------------------------------------------------------------------
(* What the provider is told, by whom.                                     *)
LEMMA ReportChange ==
  ASSUME TypeInv, NEW x \in Releases, NEW k \in Keys, NEW y, NEW m, NEW s,
         Report(y, m, s), reports'[x][k] # reports[x][k]
  PROVE  x = y /\ k = m /\ reports'[x][k] = s
BY DEF Report, TypeInv, TypeOK

Tells(r, x, k, s) ==
  \/ ReportInit(r) /\ pc'[r] = "config" /\ x = rel[r] /\ k = InitKey /\ s = "running"
  \/ /\ QueueRecipe(r) /\ pc[r] = "queueing" /\ pc'[r] = "pushing"
     /\ x = rel[r] /\ k = NextItem(r)[2] /\ s = "pending"
  \/ ReportInitEnd(r) /\ x = rel[r] /\ k = InitKey /\ s \in {"success", "failure"}
  \/ /\ StartItem(r) /\ pc'[r] = "running" /\ item[r] \in Items
     /\ x = ItemRelease(item[r]) /\ k = item[r][2] /\ s = "running"
  \/ /\ ReportItemEnd(r) /\ item[r] \in Items /\ pc'[r] = "itemLogs"
     /\ x = ItemRelease(item[r]) /\ k = item[r][2]
     /\ \/ pc[r] = "itemOk" /\ s = "success"
        \/ pc[r] = "itemFailed" /\ s = "failure"

LEMMA ReportStep ==
  ASSUME TypeInv, [Next]_vars, NEW x \in Releases, NEW k \in Keys,
         reports'[x][k] # reports[x][k]
  PROVE  \E r \in Reloads : Step(r) /\ Tells(r, x, k, reports'[x][k])
<1>1. PICK r \in Reloads : Step(r)
  BY DEF Next, vars, Request, StartServe, Crash, ProviderRelease
<1>. DEFINE s == reports'[x][k]
<1>. HIDE DEF s
<1>2. reports' # reports
  OBVIOUS
<1>3. CASE ReportInit(r)
  <2>1. Report(rel[r], InitKey, "running") /\ pc'[r] = "config"
    BY <1>2, <1>3 DEF ReportInit, Goto, TypeInv, TypeOK
  <2>. QED  BY <1>1, <1>3, <2>1, ReportChange DEF Tells
<1>4. CASE QueueRecipe(r)
  <2>1. /\ Report(rel[r], NextItem(r)[2], "pending")
        /\ pc[r] = "queueing" /\ pc'[r] = "pushing"
    BY <1>2, <1>4 DEF QueueRecipe, Goto, TypeInv, TypeOK
  <2>. QED  BY <1>1, <1>4, <2>1, ReportChange DEF Tells
<1>5. CASE ReportInitEnd(r)
  <2>1. PICK v \in {"success", "failure"} : Report(rel[r], InitKey, v)
    BY <1>5 DEF ReportInitEnd
  <2>. QED  BY <1>1, <1>5, <2>1, ReportChange DEF Tells
<1>6. CASE StartItem(r)
  <2>1. /\ Report(ItemRelease(item[r]), item[r][2], "running") /\ pc'[r] = "running"
        /\ item[r] \in Items
    BY <1>2, <1>6 DEF StartItem, Goto, TypeInv, TypeOK, Located, LocatedAt, Holding
  <2>. QED  BY <1>1, <1>6, <2>1, ReportChange DEF Tells
<1>7. CASE ReportItemEnd(r)
  <2>1. item[r] \in Items /\ pc'[r] = "itemLogs"
    BY <1>7 DEF ReportItemEnd, Goto, TypeInv, TypeOK, Located, LocatedAt, Holding
  <2>2. \/ pc[r] = "itemOk" /\ Report(ItemRelease(item[r]), item[r][2], "success")
        \/ pc[r] = "itemFailed" /\ Report(ItemRelease(item[r]), item[r][2], "failure")
    BY <1>7 DEF ReportItemEnd
  <2>. QED  BY <1>1, <1>7, <2>1, <2>2, ReportChange DEF Tells
<1>8. ReportInit(r) \/ QueueRecipe(r) \/ ReportInitEnd(r) \/ StartItem(r) \/ ReportItemEnd(r)
  BY <1>1, <1>2 DEF Step, ReadDb, AskRelease, FetchConfig, UploadInitLogs, Take, RunItem,
     UploadItemLogs, OpenDb, WriteDb
<1>. QED  BY <1>3, <1>4, <1>5, <1>6, <1>7, <1>8

(* A recipe's outcome is reported under the release it was queued for.     *)
LEMMA ReportedOutcomeNext ==
  ASSUME TypeInv, ItemInv, ReportedOutcome, [Next]_vars
  PROVE  ReportedOutcome'
<1>1. ASSUME NEW x \in Releases, NEW k \in Recipes, NEW s, NEW f,
             \/ s = "success" /\ f = "ok"
             \/ s = "failure" /\ f = "failed",
             reports'[x][k] = s
      PROVE  \E r \in Reloads : rel'[r] = x /\ fate'[r][k] = f
  <2>1. CASE reports'[x][k] = reports[x][k]
    <3>1. PICK r \in Reloads : rel[r] = x /\ fate[r][k] = f
      BY <1>1, <2>1 DEF ReportedOutcome
    <3>. QED  BY <1>1, <3>1, OutcomeStays
  <2>2. CASE reports'[x][k] # reports[x][k]
    <3>1. k \in Keys /\ k # InitKey
      BY Constants DEF Keys
    <3>2. PICK r \in Reloads : Tells(r, x, k, s)
      BY <1>1, <2>2, <3>1, ReportStep
    <3>3. /\ item[r] \in Items /\ x = ItemRelease(item[r]) /\ k = item[r][2]
          /\ FateOf(item[r]) = f
      BY <1>1, <3>1, <3>2 DEF Tells, ItemInv, RunIsOver
    <3>4. item[r][1] \in Reloads /\ rel[item[r][1]] = x /\ fate[item[r][1]][k] = f
      BY <3>3 DEF ItemRelease, FateOf, Items
    <3>. QED  BY <1>1, <3>4, OutcomeStays
  <2>. QED  BY <2>1, <2>2
<1>. QED  BY <1>1 DEF ReportedOutcome

(* What the provider shows as the outcome of a recipe of a release is what *)
(* became of it, whichever reload ran it and whatever failed.              *)
THEOREM OutcomesAreTrue == Spec => []ReportedOutcome
<1>1. Init => ReportedOutcome
  BY DEF Init, ReportedOutcome, Keys
<1>. QED
  BY <1>1, ReportedOutcomeNext, TypeInvInit, TypeInvNext, ItemInvInit, ItemInvNext, PTL DEF Spec

-----------------------------------------------------------------------------
(* The logs.                                                               *)
LEMMA UploadStep ==
  ASSUME TypeInv, NEW r \in Reloads, Request(r) \/ Step(r), NEW i \in Items
  PROVE  StatusesUploaded(i)' = StatusesUploaded(i)
           \cup IF UploadItemLogs(r) /\ item[r] = i THEN {LastStatus(r)} ELSE {}
<1>1. LastStatus(r) \in Outcome
  BY StatusFacts DEF LastStatus
<1>2. CASE UploadItemLogs(r)
  <2>1. uploads' = uploads \cup {<<item[r], LastStatus(r)>>}
    BY <1>2 DEF UploadItemLogs
  <2>. QED  BY <1>1, <1>2, <2>1 DEF StatusesUploaded
<1>3. CASE UploadInitLogs(r)
  <2>1. uploads' = uploads \cup {<<<<r, InitKey>>, LastStatus(r)>>}
    BY <1>3 DEF UploadInitLogs
  <2>2. i # <<r, InitKey>>
    BY Constants DEF Items
  <2>3. ~UploadItemLogs(r)
    BY <1>3 DEF UploadInitLogs, UploadItemLogs
  <2>. QED  BY <2>1, <2>2, <2>3 DEF StatusesUploaded
<1>4. CASE ~UploadItemLogs(r) /\ ~UploadInitLogs(r)
  <2>1. uploads' = uploads
    BY <1>4 DEF Step, Request, ReadDb, AskRelease, ReportInit, FetchConfig, QueueRecipe,
       ReportInitEnd, Take, StartItem, RunItem, ReportItemEnd, OpenDb, WriteDb
  <2>. QED  BY <1>4, <2>1 DEF StatusesUploaded
<1>. QED  BY <1>2, <1>3, <1>4

(* How a reload comes to hold an item, and to let go of it.                *)
LEMMA HoldStep ==
  ASSUME TypeInv, NEW r \in Reloads, Request(r) \/ Step(r)
  PROVE  /\ pc'[r] \in Holding => \/ pc[r] \in Holding /\ item'[r] = item[r]
                                  \/ Take(r) /\ pc'[r] = "starting"
         /\ item'[r] # item[r] => \/ UploadItemLogs(r)
                                  \/ Take(r) /\ item[r] = NoItem
                                  \/ StartItem(r) /\ pc'[r] = "failed" /\ item[r] \in Items
                                     /\ SetFate(item[r], "lost")
<1>. USE DEF Goto, TypeInv, TypeOK
<1>1. CASE Request(r) \/ ReadDb(r) \/ AskRelease(r) \/ ReportInit(r) \/ FetchConfig(r)
  BY <1>1 DEF Request, ReadDb, AskRelease, ReportInit, FetchConfig, Holding, agentVars
<1>2. CASE QueueRecipe(r) \/ ReportInitEnd(r) \/ UploadInitLogs(r)
  BY <1>2 DEF QueueRecipe, ReportInitEnd, UploadInitLogs, AfterPush, Holding
<1>3. CASE Take(r)
  <2>1. item[r] = NoItem
    BY <1>3 DEF Take, Located, LocatedAt, Holding
  <2>. QED  BY <1>3, <2>1 DEF Take, Holding
<1>4. CASE StartItem(r)
  BY <1>4 DEF StartItem, Holding, Located, LocatedAt
<1>5. CASE RunItem(r) \/ ReportItemEnd(r)
  BY <1>5 DEF RunItem, ReportItemEnd, Holding
<1>6. CASE UploadItemLogs(r) \/ OpenDb(r) \/ WriteDb(r)
  BY <1>6 DEF UploadItemLogs, OpenDb, WriteDb, Holding
<1>. QED  BY <1>1, <1>2, <1>3, <1>4, <1>5, <1>6 DEF Step

LEMMA ThrowingStep ==
  ASSUME TypeInv, ItemInv, [Next]_vars, NEW r \in Reloads, Request(r) \/ Step(r),
         ThrowingAt(r)
  PROVE  ThrowingAt(r)'
<1>. USE DEF Goto, TypeInv, TypeOK, agentVars
<1>1. CASE ReportItemEnd(r)
  <2>1. /\ item[r] \in Items /\ ~throwing[r] /\ UNCHANGED <<item, fate>> /\ pc'[r] = "itemLogs"
        /\ \/ pc[r] = "itemOk" /\ throwing'[r] = throwing[r]
           \/ pc[r] = "itemFailed" /\ throwing'[r] = TRUE
    BY <1>1 DEF ReportItemEnd, ThrowingAt, Located, LocatedAt, Holding
  <2>2. FateOf(item[r]) = IF pc[r] = "itemOk" THEN "ok" ELSE "failed"
    BY <2>1 DEF ItemInv, RunIsOver
  <2>. QED  BY <2>1, <2>2 DEF ThrowingAt, FateOf
<1>2. CASE Request(r) \/ ReadDb(r) \/ AskRelease(r) \/ ReportInit(r) \/ FetchConfig(r)
  BY <1>2 DEF Request, ReadDb, AskRelease, ReportInit, FetchConfig, ThrowingAt
<1>3. CASE QueueRecipe(r) \/ ReportInitEnd(r) \/ UploadInitLogs(r)
  BY <1>3 DEF QueueRecipe, ReportInitEnd, UploadInitLogs, AfterPush, ThrowingAt
<1>4. CASE Take(r) \/ StartItem(r) \/ RunItem(r)
  BY <1>4 DEF Take, StartItem, RunItem, ThrowingAt
<1>5. CASE UploadItemLogs(r) \/ OpenDb(r) \/ WriteDb(r)
  BY <1>5 DEF UploadItemLogs, OpenDb, WriteDb, ThrowingAt
<1>. QED  BY <1>1, <1>2, <1>3, <1>4, <1>5 DEF Step

LEMMA LogsInvNext ==
  ASSUME TypeInv, ItemInv, LogsInv, [Next]_vars
  PROVE  LogsInv'
<1>0. ASSUME NEW q \in Reloads, pc[q] = "itemLogs", item'[q] = item[q]
      PROVE  FateOf(item[q])' = FateOf(item[q])
  <2>1. PICK j \in Items : j = item[q] /\ FateOf(j) \in {"ok", "failed"}
    BY <1>0 DEF ItemInv, RunIsOver, TypeInv, Located, LocatedAt, Holding
  <2>2. FateOf(j)' = FateOf(j)
    BY <2>1, OutcomeStays DEF FateOf, Items
  <2>. QED  BY <1>0, <2>1, <2>2 DEF FateOf
<1>1. ASSUME NEW r \in Reloads, Request(r) \/ Step(r)
      PROVE  LogsInv'
  <2>1. ASSUME NEW q \in Reloads PROVE ThrowingAt(q)'
    <3>1. CASE q = r
      BY <1>1, <3>1, ThrowingStep DEF LogsInv
    <3>2. CASE q # r
      <4>1. pc'[q] = pc[q] /\ item'[q] = item[q] /\ throwing'[q] = throwing[q]
        BY <1>1, <3>2, OthersStay
      <4>. QED  BY <1>0, <4>1 DEF LogsInv, ThrowingAt, FateOf
    <3>. QED  BY <3>1, <3>2
  <2>2. ASSUME UploadItemLogs(r), NEW j, j = item[r]
        PROVE  /\ j \in Items /\ UNCHANGED fate /\ pc[r] = "itemLogs"
               /\ item' = [item EXCEPT ![r] = NoItem]
               /\ StatusesUploaded(j)' = {LastStatus(r)}
               /\ FateOf(j) = IF throwing[r] THEN "failed" ELSE "ok"
    <3>1. /\ j \in Items /\ UNCHANGED fate /\ pc[r] = "itemLogs" /\ pc[r] \in Holding
          /\ item' = [item EXCEPT ![r] = NoItem]
      BY <2>2 DEF UploadItemLogs, TypeInv, Located, LocatedAt, Holding
    <3>2. StatusesUploaded(j)' = StatusesUploaded(j) \cup {LastStatus(r)}
      BY <1>1, <2>2, <3>1, UploadStep
    <3>3. FateOf(j) = IF throwing[r] THEN "failed" ELSE "ok"
      BY <2>2, <3>1 DEF LogsInv, ThrowingAt, ItemInv, RunIsOver
    <3>. QED  BY <2>2, <3>1, <3>2, <3>3 DEF LogsInv
  <2>3. ASSUME NEW i \in Items PROVE SentAt(i)'
    <3>1. CASE UploadItemLogs(r) /\ item[r] = i
      <4>1. /\ StatusesUploaded(i)' = {LastStatus(r)}
            /\ FateOf(i)' = IF throwing[r] THEN "failed" ELSE "ok"
        BY <2>2, <3>1 DEF FateOf
      <4>. QED  BY <4>1 DEF SentAt, LastStatus
    <3>2. CASE ~(UploadItemLogs(r) /\ item[r] = i)
      <4>1. StatusesUploaded(i)' = StatusesUploaded(i)
        BY <1>1, <3>2, UploadStep
      <4>2. CASE FateOf(i)' # FateOf(i)
        <5>1. FateOf(i) \notin {"ok", "failed"} /\ (FateOf(i)' \in {"ok", "failed"} => item'[r] = i)
          BY <1>1, <4>2, FateStep DEF Pushed, Taken, Settled
        <5>. QED  BY <4>1, <5>1 DEF LogsInv, SentAt, Held
      <4>3. CASE FateOf(i)' = FateOf(i)
        <5>1. FateOf(i) \in {"ok", "failed"} /\ Held(i) => Held(i)'
          <6>. SUFFICES ASSUME FateOf(i) \in {"ok", "failed"}, NEW q \in Reloads, item[q] = i
                        PROVE  item'[q] = i
            BY DEF Held
          <6>1. q # r => item'[q] = item[q]
            BY <1>1, OthersStay
          <6>2. CASE q = r /\ item'[r] # item[r]
            <7>1. StartItem(r) /\ SetFate(i, "lost")
              BY <1>1, <3>2, <6>2, HoldStep, Constants
            <7>2. FateOf(i)' = "lost"
              BY <7>1, FateFacts, FateType DEF TypeInv, FateOf
            <7>. QED  BY <4>3, <7>2
          <6>. QED  BY <6>1, <6>2
        <5>. QED  BY <4>1, <4>3, <5>1 DEF LogsInv, SentAt
      <4>. QED  BY <4>2, <4>3
    <3>. QED  BY <3>1, <3>2
  <2>4. ASSUME NEW q \in Reloads, pc'[q] \in Holding
        PROVE  StatusesUploaded(item[q])' = {}
    <3>1. CASE q # r \/ (q = r /\ pc[r] \in Holding /\ item'[r] = item[r])
      <4>1. pc[q] \in Holding /\ item'[q] = item[q]
        BY <1>1, <2>4, <3>1, OthersStay
      <4>2. PICK j \in Items : j = item[q] /\ j # NoItem /\ q \in InFlight
        BY <4>1, Constants DEF TypeInv, Located, LocatedAt, InFlight, Holding, Idle
      <4>3. ~(UploadItemLogs(r) /\ item[r] = j)
        <5>1. CASE UploadItemLogs(r)
          <6>1. r \in InFlight /\ item'[r] = NoItem
            BY <2>2, <5>1 DEF InFlight, Idle, TypeInv, TypeOK
          <6>. QED  BY <4>1, <4>2, <6>1 DEF ItemInv, ItemInOnePlace, HeldByOne
        <5>. QED  BY <5>1
      <4>4. StatusesUploaded(j)' = StatusesUploaded(j) /\ StatusesUploaded(j) = {}
        BY <1>1, <4>1, <4>2, <4>3, UploadStep DEF LogsInv
      <4>. QED  BY <4>1, <4>2, <4>4 DEF StatusesUploaded
    <3>2. CASE q = r /\ ~(pc[r] \in Holding /\ item'[r] = item[r])
      <4>1. Take(r) /\ pc'[r] = "starting"
        BY <1>1, <2>4, <3>2, HoldStep DEF Taken
      <4>2. queue # << >> /\ item'[r] = Head(queue)
        BY <4>1 DEF Take, Goto, TypeInv, TypeOK
      <4>3. PICK i \in Items : i = Head(queue)
        BY <4>2 DEF TypeInv, TypeOK
      <4>4. FateOf(i) = "queued"
        <5>1. 1 \in 1 .. Len(queue) /\ queue[1] = i
          BY <4>2, <4>3 DEF TypeInv, TypeOK
        <5>. QED  BY <5>1 DEF ItemInv, ItemInOnePlace, QueuedIsInQueue
      <4>5. ~UploadItemLogs(r)
        BY <4>1 DEF Take, UploadItemLogs
      <4>6. StatusesUploaded(i)' = StatusesUploaded(i)
        BY <1>1, <4>5, UploadStep
      <4>7. StatusesUploaded(i)' = {}
        BY <4>4, <4>6 DEF LogsInv, SentAt
      <4>. QED  BY <3>2, <4>2, <4>3, <4>7 DEF StatusesUploaded
    <3>. QED  BY <1>1, <2>4, <3>1, <3>2
  <2>. QED  BY <2>1, <2>3, <2>4, Zenon DEF LogsInv
<1>2. CASE StartServe \/ Crash
  <2>1. /\ UNCHANGED <<item, throwing, uploads>>
        /\ \A q \in Reloads : pc'[q] = "crashed" \/ (pc'[q] = pc[q] /\ pc[q] \in Idle)
    BY <1>2, ProcessEnds DEF InFlight
  <2>2. \A i \in Items : StatusesUploaded(i)' = StatusesUploaded(i) /\ Held(i)' = Held(i)
    BY <2>1 DEF StatusesUploaded, Held
  <2>3. \A i \in Items : FateOf(i)' # FateOf(i) =>
          FateOf(i)' = "lost" /\ FateOf(i) \in {"queued", "taken"}
    BY <1>2, ProcessEnds
  <2>4. \A q \in Reloads : ThrowingAt(q)' /\ pc'[q] \notin Holding
    BY <2>1 DEF LogsInv, ThrowingAt, Idle, Holding
  <2>5. \A i \in Items : SentAt(i)'
    BY <2>2, <2>3 DEF LogsInv, SentAt
  <2>. QED  BY <2>4, <2>5 DEF LogsInv
<1>3. CASE UNCHANGED vars \/ \E x \in Releases : ProviderRelease(x)
  <2>1. UNCHANGED <<pc, fate, item, throwing, uploads>>
    BY <1>3 DEF vars, ProviderRelease, agentVars
  <2>. QED  BY <2>1 DEF LogsInv, ThrowingAt, SentAt, Held, FateOf, StatusesUploaded
<1>. QED  BY <1>1, <1>2, <1>3 DEF Next

(* The logs of a recipe are sent once, under the status its run ended with, *)
(* and before the reload that ran it goes on.                              *)
THEOREM LogsAreSent == Spec => []LogsFollowOutcome
<1>1. Init => LogsInv
  BY DEF Init, LogsInv, ThrowingAt, SentAt, StatusesUploaded, FateOf, Items, Holding
<1>2. LogsInv => LogsFollowOutcome
  BY DEF LogsInv, SentAt, Held, LogsFollowOutcome, FateOf
<1>. QED
  BY <1>1, <1>2, LogsInvNext, TypeInvInit, TypeInvNext, ItemInvInit, ItemInvNext, PTL DEF Spec

-----------------------------------------------------------------------------
(* A status that is not final, without calls that fail: `report' among the *)
(* faults is what would leave one behind.                                  *)
LEMMA StaysUndisturbed ==
  ASSUME TypeInv, ItemInv, [Next]_vars, Undisturbed'
  PROVE  /\ Undisturbed
         /\ StartServe \/ Crash => UNCHANGED <<pc, fate>>
<1>1. ASSUME NEW r \in Reloads, Request(r) \/ Step(r) PROVE Undisturbed
  <2>1. ASSUME NEW q \in Reloads PROVE pc[q] # "crashed"
    BY <1>1, OthersStay DEF Undisturbed
  <2>2. ASSUME NEW q \in Reloads, NEW k \in Recipes PROVE fate[q][k] # "lost"
    <3>1. PICK i \in Items : i = <<q, k>>
      BY DEF Items
    <3>2. FateOf(i) = fate[q][k] /\ FateOf(i)' = fate'[q][k]
      BY <3>1 DEF FateOf
    <3>3. FateOf(i) = "lost" => FateOf(i)' = FateOf(i)
      BY <1>1, FateStep DEF Pushed, Taken, Settled
    <3>. QED  BY <3>2, <3>3 DEF Undisturbed
  <2>. QED  BY <2>1, <2>2 DEF Undisturbed
<1>2. CASE StartServe \/ Crash
  <2>1. ASSUME NEW q \in Reloads PROVE q \notin InFlight /\ pc'[q] = pc[q]
    BY <1>2, ProcessEnds DEF Undisturbed
  <2>2. pc' = pc
    BY <1>2, <2>1 DEF StartServe, Crash, TypeInv, TypeOK
  <2>3. ASSUME NEW q \in Reloads, NEW k \in Recipes PROVE fate'[q][k] = fate[q][k]
    <3>1. PICK i \in Items : i = <<q, k>>
      BY DEF Items
    <3>2. FateOf(i) = fate[q][k] /\ FateOf(i)' = fate'[q][k]
      BY <3>1 DEF FateOf
    <3>. QED  BY <1>2, <3>2, ProcessEnds DEF Undisturbed
  <2>4. fate' \in [Reloads -> [Recipes -> Fate]] /\ fate \in [Reloads -> [Recipes -> Fate]]
    BY TypeInvNext DEF TypeInv, TypeOK
  <2>5. fate' = fate
    <3>1. \A q \in Reloads : fate'[q] = fate[q]
      BY <2>3, <2>4
    <3>. QED  BY <2>4, <3>1
  <2>. QED  BY <2>2, <2>5 DEF Undisturbed
<1>3. CASE UNCHANGED vars \/ \E x \in Releases : ProviderRelease(x)
  BY <1>3 DEF vars, ProviderRelease, Undisturbed, StartServe, Crash
<1>4. ~(StartServe \/ Crash) => Undisturbed
  BY <1>1, <1>3 DEF Next
<1>. QED  BY <1>2, <1>4

(* Whoever owes a report goes on owing it, or makes it.                    *)
LEMMA OwesOrTells ==
  ASSUME TypeInv, ItemInv, "report" \notin Faults, [Next]_vars, Undisturbed',
         NEW r \in Reloads, Request(r) \/ Step(r),
         NEW q \in Reloads, NEW k \in Recipes, Owed(q, k)
  PROVE  /\ rel'[q] = rel[q]
         /\ Owed(q, k)' \/ (rel[q] \in Releases => reports'[rel[q]][k] \in {"success", "failure"})
<1>1. PICK i \in Items : i = <<q, k>>
  BY DEF Items
<1>2. FateOf(i) = fate[q][k] /\ FateOf(i)' = fate'[q][k] /\ i[1] = q /\ i[2] = k
  BY <1>1 DEF FateOf
<1>3. FateOf(i)' # "lost"
  BY <1>2 DEF Undisturbed
<1>4. CASE pc[q] = "pushing" /\ NextItem(q)[2] = k
  <2>1. rel'[q] = rel[q]
    BY <1>4, OthersStay
  <2>2. CASE q = r
    <3>1. QueueRecipe(r) /\ NextItem(q) = i /\ i \in Items
      <4>1. NextItem(q) \in Items /\ NextItem(q)[1] = q
        BY <1>4, NextItemType DEF Queueing
      <4>2. NextItem(q) = i
        BY <1>1, <1>4, <4>1 DEF Items
      <4>. QED
        BY <1>4, <2>2, <4>2 DEF Step, Request, ReadDb, AskRelease, ReportInit, FetchConfig,
           ReportInitEnd, UploadInitLogs, Take, StartItem, RunItem, ReportItemEnd,
           UploadItemLogs, OpenDb, WriteDb
    <3>2. SetFate(i, "queued")
      BY <1>4, <2>2, <3>1 DEF QueueRecipe
    <3>3. FateOf(i)' = "queued"
      BY <3>2, FateFacts, FateType DEF TypeInv, FateOf
    <3>. QED  BY <1>2, <2>1, <3>3 DEF Owed
  <2>3. CASE q # r
    <3>1. pc'[q] = pc[q] /\ NextItem(q)' = NextItem(q)
      BY <2>3, OthersStay DEF NextItem, RecipeList
    <3>. QED  BY <1>4, <2>1, <3>1 DEF Owed
  <2>. QED  BY <2>2, <2>3
<1>5. CASE fate[q][k] \in {"queued", "taken"}
  <2>1. rel'[q] = rel[q]
    <3>1. pc[q] # "asking"
      BY <1>5 DEF ItemInv, QueuedSoFar, QueuedSoFarAt, Fresh, Loading
    <3>. QED  BY <3>1, OthersStay
  <2>2. CASE FateOf(i)' = FateOf(i)
    BY <1>2, <1>5, <2>1, <2>2 DEF Owed
  <2>3. CASE FateOf(i)' # FateOf(i)
    <3>1. Taken(r, i) \/ Settled(r, i)
      BY <1>2, <1>5, <2>3, FateStep DEF Pushed
    <3>2. FateOf(i)' = "taken" \/ (pc'[r] \in {"itemOk", "itemFailed"} /\ item'[r] = i)
      BY <1>3, <3>1 DEF Taken, Settled
    <3>. QED  BY <1>1, <1>2, <2>1, <3>2 DEF Owed
  <2>. QED  BY <2>2, <2>3
<1>6. ASSUME NEW p \in Reloads, pc[p] \in {"itemOk", "itemFailed"}, item[p] = i
      PROVE  /\ rel'[q] = rel[q]
             /\ Owed(q, k)' \/ (rel[q] \in Releases => reports'[rel[q]][k] \in {"success", "failure"})
  <2>1. FateOf(i) \in {"ok", "failed"}
    BY <1>6 DEF ItemInv, RunIsOver
  <2>2. rel'[q] = rel[q]
    BY <1>2, <2>1, OutcomeStays
  <2>3. CASE p = r
    <3>1. ReportItemEnd(r)
      BY <1>6, <2>3 DEF Step, Request, ReadDb, AskRelease, ReportInit, FetchConfig, QueueRecipe,
         ReportInitEnd, UploadInitLogs, Take, StartItem, RunItem, UploadItemLogs, OpenDb, WriteDb
    <3>2. PICK s \in {"success", "failure"} : Report(rel[q], k, s)
      BY <1>2, <1>6, <2>3, <3>1 DEF ReportItemEnd, ItemRelease
    <3>3. reports' = [reports EXCEPT ![rel[q]][k] = s]
      BY <3>2 DEF Report
    <3>4. rel[q] \in Releases => reports'[rel[q]][k] = s
      BY <3>3 DEF TypeInv, TypeOK, Keys
    <3>. QED  BY <2>2, <3>4
  <2>4. CASE p # r
    <3>1. pc'[p] = pc[p] /\ item'[p] = item[p]
      BY <2>4, OthersStay
    <3>. QED  BY <1>1, <1>6, <2>2, <3>1 DEF Owed
  <2>. QED  BY <2>3, <2>4
<1>. QED  BY <1>1, <1>4, <1>5, <1>6 DEF Owed

(* Likewise for the reload itself.                                         *)
LEMMA InitialisesOrTells ==
  ASSUME TypeInv, "report" \notin Faults,
         NEW r \in Reloads, Request(r) \/ Step(r),
         NEW q \in Reloads, pc[q] \in Initialising
  PROVE  /\ rel'[q] = rel[q]
         /\ pc'[q] \in Initialising \/ reports'[rel[q]][InitKey] \in {"success", "failure"}
<1>1. rel'[q] = rel[q]
  BY OthersStay DEF Initialising
<1>2. CASE q # r
  BY <1>1, <1>2, OthersStay
<1>3. CASE q = r
  <2>1. FetchConfig(r) \/ QueueRecipe(r) \/ ReportInitEnd(r)
    BY <1>3 DEF Initialising, Step, Request, ReadDb, AskRelease, ReportInit, UploadInitLogs,
       Take, StartItem, RunItem, ReportItemEnd, UploadItemLogs, OpenDb, WriteDb
  <2>2. CASE FetchConfig(r) \/ QueueRecipe(r)
    BY <1>1, <1>3, <2>2 DEF FetchConfig, QueueRecipe, AfterPush, Goto, Initialising, TypeInv, TypeOK
  <2>3. CASE ReportInitEnd(r)
    <3>1. PICK s \in {"success", "failure"} : Report(rel[r], InitKey, s)
      BY <2>3 DEF ReportInitEnd
    <3>2. reports' = [reports EXCEPT ![rel[r]][InitKey] = s] /\ rel[r] \in Releases
      BY <1>3, <3>1 DEF Report, Initialising, TypeInv, Located, LocatedAt, NotAsked
    <3>3. reports'[rel[r]][InitKey] = s
      BY <3>2 DEF TypeInv, TypeOK, Keys
    <3>. QED  BY <1>1, <1>3, <3>3
  <2>. QED  BY <2>1, <2>2, <2>3
<1>. QED  BY <1>2, <1>3

LEMMA OwedInvNext ==
  ASSUME TypeInv, ItemInv, OwedInv, "report" \notin Faults, [Next]_vars
  PROVE  OwedInv'
<1>. SUFFICES ASSUME Undisturbed', NEW x \in Releases
     PROVE  /\ \A k \in Recipes : reports'[x][k] \in {"pending", "running"} =>
                 \E q \in Reloads : rel'[q] = x /\ Owed(q, k)'
            /\ reports'[x][InitKey] \in {"pending", "running"} =>
                 \E q \in Reloads : rel'[q] = x /\ pc'[q] \in Initialising
  BY DEF OwedInv
<1>1. /\ Undisturbed
      /\ StartServe \/ Crash => UNCHANGED <<pc, fate>>
  BY StaysUndisturbed
<1>2. ASSUME NEW r \in Reloads, Request(r) \/ Step(r),
             NEW k \in Recipes, reports'[x][k] \in {"pending", "running"}
      PROVE  \E q \in Reloads : rel'[q] = x /\ Owed(q, k)'
  <2>0. k \in Keys /\ k # InitKey
    BY Constants DEF Keys
  <2>1. CASE reports'[x][k] = reports[x][k]
    <3>1. PICK q \in Reloads : rel[q] = x /\ Owed(q, k)
      BY <1>1, <1>2, <2>1 DEF OwedInv
    <3>. QED  BY <1>2, <3>1, OwesOrTells
  <2>2. CASE reports'[x][k] # reports[x][k]
    <3>1. PICK p \in Reloads : Step(p) /\ Tells(p, x, k, reports'[x][k])
      BY <2>0, <2>2, ReportStep
    <3>2. CASE /\ QueueRecipe(p) /\ pc[p] = "queueing" /\ pc'[p] = "pushing"
               /\ x = rel[p] /\ k = NextItem(p)[2]
      <4>1. UNCHANGED <<rel, phase, next>>
        BY <3>2 DEF QueueRecipe, agentVars
      <4>. QED  BY <3>2, <4>1 DEF Owed, NextItem, RecipeList
    <3>3. CASE /\ StartItem(p) /\ pc'[p] = "running" /\ item[p] \in Items
               /\ x = ItemRelease(item[p]) /\ k = item[p][2]
      <4>1. UNCHANGED <<rel, fate>>
        BY <3>3 DEF StartItem, Goto, TypeInv, TypeOK, agentVars
      <4>2. pc[p] \in Taking
        BY <3>3 DEF StartItem, Taking
      <4>3. FateOf(item[p]) = "taken"
        BY <3>3, <4>2 DEF ItemInv, ItemInOnePlace, TakenIsHeld
      <4>4. item[p][1] \in Reloads /\ rel[item[p][1]] = x /\ fate[item[p][1]][k] = "taken"
        BY <3>3, <4>3 DEF ItemRelease, FateOf, Items
      <4>. QED  BY <4>1, <4>4 DEF Owed
    <3>. QED  BY <1>2, <2>0, <3>1, <3>2, <3>3 DEF Tells
  <2>. QED  BY <2>1, <2>2
<1>3. ASSUME NEW r \in Reloads, Request(r) \/ Step(r),
             reports'[x][InitKey] \in {"pending", "running"}
      PROVE  \E q \in Reloads : rel'[q] = x /\ pc'[q] \in Initialising
  <2>0. InitKey \in Keys /\ InitKey \notin Recipes
    BY Constants DEF Keys
  <2>1. CASE reports'[x][InitKey] = reports[x][InitKey]
    <3>1. PICK q \in Reloads : rel[q] = x /\ pc[q] \in Initialising
      BY <1>1, <1>3, <2>1 DEF OwedInv
    <3>. QED  BY <1>3, <3>1, InitialisesOrTells
  <2>2. CASE reports'[x][InitKey] # reports[x][InitKey]
    <3>1. PICK p \in Reloads : Step(p) /\ Tells(p, x, InitKey, reports'[x][InitKey])
      BY <2>0, <2>2, ReportStep
    <3>2. ASSUME QueueRecipe(p), pc[p] = "queueing" PROVE NextItem(p)[2] # InitKey
      BY <2>0, <3>2, NextItemType DEF Queueing
    <3>3. item[p] \in Items => item[p][2] # InitKey
      BY <2>0 DEF Items
    <3>4. ReportInit(p) /\ pc'[p] = "config" /\ x = rel[p]
      BY <1>3, <3>1, <3>2, <3>3 DEF Tells
    <3>. QED  BY <3>4 DEF ReportInit, Initialising, agentVars
  <2>. QED  BY <2>1, <2>2
<1>4. CASE StartServe \/ Crash
  <2>1. UNCHANGED <<pc, fate, rel, phase, next, item, reports>>
    BY <1>1, <1>4, ProcessEnds
  <2>. QED  BY <1>1, <2>1 DEF OwedInv, Owed, NextItem, RecipeList
<1>5. CASE UNCHANGED vars \/ \E y \in Releases : ProviderRelease(y)
  <2>1. UNCHANGED <<pc, fate, rel, phase, next, item, reports>>
    BY <1>5 DEF vars, ProviderRelease, agentVars
  <2>. QED  BY <1>1, <2>1 DEF OwedInv, Owed, NextItem, RecipeList
<1>. QED  BY <1>2, <1>3, <1>4, <1>5 DEF Next

(* At rest nothing is owed, so no status is left that is not final, as     *)
(* long as no report is lost.                                              *)
THEOREM StatusesSettle ==
  ASSUME "report" \notin Faults
  PROVE  Spec => []StatusSettles
<1>1. Init => OwedInv
  BY DEF Init, OwedInv, Keys
<1>2. ItemInv /\ OwedInv => StatusSettles
  <2>. SUFFICES ASSUME ItemInv, OwedInv, InFlight = {}, queue = << >>, Undisturbed,
                       NEW x \in Releases, NEW k \in Keys
                PROVE  reports[x][k] \notin {"pending", "running"}
    BY DEF StatusSettles, Undisturbed
  <2>1. \A q \in Reloads : pc[q] \in Idle
    BY DEF InFlight
  <2>2. ASSUME NEW q \in Reloads, NEW m \in Recipes PROVE ~Owed(q, m)
    <3>1. PICK i \in Items : i = <<q, m>>
      BY DEF Items
    <3>2. FateOf(i) = fate[q][m]
      BY <3>1 DEF FateOf
    <3>3. FateOf(i) # "queued"
      BY DEF ItemInv, ItemInOnePlace, QueuedIsInQueue
    <3>4. FateOf(i) # "taken"
      BY <2>1 DEF ItemInv, ItemInOnePlace, TakenIsHeld, Taking, Idle
    <3>. QED  BY <2>1, <3>2, <3>3, <3>4 DEF Owed, Idle
  <2>3. \A q \in Reloads : pc[q] \notin Initialising
    BY <2>1 DEF Idle, Initialising
  <2>. QED  BY <2>2, <2>3 DEF OwedInv, Keys
<1>. QED
  BY <1>1, <1>2, OwedInvNext, TypeInvInit, TypeInvNext, ItemInvInit, ItemInvNext, PTL DEF Spec

-----------------------------------------------------------------------------
(* The reloads that failing recipes end.                                   *)
LEMMA FailingStays ==
  ASSUME TypeInv, LogsInv, [Next]_vars, NEW q \in Reloads, Failing(q)
  PROVE  Failing(q)'
<1>1. CASE \E r \in Reloads : Request(r) \/ Step(r)
  <2>1. PICK r \in Reloads : Request(r) \/ Step(r)
    BY <1>1
  <2>2. CASE q # r
    BY <2>1, <2>2, OthersStay DEF Failing
  <2>3. CASE q = r
    <3>1. ReportItemEnd(r) \/ UploadItemLogs(r)
      BY <2>1, <2>3 DEF Failing, Step, Request, ReadDb, AskRelease, ReportInit, FetchConfig,
         QueueRecipe, ReportInitEnd, UploadInitLogs, Take, StartItem, RunItem, OpenDb, WriteDb
    <3>. QED
      BY <2>3, <3>1 DEF Failing, ReportItemEnd, UploadItemLogs, Goto, TypeInv, TypeOK
  <2>. QED  BY <2>2, <2>3
<1>2. CASE StartServe \/ Crash
  BY <1>2 DEF StartServe, Crash, Failing, InFlight, Idle
<1>3. CASE UNCHANGED vars \/ \E x \in Releases : ProviderRelease(x)
  BY <1>3 DEF vars, ProviderRelease, agentVars, Failing
<1>. QED  BY <1>1, <1>2, <1>3 DEF Next

(* A reload that takes an item queued by another and fails is blamed for   *)
(* that item, and for no other.                                            *)
LEMMA BlameStep ==
  ASSUME TypeInv, LogsInv, [Next]_vars, NEW f \in [Bad -> Reloads], Blames(f),
         \A i \in Bad' : i \in Bad \/ \E q \in Reloads :
            pc[q] \in Taking /\ item[q] = i /\ Failing(q)'
  PROVE  \E g \in [Bad' -> Reloads] : Blames(g)'
<1>1. PICK g : g = [i \in Bad' |-> IF i \in Bad THEN f[i] ELSE
                      CHOOSE q \in Reloads : pc[q] \in Taking /\ item[q] = i /\ Failing(q)']
  OBVIOUS
<1>2. ASSUME NEW i \in Bad', i \in Bad
      PROVE  g[i] = f[i] /\ g[i] \in Reloads /\ Failing(g[i]) /\ Failing(f[i])'
  <2>1. PICK q \in Reloads : q = f[i]
    BY <1>2
  <2>2. Failing(q)
    BY <1>2, <2>1 DEF Blames
  <2>. QED  BY <1>1, <1>2, <2>1, <2>2, FailingStays
<1>3. ASSUME NEW i \in Bad', i \notin Bad
      PROVE  g[i] \in Reloads /\ pc[g[i]] \in Taking /\ item[g[i]] = i /\ Failing(g[i])'
  <2>1. PICK q \in Reloads : pc[q] \in Taking /\ item[q] = i /\ Failing(q)'
    BY <1>3
  <2>2. g[i] = CHOOSE p \in Reloads : pc[p] \in Taking /\ item[p] = i /\ Failing(p)'
    BY <1>1, <1>3
  <2>. QED  BY <2>1, <2>2
<1>4. g \in [Bad' -> Reloads]
  BY <1>1, <1>2, <1>3
<1>5. \A i \in Bad' : Failing(g[i])'
  BY <1>2, <1>3
<1>6. \A i, j \in Bad' : g[i] = g[j] => i = j
  <2>. SUFFICES ASSUME NEW i \in Bad', NEW j \in Bad', g[i] = g[j] PROVE i = j
    OBVIOUS
  <2>1. CASE i \in Bad /\ j \in Bad
    BY <1>2, <2>1 DEF Blames
  <2>2. CASE i \notin Bad /\ j \notin Bad
    BY <1>3, <2>2
  <2>3. \A q \in Reloads : pc[q] \in Taking => ~Failing(q)
    BY DEF Taking, Failing
  <2>. QED  BY <1>2, <1>3, <2>1, <2>2, <2>3
<1>7. Blames(g)'
  BY <1>4, <1>5, <1>6 DEF Blames
<1>. QED  BY <1>4, <1>7

LEMMA OwnRecipesNext ==
  ASSUME TypeInv, ItemInv, OwnRecipes, [Next]_vars
  PROVE  OwnRecipes'
<1>. SUFFICES ASSUME NEW q \in Reloads, NEW k \in Recipes, fate'[q][k] # "none"
     PROVE  pc'[q] # "unchanged" /\ \E n \in 1 .. Len(RecipeList(q)') : RecipeList(q)'[n] = k
  BY DEF OwnRecipes
<1>1. PICK i \in Items : i = <<q, k>>
  BY DEF Items
<1>2. FateOf(i) = fate[q][k] /\ FateOf(i)' = fate'[q][k]
  BY <1>1 DEF FateOf
<1>3. CASE \E r \in Reloads : Request(r) \/ Step(r)
  <2>1. PICK r \in Reloads : Request(r) \/ Step(r)
    BY <1>3
  <2>2. CASE fate[q][k] # "none"
    <3>1. pc[q] \notin {"new"} \cup Loading
      BY <2>2 DEF ItemInv, QueuedSoFar, QueuedSoFarAt, Fresh
    <3>2. rel'[q] = rel[q] /\ phase'[q] = phase[q] /\ pc[q] # "unchanged"
      BY <2>1, <2>2, <3>1, OthersStay DEF OwnRecipes, Loading
    <3>3. pc'[q] # "unchanged"
      BY <2>1, <3>1, <3>2, OthersStay DEF Loading, Step, Request, ReadDb, AskRelease, ReportInit,
         FetchConfig, QueueRecipe, AfterPush, ReportInitEnd, UploadInitLogs, Take, StartItem,
         RunItem, ReportItemEnd, UploadItemLogs, OpenDb, WriteDb, Goto, TypeInv, TypeOK
    <3>. QED  BY <2>2, <3>2, <3>3 DEF OwnRecipes, RecipeList
  <2>3. CASE fate[q][k] = "none"
    <3>1. Pushed(r, i)
      BY <1>2, <2>1, <2>3, FateStep DEF Taken, Settled
    <3>2. q = r /\ k = RecipeList(r)[next[r]]
      BY <1>1, <3>1 DEF Pushed, NextItem
    <3>3. next[r] \in 1 .. Len(RecipeList(r))
      BY <3>1 DEF Pushed, TypeInv, Located, LocatedAt, Queueing
    <3>4. rel'[r] = rel[r] /\ phase'[r] = phase[r] /\ pc'[r] # "unchanged"
      BY <3>1 DEF Pushed, QueueRecipe, AfterPush, Goto, agentVars, TypeInv, TypeOK
    <3>. QED  BY <3>2, <3>3, <3>4 DEF RecipeList
  <2>. QED  BY <2>2, <2>3
<1>4. CASE StartServe \/ Crash
  <2>1. /\ FateOf(i)' # FateOf(i) => FateOf(i) \in {"queued", "taken"}
        /\ UNCHANGED <<rel, phase>>
        /\ pc'[q] = "crashed" \/ pc'[q] = pc[q]
    BY <1>4, ProcessEnds
  <2>. QED  BY <1>2, <2>1 DEF OwnRecipes, RecipeList
<1>5. CASE UNCHANGED vars \/ \E x \in Releases : ProviderRelease(x)
  BY <1>5 DEF vars, ProviderRelease, agentVars, OwnRecipes, RecipeList
<1>. QED  BY <1>3, <1>4, <1>5 DEF Next

LEMMA BegunNext ==
  ASSUME TypeInv, IsFiniteSet(Begun), [Next]_vars
  PROVE  IsFiniteSet(Begun')
<1>1. CASE \E r \in Reloads : Request(r) \/ Step(r)
  <2>1. PICK r \in Reloads : Request(r) \/ Step(r)
    BY <1>1
  <2>2. Begun' \subseteq Begun \cup {r}
    BY <2>1, OthersStay DEF Begun
  <2>. QED  BY <2>2, FS_AddElement, FS_Subset
<1>2. CASE StartServe \/ Crash
  <2>1. Begun' = Begun
    BY <1>2 DEF StartServe, Crash, Begun, InFlight, Idle
  <2>. QED  BY <2>1
<1>3. CASE UNCHANGED vars \/ \E x \in Releases : ProviderRelease(x)
  <2>1. Begun' = Begun
    BY <1>3 DEF vars, ProviderRelease, agentVars, Begun
  <2>. QED  BY <2>1
<1>. QED  BY <1>1, <1>2, <1>3 DEF Next

LEMMA BlameInvNext ==
  ASSUME TypeInv, ItemInv, LogsInv, BlameInv, [Next]_vars
  PROVE  BlameInv'
<1>1. PICK f \in [Bad -> Reloads] : Blames(f)
  BY DEF BlameInv
<1>2. ASSUME NEW i \in Bad', i \notin Bad
      PROVE  \E q \in Reloads : pc[q] \in Taking /\ item[q] = i /\ Failing(q)'
  <2>0. /\ i \in Items
        /\ FateOf(i)' = "failed" \/ (FateOf(i)' = "lost" /\ pc'[i[1]] \notin Gone)
        /\ FateOf(i) # "failed" /\ (FateOf(i) = "lost" => pc[i[1]] \in Gone)
    BY <1>2 DEF Bad, FateOf
  <2>1. PICK o \in Reloads, k \in Recipes : i = <<o, k>>
    BY <2>0 DEF Items
  <2>2. FateOf(i) = fate[o][k] /\ i[1] = o
    BY <2>1 DEF FateOf
  <2>3. CASE \E r \in Reloads : Request(r) \/ Step(r)
    <3>1. PICK r \in Reloads : Request(r) \/ Step(r)
      BY <2>3
    <3>2. FateOf(i)' # FateOf(i)
      BY <2>0, <2>2, <3>1, OthersStay DEF Gone
    <3>3. Settled(r, i) /\ FateOf(i)' \in {"failed", "lost"}
      BY <2>0, <3>1, <3>2, FateStep DEF Pushed, Taken
    <3>. QED  BY <3>3 DEF Settled, Failing
  <2>4. CASE StartServe \/ Crash
    <3>1. /\ \A q \in Reloads : pc'[q] = IF q \in InFlight THEN "crashed" ELSE pc[q]
          /\ FateOf(i)' # FateOf(i) =>
               /\ FateOf(i)' = "lost"
               /\ \/ FateOf(i) = "queued"
                  \/ FateOf(i) = "taken" /\ \E q \in InFlight : pc[q] \in Taking /\ item[q] = i
      BY <2>0, <2>4, ProcessEnds
    <3>2. FateOf(i)' = "lost" /\ FateOf(i)' # FateOf(i) /\ pc'[o] \notin Gone
      BY <2>0, <2>2, <3>1 DEF Gone
    <3>3. FateOf(i) # "queued"
      <4>. SUFFICES ASSUME fate[o][k] = "queued" PROVE FALSE
        BY <2>2
      <4>1. pc[o] \in {"new", "unchanged", "done"}
        BY <3>1, <3>2 DEF InFlight, Idle, Gone
      <4>2. PICK n \in 1 .. Len(RecipeList(o)) : RecipeList(o)[n] = k
        BY DEF BlameInv, OwnRecipes
      <4>3. pc[o] = "done"
        BY <4>1 DEF BlameInv, OwnRecipes, ItemInv, QueuedSoFar, QueuedSoFarAt, Fresh
      <4>. QED  BY <4>2, <4>3 DEF ItemInv, QueuedSoFar, QueuedSoFarAt, Recording
    <3>4. PICK q \in InFlight : pc[q] \in Taking /\ item[q] = i
      BY <3>1, <3>2, <3>3
    <3>. QED  BY <3>1, <3>4 DEF InFlight, Failing
  <2>5. CASE UNCHANGED vars \/ \E x \in Releases : ProviderRelease(x)
    <3>1. UNCHANGED <<pc, fate>>
      BY <2>5 DEF vars, ProviderRelease, agentVars
    <3>. QED  BY <2>0, <3>1 DEF FateOf
  <2>. QED  BY <2>3, <2>4, <2>5 DEF Next
<1>3. \E g \in [Bad' -> Reloads] : Blames(g)'
  BY <1>1, <1>2, BlameStep
<1>4. OwnRecipes' /\ IsFiniteSet(Begun')
  BY OwnRecipesNext, BegunNext DEF BlameInv
<1>. QED  BY <1>3, <1>4 DEF BlameInv

(* A release is not recorded over a recipe of its own that failed or was   *)
(* dropped unless another reload ended for it, one for each.               *)
THEOREM RecordingIsAnsweredFor == Spec => []RecordedMeansRan
<1>1. Init => LogsInv /\ BlameInv
  <2>. SUFFICES ASSUME Init PROVE LogsInv /\ BlameInv
    OBVIOUS
  <2>1. LogsInv
    BY DEF Init, LogsInv, ThrowingAt, SentAt, StatusesUploaded, FateOf, Items, Holding
  <2>2. Bad = {} /\ Begun = {} /\ OwnRecipes
    BY DEF Init, Bad, Begun, OwnRecipes, FateOf, Items
  <2>3. PICK f : f = [i \in {} |-> NoItem]
    OBVIOUS
  <2>4. f \in [Bad -> Reloads] /\ Blames(f)
    BY <2>2, <2>3 DEF Blames
  <2>. QED  BY <2>1, <2>2, <2>4, FS_EmptySet DEF BlameInv
<1>2. BlameInv => RecordedMeansRan
  <2>. SUFFICES ASSUME BlameInv PROVE RecordedMeansRan
    OBVIOUS
  <2>. DEFINE Blamed == {r \in Reloads : Failing(r)}
              Counted == {i \in Items : pc[i[1]] \in Recording /\ FateOf(i) \in {"failed", "lost"}}
  <2>1. PICK f \in [Bad -> Reloads] : Blames(f)
    BY DEF BlameInv
  <2>2. IsFiniteSet(Blamed)
    <3>1. Blamed \subseteq Begun
      BY DEF Failing, Begun
    <3>. QED  BY <3>1, FS_Subset DEF BlameInv
  <2>3. f \in Injection(Bad, Blamed)
    BY <2>1 DEF Blames, Injection, IsInjective
  <2>4. IsFiniteSet(Bad) /\ Cardinality(Bad) <= Cardinality(Blamed)
    BY <2>2, <2>3, FS_Injection
  <2>5. Counted \subseteq Bad
    BY DEF Bad, Recording, Gone
  <2>6. IsFiniteSet(Counted) /\ Cardinality(Counted) <= Cardinality(Bad)
    BY <2>4, <2>5, FS_Subset
  <2>7. Cardinality(Counted) \in Nat /\ Cardinality(Bad) \in Nat /\ Cardinality(Blamed) \in Nat
    BY <2>2, <2>4, <2>6, FS_CardinalityType
  <2>. QED  BY <2>4, <2>6, <2>7 DEF RecordedMeansRan
<1>. QED
  BY <1>1, <1>2, BlameInvNext, LogsInvNext, TypeInvInit, TypeInvNext, ItemInvInit, ItemInvNext,
     PTL DEF Spec
=============================================================================
